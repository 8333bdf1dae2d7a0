---------------------------- MODULE PolicyIntent ----------------------------
(***************************************************************************)
(* Automation acting on one policy case: submit_policy_intent under        *)
(* concurrent calls, retries, aborted backends and server restarts, with   *)
(* the administrators who bind, replace, pause and activate policies, the  *)
(* steward who sets the case's controls by hand and the refreshes that     *)
(* project the review.                                                     *)
(*                                                                         *)
(* Every call is a transaction of its own under READ COMMITTED.  A call to *)
(* submit is several steps: it waits for the row lock of its binding, then *)
(* for the row lock of the case, and its first statement read the rows it  *)
(* does not lock before the wait.  The other writers take one of the two   *)
(* row locks as their first effect and are single steps that need the lock *)
(* free.                                                                   *)
(***************************************************************************)
EXTENDS Integers, FiniteSets

CONSTANTS
  Sessions,        \* clients that submit intents
  Keys,            \* request keys
  Bindings,        \* every binding that may come to exist
  FirstBinding,    \* the one there at the start, active
  Requests,        \* [action, arg, plain]: what a client may ask for
  Policy,          \* binding -> its policy digest
  AllowedActions, AllowedQueues, MaxDueInterval, MaxEscalationLevel,
  OpenedAtFirst,   \* the case's opening time at the start; 0 is unknown
  Controls,        \* [queue, due, level, protected]: what a steward may set
  Sendable(_),     \* bound on the set of request bodies that clients make
  MaxRevision,     \* bound on the action revisions others than intents make
  MaxVersion,      \* bound on the runtime versions of a binding
  MaxEpoch,        \* bound on the servers started
  MaxNow           \* bound on the clock

ASSUME InstanceAssumption ==
  /\ FirstBinding \in Bindings
  /\ Requests \subseteq [action : {"ASSIGN_QUEUE", "SET_DUE_AT", "ESCALATE"}, arg : Nat,
                         plain : BOOLEAN]
  /\ Controls \subseteq [queue : Nat, due : Nat, level : Nat, protected : BOOLEAN]
  /\ OpenedAtFirst \in {0, 1} /\ MaxVersion \in Nat \ {0}

VARIABLES
  case,       \* the row of policy_cases_v1
  binding,    \* binding -> its policy_bindings_v1 and runtime row, as one
  receipts,   \* the rows of policy_receipts_v1
  epoch,      \* the server's POSTMASTER_EPOCH
  now,        \* the clock
  call,       \* client -> its call under way
  sent,       \* history: the request bodies clients have made
  answers     \* history: [body, outcome] clients have been told

vars == <<case, binding, receipts, epoch, now, call, sent, answers>>

-----------------------------------------------------------------------------
(* Rows.                                                                   *)

\* version 0 stands for a binding with no runtime row.
Absent == [status |-> "absent", version |-> 0, state |-> "paused", epoch |-> 0]

Activated(e) == [status |-> "current", version |-> 1, state |-> "active", epoch |-> e]

\* What the case's controls are to an intent and to a steward.
ControlsOf(c) ==
  [queue |-> c.queue, due |-> c.due, level |-> c.level, protected |-> c.protected]

\* Mutation: every open case permits every action.
PermittedActionsAnyOpening(c) ==
  IF c.status # "open" THEN {} ELSE {"ASSIGN_QUEUE", "ESCALATE", "SET_DUE_AT"}

PermittedActions(c) ==
  IF c.status # "open" THEN {}
  ELSE {"ASSIGN_QUEUE", "ESCALATE"} \cup (IF c.opened = 0 THEN {} ELSE {"SET_DUE_AT"})

\* The case a row read stands for when it has not been read yet.
Unread ==
  [status |-> "unread", pending |-> FALSE, queue |-> 0, due |-> 0, level |-> 0,
   protected |-> FALSE, opened |-> 0, basis |-> 0, rev |-> 0]

-----------------------------------------------------------------------------
(* Row locks, held from the read FOR UPDATE to the end of the call.        *)

Calling == DOMAIN call

\* Mutation: a waiter also waits for the other waiters.
BindingFreeOfWaiters(b) ==
  Cardinality({s \in Calling : call[s].body.binding = b}) < 2

BindingFree(b) ==
  \A s \in Calling :
    call[s].body.binding = b => call[s].pc = "waiting"

\* Mutation: the case row is read without FOR UPDATE.
CaseFreeUnlocked == epoch > 0

CaseFree == \A s \in Calling : call[s].pc # "deciding"

-----------------------------------------------------------------------------
(* submit_intent.                                                          *)

Slot(body) == {r \in receipts : r.body.binding = body.binding /\ r.body.key = body.key}

\* Mutation: a receipt under the same key answers any body.
ReplayIgnoringDigest(body) == {r.outcome : r \in Slot(body)}

\* replay_receipt: what an earlier receipt answers, if there is one.
Replay(body) ==
  {IF r.body = body THEN r.outcome ELSE "IDEMPOTENCY_CONFLICT" : r \in Slot(body)}

\* Mutation: the check is restricted to the receipts of the same binding.
EscalatedOnBinding(body) ==
  \E r \in receipts :
    /\ r.body.binding = body.binding
    /\ r.body.action = "ESCALATE" /\ r.outcome = "APPLIED_CONTROL"
    /\ r.body.arg = body.arg

\* The level was reached by an intent before, under any binding or key.
Escalated(body) ==
  \E r \in receipts :
    /\ r.body.action = "ESCALATE" /\ r.outcome = "APPLIED_CONTROL"
    /\ r.body.arg = body.arg

\* The refusals of an action, in the order the code tries them.
ActionChecks(body, row, at) ==
  IF body.action = "ASSIGN_QUEUE"
  THEN << <<body.arg \notin AllowedQueues, "ACTION_DENIED">>,
          <<row.protected, "MANUAL_PROTECTION">> >>
  ELSE IF body.action = "SET_DUE_AT"
  THEN << <<row.opened = 0, "OPENED_AT_UNKNOWN">>,
          <<body.arg \notin row.opened .. (row.opened + MaxDueInterval), "LIMIT_EXCEEDED">> >>
  ELSE << <<row.due = 0 \/ row.due > at, "ACTION_DENIED">>,
          <<body.arg # row.level + 1, "STALE_CASE">>,
          <<body.arg > MaxEscalationLevel, "LIMIT_EXCEEDED">>,
          <<Escalated(body), "ACTION_DENIED">> >>

\* Mutation: the action revision is not part of the freshness tokens.
StaleBasisOnly(body, row) == row.basis # body.basis

Stale(body, row) == row.basis # body.basis \/ row.rev # body.rev

\* Before any of them: whether the binding is live and the request fresh.
FreshnessChecks(body, bound, row) ==
  << <<bound.status = "replaced", "BINDING_REPLACED">>,
     <<bound.version = 0 \/ bound.state = "paused", "BINDING_PAUSED">>,
     <<Policy[body.binding] # body.policy, "POLICY_MISMATCH">>,
     <<row.pending, "PENDING_STEWARDSHIP">>,
     <<Stale(body, row), "STALE_CASE">>,
     <<row.status # "open", "CASE_CLOSED">>,
     <<body.action \notin PermittedActions(row) \cap AllowedActions, "ACTION_DENIED">> >>

\* The control an accepted action leaves.
Controlled(body, row) ==
  CASE body.action = "ASSIGN_QUEUE" -> [row EXCEPT !.queue = body.arg]
    [] body.action = "SET_DUE_AT" -> [row EXCEPT !.due = body.arg]
    [] body.action = "ESCALATE" -> [row EXCEPT !.level = body.arg]

FirstOf(checks) ==
  LET held == {i \in DOMAIN checks : checks[i][1]}
  IN  IF held = {} THEN {}
      ELSE {checks[CHOOSE i \in held : \A j \in held : i <= j][2]}

\* A due time is compared with the row's as text: the client's, which need not
\* spell an instant as the row is shown.
Respelled(body) == body.action = "SET_DUE_AT" /\ ~body.plain

\* [outcome, case]: what the call decides from the rows it read.
Decision(c) ==
  LET refusals == FirstOf(FreshnessChecks(c.body, c.bound, c.row))
                  \cup (IF FirstOf(FreshnessChecks(c.body, c.bound, c.row)) # {} THEN {}
                        ELSE FirstOf(ActionChecks(c.body, c.row, c.at)))
      next == Controlled(c.body, c.row)
  IN  IF refusals # {}
      THEN [outcome |-> CHOOSE o \in refusals : TRUE, case |-> c.row]
      ELSE IF next = c.row /\ ~Respelled(c.body)
      THEN [outcome |-> "NO_CHANGE", case |-> c.row]
      ELSE [outcome |-> "APPLIED_CONTROL", case |-> [next EXCEPT !.rev = @ + 1]]

Told(body, outcome) == answers' = answers \cup {[body |-> body, outcome |-> outcome]}

Ended(s) == call' = [t \in Calling \ {s} |-> call[t]]

\* A client makes a request from the case as it stands, or repeats one; the
\* first statement of the call reads what it does not lock.
Begin(s) ==
  /\ s \notin Calling
  /\ \E b \in {b \in Bindings : binding[b].status # "absent"},
        k \in Keys, q \in Requests, p \in {Policy[b] : b \in Bindings} :
       LET body == [binding |-> b, key |-> k, action |-> q.action, arg |-> q.arg,
                    plain |-> q.plain, policy |-> p, basis |-> case.basis, rev |-> case.rev]
       IN  \E sending \in sent \cup {body} :
             /\ sent' = sent \cup {sending}
             /\ Sendable(sent')
             /\ call' = [t \in Calling \cup {s} |->
                  IF t # s THEN call[t]
                  ELSE [pc |-> "waiting", body |-> sending, at |-> now,
                        bound |-> binding[sending.binding], row |-> Unread]]
  /\ UNCHANGED <<case, binding, receipts, epoch, now, answers>>

\* Mutation: what the first statement read before the wait is used after it.
RereadBefore(c) == c.bound

\* The second read of the binding, which sees what happened in the wait.
Reread(c) == binding[c.body.binding]

\* The lock is granted: the principal is compared with what was read before
\* the wait, an earlier receipt is replayed, and the binding must have been
\* activated on this server.
LockBinding(s) ==
  /\ s \in Calling /\ call[s].pc = "waiting"
  /\ BindingFree(call[s].body.binding)
  /\ LET body == call[s].body
         fresh == Reread(call[s])
     IN  \/ /\ call[s].bound.version = 0
            /\ Told(body, "ERROR") /\ Ended(s)
         \/ /\ call[s].bound.version > 0 /\ Replay(body) # {}
            /\ \E o \in Replay(body) : Told(body, o)
            /\ Ended(s)
         \/ /\ call[s].bound.version > 0 /\ Replay(body) = {}
            /\ fresh.epoch # epoch
            /\ Told(body, "ERROR") /\ Ended(s)
         \/ /\ call[s].bound.version > 0 /\ Replay(body) = {}
            /\ fresh.epoch = epoch
            /\ call' = [call EXCEPT ![s].pc = "bound", ![s].bound = fresh]
            /\ UNCHANGED answers
  /\ UNCHANGED <<case, binding, receipts, epoch, now, sent>>

LockCase(s) ==
  /\ s \in Calling /\ call[s].pc = "bound"
  /\ CaseFree
  /\ call' = [call EXCEPT ![s].pc = "deciding", ![s].row = case]
  /\ UNCHANGED <<case, binding, receipts, epoch, now, sent, answers>>

\* Decide, write the case and the receipt, and end the transaction.  A receipt
\* that is already there is kept and answered (terminal).
Commit(s) ==
  /\ s \in Calling /\ call[s].pc = "deciding"
  /\ LET body == call[s].body
         decision == Decision(call[s])
         receipt == [body |-> body, outcome |-> decision.outcome, rev |-> decision.case.rev]
         new == decision.case
     IN  /\ case' = IF decision.outcome # "APPLIED_CONTROL" THEN case
                    ELSE [case EXCEPT !.queue = new.queue, !.due = new.due,
                                      !.level = new.level, !.rev = new.rev]
         /\ receipts' = IF Slot(body) = {} THEN receipts \cup {receipt} ELSE receipts
         /\ \E r \in IF Slot(body) = {} THEN {receipt} ELSE Slot(body) : Told(body, r.outcome)
  /\ Ended(s)
  /\ UNCHANGED <<binding, epoch, now, sent>>

\* The backend or its client goes away: the call leaves nothing.
Abort(s) ==
  /\ s \in Calling
  /\ Ended(s)
  /\ UNCHANGED <<case, binding, receipts, epoch, now, sent, answers>>

-----------------------------------------------------------------------------
(* The administrator of the bindings.                                      *)

\* create_policy_binding, for another automation role.
CreateBinding(b) ==
  /\ binding[b].status = "absent"
  /\ binding' = [binding EXCEPT ![b] = Activated(epoch)]
  /\ UNCHANGED <<case, receipts, epoch, now, call, sent, answers>>

\* replace_policy_binding.
Replace(b, new) ==
  /\ BindingFree(b)
  /\ binding[b].status = "current" /\ binding[new].status = "absent"
  /\ binding[b].version < MaxVersion
  /\ binding' = [binding EXCEPT
       ![b] = [binding[b] EXCEPT
                 !.status = "replaced", !.state = "paused",
                 !.version = IF binding[b].version = 0 THEN 0 ELSE binding[b].version + 1],
       ![new] = [Activated(epoch) EXCEPT !.state = "paused"]]
  /\ UNCHANGED <<case, receipts, epoch, now, call, sent, answers>>

\* set_policy_binding_state with the current runtime version; with another
\* it changes nothing.
SetState(b, state) ==
  /\ BindingFree(b)
  /\ binding[b].status = "current" /\ binding[b].version < MaxVersion
  /\ binding' = [binding EXCEPT
       ![b] = [binding[b] EXCEPT
                 !.state = state, !.version = binding[b].version + 1, !.epoch = epoch]]
  /\ UNCHANGED <<case, receipts, epoch, now, call, sent, answers>>

-----------------------------------------------------------------------------
(* The steward and the refreshes.                                          *)

Written(c) ==
  /\ case' = [c EXCEPT !.rev = @ + 1]
  /\ UNCHANGED <<binding, receipts, epoch, now, call, sent, answers>>

\* set_case_controls with the current action revision; with another it
\* changes nothing, as it does when no control differs.
SetCaseControls(new) ==
  /\ CaseFree /\ case.rev < MaxRevision
  /\ case.status = "open"
  /\ new # ControlsOf(case)
  /\ Written([case EXCEPT !.queue = new.queue, !.due = new.due,
                          !.level = new.level, !.protected = new.protected])

\* mark_pending_cases, when a steward decided something about the entity.
MarkPending ==
  /\ CaseFree /\ case.rev < MaxRevision
  /\ case.status = "open" /\ ~case.pending
  /\ Written([case EXCEPT !.pending = TRUE])

\* project_policy_cases with the case's review among the reviews: the basis
\* moves on when the review or the observed epoch changed, and only then can
\* the status have changed.
ProjectReview ==
  /\ CaseFree /\ case.rev < MaxRevision
  /\ \/ case.pending /\ Written([case EXCEPT !.pending = FALSE])
     \/ \E status \in {case.status, "resolved"} :
          Written([case EXCEPT !.pending = FALSE, !.basis = @ + 1, !.status = status])

\* project_policy_cases without it: the trailing update of pending cases.
ProjectOthers ==
  /\ CaseFree /\ case.rev < MaxRevision
  /\ case.pending
  /\ Written([case EXCEPT !.pending = FALSE])

\* backfill_policy_case_opened_at, with a time not later than now.
BackfillOpenedAt ==
  /\ CaseFree /\ case.rev < MaxRevision
  /\ case.opened = 0
  /\ \E t \in 1..now : Written([case EXCEPT !.opened = t])

-----------------------------------------------------------------------------
(* Time and the server.                                                    *)

Tick ==
  /\ now < MaxNow
  /\ now' = now + 1
  /\ UNCHANGED <<case, binding, receipts, epoch, call, sent, answers>>

Restart ==
  /\ epoch < MaxEpoch
  /\ epoch' = epoch + 1
  /\ call' = <<>>
  /\ UNCHANGED <<case, binding, receipts, now, sent, answers>>

\* The database restored from a logical dump, which holds no runtime rows,
\* on another server.
Restore ==
  /\ epoch < MaxEpoch
  /\ epoch' = epoch + 1
  /\ call' = <<>>
  /\ binding' = [b \in Bindings |-> [Absent EXCEPT !.status = binding[b].status]]
  /\ UNCHANGED <<case, receipts, now, sent, answers>>

-----------------------------------------------------------------------------

Init ==
  /\ case = [Unread EXCEPT !.status = "open", !.opened = OpenedAtFirst,
                           !.basis = 1, !.rev = 1]
  /\ binding = [b \in Bindings |-> IF b = FirstBinding THEN Activated(1) ELSE Absent]
  /\ receipts = {}
  /\ epoch = 1
  /\ now = 1
  /\ call = <<>>
  /\ sent = {}
  /\ answers = {}

Submit == \E s \in Sessions : Begin(s) \/ LockBinding(s) \/ LockCase(s) \/ Commit(s)

Administer ==
  \E b \in Bindings :
    \/ CreateBinding(b)
    \/ \E new \in Bindings \ {b} : Replace(b, new)
    \/ \E state \in {"active", "paused"} : SetState(b, state)

Steward == \E new \in Controls : SetCaseControls(new)

Refresh == MarkPending \/ ProjectReview \/ ProjectOthers \/ BackfillOpenedAt

Fail == Restart \/ Restore \/ \E s \in Sessions : Abort(s)

Next == Submit \/ Administer \/ Steward \/ Refresh \/ Tick \/ Fail

Spec == Init /\ [][Next]_vars

\* A backend runs on unless it is killed, and a row lock is granted to the one
\* that waits for it: PostgreSQL queues the waiters of a row.
Fairness ==
  \A s \in Sessions :
    /\ SF_vars(LockBinding(s))
    /\ SF_vars(LockCase(s))
    /\ WF_vars(Commit(s))

FairSpec == Spec /\ Fairness

-----------------------------------------------------------------------------
(* Properties.                                                             *)

Bodies ==
  [binding : Bindings, key : Keys, action : AllowedActions \cup {q.action : q \in Requests},
   arg : {q.arg : q \in Requests}, plain : BOOLEAN, policy : {Policy[b] : b \in Bindings},
   basis : 1..case.basis, rev : 1..case.rev]

Outcomes ==
  {"APPLIED_CONTROL", "NO_CHANGE", "BINDING_REPLACED", "BINDING_PAUSED",
   "POLICY_MISMATCH", "PENDING_STEWARDSHIP", "STALE_CASE", "CASE_CLOSED",
   "ACTION_DENIED", "MANUAL_PROTECTION", "LIMIT_EXCEEDED"}

\* The type of the state.  OPENED_AT_UNKNOWN is no outcome: a case without an
\* opening time does not permit SET_DUE_AT, which is refused before.
TypeOK ==
  /\ case \in [status : {"open", "resolved"}, pending : BOOLEAN, queue : Nat, due : Nat,
               level : Nat, protected : BOOLEAN, opened : 0..now, basis : Nat \ {0},
               rev : Nat \ {0}]
  /\ binding \in [Bindings -> [status : {"absent", "current", "replaced"},
               version : 0..MaxVersion, state : {"active", "paused"}, epoch : 0..epoch]]
  /\ sent \subseteq Bodies
  /\ \A r \in receipts : r.body \in sent /\ r.outcome \in Outcomes /\ r.rev \in 1..case.rev
  /\ \A a \in answers :
       a.body \in sent /\ a.outcome \in Outcomes \cup {"IDEMPOTENCY_CONFLICT", "ERROR"}
  /\ Calling \subseteq Sessions
  /\ \A s \in Calling :
       /\ call[s].pc \in {"waiting", "bound", "deciding"}
       /\ call[s].body \in sent /\ call[s].at \in 1..now

Applied(R) == {r \in R : r.outcome = "APPLIED_CONTROL"}

\* An intent takes effect only under a binding that, at that very moment, is
\* neither replaced nor paused and was activated on this server: once the
\* administrator's pause or replacement has committed, nothing that was
\* waiting or deciding slips through, and nothing survives a restart or a
\* restore without a new activation.
LiveAuthority ==
  [][ \A r \in Applied(receipts' \ receipts) :
        LET b == binding[r.body.binding]
        IN  /\ b.status = "current" /\ b.version > 0 /\ b.state = "active"
            /\ b.epoch = epoch ]_vars

\* Automation reaches a level once per case: no other binding, other request
\* key, retry or reduction of the level by a steward makes it happen again.
EscalateOnce ==
  \A r, s \in Applied(receipts) :
    r.body.action = "ESCALATE" /\ s.body.action = "ESCALATE" /\ r # s
      => r.body.arg # s.body.arg

\* Every effect on the case answers exactly one state of it: the receipt names
\* the revision after the one the client saw, and no two effects, whatever
\* their binding and key, answer the same state.
OneEffectPerRevision ==
  \A r \in Applied(receipts) :
    /\ r.rev = r.body.rev + 1
    /\ \A s \in Applied(receipts) : s # r => s.rev # r.rev

\* No change of the case is lost or goes unnumbered: whoever writes the row,
\* the revision stays only if nothing differs and grows by one otherwise; with
\* nothing different it grows only for a due time that an intent spelled in
\* another way.  The controls an intent does not name keep what the last writer
\* gave them.  An intent takes effect on the case as it stands, also if it began
\* before: the queue that a steward protects is not touched, and only what is
\* overdue is escalated.
NoLostChange ==
  [][ /\ case'.rev \in {case.rev, case.rev + 1}
      /\ case'.rev = case.rev => case' = case
      /\ case' = [case EXCEPT !.rev = @ + 1] =>
           \E r \in Applied(receipts' \ receipts) : Respelled(r.body)
      /\ \A r \in Applied(receipts' \ receipts) :
           /\ case' = [Controlled(r.body, case) EXCEPT !.rev = @ + 1]
           /\ case'.queue # case.queue => ~case.protected
           /\ case'.level # case.level => case.due \in 1..now
    ]_vars

\* What a client was told stays true: an outcome is that of the receipt kept
\* for this very request, and a conflict means another request has the key.
AnswersTrue ==
  \A a \in answers :
    a.outcome # "ERROR" =>
      \E r \in Slot(a.body) :
        IF a.outcome = "IDEMPOTENCY_CONFLICT" THEN r.body # a.body
        ELSE r.body = a.body /\ r.outcome = a.outcome

\* One call at one instant: an earlier receipt is answered, or the request is
\* decided from the rows as they are at that instant, or an error leaves nothing.
RepeatsAtOnce(body) ==
  /\ \E o \in Replay(body) : Told(body, o)
  /\ UNCHANGED <<case, binding, receipts, epoch, now>>

DecidesAtOnce(body, at) ==
  LET d == Decision([body |-> body, bound |-> binding[body.binding], row |-> case, at |-> at])
  IN  /\ Slot(body) = {} /\ binding[body.binding].epoch = epoch
      /\ case' = d.case
      /\ receipts' = receipts \cup {[body |-> body, outcome |-> d.outcome, rev |-> d.case.rev]}
      /\ Told(body, d.outcome)
      /\ UNCHANGED <<binding, epoch, now>>

FailsAtOnce(body) ==
  /\ Told(body, "ERROR")
  /\ UNCHANGED <<case, binding, receipts, epoch, now>>

\* The calls of several steps, with their locks and what they read before and
\* in between, are to everybody else calls at one instant: whatever the order in
\* which others write the rows, the case, the receipts and the answers, refusals
\* included, are those of calls that each run alone.  Only the time a call
\* compares a due time with may be earlier, that of its start.
CallsAreAtomic ==
  [][ \/ \E body \in sent :
           \/ RepeatsAtOnce(body) \/ FailsAtOnce(body)
           \/ \E at \in 1..now : DecidesAtOnce(body, at)
      \/ Administer \/ Steward \/ Refresh \/ Tick \/ Fail
    ]_<<case, binding, receipts, epoch, now, answers>>

\* Every call ends, however many others contend for the binding and the case.
EveryCallEnds == \A s \in Sessions : (s \in Calling) ~> (s \notin Calling)
=============================================================================
