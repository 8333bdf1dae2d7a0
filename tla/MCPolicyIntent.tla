--------------------------- MODULE MCPolicyIntent ---------------------------
(***************************************************************************)
(* Instances of PolicyIntent for TLC.                                      *)
(***************************************************************************)
EXTENDS PolicyIntent, TLC

CONSTANTS s1, s2, k1, k2, b1, b2

Assign(q) == [action |-> "ASSIGN_QUEUE", arg |-> q, plain |-> TRUE]
SetDueAt(t, plain) == [action |-> "SET_DUE_AT", arg |-> t, plain |-> plain]
Escalate(l) == [action |-> "ESCALATE", arg |-> l, plain |-> TRUE]

AllActions == {"ASSIGN_QUEUE", "SET_DUE_AT", "ESCALATE"}

OnePolicy == [b \in Bindings |-> 1]
PolicyEach == [b \in Bindings |-> IF b = b1 THEN 1 ELSE 2]

\* One due time, as the row shows it and in another spelling.
DueTimes == {SetDueAt(2, plain) : plain \in BOOLEAN}
AnyRequest == {Assign(1), Assign(2), Escalate(1)} \cup DueTimes
OneQueue == {Assign(1)}

None == {}

\* The steward sets a due time, past or to come, and takes the level to 0.
Escalation ==
  {[queue |-> 0, due |-> d, level |-> 0, protected |-> FALSE] : d \in {1, 2}}

\* The steward protects a queue and lifts the protection.
Protection ==
  {[queue |-> 2, due |-> 0, level |-> 0, protected |-> p] : p \in BOOLEAN}

AnyControl == Escalation \cup Protection

Clients == Permutations({s1, s2})

-----------------------------------------------------------------------------
(* Three parts of the state space, each deep in what it is about.          *)

Asked(bodies) ==
  {[action |-> body.action, arg |-> body.arg, plain |-> body.plain] : body \in bodies}
Matching(bodies) == \A body \in bodies : body.policy = Policy[body.binding]

\* Two bodies, of one part, and only the first with another binding's policy.
TwoBodies(bodies) ==
  /\ Cardinality(bodies) <= 2
  /\ Cardinality(bodies) = 2 => Matching(bodies)
  /\ \E part \in {{Assign(1), Assign(2)}, {Assign(1)} \cup DueTimes, {Escalate(1)}} :
       Asked(bodies) \subseteq part

NoAdministration == epoch = 1 /\ \A b \in Bindings : binding[b].version <= 1

\* The administrator and the server act, nobody else writes the case.  A restart
\* or a restore finds one binding.
AuthorityWorld ==
  /\ Asked(sent) \subseteq {Assign(1), Assign(2)} /\ Matching(sent)
  /\ epoch = 1 \/ (binding[b2].status = "absent" /\ binding[b1].version <= 2)
  /\ case.rev = 1 + Cardinality(Applied(receipts)) /\ now = 1

\* The steward and refreshes write the case, which has no opening time at first.
\* There is one binding.
CaseWorld ==
  /\ NoAdministration /\ binding[b2].status = "absent"
  /\ Asked(sent) \subseteq {Assign(1)} \cup DueTimes
  /\ case.rev <= 3 /\ case.due \in {0, 2} /\ now = 1

\* Both bindings escalate, the steward takes the level back, time passes.
EscalationWorld ==
  /\ NoAdministration
  /\ Asked(sent) \subseteq {Escalate(1)} /\ Matching(sent)
  /\ case.opened = 0 /\ ~case.protected /\ case.queue = 0 /\ case.rev <= 5
  /\ case.status = "open" /\ case.basis = 1 /\ ~case.pending

Worlds == AuthorityWorld \/ CaseWorld \/ EscalationWorld
=============================================================================
