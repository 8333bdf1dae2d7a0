------------------------------ MODULE MCValues ------------------------------
(***************************************************************************)
(* What a refresh computes from normalized values, in small instances: the *)
(* candidate pairs and their evidence on the one hand, the values of a     *)
(* golden field on the other.  The two do not interact, so each is run     *)
(* with the other at rest.                                                 *)
(***************************************************************************)
EXTENDS Candidates, Golden, TLC

CONSTANTS x, y

Texts == {<<1, 2>>, <<2>>, <<2, 3>>}
MCRows == [name : Texts, mail : {<<2>>, Unusable}]

\* One channel of each kind, and a supporting fuzzy rule without a channel.
MCRules ==
  { [name |-> "mail", fields |-> <<"mail">>, comparison |-> "exact", candidate |-> "exact", length |-> 0],
    [name |-> "both", fields |-> <<"name", "mail">>, comparison |-> "exact", candidate |-> "composite_exact", length |-> 0],
    [name |-> "start", fields |-> <<"name">>, comparison |-> "fuzzy", candidate |-> "prefix", length |-> 2],
    [name |-> "word", fields |-> <<"name">>, comparison |-> "fuzzy", candidate |-> "token", length |-> 3],
    [name |-> "alike", fields |-> <<"name">>, comparison |-> "fuzzy", candidate |-> "none", length |-> 0] }

MCSimilar(left, right) == Range(left[1]) \cap Range(right[1]) # {}

\* Rows of a field.  Two spellings, "a" and "A", have the canonical bytes 1;
\* two numbers read as one, and one text reads as the document null.
Spelled == [a |-> 1, A |-> 1, b |-> 2, null |-> 3] @@ ("1.1" :> 4) @@ ("1.10" :> 5)
MCDocuments == ("1.1" :> "1.1") @@ ("1.10" :> "1.1") @@ [null |-> None]

Row(source, changed, text) ==
  [source |-> source, changed |-> changed, state |-> "value", text |-> text, bytes |-> Spelled[text]]
Bad(source) ==
  [source |-> source, changed |-> 0, state |-> "invalid", text |-> "a", bytes |-> 0]

Definition(policy, authority, table) ==
  [policy |-> policy, sources |-> {1, 2}, authority |-> authority, stored |-> table]

\* Three records of two sources, in every order of time, and a bad one.  Of
\* the ticks, two to a second, 3 and 4 round to one second and 2 to another.
TimeRows ==
  {[r \in Records |-> CASE r = 1 -> Row(1, t[1], "a")
                        [] r = 2 -> Row(2, t[2], "b")
                        [] r = 3 -> Row(s, t[3], v)
                        [] r = 4 -> Bad(2)] :
     t \in [1..3 -> {0, 2, 3, 4}], s \in 1..2, v \in {"A", "b"}}

\* Four records, two of each source, in every distribution of the values.
CountRows ==
  {[r \in Records |-> Row(IF r \in {1, 3} THEN 2 ELSE 1, 2, v[r])] :
     v \in [Records -> {"a", "A", "1.1", "1.10"}]}

\* A source that may not supply the field, under every policy.
OtherRows ==
  {[r \in Records |-> IF r = 4 THEN Row(3, 4, "b") ELSE Row((r % 2) + 1, r + 1, v[r])] :
     v \in {<<"a", "b", "a">>, <<"b", "A", "null">>}}

Policies == {"prefer_source", "latest", "first_non_null", "most_common"}

MCFields ==
  {Definition(p, {}, f) : p \in Policies \ {"most_common"}, f \in TimeRows}
    \cup {Definition("most_common", auth, f) : auth \in {{}, {2}}, f \in CountRows}
    \cup {Definition(p, {1}, f) : p \in Policies, f \in OtherRows}

Nowhere == [r \in Records |-> None]
Together == [r \in Records |-> IF r <= 2 THEN x ELSE y]
MCHomes == {Nowhere, Together}

\* Stewards act only where few rows differ, and before the records move.
Kept ==
  \/ home \in MCHomes /\ golden = <<>> /\ written = 0
  \/ field.stored \in OtherRows /\ (written = 0 \/ home = Together)

\* The candidates move under one definition of the field that has no records,
\* the golden values while there are no rows.
Resting == CHOOSE f \in MCFields : f.stored \notin OtherRows

NoRecords == home = Nowhere /\ field = Resting

MCInit ==
  /\ Init /\ GoldenInit
  /\ home = Nowhere => field = Resting

MCNext ==
  \/ NoRecords /\ Next /\ UNCHANGED goldenVars
  \/ ~NoRecords /\ GoldenNext /\ UNCHANGED vars

MCSpec == MCInit /\ [][MCNext]_<<vars, goldenVars>>
=============================================================================
