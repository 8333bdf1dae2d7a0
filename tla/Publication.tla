---------------------------- MODULE Publication ----------------------------
(***************************************************************************)
(* What a refresh promises: whatever happened since the last one, it       *)
(* publishes the result of what the sources, the stewards and the          *)
(* definition say now, in a new revision if and only if that differs from  *)
(* what is published.                                                      *)
(***************************************************************************)
EXTENDS Naturals

CONSTANTS
  InputType,  \* what sources, stewards and definition can say
  Result(_),  \* the result of an input
  Nothing     \* what is published before the first refresh

VARIABLES
  input,      \* the input now
  asOf,       \* the input that the last refresh observed
  published,  \* the published result
  revision    \* the publication revision, 0 before the first

Init ==
  /\ input \in InputType
  /\ asOf = input
  /\ published = Nothing
  /\ revision = 0

\* A source, a steward or an administrator changes the input.
Change ==
  /\ input' \in InputType
  /\ UNCHANGED <<asOf, published, revision>>

Refresh ==
  /\ asOf' = input
  /\ published' = Result(input)
  /\ revision' = IF revision > 0 /\ published' = published THEN revision
                 ELSE revision + 1
  /\ UNCHANGED input

Next == Change \/ Refresh

Spec == Init /\ [][Next]_<<input, asOf, published, revision>>
=============================================================================
