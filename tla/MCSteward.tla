----------------------------- MODULE MCSteward -----------------------------
(***************************************************************************)
(* Instances of Steward for TLC.                                           *)
(***************************************************************************)
EXTENDS Steward, TLC

CONSTANT fieldName

MCFields == {fieldName}

\* A definition that admits 4 current decisions and the field, and one that
\* admits 1 and has no field.
MCDefinitions ==
  {[limit |-> 18, fields |-> MCFields], [limit |-> 6, fields |-> {}]}

Stewards == Permutations(Clients)
=============================================================================
