---- MODULE MCLifecycle ----
EXTENDS Lifecycle, TLC

CONSTANTS one, both

\* Two definitions: one source and one golden field, and two of each.
MCDefinitions == {one, both}
MCSourcesOf(d) == IF d = one THEN {"s"} ELSE Sources
MCFieldsOf(d) == IF d = one THEN <<"f">> ELSE <<"f", "g">>

ClientSymmetry == Permutations(Clients)

\* The name is used again after at most one event.
Reused == ids <= 1 \/ events <= 1
====
