----------------------------- MODULE MCReviews -----------------------------
EXTENDS Reviews

\* Who is with whom, under which ids: records 1 and 2 are united and parted,
\* record 3 is by itself, leaves, or comes back under a new id.
Ats == {<<1, 1, 2>>, <<1, 3, 2>>, <<1, 3, 0>>, <<1, 1, 4>>}

\* Golden values with an issue about the ids, in the given fields.
Gold(ids, fields) ==
  [pos \in (1 .. 4) \X {"f", "g"} |-> IF pos[1] \in ids /\ pos[2] \in fields THEN 0 ELSE 1]

\* The fact on the evidence between 1 and 2, the only evidence.
Fact(kind) == [p \in Pairs |-> IF p = <<1, 2>> THEN kind ELSE "none"]

\* Evidence is rejected where it does not unite.  At most one golden value has
\* an issue, of the id that stays or of the one that is merged.
PassWorlds ==
  {w \in [at    : Ats,
          gold  : {Gold(ids, {"f"}) : ids \in {{}, {2}, {3}}},
          facts : {Fact(kind) : kind \in {"none", "accepted", "a", "b"}}] :
     /\ w.facts[1, 2] = "accepted" <=> w.at[1] = w.at[2]
     /\ w.facts[1, 2] \in Summaries => w.gold = Gold({}, {"f"})
     /\ \A m \in {2, 3} : w.gold[m, "f"] = 0 => m \in {w.at[r] : r \in Records}}

\* Two fields without a valid authoritative value: more reviews at once than
\* there are ids for.  Record 3 comes while those of record 1 are open.
IssueWorlds ==
  PassWorlds \cup
  {[at |-> <<1, 0, 0>>, gold |-> Gold({1}, {"f", "g"}), facts |-> Fact("none")],
   [at |-> <<1, 0, 2>>, gold |-> Gold({1, 2}, {"f", "g"}), facts |-> Fact("none")]}
=============================================================================
