----------------------------- MODULE MCRefresh -----------------------------
(***************************************************************************)
(* Instances of Refresh for TLC.                                           *)
(***************************************************************************)
EXTENDS Refresh

CONSTANTS crm, erp

\* The second source can only be scanned.
MCSourceOf == [r \in Records |-> IF r = 3 THEN erp ELSE crm]
MCInitialSources == {<<1, 1, 2>>, <<1, 2, 0>>}
MCDecidable == {<<1, 2>>, <<2, 3>>}

\* The locality of the resolver (Refresh_proofs!ResolvesLocally), on this instance.
ASSUME ResolverLocalHolds == ResolverLocal
=============================================================================
