------------------------------- MODULE MCDeeds -------------------------------
(***************************************************************************)
(* The ledger for TLC: two accounts, three holds, one pack, one free       *)
(* credit, and a price an admin may change while holds are open.           *)
(***************************************************************************)
EXTENDS Deeds, TLC

CONSTANTS u1, u2, h1, h2, h3

MCUser == {u1, u2}
MCHoldId == {h1, h2, h3}
MCPacks == {5}
MCFreeCredits == {2}
MCPrices == {3, 5}

Symmetry == Permutations(MCUser) \cup Permutations(MCHoldId)
=============================================================================
