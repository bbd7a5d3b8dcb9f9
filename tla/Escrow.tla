------------------------------- MODULE Escrow -------------------------------
(***************************************************************************)
(* What the Deeds ledger promises the rest of the app: an account per      *)
(* user, and holds that take Deeds out of an account and are settled       *)
(* exactly once, either back to their owner or away for good.  Nothing is  *)
(* said of buckets, prices, ledger rows or revenue.  Deeds implements it.  *)
(***************************************************************************)
EXTENDS Integers

CONSTANTS
    User,       \* the accounts
    HoldId,     \* identities for holds, each used at most once
    NoUser,     \* the owner of a hold nobody placed yet
    Amount      \* the amounts that may be credited or held at once

VARIABLES
    available,  \* available[u]: what u may spend
    escrow      \* escrow[h]: who put how much away, and what became of it

vars == <<available, escrow>>

Unused == [owner |-> NoUser, amount |-> 0, status |-> "unused"]

Init ==
    /\ available \in [User -> Amount \cup {0}]
    /\ escrow = [h \in HoldId |-> Unused]

Credit(u, n) ==
    /\ available' = [available EXCEPT ![u] = @ + n]
    /\ UNCHANGED escrow

Place(u, h, n) ==
    /\ escrow[h].status = "unused"
    /\ available[u] >= n
    /\ available' = [available EXCEPT ![u] = @ - n]
    /\ escrow' = [escrow EXCEPT ![h] = [owner |-> u, amount |-> n, status |-> "held"]]

(* A hold is settled once: its amount goes back to the account it came     *)
(* from, or it does not.                                                   *)
Back(h) ==
    /\ escrow[h].status = "held"
    /\ escrow' = [escrow EXCEPT ![h].status = "back"]
    /\ available' = [available EXCEPT ![escrow[h].owner] = @ + escrow[h].amount]

Forfeit(h) ==
    /\ escrow[h].status = "held"
    /\ escrow' = [escrow EXCEPT ![h].status = "gone"]
    /\ UNCHANGED available

Next ==
    \/ \E u \in User, n \in Amount : Credit(u, n)
    \/ \E u \in User, h \in HoldId, n \in Amount : Place(u, h, n)
    \/ \E h \in HoldId : Back(h) \/ Forfeit(h)

Spec == Init /\ [][Next]_vars
=============================================================================
