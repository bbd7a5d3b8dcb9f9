----------------------------- MODULE Assignment -----------------------------
(***************************************************************************)
(* What a matching run promises: an assignment of pairs of requests to     *)
(* shifts that grows one allowed pair at a time, uses each request at most *)
(* once and never more spots than a shift has.  How the pairs are ranked   *)
(* is not part of the promise (backend/matching/assign.js).                *)
(***************************************************************************)
EXTENDS Integers, FiniteSets

CONSTANTS Edge, Shift

VARIABLES
    allowed,    \* the pairs, with a shift, that the rules let be formed
    needs,      \* the new spots a pair takes: none for who has one already
    room,       \* the free spots of each shift
    plan        \* the pairs assigned, each with its shift

vars == <<allowed, needs, room, plan>>

At(s, n) == {p \in plan : p[2] = s /\ needs[p[1]] = n}
Spots(s) == Cardinality(At(s, 1)) + 2 * Cardinality(At(s, 2))
Free(e) == \A p \in plan : {p[1][1], p[1][2]} \cap {e[1], e[2]} = {}

Init == plan = {}

Place(e, s) ==
    /\ <<e, s>> \in allowed
    /\ Free(e)
    /\ Spots(s) + needs[e] <= room[s]
    /\ plan' = plan \cup {<<e, s>>}

Next ==
    /\ \E e \in Edge, s \in Shift : Place(e, s)
    /\ UNCHANGED <<allowed, needs, room>>

Spec == Init /\ [][Next]_vars
=============================================================================
