------------------------------- MODULE MCPlan -------------------------------
(***************************************************************************)
(* Small pools for a matching run: four searches of three people on two    *)
(* shifts one after the other.  Person u1 has a rematch for shift 1 beside *)
(* a standard search; search 3 is of any kind; search 4 is a standard one, *)
(* of u3 or, beside a rematch, of u2, so that the same two people may meet *)
(* twice.  Rooms go from none to enough for two pairs.                     *)
(***************************************************************************)
EXTENDS Plan

CONSTANTS u1, u2, u3, u4

People == {u1, u2, u3, u4}
InOrder == [s \in Shift |-> s]
PerRequest(a, b, c, d) == <<a, b, c, d>>

(* Whose searches 2, 3 and 4 are, and of which kind 2 and 3 are.           *)
CastOf(second, kind2, anchor2, kind3, anchor3, fourth) ==
    [user |-> PerRequest(u1, second, u2, fourth),
     kind |-> PerRequest("standard", kind2, kind3, "standard"),
     anchor |-> PerRequest(NoShift, anchor2, anchor3, NoShift)]
Cast == {CastOf(u1, "rematch", 1, "standard", NoShift, u3),
         CastOf(u1, "rematch", 1, "solo_rsvp", 2, u3),
         CastOf(u1, "rematch", 1, "rematch", 1, u2),
         CastOf(u4, "standard", NoShift, "standard", NoShift, u3),
         CastOf(u4, "standard", NoShift, "solo_rsvp", 2, u3)}

BuddyChoices == {PerRequest(NoUser, NoUser, NoUser, NoUser),
                 PerRequest(u3, NoUser, NoUser, u1),
                 PerRequest(NoUser, NoUser, NoUser, u1)}

Extra == {[urgent |-> {}, poor |-> {}, blocked |-> {}],
          [urgent |-> {4}, poor |-> {}, blocked |-> {}],
          [urgent |-> {}, poor |-> {1}, blocked |-> {}],
          [urgent |-> {}, poor |-> {}, blocked |-> {1}]}

(* A person does not search for a shift they have a place on.              *)
Booked(cast, r) == {cast.anchor[q] : q \in {p \in Request : cast.user[p] = cast.user[r]}}

PoolOf(cast, buddies, room, good, favourite, anyone, extra) ==
    [user |-> cast.user, kind |-> cast.kind, anchor |-> cast.anchor,
     buddy |-> buddies,
     created |-> PerRequest(0, 1, 0, 0), deadline |-> PerRequest(4, 2, 3, 3),
     urgent |-> extra.urgent, anyone |-> anyone, blocked |-> extra.blocked,
     can |-> [r \in Request |->
                IF cast.anchor[r] # NoShift THEN {cast.anchor[r]} ELSE Shift \ Booked(cast, r)],
     poor |-> PerRequest({}, {}, {}, extra.poor),
     bar |-> [r \in Request |-> [s \in Shift |-> 1 + s]],
     boost |-> PerRequest(1, 0, 1, 0),
     fit |-> [e \in Edge |-> [s \in Shift |-> IF s = favourite THEN 2 ELSE 1]],
     quality |-> [e \in Edge |-> [s \in Shift |->
                    (IF e \in good THEN 2 ELSE 1) + (IF s = favourite THEN 1 ELSE 0)]],
     apart |-> {}, room |-> room]

Varied == {<<1, 2>>, <<1, 4>>, <<2, 3>>, <<3, 4>>}
Rooms == {<<0, 2>>, <<1, 1>>, <<1, 2>>, <<2, 1>>, <<2, 2>>, <<3, 4>>}

SmallPools ==
    {PoolOf(cast, buddies, room, good, favourite, anyone, extra) :
        cast \in Cast, buddies \in BuddyChoices, room \in Rooms, good \in SUBSET Varied,
        favourite \in Shift, anyone \in {{}, {1, 4}}, extra \in Extra}
=============================================================================
