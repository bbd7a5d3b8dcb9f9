------------------------------ MODULE Buddies ------------------------------
(***************************************************************************)
(* What two people of a pairing do with each other: switching on contact   *)
(* sharing (backend/routes/volunteer.js), answering whether they would     *)
(* volunteer again, the buddyship two yeses form, and the report that cuts *)
(* all of it off (backend/lib/social.js, lib/blocks.js).                   *)
(* Each handler runs to its end in one go.                                 *)
(*                                                                         *)
(* Abstractions: the pairings exist from the start, how they come about    *)
(* and whom a report puts on hold are the modules Lifecycle and Review; a  *)
(* shift is over or not.                                                   *)
(***************************************************************************)
EXTENDS Integers, FiniteSets

CONSTANTS Person, Pairing,
    Changing,               \* bound: whose plan changes
    Meetings                \* bound: who the pairings are between, and how far they are

FreeBuddyCap == 1
PremiumBuddyCap == 2

PairingStatus == {"proposed", "confirmed", "cancelled", "completed"}
Attendance == {"booked", "attended", "no_show", "unverified"}
Answer == {"none", "yes", "no"}
Two == {c \in SUBSET Person : Cardinality(c) = 2}

ASSUME BuddiesAssumption ==
    /\ IsFiniteSet(Person) /\ Changing \subseteq Person
    /\ Meetings \subseteq [members : [Pairing -> Two], completed : SUBSET Pairing]

VARIABLES
    members,    \* per pairing: its two people
    pairing,    \* its status
    over,       \* its shift has ended
    booking,    \* attendance of its two bookings
    share,      \* contact_share: who opted in
    answer,     \* partner_ratings.volunteer_again
    buddies,    \* active buddyships
    cap,        \* premium.state(user).buddy_cap
    flagged     \* flagged_users

courseVars == <<members, pairing, over, booking>>
buddyVars == <<courseVars, share, answer, buddies, cap, flagged>>

Partner(p, u) == CHOOSE v \in members[p] : v # u
BlockedPair(c) == \E u \in c : flagged[u] \cap (c \ {u}) # {}
Blocked(p) == BlockedPair(members[p])
BuddiesOf(u) == {b \in buddies : u \in b}
SlotsFull(u) == Cardinality(BuddiesOf(u)) >= cap[u]

-----------------------------------------------------------------------------
BuddiesInit ==
    /\ \E m \in Meetings :
        /\ members = m.members
        /\ pairing = [p \in Pairing |-> IF p \in m.completed THEN "completed" ELSE "proposed"]
        /\ over = [p \in Pairing |-> p \in m.completed]
        /\ booking = [p \in Pairing |-> [u \in m.members[p] |->
                            IF p \in m.completed THEN "attended" ELSE "booked"]]
        /\ answer = [p \in Pairing |-> [u \in m.members[p] |-> "none"]]
    /\ share = [p \in Pairing |-> {}]
    /\ buddies = {} /\ cap = [u \in Person |-> FreeBuddyCap]
    /\ flagged = [u \in Person |-> {}]

ConfirmPairing(p) ==
    /\ pairing[p] = "proposed" /\ ~over[p]
    /\ pairing' = [pairing EXCEPT ![p] = "confirmed"]
    /\ UNCHANGED <<members, over, booking, share, answer, buddies, cap, flagged>>

ShiftEnds(p) ==
    /\ pairing[p] = "confirmed" /\ ~over[p]
    /\ over' = [over EXCEPT ![p] = TRUE]
    /\ UNCHANGED <<members, pairing, booking, share, answer, buddies, cap, flagged>>

(* completePairingIfResolved, with the bookings b.                         *)
CompleteIfResolved(p, b) ==
    pairing' = IF over[p] /\ \A v \in members[p] : b[v] # "booked"
               THEN [pairing EXCEPT ![p] = "completed"] ELSE pairing

(* checkIn and markNoShow, and the tick once the shift is over.            *)
Attend(p, u, how) ==
    LET b == [booking[p] EXCEPT ![u] = how]
    IN  /\ booking[p][u] = "booked" /\ pairing[p] = "confirmed"
        /\ how = "unverified" => over[p]
        /\ booking' = [booking EXCEPT ![p] = b]
        /\ CompleteIfResolved(p, b)
        /\ UNCHANGED <<members, over, share, answer, buddies, cap, flagged>>

Complete(p) ==
    /\ pairing[p] = "confirmed"
    /\ CompleteIfResolved(p, booking[p])
    /\ UNCHANGED <<members, over, booking, share, answer, buddies, cap, flagged>>

ShareContact(p, u, optIn) ==
    /\ optIn => ~Blocked(p)
    /\ share' = [share EXCEPT ![p] = IF optIn THEN @ \cup {u} ELSE @ \ {u}]
    /\ UNCHANGED <<courseVars, answer, buddies, cap, flagged>>

(* maybeFormBuddy, after the answers have changed to a.                    *)
(* Mutant: the last answer decides. *)
BuddyFormsByOne(p, u, a) ==
    a[u] = "yes" /\ ~Blocked(p) /\ \A v \in members[p] : ~SlotsFull(v)
BuddyForms(p, u, a) ==
    /\ \A v \in members[p] : a[v] = "yes"
    /\ ~Blocked(p)
    /\ \A v \in members[p] : ~SlotsFull(v)
Rate(p, u, yes) ==
    LET a == [answer[p] EXCEPT ![u] = IF yes THEN "yes" ELSE "no"]
    IN  /\ pairing[p] \in {"confirmed", "completed"} /\ over[p]
        /\ booking[p][u] \in {"attended", "unverified"} /\ answer[p][u] = "none"
        /\ answer' = [answer EXCEPT ![p] = a]
        /\ buddies' = IF BuddyForms(p, u, a) THEN buddies \cup {members[p]} ELSE buddies
        /\ UNCHANGED <<courseVars, share, cap, flagged>>

EndBuddy(b) ==
    /\ buddies' = buddies \ {b}
    /\ UNCHANGED <<courseVars, share, answer, cap, flagged>>

(* The trial or the subscription ends, or one starts.                      *)
TierChanges(u) ==
    /\ cap' = [cap EXCEPT ![u] = IF @ = FreeBuddyCap THEN PremiumBuddyCap ELSE FreeBuddyCap]
    /\ UNCHANGED <<courseVars, share, answer, buddies, flagged>>

(* fileReport: the reported person is flagged, the buddyship ends, contact *)
(* sharing is withdrawn in every pairing of the two; submitReport then     *)
(* takes the reporter out of this one, if asked and not too late.          *)
(* Mutant: it is withdrawn in the pairing the report is about. *)
WithdrawnHere(p) == [share EXCEPT ![p] = {}]
Withdrawn(p) == [q \in Pairing |-> IF members[q] = members[p] THEN {} ELSE share[q]]
Report(p, u, leave) ==
    /\ flagged' = [flagged EXCEPT ![u] = @ \cup {Partner(p, u)}]
    /\ buddies' = buddies \ {members[p]}
    /\ share' = Withdrawn(p)
    /\ pairing' = IF leave /\ pairing[p] \in {"proposed", "confirmed"} /\ ~over[p]
                  /\ booking[p][u] = "booked"
                  THEN [pairing EXCEPT ![p] = "cancelled"] ELSE pairing
    /\ UNCHANGED <<members, over, booking, answer, cap>>

OfPairing(p) ==
    \/ ConfirmPairing(p) \/ ShiftEnds(p) \/ Complete(p)
    \/ \E u \in members[p] :
        \/ \E how \in Attendance \ {"booked"} : Attend(p, u, how)
        \/ \E b \in BOOLEAN : ShareContact(p, u, b) \/ Rate(p, u, b) \/ Report(p, u, b)
BuddiesNext ==
    \/ \E p \in Pairing : OfPairing(p)
    \/ \E b \in buddies : EndBuddy(b)
    \/ \E u \in Changing : TierChanges(u)

BuddiesSpec == BuddiesInit /\ [][BuddiesNext]_buddyVars
-----------------------------------------------------------------------------
BuddiesTypeOK ==
    /\ members \in [Pairing -> Two] /\ pairing \in [Pairing -> PairingStatus]
    /\ over \in [Pairing -> BOOLEAN]
    /\ \A p \in Pairing :
        /\ booking[p] \in [members[p] -> Attendance] /\ answer[p] \in [members[p] -> Answer]
        /\ share[p] \subseteq members[p]
    /\ buddies \subseteq Two /\ cap \in [Person -> {FreeBuddyCap, PremiumBuddyCap}]
    /\ flagged \in [Person -> SUBSET Person]

(* After a report the two have nothing to do with each other: no buddyship *)
(* and no contact sharing, in any of their pairings, whatever they answer  *)
(* or switch on afterwards.                                                *)
ReportedApart ==
    \A p \in Pairing : Blocked(p) => share[p] = {} /\ members[p] \notin buddies

(* Two people are buddies only if both said so, of one pairing that both   *)
(* went to, and nobody has more buddies than the larger plan allows.       *)
BuddiesAgreed ==
    /\ \A b \in buddies : \E p \in Pairing :
        /\ members[p] = b
        /\ \A u \in b : answer[p][u] = "yes" /\ booking[p][u] \in {"attended", "unverified"}
    /\ \A u \in Person : Cardinality(BuddiesOf(u)) <= PremiumBuddyCap
=============================================================================
