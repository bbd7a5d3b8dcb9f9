------------------------- MODULE LifecycleProperties -------------------------
(***************************************************************************)
(* What makes the pairing lifecycle correct, stated of module Lifecycle.   *)
(***************************************************************************)
EXTENDS Lifecycle

TakesSpot == {"proposed", "confirmed", "attended", "no_show", "unverified"}

(* The live capacity counter is exactly the bookings that are not          *)
(* cancelled: no path releases a spot twice or forgets one, so a shift is  *)
(* neither overbooked nor closed to volunteers it has room for.            *)
CapacityCounts ==
    \A s \in Shift :
        /\ booked[s] = Cardinality({b \in BookingId :
                            bookings[b].shift = s /\ bookings[b].status \in TakesSpot})
        /\ booked[s] <= Capacity[s]

(* Deeds are neither lost nor made: what a user has, has on hold and has   *)
(* forfeited add up to what they started with.                             *)
HeldBy(u) == {b \in BookingId : bookings[b].user = u /\ bookings[b].hold = "held"}
DeedsConserved ==
    \A u \in User : balance[u] + Cardinality(HeldBy(u)) + lost[u] = StartBalance

(* Deeds are on hold exactly for the confirmed paired bookings, each of    *)
(* which is part of something that can still settle it: an open proposal,  *)
(* a confirmed pairing, or a pairing the partner backed out of.            *)
HoldBacked ==
    \A b \in BookingId :
        /\ bookings[b].hold = "held"
            <=> bookings[b].status = "confirmed" /\ bookings[b].kind = "paired"
        /\ bookings[b].hold = "held" =>
            \/ \E p \in PairingId, s \in Side :
                    pairings[p].status \in LivePairing /\ pairings[p].booking[s] = b
            \/ BackedOutOn(b)

(* Requests and proposals agree: a request is proposed while exactly one   *)
(* open proposal carries it, and while a proposal can be answered both its *)
(* bookings are there to be confirmed.                                     *)
ProposalOf(r) ==
    {p \in PairingId : pairings[p].status = "proposed" /\ \E s \in Side : pairings[p].request[s] = r}
ProposalsAgree ==
    /\ \A r \in RequestId : Cardinality(ProposalOf(r)) = IF requests[r].status = "proposed" THEN 1 ELSE 0
    /\ \A p \in PairingId, s \in Side : pairings[p].status = "proposed" =>
        LET b == pairings[p].booking[s]
            r == pairings[p].request[s]
        IN  /\ pairings[p].expires > now => bookings[b].status \in ActiveBooking
            /\ bookings[b].user = requests[r].user
            /\ requests[r].anchor = None => bookings[b].pairing = p
            /\ requests[r].anchor # None => b = requests[r].anchor

(* A confirmed pairing is mutual: both bookings are in it, neither has     *)
(* been given up, and both searches are over.                              *)
ConfirmedIsMutual ==
    \A p \in PairingId, s \in Side : pairings[p].status = "confirmed" =>
        LET b == pairings[p].booking[s]
        IN  /\ bookings[b].pairing = p /\ bookings[b].kind = "paired"
            /\ bookings[b].status \in TakesSpot \ {"proposed"}
            /\ requests[pairings[p].request[s]].status = "matched"

(* Nobody is wanted in two places: the places a user is proposed for or    *)
(* has confirmed never overlap.                                            *)
HoursOf(b) == Start[bookings[b].shift] .. End[bookings[b].shift] - 1
NoDoubleBooking ==
    \A b, c \in BookingId :
        /\ b # c /\ bookings[b].user = bookings[c].user
        /\ bookings[b].status \in ActiveBooking /\ bookings[c].status \in ActiveBooking
        => HoursOf(b) \cap HoursOf(c) = {}

(* A partner who can still decide has what the decision is about: their    *)
(* spot and their hold, in that pairing, before the shift.                 *)
DecisionStands ==
    \A p \in PairingId : DecisionOpen(p) /\ now < pairings[p].bailDeadline =>
        LET b == pairings[p].booking[BailSide(p)]
        IN  /\ bookings[b].pairing = p /\ bookings[b].hold = "held"
            /\ pairings[p].bailDeadline < Start[ShiftOf(p)]

(* Whoever reports their partner and asks to be taken out is out, whatever *)
(* was under way: an open proposal they were asked in or had confirmed, or *)
(* the pairing itself, even during the shift.                              *)
(* Their place is cancelled, nothing of it stays on hold, counts toward    *)
(* the cap or is searched for any more, and nobody forfeits Deeds for it,  *)
(* nor uses up a free late cancellation.                                   *)
ReporterOut(p, b) ==
    /\ pairings'[p].status \notin LivePairing
    /\ bookings'[b].status = "cancelled" /\ bookings'[b].hold # "held" /\ ~bookings'[b].cap
    /\ \A r \in RequestId : requests'[r].anchor = b => requests'[r].status \notin OpenRequest
    /\ lost' = lost /\ freeLate' = freeLate

(* The partner in a confirmed pairing keeps the spot: their Deeds stay on  *)
(* hold while the decision is theirs, or come back to them at once.        *)
PartnerKept(p, c) ==
    /\ bookings'[c].status = "confirmed"
    /\ IF bookings'[c].hold = "held"
       THEN DecisionOpen(p)' /\ bookings'[c].pairing = p /\ pairings'[p].bailUser = bookings[c].user
       ELSE bookings'[c].kind = "solo" /\ bookings'[c].hold = "released" /\ ~bookings'[c].cap

ReportTakesOut ==
    [][\A p \in PairingId, s, t \in Side :
        LET b == pairings[p].booking[s]
            c == pairings[p].booking[t]
        IN  /\ ReportPartner(p, s, TRUE)
            /\ pairings[p].status \in LivePairing /\ bookings[b].status \in ActiveBooking
            => /\ ReporterOut(p, b)
               /\ pairings[p].status = "confirmed" /\ t # s /\ bookings[c].status = "confirmed"
                    => PartnerKept(p, c)]_vars

(* A spot somebody had before the proposal is theirs after it: whoever     *)
(* else ends it, by declining, backing out or not answering, an anchored   *)
(* booking stays as it is.                                                 *)
AnchorStays ==
    [][\A p \in PairingId, s \in Side :
        LET b == pairings[p].booking[s]
        IN  /\ pairings[p].status = "proposed" /\ pairings'[p].status \in {"declined", "expired"}
            /\ requests[pairings[p].request[s]].anchor # None
            => \/ bookings'[b].status = bookings[b].status
               \/ requests'[pairings[p].request[s]].status = "cancelled"]_vars

(* Completing a pairing opens the ratings, so it waits for the end of the  *)
(* shift and for both people's attendance to be settled.                   *)
CompletedIsOver ==
    \A p \in PairingId : pairings[p].status = "completed" =>
        /\ End[ShiftOf(p)] <= now
        /\ \A s \in Side : Resolved(bookings[pairings[p].booking[s]], p)

(* Deeds do not stay on hold: even if nobody ever acts again, each hold is *)
(* released, returned or forfeited in the end, and each place is resolved  *)
(* one way or the other, so that a shift that is over leaves no volunteer  *)
(* pending.                                                                *)
HoldsSettle == \A b \in BookingId :
    /\ bookings[b].hold = "held" ~> bookings[b].hold # "held"
    /\ bookings[b].status \in ActiveBooking ~> bookings[b].status \notin ActiveBooking

(* Every search ends, and so does every proposal, whose requests would     *)
(* otherwise stay open.                                                    *)
SearchesEnd == \A r \in RequestId :
    requests[r].status \in OpenRequest ~> requests[r].status \notin OpenRequest

(* A partner who was backed out on is not left without an answer.          *)
DecisionsEnd == \A p \in PairingId : DecisionOpen(p) ~> ~DecisionOpen(p)

(* With nothing but the timer of index.js fair, nothing stays open: every  *)
(* hold and place, every search and every decision is settled in the end.  *)
EverythingSettles == HoldsSettle /\ SearchesEnd /\ DecisionsEnd

-----------------------------------------------------------------------------
(* Claims of the documentation that the code does not keep. *)

(* A user has at most one open search (README, schema.sql).                *)
OneOpenSearch == \A u \in User : Cardinality(OpenRequests(u)) <= 1

(* A late back-out still counts toward the monthly cap (test-deeds.js,     *)
(* schema.sql on cap_month): so does every booking whose Deeds were        *)
(* forfeited.                                                              *)
ForfeitedCounts == \A b \in BookingId : bookings[b].hold = "forfeited" => bookings[b].cap

(* When no new partner is found in time, the Deeds kept on hold for the    *)
(* rematch are released (BailDecisionScreen): they are on hold only while  *)
(* that search goes on.                                                    *)
RematchOrReleased ==
    \A p \in PairingId :
        LET b == pairings[p].booking[BailSide(p)]
        IN  /\ pairings[p].status = "cancelled" /\ pairings[p].choice = "rematch"
            /\ bookings[b].pairing = p /\ bookings[b].hold = "held"
            => \E r \in RequestId : requests[r].anchor = b /\ requests[r].status \in OpenRequest
=============================================================================
