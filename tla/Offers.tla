------------------------------- MODULE Offers -------------------------------
(***************************************************************************)
(* What the app shows a volunteer and lets them answer, as a function of   *)
(* the state of the lifecycle: the views the server builds for Home and    *)
(* for a pairing, a search and a cancellation (backend/routes/volunteer.js *)
(* and lib/lifecycle.js), and what the screens of mobile/screens make of   *)
(* them.  The requests of Home, a pairing and a search run tick() first,   *)
(* so a view is of a state in which no tick is due.                        *)
(*                                                                         *)
(* Abstractions: the day of a shift begins when its check-in does; the     *)
(* first of several equal candidates for the card is any of them; a search *)
(* that found nothing is shown whether or not it was dismissed; dates,     *)
(* causes and distances are not modelled, so what the waiting screen       *)
(* suggests is all that some dates, causes and distances would make it.    *)
(***************************************************************************)
EXTENDS LifecycleProperties

(* lib/rules.js lets every search wait for a while. *)
ASSUME OffersAssumption == WaitCap > 0

Screen == [name : {"bail", "pairing", "booking", "rating", "waiting", "startMatching"}, id : Nat]
To(name, id) == [name |-> name, id |-> id]

Started(s) == Start[s] <= now
Ended(s) == End[s] <= now
IsToday(s) == Before(Start[s], CheckInLead) <= now

BookingsOf(u) == {b \in BookingId : bookings[b].user = u}

-----------------------------------------------------------------------------
(* GET /me/home. *)

SidesOf(u) ==
    {x \in PairingId \X Side : pairings[x[1]].status # "free" /\ UserOn(x[1], x[2]) = u}

(* What homeActions asks of the user: confirm, wait, decide, rate. *)
Mine(x) == pairings[x[1]].booking[x[2]]
OpenSides(u) == {x \in SidesOf(u) : pairings[x[1]].status = "proposed"}
ToConfirm(u) == {x \in OpenSides(u) : ~AlreadyIn(Mine(x))}
Awaiting(u) == OpenSides(u) \ ToConfirm(u)
ToDecide(u) ==
    {p \in PairingId : DecisionOpen(p) /\ pairings[p].bailUser = u /\ now < pairings[p].bailDeadline}
ToRate(u) ==
    {b \in BookingsOf(u) : bookings[b].status \in {"attended", "unverified"} /\ Ended(bookings[b].shift)}

(* The bookings Home is given, each with the pairing it is shown with: its *)
(* own, or the proposal a solo spot is part of.                            *)
HomeBookings(u) ==
    {b \in BookingsOf(u) :
        \/ bookings[b].status = "confirmed"
        \/ bookings[b].status = "attended" /\ ~Ended(bookings[b].shift)}
ShownWith(b) ==
    IF bookings[b].pairing # None THEN {bookings[b].pairing}
    ELSE {p \in PairingId : pairings[p].status = "proposed" /\ \E s \in Side : pairings[p].booking[s] = b}

(* requestStatus: the open search, or else the last one that found nothing.*)
CurrentRequest(u) ==
    {r \in RequestId : IsLatest(r, IF OpenRequests(u) # {} THEN OpenRequests(u) ELSE Adjustable(u))}

-----------------------------------------------------------------------------
(* HomeScreen: one status card, and the list of what is coming up. *)

OpenBooking(b) ==
    IF ShownWith(b) = {} THEN {To("booking", b)} ELSE {To("pairing", p) : p \in ShownWith(b)}

Today(u) == {b \in HomeBookings(u) : IsToday(bookings[b].shift) /\ ~Ended(bookings[b].shift)}
TodaysCard(u) == {b \in Today(u) : bookings[b].status = "confirmed"}

(* primaryCard: the most urgent kind there is. *)
PrimaryCard(u) ==
    CASE ToDecide(u) # {} -> {To("bail", p) : p \in ToDecide(u)}
      [] ToDecide(u) = {} /\ ToConfirm(u) # {} -> {To("pairing", x[1]) : x \in ToConfirm(u)}
      [] ToDecide(u) = {} /\ ToConfirm(u) = {} /\ TodaysCard(u) # {} ->
            UNION {OpenBooking(b) : b \in TodaysCard(u)}
      [] ToDecide(u) = {} /\ ToConfirm(u) = {} /\ TodaysCard(u) = {} ->
            IF ToRate(u) # {} THEN {To("rating", b) : b \in ToRate(u)}
            ELSE IF Awaiting(u) # {} THEN {To("pairing", x[1]) : x \in Awaiting(u)}
            ELSE {To("waiting", r) : r \in CurrentRequest(u)}

Upcoming(u) == HomeBookings(u) \ Today(u)

(* capStatus, as Home reads it: the shifts used, not the ones proposed.    *)
CapLeft(u) == CapUsed(u) < MonthlyCap

(* "Find your next shift", for a verified user whom nobody has paused.     *)
FindAnother(u) ==
    IF OpenRequests(u) = {} /\ CapLeft(u) THEN {To("startMatching", None)} ELSE {}

FromHome(u) ==
    PrimaryCard(u) \cup FindAnother(u) \cup UNION {OpenBooking(b) : b \in Upcoming(u)}

-----------------------------------------------------------------------------
(* While waiting (alternatives, anyonePartnerLikely). *)

(* Shifts far enough away and with room.  Within one unit of time a shift  *)
(* may still be far enough away or no longer be.                           *)
Alternatives == {s \in Shift : Start[s] >= now + MinLead /\ CanReserve(Db, s, 1)}

(* A partner one could be matched with at once: searching too, free to     *)
(* meet this user, and not at the limit of the month.                      *)
AnyonePartnerLikely(u) ==
    \E q \in RequestId :
        /\ requests[q].status = "searching" /\ requests[q].kind = "standard"
        /\ MayPair(u, requests[q].user, PairingId)
        /\ ~CapReached(requests[q].user)

-----------------------------------------------------------------------------
(* What each screen lets its user do. *)

Answer == {"confirm", "decline", "decide", "cancel", "keep_spot", "stop", "adjust", "rsvp", "find"}
Offer(answer, id) == [answer |-> answer, id |-> id]

(* CancelScreen shows what cancelling costs (cancelPreview), or only why   *)
(* the place can no longer be cancelled, and asks whether to go alone.     *)
CancelOffers(b) ==
    IF bookings[b].status # "confirmed" \/ Started(bookings[b].shift) THEN {}
    ELSE {Offer("cancel", b)} \cup IF CanKeepSpotSolo(b) THEN {Offer("keep_spot", b)} ELSE {}

(* Mutant: a spot confirmed before the proposal counts as a yes to it. *)
MeConfirmedByStatus(b) == bookings[b].status = "confirmed"

(* pairingDetail: me_confirmed. *)
MeConfirmed(b) ==
    bookings[b].status = "confirmed" /\ bookings[b].kind = "paired" /\ bookings[b].hold = "held"

PairingOffers(p, s) ==
    LET b == pairings[p].booking[s]
        mayCancel == pairings[p].status \in LivePairing /\ ~Started(ShiftOf(p))
    IN  IF pairings[p].status = "proposed" /\ ~MeConfirmed(b)
        THEN {Offer("confirm", p), Offer("decline", p)}
        ELSE IF p \in ToDecide(UserOn(p, s)) THEN {Offer("decide", p)}
        ELSE IF mayCancel THEN CancelOffers(b) ELSE {}

BookingOffers(b) ==
    IF bookings[b].status = "confirmed" /\ ~Started(bookings[b].shift) THEN CancelOffers(b) ELSE {}

(* Suggestions for a search that is not for one specific shift: a spot of  *)
(* one's own; other dates, causes or distances, which some shift fits;     *)
(* anyone who is free now, or not the buddy one waits for.                 *)
Suggestions(u, r) ==
    IF requests[r].status = "proposed" \/ requests[r].anchor # None THEN {}
    ELSE {Offer("rsvp", s) : s \in Alternatives}
         \cup IF Alternatives # {} \/ (requests[r].status = "searching" /\ AnyonePartnerLikely(u))
              THEN {Offer("adjust", r)} ELSE {}

(* WaitingScreen leaves a proposed search for its proposal. *)
WaitingOffers(u, r) ==
    CASE requests[r].status = "searching" -> {Offer("stop", r)} \cup Suggestions(u, r)
      [] requests[r].status = "proposed" -> UNION {PairingOffers(x[1], x[2]) : x \in OpenSides(u)}
      [] OTHER -> Suggestions(u, r)

(* StartMatchingScreen asks for Deeds first from those who have too few.   *)
FindOffers(u) == IF balance[u] >= 1 THEN {Offer("find", None)} ELSE {}

OffersOn(u, screen) ==
    CASE screen.name = "bail" -> {Offer("decide", p) : p \in ToDecide(u) \cap {screen.id}}
      [] screen.name = "pairing" ->
            UNION {PairingOffers(x[1], x[2]) : x \in {y \in SidesOf(u) : y[1] = screen.id}}
      [] screen.name = "booking" -> BookingOffers(screen.id)
      [] screen.name = "waiting" -> WaitingOffers(u, screen.id)
      [] screen.name = "startMatching" -> FindOffers(u)
      [] screen.name = "rating" -> {}

-----------------------------------------------------------------------------
(* The server and the screens agree.  A card that says it is the user's    *)
(* turn opens a screen on which they can answer, and whatever a screen     *)
(* lets them do is something the server would take from them: a proposal   *)
(* may be declined, a decision is still open, a search is still going on   *)
(* and its dates are still good, a place can be cancelled or kept for      *)
(* oneself, a new search started.  A spot of one's own is refused only     *)
(* beside another place at the same time, which the suggestion ignores.    *)
AfterCancel(b, keepSpotSolo) ==
    IF CancelType(b) = "partner_cancelled" THEN CancelBackedOutOn(b, keepSpotSolo)
    ELSE CancelOwn(b, CancelType(b), keepSpotSolo)

(* Some window with this shift in it gives a search time to go on.         *)
TimeToFind(s) == SearchDeadline(Start[s] + 1) > now

(* What the calls about a search need.                                     *)
TakesSearch(u, offer) ==
    CASE offer.answer = "find" -> OpenRequests(u) = {} /\ ~CapReached(u) /\ balance[u] >= 1
      [] offer.answer = "stop" ->
            IsLatest(offer.id, OpenRequests(u)) /\ requests[offer.id].status = "searching"
      [] offer.answer = "adjust" ->
            /\ IsLatest(offer.id, Adjustable(u))
            /\ requests[offer.id].kind = "standard" /\ requests[offer.id].status # "proposed"
            /\ requests[offer.id].deadline > now \/ \E s \in Alternatives : TimeToFind(s)
      [] offer.answer = "rsvp" ->
            /\ Start[offer.id] > now /\ CanReserve(Db, offer.id, 1)
            /\ \A q \in RequestId : IsLatest(q, OpenRequests(u)) => requests[q].status # "proposed"

(* Cancelling frees the place, or keeps it for the user alone.             *)
TakesCancel(offer) ==
    LET after == AfterCancel(offer.id, offer.answer = "keep_spot").bookings[offer.id]
    IN  IF offer.answer = "keep_spot"
        THEN after.status = "confirmed" /\ after.kind = "solo" /\ after.pairing = None
        ELSE after.status = "cancelled"

Takes(u, offer) ==
    CASE offer.answer = "confirm" ->
            pairings[offer.id].status = "proposed" /\ now < pairings[offer.id].expires
      [] offer.answer = "decline" ->
            \A x \in SidesOf(u) : x[1] = offer.id => MayDecline(x[1], x[2])
      [] offer.answer = "decide" -> DecisionOpen(offer.id) /\ now < pairings[offer.id].bailDeadline
      [] offer.answer \in {"cancel", "keep_spot"} -> TakesCancel(offer)
      [] offer.answer \in {"find", "stop", "adjust", "rsvp"} -> TakesSearch(u, offer)

OffersHonoured ==
    ~TickDue => \A u \in User :
        /\ \A screen \in FromHome(u) : \A offer \in OffersOn(u, screen) : Takes(u, offer)
        /\ \A x \in ToConfirm(u) : Offer("confirm", x[1]) \in OffersOn(u, To("pairing", x[1]))
        /\ (ToDecide(u) # {} \/ ToConfirm(u) # {}) =>
            \E screen \in PrimaryCard(u) : OffersOn(u, screen) # {}

-----------------------------------------------------------------------------
(* Claims of the app's comments that the code does not keep. *)

(* "The one place that always says what happens next" (HomeScreen): a      *)
(* proposal that waits for an answer is shown to somebody who can give it. *)
SomeoneCanAnswer ==
    ~TickDue => \A p \in PairingId : pairings[p].status = "proposed" =>
        \E s \in Side : Offer("confirm", p) \in PairingOffers(p, s)

(* "So there's never a dead end" (HomeScreen): from Home one can get to    *)
(* the place one has on a shift that is not over.                          *)
PlaceOnHome ==
    ~TickDue => \A u \in User, b \in BookingId :
        b \in HomeBookings(u) =>
            \/ OpenBooking(b) \cap FromHome(u) # {}
            \/ ToDecide(u) # {} \/ ToConfirm(u) # {}
=============================================================================
