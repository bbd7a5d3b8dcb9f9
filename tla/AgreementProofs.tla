--------------------------- MODULE AgreementProofs ---------------------------
(***************************************************************************)
(* The tables agree.  lifecycle.js keeps one fact in several rows: who is  *)
(* matched with whom is in a pairing, in the bookings of its two sides and *)
(* in the requests behind it, and each of its helpers writes some of these *)
(* rows.  Agrees(d) says how the rows of a database d fit together between *)
(* two calls.  This module proves what each helper does to the rows and    *)
(* when it keeps Agrees; AgreementSteps goes through the operations.       *)
(***************************************************************************)
EXTENDS LifecycleProofs

(* The statuses of a booking whose attendance is known, and of one that    *)
(* was not given up.                                                       *)
Over == {"attended", "no_show", "unverified"}
Took == {"confirmed"} \cup Over

(* The rows behind one side of a pairing, and the bookings it names.       *)
BookingOf(d, p, s) == d.bookings[d.pairings[p].booking[s]]
RequestOf(d, p, s) == d.requests[d.pairings[p].request[s]]
Names(d, p, b) == \E s \in Side : d.pairings[p].booking[s] = b
Open(d, p) == d.pairings[p].status = "proposed"

(* The booking is of the one left behind when their partner backed out:    *)
(* the decision between a release and a rematch is theirs.                 *)
BackedOut(d, b) ==
    LET bk == d.bookings[b] IN
    /\ bk.pairing \in PairingId
    /\ d.pairings[bk.pairing].status = "cancelled"
    /\ d.pairings[bk.pairing].bailUser = bk.user
    /\ bk.kind = "paired" /\ bk.hold # "none"

(* A pairing is of two people on one shift; it expires while there is time *)
(* for another one, and is completed only after the shift.                 *)
PairOK(d, p) == d.pairings[p].status # "free" =>
    /\ d.pairings[p].request["a"] # d.pairings[p].request["b"]
    /\ d.pairings[p].booking["a"] # d.pairings[p].booking["b"]
    /\ BookingOf(d, p, "a").user # BookingOf(d, p, "b").user
    /\ BookingOf(d, p, "a").shift = BookingOf(d, p, "b").shift
    /\ Open(d, p) => d.pairings[p].expires <= Before(Start[BookingOf(d, p, "a").shift], RematchLast)
    /\ d.pairings[p].status = "completed" => End[BookingOf(d, p, "a").shift] <= now

(* Behind each side of an open proposal are a proposed request and a       *)
(* booking of the same person: a booking of its own for a new match, the   *)
(* anchor for a search made from a shift the person already has.           *)
SideOK(d, p, s) == Open(d, p) =>
    LET bk == BookingOf(d, p, s)
        rq == RequestOf(d, p, s)
    IN  /\ rq.status = "proposed" /\ rq.user = bk.user
        /\ rq.anchor = None => bk.pairing = p
        /\ rq.anchor # None => d.pairings[p].booking[s] = rq.anchor
        /\ bk.status \in TakesSpot
        /\ now < d.pairings[p].expires => bk.status \in ActiveBooking

(* Two open proposals, and the two sides of one, share no row.             *)
Apart(d) ==
    \A p, q \in PairingId, s, x \in Side :
        Open(d, p) /\ Open(d, q) /\ (p # q \/ s # x) =>
            /\ d.pairings[p].request[s] # d.pairings[q].request[x]
            /\ d.pairings[p].booking[s] # d.pairings[q].booking[x]

(* A request made from a booking keeps to it: the booking is still taken   *)
(* while the search is open, solo for a solo RSVP, abandoned by a partner  *)
(* for a rematch.  A proposed request is carried by an open proposal.      *)
RequestOK(d, r) == d.requests[r].status # "free" =>
    LET rq == d.requests[r]
        bk == d.bookings[rq.anchor]
    IN  /\ rq.kind = "standard" <=> rq.anchor = None
        /\ rq.anchor # None => bk.status # "free" /\ bk.user = rq.user
        /\ rq.status \in OpenRequest /\ rq.anchor # None =>
            /\ bk.status \in Took
            /\ rq.kind = "solo_rsvp" => bk.pairing = None
            /\ rq.kind = "rematch" =>
                BackedOut(d, rq.anchor) /\ d.pairings[bk.pairing].choice = "rematch"
        /\ rq.status = "proposed" =>
            \E p \in PairingId, s \in Side : Open(d, p) /\ d.pairings[p].request[s] = r

(* One open search per booking.                                            *)
OneAnchor(d) ==
    \A q, r \in RequestId :
        /\ d.requests[q].status \in OpenRequest /\ d.requests[r].status \in OpenRequest
        /\ d.requests[q].anchor = d.requests[r].anchor /\ d.requests[q].anchor # None
        => q = r

(* A hold is open for a confirmed paired booking and no other; a booking   *)
(* that names a pairing is named by it, and the pairing is live, completed *)
(* after the shift, or cancelled by the partner.                           *)
BookingOK(d, b) ==
    LET bk == d.bookings[b] IN
    /\ bk.status = "free" => bk.pairing = None
    /\ bk.hold = "held" <=> bk.status = "confirmed" /\ bk.kind = "paired"
    /\ bk.status \in Over => Before(Start[bk.shift], CheckInLead) <= now
    /\ bk.pairing # None => d.pairings[bk.pairing].status # "free"
    /\ bk.pairing # None /\ bk.status # "cancelled" =>
        /\ Names(d, bk.pairing, b)
        /\ \/ d.pairings[bk.pairing].status \in LivePairing
           \/ d.pairings[bk.pairing].status = "completed" /\ bk.status \in Over
           \/ BackedOut(d, b)
    /\ bk.status = "confirmed" /\ bk.kind = "paired" /\ bk.pairing = None =>
        \E p \in PairingId : Open(d, p) /\ Names(d, p, b)

(* Both bookings of a confirmed pairing point back at it, with a hold.     *)
ConfirmedOK(d, p, s) == d.pairings[p].status = "confirmed" =>
    LET bk == BookingOf(d, p, s) IN
    /\ bk.pairing = p /\ bk.kind = "paired" /\ bk.status \in Took /\ bk.hold # "none"
    /\ RequestOf(d, p, s).status = "matched"

(* A decision not yet taken is of somebody who still has the booking, and  *)
(* its deadline leaves BailMin before the shift.                           *)
DecisionOK(d, p) ==
    /\ d.pairings[p].status = "cancelled" /\ d.pairings[p].bailUser # NoUser
    /\ d.pairings[p].choice = "none"
    => \E s \in Side :
        LET bk == BookingOf(d, p, s) IN
        /\ bk.user = d.pairings[p].bailUser
        /\ bk.pairing = p /\ bk.kind = "paired" /\ bk.status \in Took /\ bk.hold # "none"
        /\ d.pairings[p].bailDeadline + BailMin <= Start[bk.shift]

(* The tables agree.                                                       *)
Agrees(d) ==
    /\ \A p \in PairingId : PairOK(d, p) /\ DecisionOK(d, p)
    /\ \A p \in PairingId, s \in Side : SideOK(d, p, s) /\ ConfirmedOK(d, p, s)
    /\ Apart(d) /\ OneAnchor(d)
    /\ \A r \in RequestId : RequestOK(d, r)
    /\ \A b \in BookingId : BookingOK(d, b)

-----------------------------------------------------------------------------
(* None is the key of no row.                                              *)
LEMMA NoneIsNoRow == None \notin PairingId /\ None \notin BookingId
BY LifecycleAssumption DEF None, PairingId, BookingId

(* What the helpers do to the rows: the rest of the database is as it was. *)

(* A booking given up, and one kept without a partner.                     *)
Left(x, y) ==
    /\ y.status = "cancelled" /\ y.hold # "held"
    /\ y.pairing = x.pairing /\ y.kind = x.kind /\ y.user = x.user /\ y.shift = x.shift
WentSolo(x, y) ==
    /\ y.kind = "solo" /\ y.hold # "held" /\ y.pairing = None
    /\ y.status = x.status /\ y.user = x.user /\ y.shift = x.shift

(* Only the rows of these bookings change.                                 *)
OnlyBookings(d, e, bs) ==
    /\ e.requests = d.requests /\ e.pairings = d.pairings
    /\ \A c \in BookingId \ bs : e.bookings[c] = d.bookings[c]

(* A hold that was open is settled, and the row is as it was.              *)
SettledRow(x, y) ==
    /\ y.status = x.status /\ y.pairing = x.pairing /\ y.kind = x.kind
    /\ y.user = x.user /\ y.shift = x.shift
    /\ x.hold # "none" => y.hold # "none"

(* resolveHold settles the hold of one booking, if it is open.             *)
LEMMA ResolveHoldRows ==
    ASSUME NEW d, Good(d), NEW b \in BookingId, NEW outcome \in HoldOutcome
    PROVE  LET e == ResolveHold(d, b, outcome)
           IN  /\ OnlyBookings(d, e, {b}) /\ e.booked = d.booked
               /\ SettledRow(d.bookings[b], e.bookings[b])
               /\ e.bookings \in [BookingId -> Booking]
<1> DEFINE e == ResolveHold(d, b, outcome)
           row == [d.bookings[b] EXCEPT !.hold = outcome]
           x == Settle(d, b, outcome)
<1>1. d.bookings \in [BookingId -> Booking] /\ d.bookings[b] \in Booking
  BY DEF Good, DbType
<1>2. row \in Booking
  BY <1>1 DEF Booking, HoldOutcome
<1>3. /\ x.bookings = [d.bookings EXCEPT ![b] = row] /\ x.requests = d.requests
      /\ x.pairings = d.pairings /\ x.booked = d.booked
  BY DEF Settle, PutBooking, Good, DbType
<1> HIDE DEF x
<1>4. CASE d.bookings[b].hold = "held"
  <2>1. e = x
    BY <1>4 DEF ResolveHold, x
  <2>2. SettledRow(d.bookings[b], row)
    BY <1>1 DEF SettledRow, Booking, HoldOutcome
  <2> HIDE DEF e, row
  <2> QED BY <1>1, <1>2, <1>3, <2>1, <2>2 DEF OnlyBookings, e
<1>5. CASE d.bookings[b].hold # "held"
  <2>1. e = d
    BY <1>5 DEF ResolveHold
  <2> QED BY <1>1, <2>1 DEF OnlyBookings, SettledRow
<1> QED BY <1>4, <1>5

(* cancelBooking's row, once the hold is settled.                          *)
LEMMA CancelRowRows ==
    ASSUME NEW d, Good(d), NEW b \in BookingId, NEW keepCap \in BOOLEAN,
           d.bookings[b].hold # "held"
    PROVE  LET e == CancelRow(d, b, keepCap)
           IN  /\ OnlyBookings(d, e, {b}) /\ Left(d.bookings[b], e.bookings[b])
               /\ e.booked = ReleaseSpots(d, d.bookings[b].shift, 1).booked
<1> DEFINE row == [d.bookings[b] EXCEPT !.status = "cancelled", !.cap = keepCap /\ @]
           x == PutBooking(d, b, row)
           s == d.bookings[b].shift
           e == ReleaseSpots(x, s, 1)
<1>1. d.bookings[b] \in Booking
  BY DEF Good, DbType
<1>2. Left(d.bookings[b], row)
  BY <1>1 DEF Left, Booking
<1>3. /\ x.requests = d.requests /\ x.pairings = d.pairings /\ x.booked = d.booked
      /\ x.bookings = [d.bookings EXCEPT ![b] = row]
      /\ e.requests = x.requests /\ e.pairings = x.pairings /\ e.bookings = x.bookings
      /\ e.booked = ReleaseSpots(d, s, 1).booked
  BY DEF PutBooking, ReleaseSpots, Good, DbType
<1>4. CancelRow(d, b, keepCap) = e
  BY DEF CancelRow
<1> HIDE DEF e, x, row
<1> QED BY <1>2, <1>3, <1>4 DEF OnlyBookings, Good, DbType

(* The row of a spot kept solo, once the hold is settled.                  *)
LEMMA SoloRowRows ==
    ASSUME NEW d, Good(d), NEW b \in BookingId, NEW keepCap \in BOOLEAN,
           d.bookings[b].hold # "held"
    PROVE  LET e == SoloRow(d, b, keepCap)
           IN  /\ OnlyBookings(d, e, {b}) /\ WentSolo(d.bookings[b], e.bookings[b])
               /\ e.booked = d.booked
<1> DEFINE row == [d.bookings[b] EXCEPT !.kind = "solo", !.pairing = None, !.cap = keepCap /\ @]
           e == SoloRow(d, b, keepCap)
<1>1. d.bookings[b] \in Booking
  BY DEF Good, DbType
<1>2. WentSolo(d.bookings[b], row)
  BY <1>1 DEF WentSolo, Booking
<1>3. /\ e.requests = d.requests /\ e.pairings = d.pairings /\ e.booked = d.booked
      /\ e.bookings = [d.bookings EXCEPT ![b] = row]
  BY DEF SoloRow, PutBooking, Good, DbType
<1> HIDE DEF e, row
<1> QED BY <1>2, <1>3 DEF OnlyBookings, Good, DbType, e

(* The hold settled, then the row written.                                 *)
LEMMA SettledThen ==
    ASSUME NEW d, Good(d), NEW b \in BookingId, d.bookings[b].status # "free",
           NEW outcome \in HoldOutcome, NEW keepCap \in BOOLEAN
    PROVE  LET e == ResolveHold(d, b, outcome)
               f == CancelRow(e, b, keepCap)
               g == SoloRow(e, b, keepCap)
           IN  /\ Keeps(d, f) /\ OnlyBookings(d, f, {b}) /\ Left(d.bookings[b], f.bookings[b])
               /\ f.booked = ReleaseSpots(d, d.bookings[b].shift, 1).booked
               /\ Keeps(d, g) /\ OnlyBookings(d, g, {b}) /\ WentSolo(d.bookings[b], g.bookings[b])
               /\ g.booked = d.booked
<1> DEFINE e == ResolveHold(d, b, outcome)
           f == CancelRow(e, b, keepCap)
           g == SoloRow(e, b, keepCap)
<1>1. /\ OnlyBookings(d, e, {b}) /\ e.booked = d.booked
      /\ SettledRow(d.bookings[b], e.bookings[b])
  BY ResolveHoldRows, Zenon
<1>2. Keeps(d, e) /\ e.bookings[b].hold # "held"
  BY ResolveHoldKeeps
<1>4. /\ e.bookings[b].status = d.bookings[b].status /\ e.bookings[b].pairing = d.bookings[b].pairing
      /\ e.bookings[b].kind = d.bookings[b].kind /\ e.bookings[b].user = d.bookings[b].user
      /\ e.bookings[b].shift = d.bookings[b].shift
  BY <1>1 DEF SettledRow
<1> HIDE DEF e
<1>5. Good(e)
  BY <1>2 DEF Keeps
<1>6. Keeps(e, f) /\ Keeps(e, g)
  BY <1>2, <1>4, <1>5, CancelRowKeeps, SoloRowKeeps
<1>7. Keeps(d, f) /\ Keeps(d, g)
  BY <1>2, <1>6, KeepsChain
<1>8. /\ OnlyBookings(e, f, {b}) /\ Left(e.bookings[b], f.bookings[b])
      /\ f.booked = ReleaseSpots(e, e.bookings[b].shift, 1).booked
  BY <1>2, <1>5, CancelRowRows
<1>9. /\ OnlyBookings(e, g, {b}) /\ WentSolo(e.bookings[b], g.bookings[b]) /\ g.booked = e.booked
  BY <1>2, <1>5, SoloRowRows
<1>10. ReleaseSpots(e, e.bookings[b].shift, 1).booked = ReleaseSpots(d, d.bookings[b].shift, 1).booked
  BY <1>1, <1>4, <1>5 DEF ReleaseSpots, Good, DbType
<1> HIDE DEF f, g
<1> QED BY <1>1, <1>4, <1>7, <1>8, <1>9, <1>10 DEF OnlyBookings, Left, WentSolo, e, f, g

(* releaseAndCancel.                                                       *)
LEMMA ReleaseAndCancelRows ==
    ASSUME NEW d, Good(d), NEW b \in BookingId, d.bookings[b].status # "free"
    PROVE  LET e == ReleaseAndCancel(d, b)
           IN  /\ Keeps(d, e) /\ OnlyBookings(d, e, {b}) /\ Left(d.bookings[b], e.bookings[b])
               /\ e.booked = ReleaseSpots(d, d.bookings[b].shift, 1).booked
BY SettledThen, Zenon DEF ReleaseAndCancel, HoldOutcome

(* keepSpotSoloAfterRelease.                                               *)
LEMMA KeepSpotSoloRows ==
    ASSUME NEW d, Good(d), NEW b \in BookingId, d.bookings[b].status # "free"
    PROVE  LET e == KeepSpotSoloAfterRelease(d, b)
           IN  /\ Keeps(d, e) /\ OnlyBookings(d, e, {b}) /\ WentSolo(d.bookings[b], e.bookings[b])
               /\ e.booked = d.booked
BY SettledThen, Zenon DEF KeepSpotSoloAfterRelease, HoldOutcome

(* A spot somebody had before a proposal, after it: a solo spot holds      *)
(* nothing any more, and a rematch spot is as it was.                      *)
BackToSolo(x, y, kind) ==
    /\ y.status = x.status /\ y.pairing = x.pairing /\ y.user = x.user /\ y.shift = x.shift
    /\ kind = "solo_rsvp" => y.hold = "none"
    /\ \/ y = x
       \/ y.kind = "solo" /\ y.hold = "none" /\ kind = "solo_rsvp"

(* endProposal, the booking of one side.                                   *)
SideBooking(d, e, p, s, skip) ==
    LET b == d.pairings[p].booking[s]
    IN  /\ Keeps(d, e) /\ OnlyBookings(d, e, {b})
        /\ b = skip => e = d
        /\ b # skip /\ d.bookings[b].pairing = p => Left(d.bookings[b], e.bookings[b])
        /\ b # skip /\ d.bookings[b].pairing # p =>
                BackToSolo(d.bookings[b], e.bookings[b], RequestOf(d, p, s).kind)
LEMMA EndSideBookingRows ==
    ASSUME NEW d, Good(d), NEW p \in PairingId, d.pairings[p].status # "free",
           NEW s \in Side, NEW skip
    PROVE  SideBooking(d, EndSideBooking(d, p, s, skip), p, s, skip)
<1> USE DEF SideBooking
<1> DEFINE b == d.pairings[p].booking[s]
           r == d.pairings[p].request[s]
           row == [d.bookings[b] EXCEPT !.kind = "solo", !.hold = "none", !.cap = FALSE]
           x == ResolveHold(d, b, "released")
           e == EndSideBooking(d, p, s, skip)
           solo == d.requests[r].kind = "solo_rsvp" /\ d.bookings[b].hold # "none"
<1>1. b \in BookingId /\ d.bookings[b].status # "free" /\ d.bookings[b] \in Booking
  BY Linked, Zenon DEF Good, DbType
<1>2. Keeps(d, e)
  BY EndSideBookingKeeps
<1>3. e = IF b = skip THEN d
          ELSE IF d.bookings[b].pairing = p THEN ReleaseAndCancel(d, b)
          ELSE IF solo THEN PutBooking(x, b, row) ELSE d
  BY DEF EndSideBooking
<1>4. CASE b = skip
  <2>1. e = d
    BY <1>3, <1>4
  <2> HIDE DEF e, b
  <2> QED BY <1>2, <1>4, <2>1 DEF OnlyBookings, e, b
<1>5. CASE b # skip /\ d.bookings[b].pairing = p
  <2>1. e = ReleaseAndCancel(d, b)
    BY <1>3, <1>5
  <2>2. OnlyBookings(d, e, {b}) /\ Left(d.bookings[b], e.bookings[b])
    <3> HIDE DEF b, e
    <3> QED BY <1>1, <2>1, ReleaseAndCancelRows
  <2> HIDE DEF e, b
  <2> QED BY <1>2, <1>5, <2>2 DEF e, b
<1>6. CASE b # skip /\ d.bookings[b].pairing # p /\ solo
  <2>1. e = PutBooking(x, b, row)
    BY <1>3, <1>6
  <2>2. OnlyBookings(d, x, {b}) /\ x.bookings \in [BookingId -> Booking]
    <3> HIDE DEF b
    <3> QED BY <1>1, ResolveHoldRows DEF HoldOutcome
  <2>3. BackToSolo(d.bookings[b], row, d.requests[r].kind)
    BY <1>1, <1>6 DEF BackToSolo, Booking
  <2>4. Good(x)
    BY <1>1, ResolveHoldKeeps DEF Keeps, HoldOutcome
  <2>5. /\ e.requests = x.requests /\ e.pairings = x.pairings
        /\ e.bookings = [x.bookings EXCEPT ![b] = row]
    <3> HIDE DEF x, row, b, e
    <3> QED BY <2>1, <2>4 DEF PutBooking, Good, DbType
  <2> HIDE DEF e, x, row, b, solo
  <2>6. OnlyBookings(d, e, {b}) /\ BackToSolo(d.bookings[b], e.bookings[b], d.requests[r].kind)
    BY <1>1, <2>2, <2>3, <2>5 DEF OnlyBookings
  <2> QED BY <1>2, <1>6, <2>6, Zenon DEF RequestOf, e, b
<1>7. CASE b # skip /\ d.bookings[b].pairing # p /\ ~solo
  <2>1. e = d
    BY <1>3, <1>7
  <2>2. BackToSolo(d.bookings[b], d.bookings[b], d.requests[r].kind)
    BY <1>7 DEF BackToSolo, solo
  <2> HIDE DEF e, b, solo
  <2> QED BY <1>2, <1>7, <2>1, <2>2, Zenon DEF OnlyBookings, RequestOf, e, b
<1> QED BY <1>4, <1>5, <1>6, <1>7, Zenon

(* The request of a proposal that ends.                                    *)
Closed(x, y) ==
    /\ y.status \in {"searching", "cancelled", "no_match"}
    /\ y.user = x.user /\ y.kind = x.kind /\ y.anchor = x.anchor
SideEnded(d, e, p, s, skip) ==
    LET b == d.pairings[p].booking[s]
        r == d.pairings[p].request[s]
    IN  /\ Closed(d.requests[r], e.requests[r])
        /\ b = skip => e.bookings[b] = d.bookings[b]
        /\ b # skip /\ d.bookings[b].pairing = p => Left(d.bookings[b], e.bookings[b])
        /\ b # skip /\ d.bookings[b].pairing # p =>
                BackToSolo(d.bookings[b], e.bookings[b], d.requests[r].kind)

(* What the end of one side does to the rows, and to no other.             *)
SideRows(d, e, p, s, actor, keepLooking, skip) ==
    LET b == d.pairings[p].booking[s]
        r == d.pairings[p].request[s]
    IN  /\ Keeps(d, e) /\ SideEnded(d, e, p, s, skip) /\ e.pairings = d.pairings
        /\ \A c \in BookingId \ {b} : e.bookings[c] = d.bookings[c]
        /\ \A q \in RequestId \ {r} : e.requests[q] = d.requests[q]
        /\ d.bookings[b].user = actor /\ ~keepLooking => e.requests[r].status = "cancelled"

(* endProposal, one side: the booking, then the request.                   *)
LEMMA EndSideRows ==
    ASSUME NEW d, Good(d), NEW p \in PairingId, d.pairings[p].status # "free",
           NEW s \in Side, NEW status, NEW actor, NEW keepLooking, NEW skip
    PROVE  SideRows(d, EndSide(d, p, s, status, actor, keepLooking, skip),
                    p, s, actor, keepLooking, skip)
<1> DEFINE b == d.pairings[p].booking[s]
           r == d.pairings[p].request[s]
           bk == d.bookings[b]
           next == NextRequestStatus(d, p, s, status, actor, keepLooking)
           again == bk.user = actor /\ keepLooking /\ d.requests[r].anchor = None
           out == IF again THEN d.requests[r].excluded \cup {bk.shift} ELSE d.requests[r].excluded
           row == [d.requests[r] EXCEPT !.status = next, !.excluded = out]
           x == EndSideBooking(d, p, s, skip)
           e == EndSide(d, p, s, status, actor, keepLooking, skip)
<1>1. r \in RequestId /\ b \in BookingId /\ d.requests[r] \in Request
  BY Linked DEF Good, DbType
<1>2. e = PutRequest(x, r, row)
  BY DEF EndSide
<1>3. /\ next \in {"searching", "cancelled", "no_match"}
      /\ bk.user = actor /\ ~keepLooking => next = "cancelled"
  BY DEF NextRequestStatus
<1>4. Keeps(d, e)
  BY EndSideKeeps
<1>5. /\ Good(x) /\ OnlyBookings(d, x, {b})
      /\ b = skip => x = d
      /\ b # skip /\ d.bookings[b].pairing = p => Left(d.bookings[b], x.bookings[b])
      /\ b # skip /\ d.bookings[b].pairing # p =>
            BackToSolo(d.bookings[b], x.bookings[b], d.requests[r].kind)
  <2>1. SideBooking(d, x, p, s, skip)
    BY EndSideBookingRows
  <2> HIDE DEF x
  <2> QED BY <2>1 DEF SideBooking, Keeps, RequestOf
<1> HIDE DEF next, out, x, e
<1>6. /\ row.status = next /\ row.user = d.requests[r].user
      /\ row.kind = d.requests[r].kind /\ row.anchor = d.requests[r].anchor
  BY <1>1 DEF Request
<1> HIDE DEF row, b, r
<1>7. /\ e.pairings = x.pairings /\ e.bookings = x.bookings
      /\ e.requests = [x.requests EXCEPT ![r] = row] /\ x.requests \in [RequestId -> Request]
  BY <1>2, <1>5 DEF PutRequest, Good, DbType
<1>8. Closed(d.requests[r], e.requests[r])
  BY <1>1, <1>3, <1>6, <1>7 DEF Closed
<1>9. SideEnded(d, e, p, s, skip)
  BY <1>5, <1>7, <1>8, Zenon DEF SideEnded, b, r
<1> QED BY <1>1, <1>3, <1>4, <1>5, <1>6, <1>7, <1>9 DEF SideRows, OnlyBookings, e, b, r

(* A pairing changes its status, and nothing else happens.                 *)
LEMMA PutStatusRows ==
    ASSUME NEW d, Good(d), NEW p \in PairingId, NEW status
    PROVE  LET e == PutStatus(d, p, status)
           IN  /\ e.requests = d.requests /\ e.bookings = d.bookings /\ e.booked = d.booked
               /\ \A q \in PairingId \ {p} : e.pairings[q] = d.pairings[q]
               /\ e.pairings[p].status = status
               /\ e.pairings[p].request = d.pairings[p].request
               /\ e.pairings[p].booking = d.pairings[p].booking
<1> DEFINE row == [d.pairings[p] EXCEPT !.status = status]
           e == PutStatus(d, p, status)
<1>1. d.pairings[p] \in Pairing
  BY DEF Good, GoodPairing
<1>2. row.status = status /\ row.request = d.pairings[p].request /\ row.booking = d.pairings[p].booking
  BY <1>1 DEF Pairing
<1>3. /\ e.pairings = [d.pairings EXCEPT ![p] = row] /\ e.requests = d.requests
      /\ e.bookings = d.bookings /\ e.booked = d.booked
  BY DEF PutStatus, PutPairing, Good, DbType
<1> HIDE DEF row
<1> QED BY <1>2, <1>3 DEF Good, DbType

(* What endProposal leaves: the pairing over, each side ended, every other *)
(* row as it was.                                                          *)
Carries(d, p, r) == \E s \in Side : d.pairings[p].request[s] = r
ProposalEnded(d, e, p, skip) ==
    /\ Keeps(d, e)
    /\ e.pairings[p].status \in {"declined", "expired"}
    /\ \A q \in PairingId \ {p} : e.pairings[q] = d.pairings[q]
    /\ \A s \in Side : SideEnded(d, e, p, s, skip)
    /\ \A c \in BookingId : ~Names(d, p, c) => e.bookings[c] = d.bookings[c]
    /\ \A r \in RequestId : ~Carries(d, p, r) => e.requests[r] = d.requests[r]

(* endProposal, both sides: neither end disturbs the other's rows.         *)
LEMMA EndProposalRows ==
    ASSUME NEW d, Good(d), NEW p \in PairingId, d.pairings[p].status = "proposed",
           d.pairings[p].request["a"] # d.pairings[p].request["b"],
           d.pairings[p].booking["a"] # d.pairings[p].booking["b"],
           NEW status \in {"declined", "expired"}, NEW actor, NEW keepLooking, NEW skip
    PROVE  LET e == EndProposal(d, p, status, actor, keepLooking, skip)
           IN  /\ ProposalEnded(d, e, p, skip)
               /\ \A s \in Side : BookingOf(d, p, s).user = actor /\ ~keepLooking
                        => e.requests[d.pairings[p].request[s]].status = "cancelled"
<1> DEFINE e == PutStatus(d, p, status)
           f == EndSide(e, p, "a", status, actor, keepLooking, skip)
           g == EndSide(f, p, "b", status, actor, keepLooking, skip)
           ba == d.pairings[p].booking["a"]
           bb == d.pairings[p].booking["b"]
           ra == d.pairings[p].request["a"]
           rb == d.pairings[p].request["b"]
<1>1. EndProposal(d, p, status, actor, keepLooking, skip) = g
  BY DEF EndProposal
<1>2. Keeps(d, e)
  BY PutStatusKeeps DEF LivePairing
<1>3. /\ e.requests = d.requests /\ e.bookings = d.bookings
      /\ \A q \in PairingId \ {p} : e.pairings[q] = d.pairings[q]
      /\ e.pairings[p].status = status
      /\ e.pairings[p].request = d.pairings[p].request
      /\ e.pairings[p].booking = d.pairings[p].booking
  BY PutStatusRows
<1>4. "a" \in Side /\ "b" \in Side /\ \A s \in Side : s = "a" \/ s = "b"
  BY DEF Side
<1>5. ba \in BookingId /\ bb \in BookingId /\ ra \in RequestId /\ rb \in RequestId
  BY <1>4, Linked
<1>6. ba # bb /\ ra # rb
  OBVIOUS
<1> HIDE DEF e
<1>7. Good(e) /\ e.pairings[p].status # "free"
  BY <1>2 DEF Keeps
<1>8. /\ Keeps(e, f) /\ SideEnded(e, f, p, "a", skip) /\ f.pairings = e.pairings
      /\ \A c \in BookingId \ {e.pairings[p].booking["a"]} : f.bookings[c] = e.bookings[c]
      /\ \A q \in RequestId \ {e.pairings[p].request["a"]} : f.requests[q] = e.requests[q]
      /\ e.bookings[e.pairings[p].booking["a"]].user = actor /\ ~keepLooking
            => f.requests[e.pairings[p].request["a"]].status = "cancelled"
  <2>1. SideRows(e, f, p, "a", actor, keepLooking, skip)
    BY <1>4, <1>7, EndSideRows
  <2> QED BY <2>1 DEF SideRows
<1> HIDE DEF f
<1>9. Good(f) /\ f.pairings[p].status # "free"
  BY <1>7, <1>8 DEF Keeps
<1>10. /\ Keeps(f, g) /\ SideEnded(f, g, p, "b", skip) /\ g.pairings = f.pairings
       /\ \A c \in BookingId \ {f.pairings[p].booking["b"]} : g.bookings[c] = f.bookings[c]
       /\ \A q \in RequestId \ {f.pairings[p].request["b"]} : g.requests[q] = f.requests[q]
       /\ f.bookings[f.pairings[p].booking["b"]].user = actor /\ ~keepLooking
            => g.requests[f.pairings[p].request["b"]].status = "cancelled"
  <2>1. SideRows(f, g, p, "b", actor, keepLooking, skip)
    BY <1>4, <1>9, EndSideRows
  <2> QED BY <2>1 DEF SideRows
<1> HIDE DEF g
<1>11. Keeps(d, g)
  BY <1>2, <1>8, <1>10, KeepsChain
<1>12. /\ e.pairings[p].booking["a"] = ba /\ e.pairings[p].request["a"] = ra
       /\ f.pairings[p].booking["b"] = bb /\ f.pairings[p].request["b"] = rb
  BY <1>3, <1>8
<1> HIDE DEF ba, bb, ra, rb
<1>13. /\ f.bookings[bb] = d.bookings[bb] /\ f.requests[rb] = d.requests[rb]
       /\ g.bookings[ba] = f.bookings[ba] /\ g.requests[ra] = f.requests[ra]
       /\ \A c \in BookingId \ {ba, bb} : g.bookings[c] = d.bookings[c]
       /\ \A q \in RequestId \ {ra, rb} : g.requests[q] = d.requests[q]
  BY <1>3, <1>5, <1>6, <1>8, <1>10, <1>12
<1>14. SideEnded(d, g, p, "a", skip)
  BY <1>3, <1>8, <1>12, <1>13, ZenonT(60) DEF SideEnded, ba, ra
<1>15. SideEnded(d, g, p, "b", skip)
  BY <1>3, <1>8, <1>10, <1>12, <1>13, ZenonT(60) DEF SideEnded, bb, rb
<1>16. /\ g.pairings[p].status \in {"declined", "expired"}
       /\ \A q \in PairingId \ {p} : g.pairings[q] = d.pairings[q]
  BY <1>3, <1>8, <1>10
<1>17. /\ \A c \in BookingId : ~Names(d, p, c) => g.bookings[c] = d.bookings[c]
       /\ \A r \in RequestId : ~Carries(d, p, r) => g.requests[r] = d.requests[r]
  BY <1>4, <1>13 DEF Names, Carries, ba, bb, ra, rb
<1>18. ProposalEnded(d, g, p, skip)
  BY <1>4, <1>11, <1>14, <1>15, <1>16, <1>17 DEF ProposalEnded
<1>19. ASSUME NEW s \in Side, BookingOf(d, p, s).user = actor, ~keepLooking
       PROVE  g.requests[d.pairings[p].request[s]].status = "cancelled"
  <2>1. CASE s = "a"
    BY <1>3, <1>8, <1>12, <1>13, <1>19, <2>1 DEF BookingOf, ba, ra
  <2>2. CASE s = "b"
    BY <1>10, <1>12, <1>13, <1>19, <2>2 DEF BookingOf, bb, rb
  <2> QED BY <1>4, <2>1, <2>2
<1> QED BY <1>1, <1>18, <1>19

-----------------------------------------------------------------------------
(* A proposal ends, and everything still agrees. *)

(* Everything agrees but the open proposal, if there is one, of a booking  *)
(* that its owner is just giving up.                                       *)
Gone(bk) ==
    \/ bk.status = "cancelled"
    \/ bk.kind = "solo" /\ bk.pairing = None
AgreesExcept(d, skip) ==
    /\ \A p \in PairingId : PairOK(d, p) /\ DecisionOK(d, p)
    /\ \A p \in PairingId, s \in Side :
        /\ ConfirmedOK(d, p, s)
        /\ IF d.pairings[p].booking[s] = skip
           THEN Open(d, p) => RequestOf(d, p, s).status \in {"proposed", "cancelled"}
           ELSE SideOK(d, p, s)
    /\ Apart(d) /\ OneAnchor(d)
    /\ \A r \in RequestId :
        /\ RequestOK(d, r)
        /\ skip # None /\ d.requests[r].anchor = skip => d.requests[r].status \notin OpenRequest
    /\ \A b \in BookingId : BookingOK(d, b)
    /\ skip # None => Gone(d.bookings[skip])

(* Nobody is giving anything up.                                           *)
LEMMA AgreesExceptNobody ==
    ASSUME NEW d, Good(d), Agrees(d)
    PROVE  AgreesExcept(d, None)
<1>1. ASSUME NEW p \in PairingId, NEW s \in Side, d.pairings[p].booking[s] = None
      PROVE  ~Open(d, p)
  <2>1. d.pairings[p].status # "free" => d.pairings[p].booking[s] \in BookingId
    BY Linked
  <2> QED BY <1>1, <2>1 DEF Open, None, BookingId
<1> QED BY <1>1 DEF Agrees, AgreesExcept

(* What a side of an open proposal is about: a booking made for it, a solo *)
(* spot, or the spot of someone who was backed out on.                     *)
TiedTo(d, p, s) ==
    LET b == d.pairings[p].booking[s]
        rq == RequestOf(d, p, s)
    IN  /\ b \in BookingId /\ d.pairings[p].request[s] \in RequestId
        /\ rq.status = "proposed" /\ rq.user = d.bookings[b].user
        /\ \/ rq.anchor = None /\ rq.kind = "standard" /\ d.bookings[b].pairing = p
           \/ /\ rq.anchor = b /\ rq.kind = "solo_rsvp" /\ d.bookings[b].status \in Took
              /\ d.bookings[b].pairing = None
           \/ /\ rq.anchor = b /\ rq.kind = "rematch" /\ d.bookings[b].status \in Took
              /\ BackedOut(d, b) /\ d.pairings[d.bookings[b].pairing].choice = "rematch"
              /\ d.bookings[b].pairing # p

(* So it is.                                                               *)
LEMMA OpenSide ==
    ASSUME NEW d, Good(d), NEW p \in PairingId, Open(d, p), NEW s \in Side,
           SideOK(d, p, s), \A r \in RequestId : RequestOK(d, r)
    PROVE  TiedTo(d, p, s)
<1> DEFINE b == d.pairings[p].booking[s]
           r == d.pairings[p].request[s]
<1>1. b \in BookingId /\ r \in RequestId
  BY Linked DEF Open
<1>2. /\ d.requests[r].status = "proposed" /\ d.requests[r].user = d.bookings[b].user
      /\ d.requests[r].anchor = None => d.bookings[b].pairing = p
      /\ d.requests[r].anchor # None => b = d.requests[r].anchor
  BY DEF SideOK, BookingOf, RequestOf
<1>3. RequestOK(d, r) /\ d.requests[r] \in Request
  BY <1>1 DEF Good, GoodRequest
<1> HIDE DEF r
<1>4. CASE d.requests[r].anchor = None
  BY <1>1, <1>2, <1>3, <1>4, ZenonT(60) DEF TiedTo, RequestOK, RequestOf, r
<1>5. CASE d.requests[r].anchor # None
  <2>1. /\ d.requests[r].kind # "standard" /\ d.bookings[b].status \in Took
        /\ d.requests[r].kind = "solo_rsvp" => d.bookings[b].pairing = None
        /\ d.requests[r].kind = "rematch" =>
            BackedOut(d, b) /\ d.pairings[d.bookings[b].pairing].choice = "rematch"
    BY <1>2, <1>3, <1>5, Zenon DEF RequestOK, OpenRequest
  <2>2. d.requests[r].kind \in {"standard", "solo_rsvp", "rematch"}
    BY <1>3 DEF Request
  <2>3. BackedOut(d, b) => d.bookings[b].pairing # p
    BY DEF BackedOut, Open
  <2> QED BY <1>1, <1>2, <1>5, <2>1, <2>2, <2>3, ZenonT(60) DEF TiedTo, RequestOf, r
<1> QED BY <1>4, <1>5, Zenon

(* What the end of a proposal does to any booking.                         *)
LEMMA EndedBookings ==
    ASSUME NEW d, Good(d), NEW skip, AgreesExcept(d, skip), NEW p \in PairingId, Open(d, p),
           NEW e, ProposalEnded(d, e, p, skip), NEW c \in BookingId
    PROVE  LET x == d.bookings[c]
               y == e.bookings[c]
           IN  \/ y = x /\ ~Names(d, p, c)
               \/ y = x /\ c = skip
               \/ y = x /\ BackedOut(d, c) /\ x.pairing # p
               \/ x.pairing = p /\ Left(x, y)
               \/ /\ x.pairing = None /\ x.status \in Took
                  /\ y.status = x.status /\ y.pairing = None /\ y.user = x.user
                  /\ y.shift = x.shift /\ y.hold = "none" /\ (y = x \/ y.kind = "solo")
<1>1. CASE ~Names(d, p, c)
  BY <1>1 DEF ProposalEnded
<1>2. ASSUME NEW s \in Side, d.pairings[p].booking[s] = c
      PROVE  LET x == d.bookings[c]
                 y == e.bookings[c]
             IN  \/ y = x /\ c = skip
                 \/ y = x /\ BackedOut(d, c) /\ x.pairing # p
                 \/ x.pairing = p /\ Left(x, y)
                 \/ /\ x.pairing = None /\ x.status \in Took
                    /\ y.status = x.status /\ y.pairing = None /\ y.user = x.user
                    /\ y.shift = x.shift /\ y.hold = "none" /\ (y = x \/ y.kind = "solo")
  <2>1. /\ c = skip => e.bookings[c] = d.bookings[c]
        /\ c # skip /\ d.bookings[c].pairing = p => Left(d.bookings[c], e.bookings[c])
        /\ c # skip /\ d.bookings[c].pairing # p =>
                BackToSolo(d.bookings[c], e.bookings[c], RequestOf(d, p, s).kind)
    BY <1>2 DEF ProposalEnded, SideEnded, RequestOf
  <2>2. CASE c = skip
    BY <2>1, <2>2
  <2>3. CASE c # skip
    <3>1. SideOK(d, p, s) /\ \A r \in RequestId : RequestOK(d, r)
      BY <1>2, <2>3 DEF AgreesExcept
    <3>2. \/ RequestOf(d, p, s).anchor = None /\ d.bookings[c].pairing = p
          \/ /\ RequestOf(d, p, s).kind = "solo_rsvp" /\ d.bookings[c].status \in Took
             /\ d.bookings[c].pairing = None
          \/ /\ RequestOf(d, p, s).kind = "rematch" /\ BackedOut(d, c)
             /\ d.bookings[c].pairing # p
      <4>1. TiedTo(d, p, s)
        BY <3>1, OpenSide
      <4> QED BY <1>2, <4>1, Zenon DEF TiedTo
    <3>3. None # p
      BY DEF None, PairingId
    <3> QED BY <2>1, <2>3, <3>2, <3>3 DEF BackToSolo
  <2> QED BY <2>2, <2>3
<1> QED BY <1>1, <1>2 DEF Names

(* What the end of a proposal does to any request: a side that goes on     *)
(* searching was still proposed.                                           *)
LEMMA EndedRequests ==
    ASSUME NEW d, Good(d), NEW skip, AgreesExcept(d, skip), NEW p \in PairingId, Open(d, p),
           NEW e, ProposalEnded(d, e, p, skip),
           \A s \in Side : d.pairings[p].booking[s] = skip =>
                e.requests[d.pairings[p].request[s]].status = "cancelled",
           NEW r \in RequestId
    PROVE  LET x == d.requests[r]
               y == e.requests[r]
           IN  \/ y = x /\ ~Carries(d, p, r)
               \/ /\ Closed(x, y) /\ x.status \in {"proposed", "cancelled"}
                  /\ y.status = "searching" => x.status = "proposed"
<1>1. CASE ~Carries(d, p, r)
  BY <1>1 DEF ProposalEnded
<1>2. ASSUME NEW s \in Side, d.pairings[p].request[s] = r
      PROVE  LET x == d.requests[r]
                 y == e.requests[r]
             IN  /\ Closed(x, y) /\ x.status \in {"proposed", "cancelled"}
                 /\ y.status = "searching" => x.status = "proposed"
  <2> DEFINE b == d.pairings[p].booking[s]
  <2>1. Closed(d.requests[r], e.requests[r])
    BY <1>2 DEF ProposalEnded, SideEnded
  <2>2. CASE b = skip
    <3>1. e.requests[r].status = "cancelled"
      BY <1>2, <2>2
    <3>2. d.requests[r].status \in {"proposed", "cancelled"}
      BY <1>2, <2>2 DEF AgreesExcept, RequestOf
    <3> QED BY <2>1, <3>1, <3>2
  <2>3. CASE b # skip
    <3>1. SideOK(d, p, s) /\ \A q \in RequestId : RequestOK(d, q)
      BY <2>3 DEF AgreesExcept
    <3>2. d.requests[r].status = "proposed"
      <4>1. TiedTo(d, p, s)
        BY <3>1, OpenSide
      <4> QED BY <1>2, <4>1, Zenon DEF TiedTo, RequestOf
    <3> QED BY <2>1, <3>2
  <2> QED BY <2>2, <2>3
<1> QED BY <1>1, <1>2 DEF Carries

(* The other open proposals have other rows.                               *)
LEMMA EndedApart ==
    ASSUME NEW d, Good(d), NEW skip, AgreesExcept(d, skip), NEW p \in PairingId, Open(d, p),
           NEW e, ProposalEnded(d, e, p, skip), NEW q \in PairingId, Open(e, q), NEW s \in Side
    PROVE  /\ q # p /\ Open(d, q) /\ e.pairings[q] = d.pairings[q]
           /\ e.requests[d.pairings[q].request[s]] = d.requests[d.pairings[q].request[s]]
           /\ e.bookings[d.pairings[q].booking[s]] = d.bookings[d.pairings[q].booking[s]]
<1>1. q # p
  BY DEF ProposalEnded, Open
<1>2. e.pairings[q] = d.pairings[q] /\ Open(d, q)
  BY <1>1 DEF ProposalEnded, Open
<1>3. d.pairings[q].request[s] \in RequestId /\ d.pairings[q].booking[s] \in BookingId
  BY <1>2, Linked DEF Open
<1>4. ~Names(d, p, d.pairings[q].booking[s]) /\ ~Carries(d, p, d.pairings[q].request[s])
  BY <1>1, <1>2 DEF AgreesExcept, Apart, Names, Carries
<1> QED BY <1>1, <1>2, <1>3, <1>4 DEF ProposalEnded

(* endProposal settles an open proposal, and with it everything agrees.    *)
LEMMA EndedAgrees ==
    ASSUME NEW d, Good(d), NEW skip, AgreesExcept(d, skip), NEW p \in PairingId, Open(d, p),
           NEW e, ProposalEnded(d, e, p, skip),
           \A s \in Side : d.pairings[p].booking[s] = skip =>
                e.requests[d.pairings[p].request[s]].status = "cancelled",
           \A q \in PairingId, s \in Side :
                Open(d, q) /\ d.pairings[q].booking[s] = skip => q = p
    PROVE  Agrees(e)
<1> DEFINE X(c) == d.bookings[c]
           Y(c) == e.bookings[c]
<1>1. Keeps(d, e) /\ Good(e)
  BY DEF ProposalEnded, Keeps
<1>2. ASSUME NEW c \in BookingId
      PROVE  \/ Y(c) = X(c) /\ ~Names(d, p, c)
             \/ Y(c) = X(c) /\ c = skip
             \/ Y(c) = X(c) /\ BackedOut(d, c) /\ X(c).pairing # p
             \/ X(c).pairing = p /\ Left(X(c), Y(c))
             \/ /\ X(c).pairing = None /\ X(c).status \in Took
                /\ Y(c).status = X(c).status /\ Y(c).pairing = None /\ Y(c).user = X(c).user
                /\ Y(c).shift = X(c).shift /\ Y(c).hold = "none" /\ (Y(c) = X(c) \/ Y(c).kind = "solo")
  BY <1>2, EndedBookings
<1>3. ASSUME NEW q \in PairingId, q # p
      PROVE  e.pairings[q] = d.pairings[q]
  BY <1>3 DEF ProposalEnded
<1>4. /\ e.pairings[p].status \in {"declined", "expired"}
      /\ \A q \in PairingId : /\ e.pairings[q].request = d.pairings[q].request
                              /\ e.pairings[q].booking = d.pairings[q].booking
  BY <1>1 DEF ProposalEnded, Keeps
<1>5. None \notin PairingId
  BY DEF None, PairingId
<1>6. ASSUME NEW c \in BookingId, X(c).pairing \in PairingId \ {p}
      PROVE  Y(c) = X(c)
  BY <1>2, <1>5, <1>6
<1>7. ASSUME NEW q \in PairingId
      PROVE  PairOK(e, q)
  <2>1. CASE e.pairings[q].status = "free"
    BY <2>1 DEF PairOK
  <2>2. CASE e.pairings[q].status # "free"
    <3>1. PairOK(d, q) /\ d.pairings[q].status # "free"
      BY <1>1, <2>2 DEF AgreesExcept, Keeps
    <3>2. \A s \in Side : d.pairings[q].booking[s] \in BookingId
      BY <3>1, Linked
    <3>3. ASSUME NEW s \in Side
          PROVE  /\ BookingOf(e, q, s).user = BookingOf(d, q, s).user
                 /\ BookingOf(e, q, s).shift = BookingOf(d, q, s).shift
      <4>1. d.pairings[q].booking[s] \in BookingId /\ e.pairings[q].booking = d.pairings[q].booking
        BY <1>4, <3>2
      <4> QED BY <1>1, <4>1 DEF Keeps, BookingOf
    <3>4. Open(e, q) => e.pairings[q] = d.pairings[q] /\ Open(d, q)
      BY <1>3, <1>4 DEF Open
    <3>5. "a" \in Side /\ "b" \in Side
      BY DEF Side
    <3> HIDE DEF X, Y
    <3>6. e.pairings[q].status = "completed" => d.pairings[q].status = "completed"
      BY <1>3, <1>4
    <3> QED BY <1>4, <3>1, <3>3, <3>4, <3>5, <3>6 DEF PairOK
  <2> QED BY <2>1, <2>2
<1>8. ASSUME NEW q \in PairingId
      PROVE  DecisionOK(e, q)
  <2>1. CASE q = p
    BY <1>4, <2>1 DEF DecisionOK
  <2>2. CASE q # p
    <3>1. DecisionOK(d, q) /\ e.pairings[q] = d.pairings[q]
      BY <1>3, <2>2 DEF AgreesExcept
    <3>2. ASSUME NEW s \in Side, d.pairings[q].status # "free", BookingOf(d, q, s).pairing = q
          PROVE  BookingOf(e, q, s) = BookingOf(d, q, s)
      <4>1. d.pairings[q].booking[s] \in BookingId
        BY <3>2, Linked
      <4> QED BY <1>6, <2>2, <3>1, <3>2, <4>1 DEF BookingOf
    <3> QED BY <3>1, <3>2 DEF DecisionOK
  <2> QED BY <2>1, <2>2
<1>9. ASSUME NEW q \in PairingId, NEW s \in Side
      PROVE  SideOK(e, q, s)
  <2>1. CASE ~Open(e, q)
    BY <2>1 DEF SideOK
  <2>2. CASE Open(e, q)
    <3>1. /\ q # p /\ Open(d, q) /\ e.pairings[q] = d.pairings[q]
          /\ e.requests[d.pairings[q].request[s]] = d.requests[d.pairings[q].request[s]]
          /\ e.bookings[d.pairings[q].booking[s]] = d.bookings[d.pairings[q].booking[s]]
      BY <2>2, EndedApart
    <3>2. SideOK(d, q, s)
      BY <3>1 DEF AgreesExcept
    <3> QED BY <3>1, <3>2, Zenon DEF SideOK, Open, BookingOf, RequestOf
  <2> QED BY <2>1, <2>2
<1>10. ASSUME NEW q \in PairingId, NEW s \in Side
       PROVE  ConfirmedOK(e, q, s)
  <2>1. CASE e.pairings[q].status # "confirmed"
    BY <2>1 DEF ConfirmedOK
  <2>2. CASE e.pairings[q].status = "confirmed"
    <3>1. q # p /\ e.pairings[q] = d.pairings[q] /\ ConfirmedOK(d, q, s)
      BY <1>3, <1>4, <2>2 DEF AgreesExcept
    <3>2. d.pairings[q].booking[s] \in BookingId /\ d.pairings[q].request[s] \in RequestId
      BY <2>2, <3>1, Linked
    <3>3. BookingOf(e, q, s) = BookingOf(d, q, s)
      BY <1>6, <2>2, <3>1, <3>2 DEF ConfirmedOK, BookingOf
    <3>4. RequestOf(e, q, s) = RequestOf(d, q, s)
      <4>1. RequestOf(d, q, s).status = "matched"
        BY <2>2, <3>1 DEF ConfirmedOK
      <4> QED BY <3>1, <3>2, <4>1, EndedRequests DEF RequestOf
    <3> QED BY <3>1, <3>3, <3>4 DEF ConfirmedOK
  <2> QED BY <2>1, <2>2
<1>11. Apart(e)
  <2>1. \A q \in PairingId : Open(e, q) => Open(d, q) /\ e.pairings[q] = d.pairings[q]
    BY <1>3, <1>4 DEF Open
  <2> QED BY <2>1 DEF AgreesExcept, Apart
<1>12. ASSUME NEW r \in RequestId
       PROVE  /\ e.requests[r].anchor = d.requests[r].anchor /\ e.requests[r].kind = d.requests[r].kind
              /\ e.requests[r].user = d.requests[r].user
              /\ e.requests[r].status \in OpenRequest => d.requests[r].status \in OpenRequest
  BY <1>12, EndedRequests DEF Closed, OpenRequest
<1>13. OneAnchor(e)
  BY <1>12 DEF AgreesExcept, OneAnchor
<1>14. ASSUME NEW r \in RequestId
       PROVE  RequestOK(e, r)
  <2> DEFINE b == d.requests[r].anchor
  <2>1. CASE e.requests[r].status = "free"
    BY <2>1 DEF RequestOK
  <2>2. CASE e.requests[r].status # "free"
    <3>1. /\ RequestOK(d, r) /\ d.requests[r].status # "free"
          /\ d.requests[r] \in Request /\ b \in BookingId \cup {None}
      BY <1>1, <2>2 DEF AgreesExcept, Keeps, Good, GoodRequest, Request
    <3>2. b # None => /\ Y(b).status = "free" <=> X(b).status = "free"
                      /\ Y(b).user = X(b).user
      BY <1>1, <3>1 DEF Keeps
    <3>3. ASSUME e.requests[r].status \in OpenRequest, b # None
          PROVE  /\ Y(b).status \in Took
                 /\ e.requests[r].kind = "solo_rsvp" => Y(b).pairing = None
                 /\ e.requests[r].kind = "rematch" =>
                        BackedOut(e, b) /\ e.pairings[Y(b).pairing].choice = "rematch"
      <4>1. /\ b \in BookingId /\ X(b).status \in Took
            /\ d.requests[r].kind = "solo_rsvp" => X(b).pairing = None
            /\ d.requests[r].kind = "rematch" =>
                BackedOut(d, b) /\ d.pairings[X(b).pairing].choice = "rematch"
            /\ d.requests[r].kind \in {"solo_rsvp", "rematch"}
        BY <1>12, <3>1, <3>3, ZenonT(60) DEF RequestOK, Request
      <4>2. CASE d.requests[r].kind = "solo_rsvp"
        BY <1>2, <1>5, <1>12, <4>1, <4>2, ZenonT(60) DEF BackedOut
      <4>3. CASE d.requests[r].kind = "rematch"
        <5>1. X(b).pairing \in PairingId \ {p}
          BY <4>1, <4>3, ZenonT(60) DEF BackedOut, Open
        <5>2. Y(b) = X(b) /\ e.pairings[X(b).pairing] = d.pairings[X(b).pairing]
          BY <1>3, <1>6, <4>1, <5>1
        <5> QED BY <1>12, <4>1, <4>3, <5>2, Zenon DEF BackedOut
      <4> QED BY <4>1, <4>2, <4>3, ZenonT(60)
    <3>4. ASSUME e.requests[r].status = "proposed"
          PROVE  \E q \in PairingId, s \in Side : Open(e, q) /\ e.pairings[q].request[s] = r
      <4>1. e.requests[r] = d.requests[r] /\ ~Carries(d, p, r)
        BY <3>4, EndedRequests DEF Closed
      <4>2. PICK q \in PairingId, s \in Side : Open(d, q) /\ d.pairings[q].request[s] = r
        BY <3>1, <3>4, <4>1 DEF RequestOK
      <4>3. q # p
        BY <4>1, <4>2 DEF Carries
      <4> QED BY <1>3, <4>2, <4>3 DEF Open
    <3> HIDE DEF b
    <3>5. e.requests[r].anchor = b
      BY <1>12 DEF b
    <3> QED BY <1>12, <3>1, <3>2, <3>3, <3>4, <3>5, ZenonT(60) DEF RequestOK, b
  <2> QED BY <2>1, <2>2
<1>15. ASSUME NEW c \in BookingId
       PROVE  BookingOK(e, c)
  <2>1. /\ BookingOK(d, c) /\ GoodBooking(Y(c))
        /\ Y(c).status = "free" <=> X(c).status = "free"
        /\ Y(c).user = X(c).user /\ Y(c).shift = X(c).shift
    BY <1>1 DEF AgreesExcept, Keeps, Good
  <2>2. \A q \in PairingId : e.pairings[q].status = "free" <=> d.pairings[q].status = "free"
    BY <1>1 DEF Keeps
  <2>3. \A q \in PairingId : Names(e, q, c) <=> Names(d, q, c)
    BY <1>4 DEF Names
  <2>4. CASE X(c).pairing = p /\ Left(X(c), Y(c))
    <3>1. X(c).status # "free"
      BY <1>5, <2>1, <2>4 DEF BookingOK
    <3>2. d.pairings[p].status # "free"
      BY DEF Open
    <3> HIDE DEF X, Y
    <3> QED BY <2>1, <2>2, <2>4, <3>1, <3>2 DEF BookingOK, Left, Over, X, Y
  <2>5. CASE /\ X(c).pairing = None /\ X(c).status \in Took
             /\ Y(c).status = X(c).status /\ Y(c).pairing = None /\ Y(c).user = X(c).user
             /\ Y(c).shift = X(c).shift /\ Y(c).hold = "none" /\ (Y(c) = X(c) \/ Y(c).kind = "solo")
    <3>1. ~(Y(c).status = "confirmed" /\ Y(c).kind = "paired")
      BY <2>1, <2>5 DEF BookingOK
    <3> QED BY <2>1, <2>5, <3>1 DEF BookingOK
  <2>6. ASSUME Y(c) = X(c), Y(c).pairing # None, Y(c).status # "cancelled", Y(c).pairing # p
        PROVE  /\ Names(e, Y(c).pairing, c)
               /\ \/ e.pairings[Y(c).pairing].status \in LivePairing
                  \/ e.pairings[Y(c).pairing].status = "completed" /\ Y(c).status \in Over
                  \/ BackedOut(e, c)
    <3>1. Y(c).pairing \in PairingId \ {p}
      BY <2>1, <2>6 DEF GoodBooking, Booking
    <3>2. e.pairings[Y(c).pairing] = d.pairings[Y(c).pairing]
      BY <1>3, <3>1
    <3>3. BackedOut(d, c) => BackedOut(e, c)
      BY <2>6, <3>2 DEF BackedOut
    <3> QED BY <2>1, <2>3, <2>6, <3>1, <3>2, <3>3 DEF BookingOK
  <2>7. CASE Y(c) = X(c) /\ X(c).pairing # p /\ ~Names(d, p, c)
    <3>1. ASSUME Y(c).status = "confirmed", Y(c).kind = "paired", Y(c).pairing = None
          PROVE  \E q \in PairingId : Open(e, q) /\ Names(e, q, c)
      <4>1. PICK q \in PairingId : Open(d, q) /\ Names(d, q, c)
        BY <2>1, <2>7, <3>1 DEF BookingOK
      <4>2. q # p
        BY <2>7, <4>1
      <4> QED BY <1>3, <2>3, <4>1, <4>2 DEF Open
    <3>2. Y(c).pairing # None => e.pairings[Y(c).pairing].status # "free"
      <4>1. Y(c).pairing \in PairingId \cup {None}
        BY <2>1 DEF GoodBooking, Booking
      <4> QED BY <2>1, <2>2, <2>7, <4>1 DEF BookingOK
    <3> QED BY <2>1, <2>6, <2>7, <3>1, <3>2 DEF BookingOK
  <2>8. CASE Y(c) = X(c) /\ c = skip /\ ~(X(c).pairing # p /\ ~Names(d, p, c))
    <3>1. skip # None
      BY <2>8 DEF None, BookingId
    <3>2. \/ X(c).status = "cancelled"
          \/ X(c).kind = "solo" /\ X(c).pairing = None
      BY <2>8, <3>1 DEF AgreesExcept, Gone
    <3>3. Y(c).pairing # None => e.pairings[Y(c).pairing].status # "free"
      <4>1. Y(c).pairing \in PairingId \cup {None}
        BY <2>1 DEF GoodBooking, Booking
      <4> QED BY <2>1, <2>2, <2>8, <4>1 DEF BookingOK
    <3> QED BY <2>1, <2>8, <3>2, <3>3 DEF BookingOK
  <2>9. CASE Y(c) = X(c) /\ BackedOut(d, c) /\ X(c).pairing # p
    <3>1. Y(c).pairing # None /\ Y(c).pairing \in PairingId
      BY <1>5, <2>9 DEF BackedOut
    <3>2. e.pairings[Y(c).pairing].status # "free"
      BY <2>1, <2>2, <2>9, <3>1 DEF BookingOK
    <3> QED BY <2>1, <2>6, <2>9, <3>1, <3>2 DEF BookingOK
  <2>10. CASE Y(c) = X(c) /\ X(c).pairing = p /\ ~Names(d, p, c)
    <3>1. X(c).status = "cancelled"
      BY <1>5, <2>1, <2>10 DEF BookingOK
    <3>2. e.pairings[p].status # "free"
      BY <1>4
    <3> QED BY <1>5, <2>1, <2>10, <3>1, <3>2 DEF BookingOK
  <2> HIDE DEF X, Y
  <2> QED BY <1>2, <2>4, <2>5, <2>7, <2>8, <2>9, <2>10
<1> QED BY <1>7, <1>8, <1>9, <1>10, <1>11, <1>13, <1>14, <1>15 DEF Agrees

(* endProposal on its own: nobody is giving a booking up.                  *)
LEMMA EndProposalAgrees ==
    ASSUME NEW d, Good(d), Agrees(d), NEW p \in PairingId, Open(d, p),
           NEW status \in {"declined", "expired"}, NEW actor, NEW keepLooking
    PROVE  Agrees(EndProposal(d, p, status, actor, keepLooking, None))
<1> DEFINE e == EndProposal(d, p, status, actor, keepLooking, None)
<1>1. AgreesExcept(d, None)
  BY AgreesExceptNobody
<1>2. PairOK(d, p) /\ d.pairings[p].status = "proposed"
  BY DEF Agrees, Open
<1>3. ProposalEnded(d, e, p, None)
  BY <1>2, EndProposalRows DEF PairOK
<1>4. \A q \in PairingId, s \in Side : Open(d, q) => d.pairings[q].booking[s] # None
  <2>1. \A q \in PairingId, s \in Side : Open(d, q) => d.pairings[q].booking[s] \in BookingId
    BY Linked DEF Open
  <2> QED BY <2>1 DEF None, BookingId
<1> HIDE DEF e
<1>5. Agrees(e)
  BY <1>1, <1>3, <1>4, EndedAgrees
<1> QED BY <1>5 DEF e

(* The end of cancelBooking: whoever gave a booking up has left the open   *)
(* proposal it was part of.                                                *)
LEMMA EndOpenProposalOfAgrees ==
    ASSUME NEW d, Good(d), NEW b \in BookingId, AgreesExcept(d, b)
    PROVE  Agrees(EndOpenProposalOf(d, b))
<1> DEFINE open == {p \in PairingId : /\ d.pairings[p].status = "proposed"
                                     /\ \E s \in Side : d.pairings[p].booking[s] = b}
           p == CHOOSE q \in open : TRUE
           e == EndProposal(d, p, "declined", d.bookings[b].user, FALSE, b)
<1>1. CASE open = {}
  <2>1. EndOpenProposalOf(d, b) = d
    BY <1>1, Zenon DEF EndOpenProposalOf
  <2>2. \A q \in PairingId, s \in Side : SideOK(d, q, s)
    BY <1>1 DEF AgreesExcept, SideOK, Open
  <2> QED BY <2>1, <2>2 DEF AgreesExcept, Agrees
<1>2. CASE open # {}
  <2>1. p \in open
    BY <1>2, Zenon
  <2>2. p \in PairingId /\ Open(d, p)
    BY <2>1 DEF Open
  <2>3. EndOpenProposalOf(d, b) = e
    BY <1>2, Zenon DEF EndOpenProposalOf
  <2>4. PICK side \in Side : d.pairings[p].booking[side] = b
    BY <2>1, Zenon
  <2>5. \A q \in PairingId, s \in Side : Open(d, q) /\ d.pairings[q].booking[s] = b => q = p /\ s = side
    <3> HIDE DEF p
    <3> QED BY <2>2, <2>4 DEF AgreesExcept, Apart
  <2> HIDE DEF p
  <2>6. PairOK(d, p) /\ d.pairings[p].status = "proposed"
    BY <2>2 DEF AgreesExcept, Open
  <2>7. /\ ProposalEnded(d, e, p, b)
        /\ \A s \in Side : BookingOf(d, p, s).user = d.bookings[b].user /\ ~FALSE
                => e.requests[d.pairings[p].request[s]].status = "cancelled"
    <3> DEFINE actor == d.bookings[b].user
               keepLooking == FALSE
               f == EndProposal(d, p, "declined", actor, keepLooking, b)
    <3> HIDE DEF actor, keepLooking
    <3>1. /\ d.pairings[p].request["a"] # d.pairings[p].request["b"]
          /\ d.pairings[p].booking["a"] # d.pairings[p].booking["b"]
      BY <2>6 DEF PairOK
    <3>2. /\ ProposalEnded(d, f, p, b)
          /\ \A s \in Side : BookingOf(d, p, s).user = actor /\ ~keepLooking
                => f.requests[d.pairings[p].request[s]].status = "cancelled"
      BY <2>2, <2>6, <3>1, EndProposalRows, SMT, ZenonT(60)
    <3> QED BY <3>2, Zenon DEF actor, keepLooking
  <2>8. \A s \in Side : d.pairings[p].booking[s] = b =>
            e.requests[d.pairings[p].request[s]].status = "cancelled"
    BY <2>7, Zenon DEF BookingOf
  <2> HIDE DEF e
  <2>9. Agrees(e)
    BY <2>2, <2>5, <2>7, <2>8, EndedAgrees
  <2> QED BY <2>3, <2>9
<1> QED BY <1>1, <1>2

-----------------------------------------------------------------------------
(* Attendance. *)

(* Attendance is recorded: the hold settled, the row marked.               *)
LEMMA MarkedRows ==
    ASSUME NEW d, Good(d), NEW b \in BookingId, d.bookings[b].status # "free",
           NEW outcome \in HoldOutcome, NEW status \in Over
    PROVE  LET e == Mark(ResolveHold(d, b, outcome), b, status)
               x == d.bookings[b]
               y == e.bookings[b]
           IN  /\ Keeps(d, e) /\ OnlyBookings(d, e, {b}) /\ e.booked = d.booked
               /\ y.status = status /\ y.hold # "held" /\ (x.hold # "none" => y.hold # "none")
               /\ y.pairing = x.pairing /\ y.kind = x.kind /\ y.user = x.user /\ y.shift = x.shift
<1> DEFINE e == ResolveHold(d, b, outcome)
<1>1. /\ OnlyBookings(d, e, {b}) /\ e.booked = d.booked
      /\ SettledRow(d.bookings[b], e.bookings[b])
  BY ResolveHoldRows, Zenon
<1>2. Keeps(d, e) /\ e.bookings[b].hold # "held"
  BY ResolveHoldKeeps
<1> DEFINE row == [e.bookings[b] EXCEPT !.status = status]
           g == Mark(e, b, status)
<1> HIDE DEF e
<1>5. /\ e.bookings[b] \in Booking /\ (d.bookings[b].hold # "none" => e.bookings[b].hold # "none")
      /\ e.bookings[b].pairing = d.bookings[b].pairing
      /\ e.bookings[b].kind = d.bookings[b].kind /\ e.bookings[b].user = d.bookings[b].user
      /\ e.bookings[b].shift = d.bookings[b].shift
  <2>1. e.bookings[b] \in Booking
    BY <1>2 DEF Keeps, Good, DbType
  <2> QED BY <1>1, <2>1 DEF SettledRow
<1>6. Keeps(e, g)
  BY <1>2, MarkKeeps DEF Keeps, Over
<1>7. /\ row.status = status /\ row.hold = e.bookings[b].hold
      /\ row.pairing = e.bookings[b].pairing /\ row.kind = e.bookings[b].kind
      /\ row.user = e.bookings[b].user /\ row.shift = e.bookings[b].shift
  BY <1>5 DEF Booking
<1>8. /\ g.bookings = [e.bookings EXCEPT ![b] = row] /\ e.bookings \in [BookingId -> Booking]
      /\ g.requests = e.requests /\ g.pairings = e.pairings /\ g.booked = e.booked
  BY <1>2 DEF Mark, PutBooking, Keeps, Good, DbType
<1>9. Keeps(d, g)
  BY <1>2, <1>6, KeepsChain
<1> HIDE DEF g, row
<1>10. OnlyBookings(d, g, {b})
  BY <1>1, <1>8 DEF OnlyBookings
<1>11. g.bookings[b] = row
  BY <1>8
<1> QED BY <1>1, <1>2, <1>5, <1>7, <1>8, <1>9, <1>10, <1>11 DEF g, e

(* A booking is recorded as attended, missed or unverified once check-in   *)
(* is open; by then no proposal can still be answered.                     *)
LEMMA MarkedAgrees ==
    ASSUME NEW d, Good(d), Agrees(d), now \in Nat, NEW b \in BookingId, d.bookings[b].status = "confirmed",
           Before(Start[d.bookings[b].shift], CheckInLead) <= now,
           NEW outcome \in HoldOutcome, NEW status \in Over
    PROVE  Agrees(Mark(ResolveHold(d, b, outcome), b, status))
<1> DEFINE e == Mark(ResolveHold(d, b, outcome), b, status)
           x == d.bookings[b]
           y == e.bookings[b]
<1>1. /\ Keeps(d, e) /\ OnlyBookings(d, e, {b})
      /\ y.status = status /\ y.hold # "held" /\ (x.hold # "none" => y.hold # "none")
      /\ y.pairing = x.pairing /\ y.kind = x.kind /\ y.user = x.user /\ y.shift = x.shift
  BY MarkedRows
<1> HIDE DEF e
<1>2. /\ e.requests = d.requests /\ e.pairings = d.pairings
      /\ \A c \in BookingId : c # b => e.bookings[c] = d.bookings[c]
  BY <1>1 DEF OnlyBookings
<1>3. Good(e)
  BY <1>1 DEF Keeps
<1>4. \A c \in BookingId :
        /\ e.bookings[c].pairing = d.bookings[c].pairing /\ e.bookings[c].kind = d.bookings[c].kind
        /\ e.bookings[c].user = d.bookings[c].user /\ e.bookings[c].shift = d.bookings[c].shift
        /\ d.bookings[c].hold # "none" => e.bookings[c].hold # "none"
        /\ d.bookings[c].status \in Took => e.bookings[c].status \in Took
        /\ d.bookings[c].status \in TakesSpot => e.bookings[c].status \in TakesSpot
        /\ e.bookings[c].status = "free" => d.bookings[c].status = "free"
        /\ d.bookings[c].status = "free" => e.bookings[c].status = "free"
  BY <1>1, <1>2 DEF Took, Over, TakesSpot
<1>5. \A p \in PairingId, s \in Side : d.pairings[p].status # "free" =>
            d.pairings[p].booking[s] \in BookingId /\ d.pairings[p].request[s] \in RequestId
  BY Linked
<1>6. /\ "a" \in Side /\ "b" \in Side
      /\ \A c \in BookingId : BackedOut(d, c) => BackedOut(e, c)
  BY <1>2, <1>4 DEF BackedOut, Side
<1>7. ASSUME NEW p \in PairingId
      PROVE  PairOK(e, p) /\ DecisionOK(e, p)
  <2>1. PairOK(d, p) /\ DecisionOK(d, p)
    BY DEF Agrees
  <2>2. CASE d.pairings[p].status = "free"
    BY <1>2, <2>2 DEF PairOK, DecisionOK
  <2>3. CASE d.pairings[p].status # "free"
    <3>1. ASSUME NEW s \in Side
          PROVE  /\ BookingOf(e, p, s).pairing = BookingOf(d, p, s).pairing
                 /\ BookingOf(e, p, s).kind = BookingOf(d, p, s).kind
                 /\ BookingOf(e, p, s).user = BookingOf(d, p, s).user
                 /\ BookingOf(e, p, s).shift = BookingOf(d, p, s).shift
                 /\ BookingOf(d, p, s).hold # "none" => BookingOf(e, p, s).hold # "none"
                 /\ BookingOf(d, p, s).status \in Took => BookingOf(e, p, s).status \in Took
      BY <1>2, <1>4, <1>5, <2>3, SMT, ZenonT(60) DEF BookingOf
    <3>2. PairOK(e, p)
      BY <1>2, <1>6, <2>1, <3>1 DEF PairOK, Open
    <3>3. DecisionOK(e, p)
      BY <1>2, <2>1, <3>1 DEF DecisionOK
    <3> QED BY <3>2, <3>3
  <2> QED BY <2>2, <2>3
<1>8. ASSUME NEW p \in PairingId, NEW s \in Side
      PROVE  SideOK(e, p, s) /\ ConfirmedOK(e, p, s)
  <2>1. SideOK(d, p, s) /\ ConfirmedOK(d, p, s) /\ PairOK(d, p)
    BY DEF Agrees
  <2>2. ASSUME Open(d, p), d.pairings[p].booking[s] = b, now < d.pairings[p].expires
        PROVE  FALSE
    <3>1. d.bookings[b].shift = BookingOf(d, p, "a").shift /\ d.pairings[p].status # "free"
      BY <2>1, <2>2 DEF PairOK, BookingOf, Open, Side
    <3>2. d.pairings[p].expires <= Before(Start[x.shift], RematchLast)
      BY <2>1, <2>2, <3>1 DEF PairOK
    <3>3. /\ Start[x.shift] \in Nat /\ RematchLast \in Nat /\ CheckInLead \in Nat
          /\ CheckInLead <= RematchLast /\ d.pairings[p].expires \in Nat
      <4>1. x.shift \in Shift /\ d.pairings[p].expires \in Nat
        BY <3>1 DEF Good, GoodBooking, GoodPairing, Pairing
      <4> QED BY <4>1, LifecycleAssumption
    <3> HIDE DEF x
    <3> QED BY <2>2, <3>2, <3>3 DEF Before, x
  <2>3. SideOK(e, p, s)
    <3>1. CASE ~Open(d, p)
      BY <1>2, <3>1 DEF SideOK, Open
    <3>2. CASE Open(d, p)
      <4>1. d.pairings[p].booking[s] \in BookingId
        BY <1>5, <3>2 DEF Open
      <4>2. /\ BookingOf(e, p, s).user = BookingOf(d, p, s).user
            /\ BookingOf(e, p, s).pairing = BookingOf(d, p, s).pairing
            /\ BookingOf(d, p, s).status \in TakesSpot => BookingOf(e, p, s).status \in TakesSpot
            /\ now < d.pairings[p].expires => BookingOf(e, p, s).status = BookingOf(d, p, s).status
            /\ RequestOf(e, p, s) = RequestOf(d, p, s)
        BY <1>2, <1>4, <2>2, <3>2, <4>1 DEF BookingOf, RequestOf
      <4> QED BY <1>2, <2>1, <4>2 DEF SideOK, Open
    <3> QED BY <3>1, <3>2
  <2>4. ConfirmedOK(e, p, s)
    <3> SUFFICES ASSUME d.pairings[p].status = "confirmed"
                 PROVE  ConfirmedOK(e, p, s)
      BY <1>2 DEF ConfirmedOK
    <3> DEFINE c == d.pairings[p].booking[s]
    <3>1. c \in BookingId
      BY <1>5
    <3>2. /\ e.bookings[c].pairing = d.bookings[c].pairing /\ e.bookings[c].kind = d.bookings[c].kind
          /\ d.bookings[c].hold # "none" => e.bookings[c].hold # "none"
          /\ d.bookings[c].status \in Took => e.bookings[c].status \in Took
      BY <1>4, <3>1
    <3>3. /\ d.bookings[c].pairing = p /\ d.bookings[c].kind = "paired"
          /\ d.bookings[c].status \in Took /\ d.bookings[c].hold # "none"
          /\ RequestOf(d, p, s).status = "matched"
      BY <2>1, Zenon DEF ConfirmedOK, BookingOf
    <3>4. BookingOf(e, p, s) = e.bookings[c] /\ RequestOf(e, p, s) = RequestOf(d, p, s)
      BY <1>2 DEF BookingOf, RequestOf
    <3> QED BY <3>2, <3>3, <3>4 DEF ConfirmedOK
  <2> QED BY <2>3, <2>4
<1>9. Apart(e) /\ OneAnchor(e)
  BY <1>2 DEF Agrees, Apart, OneAnchor, Open
<1>10. ASSUME NEW r \in RequestId
       PROVE  RequestOK(e, r)
  <2>1. RequestOK(d, r) /\ d.requests[r].anchor \in BookingId \cup {None}
    BY DEF Agrees, Good, GoodRequest, Request
  <2>2. d.requests[r].anchor # None => d.requests[r].anchor \in BookingId
    BY <2>1
  <2>3. \A p \in PairingId : (Open(e, p) <=> Open(d, p)) /\ e.pairings[p] = d.pairings[p]
    BY <1>2 DEF Open
  <2> DEFINE a == d.requests[r].anchor
  <2>4. a # None =>
            /\ e.bookings[a].pairing = d.bookings[a].pairing /\ e.bookings[a].user = d.bookings[a].user
            /\ d.bookings[a].status \in Took => e.bookings[a].status \in Took
            /\ e.bookings[a].status = "free" => d.bookings[a].status = "free"
            /\ BackedOut(d, a) => BackedOut(e, a)
    BY <1>4, <1>6, <2>2
  <2> HIDE DEF a
  <2> QED BY <1>2, <2>1, <2>3, <2>4, Zenon DEF RequestOK, a
<1>11. ASSUME NEW c \in BookingId
       PROVE  BookingOK(e, c)
  <2>1. BookingOK(d, c)
    BY DEF Agrees
  <2>2. \A q \in PairingId : (Names(e, q, c) <=> Names(d, q, c)) /\ (Open(e, q) <=> Open(d, q))
    BY <1>2 DEF Names, Open
  <2>3. d.bookings[c].pairing # None => (Names(e, d.bookings[c].pairing, c) <=> Names(d, d.bookings[c].pairing, c))
    BY <1>2 DEF Names
  <2>4. CASE c # b
    BY <1>2, <1>6, <2>1, <2>2, <2>3, <2>4 DEF BookingOK
  <2>5. CASE c = b
    <3>1. status \notin {"free", "confirmed", "cancelled"}
      BY DEF Over
    <3> QED BY <1>1, <1>2, <1>6, <2>1, <2>3, <2>5, <3>1 DEF BookingOK
  <2> QED BY <2>4, <2>5
<1> HIDE DEF x, y
<1> QED BY <1>7, <1>8, <1>9, <1>10, <1>11 DEF Agrees, e

(* A confirmed pairing completes.                                          *)
LEMMA CompletedAgrees ==
    ASSUME NEW d, Good(d), Agrees(d), NEW p \in PairingId, d.pairings[p].status = "confirmed",
           End[BookingOf(d, p, "a").shift] <= now,
           \A s \in Side : Resolved(BookingOf(d, p, s), p)
    PROVE  Agrees(PutStatus(d, p, "completed"))
<1> DEFINE e == PutStatus(d, p, "completed")
<1>1. /\ e.requests = d.requests /\ e.bookings = d.bookings
      /\ \A q \in PairingId \ {p} : e.pairings[q] = d.pairings[q]
      /\ e.pairings[p].status = "completed"
      /\ e.pairings[p].request = d.pairings[p].request
      /\ e.pairings[p].booking = d.pairings[p].booking
  BY PutStatusRows
<1> HIDE DEF e
<1>2. /\ \A q \in PairingId : /\ e.pairings[q].request = d.pairings[q].request
                              /\ e.pairings[q].booking = d.pairings[q].booking
                              /\ Open(e, q) <=> Open(d, q)
                              /\ Open(d, q) => e.pairings[q] = d.pairings[q]
      /\ \A q \in PairingId, s \in Side : /\ BookingOf(e, q, s) = BookingOf(d, q, s)
                                           /\ RequestOf(e, q, s) = RequestOf(d, q, s)
      /\ \A q \in PairingId, c \in BookingId : Names(e, q, c) <=> Names(d, q, c)
  BY <1>1 DEF Open, BookingOf, RequestOf, Names
<1>3. "a" \in Side /\ "b" \in Side
  BY DEF Side
<1>4. \A c \in BookingId : BackedOut(d, c) =>
        /\ BackedOut(e, c) /\ d.bookings[c].pairing \in PairingId
        /\ e.pairings[d.bookings[c].pairing] = d.pairings[d.bookings[c].pairing]
  BY <1>1 DEF BackedOut
<1>5. ASSUME NEW q \in PairingId
      PROVE  PairOK(e, q) /\ DecisionOK(e, q)
  <2>1. PairOK(d, q) /\ DecisionOK(d, q)
    BY DEF Agrees
  <2>2. PairOK(e, q)
    <3>1. q # p => e.pairings[q] = d.pairings[q]
      BY <1>1
    <3>2. d.pairings[q].status # "free" <=> e.pairings[q].status # "free"
      BY <1>1, <3>1
    <3> QED BY <1>1, <1>2, <1>3, <2>1, <3>1, <3>2 DEF PairOK
  <2>3. DecisionOK(e, q)
    BY <1>1, <1>2, <2>1 DEF DecisionOK
  <2> QED BY <2>2, <2>3
<1>6. ASSUME NEW q \in PairingId, NEW s \in Side
      PROVE  SideOK(e, q, s) /\ ConfirmedOK(e, q, s)
  <2>1. SideOK(d, q, s) /\ ConfirmedOK(d, q, s)
    BY DEF Agrees
  <2> QED BY <1>1, <1>2, <2>1 DEF SideOK, ConfirmedOK
<1>7. Apart(e) /\ OneAnchor(e)
  BY <1>1, <1>2 DEF Agrees, Apart, OneAnchor
<1>8. ASSUME NEW r \in RequestId
      PROVE  RequestOK(e, r)
  <2>1. RequestOK(d, r) /\ d.requests[r].anchor \in BookingId \cup {None}
    BY DEF Agrees, Good, GoodRequest, Request
  <2> QED BY <1>1, <1>2, <1>4, <2>1, ZenonT(60) DEF RequestOK
<1>9. ASSUME NEW c \in BookingId
      PROVE  BookingOK(e, c)
  <2>1. BookingOK(d, c) /\ d.bookings[c].pairing \in PairingId \cup {None}
    BY DEF Agrees, Good, GoodBooking, Booking
  <2>2. CASE d.bookings[c].pairing # p
    <3>1. d.bookings[c].pairing # None => /\ d.bookings[c].pairing \in PairingId
                                          /\ e.pairings[d.bookings[c].pairing]
                                                = d.pairings[d.bookings[c].pairing]
      BY <1>1, <2>1, <2>2
    <3> QED BY <1>1, <1>2, <1>4, <2>1, <2>2, <3>1 DEF BookingOK
  <2>3. CASE d.bookings[c].pairing = p
    <3>1. d.bookings[c].status = "cancelled" \/ Names(d, p, c)
      BY <2>1, <2>3, NoneIsNoRow DEF BookingOK
    <3>2. d.bookings[c].status \in Over \cup {"cancelled"}
      BY <2>3, <3>1 DEF Names, BookingOf, Resolved, Over
    <3>3. d.bookings[c].hold # "held"
      BY <2>1, <3>2 DEF BookingOK, Over
    <3> QED BY <1>1, <1>2, <2>1, <2>3, <3>1, <3>2, <3>3, NoneIsNoRow DEF BookingOK, Over
  <2> QED BY <2>2, <2>3
<1> QED BY <1>5, <1>6, <1>7, <1>8, <1>9 DEF Agrees, e

(* completePairingIfResolved.                                              *)
LEMMA CompleteIfResolvedAgrees ==
    ASSUME NEW d, Good(d), Agrees(d), Good(Db), Keeps(Db, d), NEW p \in PairingId \cup {None}
    PROVE  Agrees(CompleteIfResolved(d, p))
<1> DEFINE done == /\ p # None /\ d.pairings[p].status = "confirmed"
                   /\ End[ShiftOf(p)] <= now
                   /\ \A s \in Side : Resolved(d.bookings[d.pairings[p].booking[s]], p)
<1>1. CompleteIfResolved(d, p) = IF done THEN PutStatus(d, p, "completed") ELSE d
  BY DEF CompleteIfResolved
<1>2. done => p \in PairingId /\ d.pairings[p].status = "confirmed"
  OBVIOUS
<1>3. ASSUME done
      PROVE  /\ End[BookingOf(d, p, "a").shift] <= now
             /\ \A s \in Side : Resolved(BookingOf(d, p, s), p)
  <2>1. d.pairings[p].booking["a"] \in BookingId
    BY <1>2, <1>3, Linked, Zenon DEF Side
  <2>2. BookingOf(d, p, "a").shift = ShiftOf(p)
    BY <1>2, <1>3, <2>1, Columns DEF ShiftOf, BookingOf, Keeps
  <2> QED BY <1>3, <2>2 DEF BookingOf
<1> HIDE DEF done
<1> QED BY <1>1, <1>2, <1>3, CompletedAgrees

-----------------------------------------------------------------------------
(* Searches. *)

(* A request that nothing proposed carries is opened, moved or closed: the *)
(* spot it is for is nobody else's.                                        *)
UnproposedRow(d, r, row) ==
    /\ row.status \in {"searching", "cancelled", "no_match"}
    /\ d.requests[r].status # "proposed"
    /\ \/ /\ row.status = "searching" /\ row.anchor = None /\ row.kind = "standard"
          /\ d.requests[r].status # "matched"
       \/ /\ row.status # "searching" /\ d.requests[r].status = "searching"
          /\ row.user = d.requests[r].user /\ row.kind = d.requests[r].kind
          /\ row.anchor = d.requests[r].anchor

(* One request row is written, and nothing else.                           *)
LEMMA RequestRowAgrees ==
    ASSUME NEW d, Good(d), Agrees(d), NEW e, NEW r \in RequestId,
           UnproposedRow(d, r, e.requests[r]),
           \A q \in RequestId \ {r} : e.requests[q] = d.requests[q],
           e.bookings = d.bookings, e.pairings = d.pairings
    PROVE  Agrees(e)
<1>1. /\ \A p \in PairingId, s \in Side : BookingOf(e, p, s) = BookingOf(d, p, s)
      /\ \A p, c : Names(e, p, c) <=> Names(d, p, c)
      /\ \A p \in PairingId : Open(e, p) <=> Open(d, p)
      /\ \A c : BackedOut(e, c) <=> BackedOut(d, c)
  BY DEF BookingOf, Names, Open, BackedOut
<1>2. "a" \in Side /\ "b" \in Side
  BY DEF Side
<1>3. \A p \in PairingId : PairOK(e, p) /\ DecisionOK(e, p)
  BY <1>1, <1>2 DEF Agrees, PairOK, DecisionOK
<1>4. ASSUME NEW p \in PairingId, NEW s \in Side
      PROVE  SideOK(e, p, s) /\ ConfirmedOK(e, p, s)
  <2>1. SideOK(d, p, s) /\ ConfirmedOK(d, p, s)
    BY DEF Agrees
  <2>2. d.pairings[p].status # "free" => d.pairings[p].request[s] \in RequestId
    BY Linked
  <2>3. SideOK(e, p, s)
    BY <1>1, <2>1, <2>2 DEF SideOK, Open, RequestOf, UnproposedRow
  <2>4. ConfirmedOK(e, p, s)
    BY <1>1, <2>1, <2>2 DEF ConfirmedOK, RequestOf, UnproposedRow
  <2> QED BY <2>3, <2>4
<1>5. Apart(e)
  BY <1>1 DEF Agrees, Apart
<1>6. OneAnchor(e)
  BY DEF Agrees, OneAnchor, UnproposedRow, OpenRequest
<1>7. ASSUME NEW q \in RequestId
      PROVE  RequestOK(e, q)
  <2>1. RequestOK(d, q)
    BY DEF Agrees
  <2>2. CASE q # r
    BY <1>1, <2>1, <2>2, ZenonT(60) DEF RequestOK
  <2>3. CASE q = r
    BY <1>1, <2>1, <2>3, Zenon DEF RequestOK, UnproposedRow, OpenRequest
  <2> QED BY <2>2, <2>3
<1>8. \A c \in BookingId : BookingOK(e, c)
  BY <1>1 DEF Agrees, BookingOK
<1> QED BY <1>3, <1>4, <1>5, <1>6, <1>7, <1>8 DEF Agrees

(* A spot an open search is for is in no open proposal, nor in a confirmed *)
(* pairing: whoever is proposed for it would be this very search.          *)
LEMMA SearchedFor ==
    ASSUME NEW d, Good(d), Agrees(d), NEW r \in RequestId, d.requests[r].status = "searching",
           d.requests[r].anchor # None,
           NEW p \in PairingId, NEW s \in Side, d.pairings[p].booking[s] = d.requests[r].anchor
    PROVE  d.pairings[p].status \notin LivePairing
<1> DEFINE b == d.pairings[p].booking[s]
<1>0. b = d.requests[r].anchor
  OBVIOUS
<1>1. /\ RequestOK(d, r) /\ d.requests[r] \in Request /\ b \in BookingId
      /\ SideOK(d, p, s) /\ ConfirmedOK(d, p, s) /\ \A q \in RequestId : RequestOK(d, q)
  BY DEF Agrees, Good, GoodRequest, Request
<1>2. \/ d.bookings[b].pairing = None
      \/ BackedOut(d, b)
  BY <1>1, Zenon DEF RequestOK, OpenRequest, Request
<1>3. CASE Open(d, p)
  <2>1. /\ d.pairings[p].request[s] \in RequestId
        /\ RequestOf(d, p, s).status = "proposed"
        /\ RequestOf(d, p, s).anchor = None => d.bookings[b].pairing = p
        /\ RequestOf(d, p, s).anchor # None => RequestOf(d, p, s).anchor = b
    <3>1. d.pairings[p].request[s] \in RequestId
      BY <1>3, Linked DEF Open
    <3> QED BY <1>1, <1>3, <3>1 DEF SideOK, BookingOf
  <2>2. RequestOf(d, p, s).anchor # None
    <3> HIDE DEF b
    <3>1. d.bookings[b].pairing # p
      BY <1>2, <1>3 DEF BackedOut, Open, None, PairingId
    <3> QED BY <2>1, <3>1
  <2>3. d.pairings[p].request[s] = r
    <3>1. OneAnchor(d)
      BY DEF Agrees
    <3> HIDE DEF b
    <3> QED BY <1>0, <2>1, <2>2, <3>1 DEF OneAnchor, OpenRequest, RequestOf
  <2> QED BY <2>1, <2>3 DEF RequestOf
<1>4. CASE d.pairings[p].status = "confirmed"
  <2>1. d.bookings[b].pairing = p
    BY <1>1, <1>4 DEF ConfirmedOK, BookingOf
  <2> QED BY <1>2, <1>4, <2>1 DEF BackedOut, None, PairingId
<1> QED BY <1>3, <1>4 DEF Open, LivePairing

(* A rematch search stops, and with it the spot's hold: the spot goes on   *)
(* alone.                                                                  *)
LEMMA RematchStopsAgrees ==
    ASSUME NEW d, Good(d), Agrees(d), NEW r \in RequestId, NEW e,
           d.requests[r].status = "searching", d.requests[r].kind = "rematch",
           UnproposedRow(d, r, e.requests[r]), e.requests[r].status # "searching",
           \A q \in RequestId \ {r} : e.requests[q] = d.requests[q],
           \A c \in BookingId \ {d.requests[r].anchor} : e.bookings[c] = d.bookings[c],
           WentSolo(d.bookings[d.requests[r].anchor], e.bookings[d.requests[r].anchor]),
           e.pairings = d.pairings
    PROVE  Agrees(e)
<1> DEFINE b == d.requests[r].anchor
<1>1. /\ b \in BookingId /\ d.bookings[b].status \in Took /\ BackedOut(d, b)
      /\ d.pairings[d.bookings[b].pairing].choice = "rematch"
  <2>1. RequestOK(d, r) /\ GoodRequest(d.requests[r])
    BY DEF Agrees, Good
  <2> QED BY <2>1, Zenon DEF RequestOK, GoodRequest, OpenRequest, None, BookingId
<1>2. \A p \in PairingId, s \in Side : d.pairings[p].booking[s] = b => d.pairings[p].status \notin LivePairing
  <2>1. b # None
    BY <1>1, NoneIsNoRow
  <2> QED BY <2>1, SearchedFor
<1>3. WentSolo(d.bookings[b], e.bookings[b])
  OBVIOUS
<1>4. \A c \in BookingId : c # b => e.bookings[c] = d.bookings[c]
  OBVIOUS
<1>5. e.requests[r].anchor = b /\ e.requests[r].status \notin OpenRequest
  BY DEF UnproposedRow, OpenRequest
<1> HIDE DEF b
<1>6. \A c \in BookingId : /\ e.bookings[c].user = d.bookings[c].user
                           /\ e.bookings[c].shift = d.bookings[c].shift
                           /\ e.bookings[c].status = d.bookings[c].status
  BY <1>3, <1>4 DEF WentSolo
<1>7. /\ \A p, c : Names(e, p, c) <=> Names(d, p, c)
      /\ \A p : Open(e, p) <=> Open(d, p)
      /\ \A c \in BookingId : c # b => (BackedOut(e, c) <=> BackedOut(d, c))
      /\ "a" \in Side /\ "b" \in Side
  BY <1>4 DEF Names, Open, BackedOut, Side
<1>8. \A p \in PairingId, s \in Side : d.pairings[p].status # "free" =>
            d.pairings[p].booking[s] \in BookingId /\ d.pairings[p].request[s] \in RequestId
  BY Linked, Zenon
<1>9. ASSUME NEW p \in PairingId
      PROVE  PairOK(e, p) /\ DecisionOK(e, p)
  <2>1. PairOK(d, p) /\ DecisionOK(d, p)
    BY DEF Agrees
  <2>2. ASSUME NEW s \in Side, d.pairings[p].status # "free"
        PROVE  /\ BookingOf(e, p, s).user = BookingOf(d, p, s).user
               /\ BookingOf(e, p, s).shift = BookingOf(d, p, s).shift
               /\ d.pairings[p].booking[s] # b => BookingOf(e, p, s) = BookingOf(d, p, s)
    BY <1>4, <1>6, <1>8, <2>2 DEF BookingOf
  <2>3. PairOK(e, p)
    BY <1>7, <2>1, <2>2 DEF PairOK
  <2>4. DecisionOK(e, p)
    BY <1>1, <2>1, <2>2, ZenonT(60) DEF DecisionOK, BookingOf
  <2> QED BY <2>3, <2>4
<1>10. ASSUME NEW p \in PairingId, NEW s \in Side
       PROVE  SideOK(e, p, s) /\ ConfirmedOK(e, p, s)
  <2>1. SideOK(d, p, s) /\ ConfirmedOK(d, p, s)
    BY DEF Agrees
  <2>2. d.pairings[p].status \in LivePairing =>
            BookingOf(e, p, s) = BookingOf(d, p, s) /\ d.pairings[p].request[s] \in RequestId
    BY <1>2, <1>4, <1>8 DEF BookingOf, LivePairing
  <2>3. SideOK(e, p, s)
    BY <1>7, <2>1, <2>2, ZenonT(60) DEF SideOK, Open, RequestOf, LivePairing
  <2>4. ConfirmedOK(e, p, s)
    BY <1>7, <2>1, <2>2 DEF ConfirmedOK, RequestOf, LivePairing
  <2> QED BY <2>3, <2>4
<1>11. Apart(e)
  BY <1>7 DEF Agrees, Apart
<1>12. OneAnchor(e)
  BY <1>5 DEF Agrees, OneAnchor
<1>13. ASSUME NEW q \in RequestId
       PROVE  RequestOK(e, q)
  <2>1. RequestOK(d, q) /\ d.requests[q].anchor \in BookingId \cup {None}
    BY DEF Agrees, Good, GoodRequest, Request
  <2>2. CASE q = r
    BY <1>1, <1>5, <1>6, <2>1, <2>2, ZenonT(60) DEF RequestOK, UnproposedRow, OpenRequest
  <2>3. CASE q # r
    <3>1. e.requests[q] = d.requests[q]
      BY <2>3
    <3>2. d.requests[q].anchor = b => d.requests[q].status \notin OpenRequest
      <4>1. OneAnchor(d) /\ d.requests[r].anchor = b
        BY DEF Agrees, b
      <4>2. b # None /\ d.requests[r].status \in OpenRequest
        BY <1>1, NoneIsNoRow DEF OpenRequest
      <4> QED BY <2>3, <4>1, <4>2 DEF OneAnchor
    <3> DEFINE a == d.requests[q].anchor
    <3>3. a # None => /\ e.bookings[a].status = d.bookings[a].status
                      /\ e.bookings[a].user = d.bookings[a].user
                      /\ a # b => /\ e.bookings[a] = d.bookings[a]
                                  /\ BackedOut(e, a) <=> BackedOut(d, a)
      BY <1>4, <1>6, <1>7, <2>1
    <3> HIDE DEF a
    <3> QED BY <1>7, <2>1, <3>1, <3>2, <3>3, ZenonT(60) DEF RequestOK, a, OpenRequest
  <2> QED BY <2>2, <2>3
<1>14. ASSUME NEW c \in BookingId
       PROVE  BookingOK(e, c)
  <2>1. BookingOK(d, c)
    BY DEF Agrees
  <2>2. CASE c # b
    BY <1>4, <1>7, <2>1, <2>2 DEF BookingOK
  <2>3. CASE c = b
    BY <1>3, <2>1, <2>3 DEF BookingOK, WentSolo
  <2> QED BY <2>2, <2>3
<1> QED BY <1>9, <1>10, <1>11, <1>12, <1>13, <1>14 DEF Agrees

-----------------------------------------------------------------------------
(* Giving a booking up. *)

(* A pairing that gets a choice, if it had none.                           *)
Chosen(x, y) ==
    /\ y.status = x.status /\ y.request = x.request /\ y.booking = x.booking
    /\ y.expires = x.expires /\ y.bailUser = x.bailUser /\ y.bailDeadline = x.bailDeadline
    /\ x.choice # "none" => y.choice = x.choice

(* Somebody gives up a booking, or their partner in it: the searches for   *)
(* that spot end, and its pairing may get its choice.                      *)
GivenUp(d, e, b) ==
    /\ Left(d.bookings[b], e.bookings[b]) \/ WentSolo(d.bookings[b], e.bookings[b])
    /\ \A c \in BookingId : c # b => e.bookings[c] = d.bookings[c]
    /\ \A r \in RequestId :
        IF d.requests[r].anchor = b /\ d.requests[r].status \in OpenRequest
        THEN Closed(d.requests[r], e.requests[r]) /\ e.requests[r].status = "cancelled"
        ELSE e.requests[r] = d.requests[r]
    /\ \A p \in PairingId : Chosen(d.pairings[p], e.pairings[p])

(* Unless they are in a confirmed pairing or still to decide about a       *)
(* cancelled one, only their own open proposal is left to be ended.        *)
LEMMA GivenUpAgrees ==
    ASSUME NEW d, Good(d), Agrees(d), NEW b \in BookingId, d.bookings[b].status # "free",
           NEW e, GivenUp(d, e, b),
           d.bookings[b].pairing # None => d.pairings[d.bookings[b].pairing].status # "confirmed",
           BackedOut(d, b) => e.pairings[d.bookings[b].pairing].choice # "none"
    PROVE  AgreesExcept(e, b)
<1> DEFINE x == d.bookings[b]
           y == e.bookings[b]
<1>1. /\ Left(x, y) \/ WentSolo(x, y)
      /\ y.user = x.user /\ y.shift = x.shift
      /\ y.status = "free" <=> x.status = "free"
  BY DEF GivenUp, Left, WentSolo
<1>2. \A c \in BookingId : c # b => e.bookings[c] = d.bookings[c]
  BY DEF GivenUp
<1>3. \A p \in PairingId : /\ Chosen(d.pairings[p], e.pairings[p])
                           /\ Open(e, p) <=> Open(d, p)
  BY DEF GivenUp, Chosen, Open
<1>4. \A r \in RequestId :
        /\ e.requests[r].user = d.requests[r].user /\ e.requests[r].kind = d.requests[r].kind
        /\ e.requests[r].anchor = d.requests[r].anchor
        /\ e.requests[r].status \in OpenRequest => d.requests[r].anchor # b
        /\ d.requests[r].anchor # b => e.requests[r] = d.requests[r]
        /\ d.requests[r].status \notin OpenRequest => e.requests[r] = d.requests[r]
        /\ e.requests[r] = d.requests[r] \/ e.requests[r].status = "cancelled"
  BY DEF GivenUp, Closed, OpenRequest
<1>5. /\ \A p \in PairingId : \A c : Names(e, p, c) <=> Names(d, p, c)
      /\ \A c \in BookingId : c # b => (BackedOut(e, c) <=> BackedOut(d, c))
      /\ "a" \in Side /\ "b" \in Side
  BY <1>2, <1>3, ZenonT(60) DEF Names, BackedOut, Side, Chosen
<1>6. \A p \in PairingId, s \in Side : d.pairings[p].status # "free" =>
            d.pairings[p].booking[s] \in BookingId /\ d.pairings[p].request[s] \in RequestId
  BY Linked
<1>7. None \notin PairingId /\ None \notin BookingId
  BY DEF None, PairingId, BookingId
<1> HIDE DEF x, y
<1>8. ASSUME NEW p \in PairingId, NEW s \in Side, d.pairings[p].status # "free"
      PROVE  /\ BookingOf(e, p, s).user = BookingOf(d, p, s).user
             /\ BookingOf(e, p, s).shift = BookingOf(d, p, s).shift
             /\ d.pairings[p].booking[s] # b => BookingOf(e, p, s) = BookingOf(d, p, s)
  <2>1. d.pairings[p].booking[s] \in BookingId /\ e.pairings[p].booking = d.pairings[p].booking
    BY <1>3, <1>6, <1>8 DEF Chosen
  <2>2. CASE d.pairings[p].booking[s] = b
    BY <1>1, <2>1, <2>2 DEF BookingOf, x, y
  <2>3. CASE d.pairings[p].booking[s] # b
    BY <1>2, <2>1, <2>3 DEF BookingOf
  <2> QED BY <2>2, <2>3
<1>9. ASSUME NEW p \in PairingId
      PROVE  PairOK(e, p) /\ DecisionOK(e, p)
  <2>1. PairOK(d, p) /\ DecisionOK(d, p)
    BY DEF Agrees
  <2>2. PairOK(e, p)
    BY <1>3, <1>5, <1>8, <2>1 DEF PairOK, Chosen
  <2>3. ASSUME NEW s \in Side, d.pairings[p].booking[s] = b, e.pairings[p].choice = "none",
               d.pairings[p].status = "cancelled",
               x.user = d.pairings[p].bailUser, x.pairing = p, x.kind = "paired", x.hold # "none"
        PROVE  FALSE
    BY <2>3 DEF BackedOut, x
  <2>4. ASSUME e.pairings[p].status = "cancelled", e.pairings[p].bailUser # NoUser,
               e.pairings[p].choice = "none"
        PROVE  DecisionOK(e, p)
    <3>1. /\ d.pairings[p].status = "cancelled" /\ d.pairings[p].choice = "none"
          /\ d.pairings[p].bailUser = e.pairings[p].bailUser
          /\ d.pairings[p].bailDeadline = e.pairings[p].bailDeadline
      BY <1>3, <2>4 DEF Chosen
    <3>2. PICK s \in Side :
            LET bk == BookingOf(d, p, s) IN
            /\ bk.user = d.pairings[p].bailUser
            /\ bk.pairing = p /\ bk.kind = "paired" /\ bk.status \in Took /\ bk.hold # "none"
            /\ d.pairings[p].bailDeadline + BailMin <= Start[bk.shift]
      BY <2>1, <2>4, <3>1 DEF DecisionOK
    <3>3. d.pairings[p].booking[s] # b
      BY <2>3, <2>4, <3>1, <3>2 DEF BookingOf, x
    <3>4. BookingOf(e, p, s) = BookingOf(d, p, s)
      BY <1>8, <3>1, <3>3
    <3> QED BY <3>1, <3>2, <3>4 DEF DecisionOK
  <2> QED BY <2>2, <2>4 DEF DecisionOK
<1>10. ASSUME NEW p \in PairingId, NEW s \in Side
       PROVE  /\ ConfirmedOK(e, p, s)
              /\ IF e.pairings[p].booking[s] = b
                 THEN Open(e, p) => RequestOf(e, p, s).status \in {"proposed", "cancelled"}
                 ELSE SideOK(e, p, s)
  <2>1. SideOK(d, p, s) /\ ConfirmedOK(d, p, s)
    BY DEF Agrees
  <2>2. ConfirmedOK(e, p, s)
    <3>1. CASE e.pairings[p].status # "confirmed"
      BY <3>1 DEF ConfirmedOK
    <3>2. CASE e.pairings[p].status = "confirmed"
      <4>1. d.pairings[p].status = "confirmed" /\ d.pairings[p].request = e.pairings[p].request
        BY <1>3, <3>2 DEF Chosen
      <4>2. d.pairings[p].booking[s] # b
        BY <1>7, <2>1, <4>1 DEF ConfirmedOK, BookingOf
      <4>3. BookingOf(e, p, s) = BookingOf(d, p, s)
        BY <1>8, <4>1, <4>2
      <4>4. RequestOf(e, p, s) = RequestOf(d, p, s)
        BY <1>4, <1>6, <2>1, <4>1 DEF ConfirmedOK, RequestOf, OpenRequest
      <4> QED BY <2>1, <4>1, <4>3, <4>4 DEF ConfirmedOK
    <3> QED BY <3>1, <3>2
  <2>3. ASSUME Open(e, p)
        PROVE  IF e.pairings[p].booking[s] = b
               THEN RequestOf(e, p, s).status \in {"proposed", "cancelled"}
               ELSE SideOK(e, p, s)
    <3>1. /\ Open(d, p) /\ d.pairings[p].status # "free" /\ e.pairings[p].expires = d.pairings[p].expires
          /\ e.pairings[p].request = d.pairings[p].request /\ e.pairings[p].booking = d.pairings[p].booking
      BY <1>3, <2>3 DEF Open, Chosen
    <3>2. d.pairings[p].request[s] \in RequestId /\ RequestOf(d, p, s).status = "proposed"
      BY <1>6, <2>1, <3>1 DEF SideOK
    <3>3. CASE e.pairings[p].booking[s] = b
      BY <1>4, <3>1, <3>2, <3>3 DEF RequestOf
    <3>4. CASE e.pairings[p].booking[s] # b
      <4>1. d.requests[d.pairings[p].request[s]].anchor # b
        BY <1>7, <2>1, <3>1, <3>4 DEF SideOK, RequestOf
      <4>2. RequestOf(e, p, s) = RequestOf(d, p, s)
        BY <1>4, <3>1, <3>2, <4>1 DEF RequestOf
      <4>3. BookingOf(e, p, s) = BookingOf(d, p, s)
        BY <1>8, <3>1, <3>4
      <4> QED BY <2>1, <3>1, <3>4, <4>2, <4>3 DEF SideOK
    <3> QED BY <3>3, <3>4
  <2> QED BY <2>2, <2>3 DEF SideOK
<1>11. Apart(e)
  BY <1>3 DEF Agrees, Apart, Chosen
<1>12. OneAnchor(e)
  BY <1>4 DEF Agrees, OneAnchor, OpenRequest
<1>13. ASSUME NEW r \in RequestId
       PROVE  /\ RequestOK(e, r)
              /\ e.requests[r].anchor = b => e.requests[r].status \notin OpenRequest
  <2>1. RequestOK(d, r) /\ d.requests[r].anchor \in BookingId \cup {None}
    BY DEF Agrees, Good, GoodRequest, Request
  <2> DEFINE a == d.requests[r].anchor
  <2>2. a # None => /\ e.bookings[a].status = "free" <=> d.bookings[a].status = "free"
                    /\ e.bookings[a].user = d.bookings[a].user
                    /\ a # b => /\ e.bookings[a] = d.bookings[a]
                                /\ BackedOut(e, a) <=> BackedOut(d, a)
    <3>1. CASE a = b
      <4> HIDE DEF a
      <4> QED BY <1>1, <3>1 DEF x, y
    <3>2. CASE a # b /\ a # None
      <4>1. a \in BookingId
        BY <2>1, <3>2
      <4> HIDE DEF a
      <4> QED BY <1>2, <1>5, <3>2, <4>1
    <3> QED BY <3>1, <3>2
  <2>3. BackedOut(d, a) /\ d.pairings[d.bookings[a].pairing].choice = "rematch" =>
            e.pairings[d.bookings[a].pairing].choice = "rematch"
    BY <1>3, Zenon DEF BackedOut, Chosen
  <2>4. /\ e.requests[r].user = d.requests[r].user /\ e.requests[r].kind = d.requests[r].kind
        /\ e.requests[r].anchor = a
        /\ e.requests[r].status \in OpenRequest => a # b /\ e.requests[r] = d.requests[r]
        /\ e.requests[r] = d.requests[r] \/ e.requests[r].status = "cancelled"
    BY <1>4
  <2>5. e.requests[r].status = "proposed" =>
            \E p \in PairingId, s \in Side : Open(e, p) /\ e.pairings[p].request[s] = r
    BY <1>3, <2>1, <2>4 DEF RequestOK, Chosen
  <2> HIDE DEF a
  <2>6. CASE e.requests[r] = d.requests[r]
    BY <2>1, <2>2, <2>3, <2>4, <2>5, <2>6, ZenonT(60) DEF RequestOK, a
  <2>7. CASE e.requests[r].status = "cancelled" /\ e.requests[r] # d.requests[r]
    <3>1. d.requests[r].status # "free"
      BY <1>4, <2>7 DEF OpenRequest
    <3> QED BY <2>1, <2>2, <2>4, <2>7, <3>1 DEF RequestOK, a, OpenRequest
  <2> QED BY <2>4, <2>6, <2>7
<1>14. ASSUME NEW c \in BookingId
       PROVE  BookingOK(e, c)
  <2>1. /\ BookingOK(d, c) /\ d.bookings[c].pairing \in PairingId \cup {None}
        /\ GoodBooking(d.bookings[c])
    BY DEF Agrees, Good, GoodBooking, Booking
  <2>2. d.bookings[c].pairing # None =>
            e.pairings[d.bookings[c].pairing].status = d.pairings[d.bookings[c].pairing].status
    BY <1>3, <2>1 DEF Chosen
  <2>3. CASE c # b
    BY <1>2, <1>3, <1>5, <2>1, <2>2, <2>3, Zenon DEF BookingOK
  <2>4. CASE c = b /\ Left(x, y)
    BY <1>1, <2>1, <2>2, <2>4 DEF BookingOK, Left, Over, x, y
  <2>5. CASE c = b /\ WentSolo(x, y)
    BY <1>1, <2>1, <2>2, <2>5 DEF BookingOK, WentSolo, Over, x, y
  <2> QED BY <1>1, <2>3, <2>4, <2>5
<1>15. Gone(e.bookings[b])
  BY <1>1 DEF Gone, Left, WentSolo, y
<1> QED BY <1>9, <1>10, <1>11, <1>12, <1>13, <1>14, <1>15 DEF AgreesExcept

(* The searches anchored to a spot that was given up.                      *)
LEMMA CancelAnchoredRows ==
    ASSUME NEW d, Good(d), NEW b
    PROVE  LET e == CancelAnchored(d, b)
           IN  /\ e.bookings = d.bookings /\ e.pairings = d.pairings /\ e.booked = d.booked
               /\ \A r \in RequestId :
                    IF d.requests[r].anchor = b /\ d.requests[r].status \in OpenRequest
                    THEN Closed(d.requests[r], e.requests[r]) /\ e.requests[r].status = "cancelled"
                    ELSE e.requests[r] = d.requests[r]
<1> DEFINE e == CancelAnchored(d, b)
           row(r) == IF d.requests[r].anchor = b /\ d.requests[r].status \in OpenRequest
                     THEN [d.requests[r] EXCEPT !.status = "cancelled"] ELSE d.requests[r]
<1>1. /\ e.requests = [r \in RequestId |-> row(r)]
      /\ e.bookings = d.bookings /\ e.pairings = d.pairings /\ e.booked = d.booked
  BY DEF CancelAnchored, Good, DbType
<1>2. ASSUME NEW r \in RequestId
      PROVE  IF d.requests[r].anchor = b /\ d.requests[r].status \in OpenRequest
             THEN Closed(d.requests[r], row(r)) /\ row(r).status = "cancelled"
             ELSE row(r) = d.requests[r]
  <2>1. d.requests[r] \in Request
    BY DEF Good, DbType
  <2> QED BY <2>1 DEF Closed, Request
<1> HIDE DEF row
<1>3. \A r \in RequestId : e.requests[r] = row(r)
  BY <1>1
<1> QED BY <1>1, <1>2, <1>3

(* A choice is recorded.                                                   *)
LEMMA ChooseRows ==
    ASSUME NEW d, Good(d), NEW p \in PairingId, d.pairings[p].choice = "none", NEW choice
    PROVE  LET e == Choose(d, p, choice)
           IN  /\ e.requests = d.requests /\ e.bookings = d.bookings /\ e.booked = d.booked
               /\ \A q \in PairingId : Chosen(d.pairings[q], e.pairings[q])
               /\ e.pairings[p].choice = choice
               /\ \A q \in PairingId \ {p} : e.pairings[q] = d.pairings[q]
<1> DEFINE row == [d.pairings[p] EXCEPT !.choice = choice]
           e == Choose(d, p, choice)
<1>1. d.pairings[p] \in Pairing
  BY DEF Good, GoodPairing
<1>2. Chosen(d.pairings[p], row) /\ row.choice = choice
  BY <1>1 DEF Chosen, Pairing
<1>3. /\ e.pairings = [d.pairings EXCEPT ![p] = row] /\ e.requests = d.requests
      /\ e.bookings = d.bookings /\ e.booked = d.booked
  BY DEF Choose, PutPairing, Good, DbType
<1> HIDE DEF row, e
<1>4. e.pairings[p] = row /\ \A q \in PairingId \ {p} : e.pairings[q] = d.pairings[q]
  BY <1>3 DEF Good, DbType
<1>5. \A q \in PairingId : Chosen(d.pairings[q], e.pairings[q])
  BY <1>2, <1>4 DEF Chosen
<1> QED BY <1>2, <1>3, <1>4, <1>5 DEF e

(* A booking is given up or kept solo, a choice perhaps recorded, and the  *)
(* searches for the spot end.                                              *)
LEMMA GivenUpRows ==
    ASSUME NEW d, Good(d), NEW b \in BookingId, NEW f, OnlyBookings(d, f, {b}),
           Left(d.bookings[b], f.bookings[b]) \/ WentSolo(d.bookings[b], f.bookings[b]),
           NEW g, Good(g), g.bookings = f.bookings, g.requests = f.requests,
           \A p \in PairingId : Chosen(d.pairings[p], g.pairings[p])
    PROVE  GivenUp(d, CancelAnchored(g, b), b)
<1> DEFINE e == CancelAnchored(g, b)
<1>1. /\ e.bookings = g.bookings /\ e.pairings = g.pairings
      /\ \A r \in RequestId :
            IF g.requests[r].anchor = b /\ g.requests[r].status \in OpenRequest
            THEN Closed(g.requests[r], e.requests[r]) /\ e.requests[r].status = "cancelled"
            ELSE e.requests[r] = g.requests[r]
  BY CancelAnchoredRows
<1> HIDE DEF e
<1>2. g.requests = d.requests /\ \A c \in BookingId : c # b => e.bookings[c] = d.bookings[c]
  BY <1>1 DEF OnlyBookings
<1>3. Left(d.bookings[b], e.bookings[b]) \/ WentSolo(d.bookings[b], e.bookings[b])
  BY <1>1
<1>4. \A r \in RequestId :
        IF d.requests[r].anchor = b /\ d.requests[r].status \in OpenRequest
        THEN Closed(d.requests[r], e.requests[r]) /\ e.requests[r].status = "cancelled"
        ELSE e.requests[r] = d.requests[r]
  BY <1>1, <1>2
<1>5. \A p \in PairingId : Chosen(d.pairings[p], e.pairings[p])
  BY <1>1
<1> QED BY <1>2, <1>3, <1>4, <1>5 DEF GivenUp, e

(* A confirmed pairing loses one side; the partner on the other is asked   *)
(* what to do, or keeps the spot alone when it is too late to ask.         *)
LeftBehind(d, e, p, s, o) ==
    LET b == d.pairings[p].booking[o]
        partner == d.pairings[p].booking[s]
        x == d.pairings[p]
        y == e.pairings[p]
    IN  /\ \A q \in PairingId : q # p => e.pairings[q] = d.pairings[q]
        /\ y.status = "cancelled" /\ y.request = x.request /\ y.booking = x.booking
        /\ y.bailUser = d.bookings[partner].user
        /\ e.requests = d.requests
        /\ \A c \in BookingId \ {b, partner} : e.bookings[c] = d.bookings[c]
        /\ Left(d.bookings[b], e.bookings[b]) \/ WentSolo(d.bookings[b], e.bookings[b])
        /\ \/ /\ e.bookings[partner] = d.bookings[partner]
              /\ y.bailDeadline + BailMin <= Start[d.bookings[partner].shift]
           \/ WentSolo(d.bookings[partner], e.bookings[partner]) /\ y.choice # "none"

(* The bookings of a confirmed pairing are in nothing else: no open        *)
(* proposal, no other confirmed pairing, and nobody searches for them.     *)
LEMMA ConfirmedOnly ==
    ASSUME NEW d, Good(d), Agrees(d), NEW p \in PairingId, d.pairings[p].status = "confirmed",
           NEW s \in Side
    PROVE  LET b == d.pairings[p].booking[s] IN
           /\ b \in BookingId /\ d.bookings[b].pairing = p
           /\ \A q \in PairingId, t \in Side :
                q # p /\ d.pairings[q].booking[t] = b => d.pairings[q].status \notin LivePairing
           /\ \A r \in RequestId : d.requests[r].anchor = b => d.requests[r].status \notin OpenRequest
<1> DEFINE b == d.pairings[p].booking[s]
<1>1. b \in BookingId /\ d.bookings[b].pairing = p /\ b # None
  <2>1. b \in BookingId
    BY Linked
  <2>2. d.bookings[b].pairing = p
    BY DEF Agrees, ConfirmedOK, BookingOf
  <2> QED BY <2>1, <2>2 DEF None, BookingId
<1>2. ~BackedOut(d, b) /\ d.bookings[b].pairing # None
  BY <1>1 DEF BackedOut, None, PairingId
<1> HIDE DEF b
<1>3. ASSUME NEW q \in PairingId, NEW t \in Side, q # p, d.pairings[q].booking[t] = b
      PROVE  d.pairings[q].status \notin LivePairing
  <2>1. SideOK(d, q, t) /\ ConfirmedOK(d, q, t) /\ \A r \in RequestId : RequestOK(d, r)
    BY DEF Agrees
  <2>2. CASE Open(d, q)
    <3>1. d.bookings[b].pairing = q \/ d.bookings[b].pairing = None \/ BackedOut(d, b)
      <4>1. TiedTo(d, q, t)
        BY <2>1, <2>2, OpenSide
      <4> QED BY <1>3, <4>1, Zenon DEF TiedTo
    <3> QED BY <1>1, <1>2, <1>3, <3>1
  <2>3. CASE d.pairings[q].status = "confirmed"
    BY <1>1, <1>3, <2>1, <2>3 DEF ConfirmedOK, BookingOf
  <2> QED BY <2>2, <2>3 DEF Open, LivePairing
<1>4. ASSUME NEW r \in RequestId, d.requests[r].anchor = b
      PROVE  d.requests[r].status \notin OpenRequest
  <2>1. RequestOK(d, r) /\ d.requests[r] \in Request
    BY DEF Agrees, Good, GoodRequest
  <2> QED BY <1>1, <1>2, <1>4, <2>1 DEF RequestOK, Request, OpenRequest
<1> QED BY <1>1, <1>3, <1>4 DEF b

(* A partner backs out of a confirmed pairing, and everything agrees.      *)
LEMMA LeftBehindAgrees ==
    ASSUME NEW d, Good(d), Agrees(d), NEW p \in PairingId, d.pairings[p].status = "confirmed",
           NEW s \in Side, NEW o \in Side, s # o, NEW e, Keeps(d, e), LeftBehind(d, e, p, s, o)
    PROVE  Agrees(e) /\ \A q \in PairingId, t \in Side :
                            Open(e, q) => d.pairings[q].booking[t] # d.pairings[p].booking[o]
<1> DEFINE b == d.pairings[p].booking[o]
           partner == d.pairings[p].booking[s]
           x == d.pairings[p]
           y == e.pairings[p]
<1>1. /\ \A q \in PairingId : q # p => e.pairings[q] = d.pairings[q]
      /\ y.status = "cancelled" /\ y.request = x.request /\ y.booking = x.booking
      /\ y.bailUser = d.bookings[partner].user
      /\ e.requests = d.requests
      /\ \A c \in BookingId \ {b, partner} : e.bookings[c] = d.bookings[c]
      /\ Left(d.bookings[b], e.bookings[b]) \/ WentSolo(d.bookings[b], e.bookings[b])
      /\ \/ /\ e.bookings[partner] = d.bookings[partner]
            /\ y.bailDeadline + BailMin <= Start[d.bookings[partner].shift]
         \/ WentSolo(d.bookings[partner], e.bookings[partner]) /\ y.choice # "none"
  BY Zenon DEF LeftBehind
<1>2. /\ \A t \in Side : t = s \/ t = o
      /\ "a" \in Side /\ "b" \in Side
  BY DEF Side
<1>3. ASSUME NEW c \in {b, partner}
      PROVE  /\ c \in BookingId /\ d.bookings[c].pairing = p
             /\ \A q \in PairingId, t \in Side :
                    q # p /\ d.pairings[q].booking[t] = c => d.pairings[q].status \notin LivePairing
             /\ \A r \in RequestId : d.requests[r].anchor = c => d.requests[r].status \notin OpenRequest
  <2>1. PICK t \in Side : c = d.pairings[p].booking[t]
    OBVIOUS
  <2> HIDE DEF b, partner
  <2> QED BY <2>1, ConfirmedOnly
<1>4. /\ partner # b /\ PairOK(d, p)
      /\ d.bookings[partner].kind = "paired" /\ d.bookings[partner].status \in Took
      /\ d.bookings[partner].hold # "none"
  <2>1. PairOK(d, p) /\ ConfirmedOK(d, p, s)
    BY DEF Agrees
  <2>2. partner # b
    BY <2>1 DEF PairOK, Side
  <2> QED BY <2>1, <2>2 DEF ConfirmedOK, BookingOf
<1>5. /\ \A c \in BookingId : Names(d, p, c) <=> c \in {b, partner}
      /\ \A q \in PairingId, c \in BookingId : Names(e, q, c) <=> Names(d, q, c)
  BY <1>1, <1>2, ZenonT(60) DEF Names
<1> HIDE DEF b, partner
<1>6. \A q \in PairingId : /\ Open(e, q) <=> Open(d, q)
                           /\ Open(e, q) => q # p
  BY <1>1 DEF Open, x, y
<1>7. /\ \A c \in BookingId : /\ e.bookings[c].user = d.bookings[c].user
                              /\ e.bookings[c].shift = d.bookings[c].shift
                              /\ e.bookings[c].status = "free" <=> d.bookings[c].status = "free"
      /\ \A q \in PairingId : /\ e.pairings[q].request = d.pairings[q].request
                              /\ e.pairings[q].booking = d.pairings[q].booking
                              /\ e.pairings[q].status = "free" <=> d.pairings[q].status = "free"
  BY DEF Keeps
<1>8. \A q \in PairingId, t \in Side : d.pairings[q].status # "free" =>
            d.pairings[q].booking[t] \in BookingId /\ d.pairings[q].request[t] \in RequestId
  BY Linked
<1> HIDE DEF x, y
<1>9. ASSUME NEW q \in PairingId, NEW t \in Side, d.pairings[q].status \in LivePairing, q # p
      PROVE  BookingOf(e, q, t) = BookingOf(d, q, t) /\ RequestOf(e, q, t) = RequestOf(d, q, t)
  <2>1. d.pairings[q].booking[t] \in BookingId \ {b, partner}
    BY <1>3, <1>8, <1>9 DEF LivePairing
  <2> QED BY <1>1, <1>9, <2>1 DEF BookingOf, RequestOf
<1>10. ASSUME NEW q \in PairingId
       PROVE  PairOK(e, q)
  <2>1. PairOK(d, q)
    BY DEF Agrees
  <2>2. CASE d.pairings[q].status = "free"
    BY <1>7, <2>2 DEF PairOK
  <2>3. CASE d.pairings[q].status # "free"
    <3>1. ASSUME NEW t \in Side
          PROVE  /\ BookingOf(e, q, t).user = BookingOf(d, q, t).user
                 /\ BookingOf(e, q, t).shift = BookingOf(d, q, t).shift
      BY <1>7, <1>8, <2>3, ZenonT(60) DEF BookingOf
    <3>2. e.pairings[q].status \in {"proposed", "completed"} => e.pairings[q] = d.pairings[q]
      BY <1>1 DEF y
    <3> HIDE DEF Open
    <3> QED BY <1>1, <1>2, <1>6, <1>7, <2>1, <2>3, <3>1, <3>2 DEF PairOK, Open
  <2> QED BY <2>2, <2>3
<1>11. ASSUME NEW q \in PairingId
       PROVE  DecisionOK(e, q)
  <2>1. CASE q = p
    <3>1. CASE WentSolo(d.bookings[partner], e.bookings[partner]) /\ y.choice # "none"
      BY <2>1, <3>1 DEF DecisionOK, y
    <3>2. CASE /\ e.bookings[partner] = d.bookings[partner]
               /\ y.bailDeadline + BailMin <= Start[d.bookings[partner].shift]
      <4>1. BookingOf(e, p, s) = d.bookings[partner]
        BY <1>7, <3>2 DEF BookingOf, partner
      <4> QED BY <1>1, <1>3, <1>4, <2>1, <3>2, <4>1 DEF DecisionOK, y
    <3> QED BY <1>1, <3>1, <3>2
  <2>2. CASE q # p
    <3>1. DecisionOK(d, q) /\ e.pairings[q] = d.pairings[q]
      BY <1>1, <2>2 DEF Agrees
    <3>2. ASSUME NEW t \in Side, d.pairings[q].status # "free", BookingOf(d, q, t).pairing = q
          PROVE  BookingOf(e, q, t) = BookingOf(d, q, t)
      <4>1. d.pairings[q].booking[t] \in BookingId \ {b, partner}
        BY <1>3, <1>8, <2>2, <3>2 DEF BookingOf
      <4> QED BY <1>1, <3>1, <4>1 DEF BookingOf
    <3> QED BY <3>1, <3>2 DEF DecisionOK
  <2> QED BY <2>1, <2>2
<1>12. ASSUME NEW q \in PairingId, NEW t \in Side
       PROVE  SideOK(e, q, t) /\ ConfirmedOK(e, q, t)
  <2>1. SideOK(d, q, t) /\ ConfirmedOK(d, q, t)
    BY DEF Agrees
  <2>2. CASE q = p
    BY <1>1, <2>2 DEF SideOK, ConfirmedOK, Open, y
  <2>3. CASE q # p
    <3>1. e.pairings[q] = d.pairings[q]
      BY <1>1, <2>3
    <3>2. SideOK(e, q, t)
      BY <1>9, <2>1, <2>3, <3>1 DEF SideOK, Open, LivePairing
    <3>3. ConfirmedOK(e, q, t)
      BY <1>9, <2>1, <2>3, <3>1 DEF ConfirmedOK, LivePairing
    <3> QED BY <3>2, <3>3
  <2> QED BY <2>2, <2>3
<1>13. Apart(e) /\ OneAnchor(e)
  BY <1>1, <1>6, <1>7 DEF Agrees, Apart, OneAnchor
<1>14. ASSUME NEW c \in BookingId, BackedOut(d, c)
       PROVE  /\ c \notin {b, partner} /\ e.bookings[c] = d.bookings[c] /\ BackedOut(e, c)
              /\ e.pairings[d.bookings[c].pairing] = d.pairings[d.bookings[c].pairing]
  <2>1. d.bookings[c].pairing \in PairingId \ {p}
    BY <1>14 DEF BackedOut
  <2>2. c \notin {b, partner}
    BY <1>3, <2>1
  <2> QED BY <1>1, <1>14, <2>1, <2>2 DEF BackedOut
<1>15. ASSUME NEW r \in RequestId
       PROVE  RequestOK(e, r)
  <2>1. RequestOK(d, r) /\ d.requests[r].anchor \in BookingId \cup {None}
    BY DEF Agrees, Good, GoodRequest, Request
  <2> DEFINE a == d.requests[r].anchor
  <2>2. d.requests[r].status \in OpenRequest /\ a # None => e.bookings[a] = d.bookings[a]
    BY <1>1, <1>3, <2>1
  <2>3. d.requests[r].status = "proposed" =>
            \E q \in PairingId, t \in Side : Open(e, q) /\ e.pairings[q].request[t] = r
    <3> SUFFICES ASSUME d.requests[r].status = "proposed"
                 PROVE  \E q \in PairingId, t \in Side : Open(e, q) /\ e.pairings[q].request[t] = r
      OBVIOUS
    <3>1. PICK q \in PairingId, t \in Side : Open(d, q) /\ d.pairings[q].request[t] = r
      BY <2>1, Zenon DEF RequestOK
    <3> QED BY <1>6, <1>7, <3>1
  <2>4. a # None => /\ e.bookings[a].user = d.bookings[a].user
                    /\ e.bookings[a].status = "free" <=> d.bookings[a].status = "free"
                    /\ BackedOut(d, a) => BackedOut(e, a) /\ e.pairings[d.bookings[a].pairing] = d.pairings[d.bookings[a].pairing]
    BY <1>7, <1>14, <2>1
  <2>5. e.requests[r] = d.requests[r]
    BY <1>1
  <2> HIDE DEF a
  <2> QED BY <2>1, <2>2, <2>3, <2>4, <2>5, Zenon DEF RequestOK, a
<1>16. ASSUME NEW c \in BookingId
       PROVE  BookingOK(e, c)
  <2>1. /\ BookingOK(d, c) /\ d.bookings[c].pairing \in PairingId \cup {None}
        /\ GoodBooking(d.bookings[c]) /\ GoodBooking(e.bookings[c])
    BY DEF Agrees, Good, GoodBooking, Booking, Keeps
  <2>2. CASE c \notin {b, partner}
    <3>1. e.bookings[c] = d.bookings[c]
      BY <1>1, <2>2
    <3>2. d.bookings[c].status # "cancelled" /\ d.bookings[c].pairing # None =>
            d.bookings[c].pairing # p
      BY <1>5, <2>1, <2>2 DEF BookingOK
    <3>3. d.bookings[c].pairing # None =>
            /\ e.pairings[d.bookings[c].pairing].status # "free"
            /\ d.bookings[c].pairing # p =>
                e.pairings[d.bookings[c].pairing] = d.pairings[d.bookings[c].pairing]
      BY <1>1, <1>7, <2>1 DEF BookingOK
    <3>4. d.bookings[c].status = "confirmed" /\ d.bookings[c].kind = "paired" /\ d.bookings[c].pairing = None
            => \E q \in PairingId : Open(e, q) /\ Names(e, q, c)
      BY <1>5, <1>6, <2>1 DEF BookingOK
    <3>5. d.bookings[c].pairing # None => (Names(e, d.bookings[c].pairing, c) <=> Names(d, d.bookings[c].pairing, c))
      BY <1>5, <2>1
    <3> QED BY <1>14, <2>1, <3>1, <3>2, <3>3, <3>4, <3>5 DEF BookingOK
  <2>3. CASE c \in {b, partner} /\ Left(d.bookings[c], e.bookings[c])
    BY <1>1, <1>3, <2>1, <2>3 DEF BookingOK, Left, Over, y
  <2>4. CASE c \in {b, partner} /\ WentSolo(d.bookings[c], e.bookings[c])
    BY <1>3, <1>7, <2>1, <2>4 DEF BookingOK, WentSolo
  <2>5. CASE c = partner /\ e.bookings[c] = d.bookings[c]
    <3>1. BackedOut(e, c) /\ Names(e, p, c)
      BY <1>1, <1>3, <1>4, <1>5, <2>5 DEF BackedOut, y
    <3>2. d.bookings[c].pairing = p /\ p # None /\ e.pairings[p].status = "cancelled"
      BY <1>1, <1>3, <2>5 DEF None, PairingId, y
    <3> QED BY <2>1, <2>5, <3>1, <3>2 DEF BookingOK
  <2> QED BY <1>1, <2>2, <2>3, <2>4, <2>5
<1>17. ASSUME NEW q \in PairingId, NEW t \in Side, Open(e, q)
       PROVE  d.pairings[q].booking[t] # b
  BY <1>3, <1>6, <1>17 DEF Open, LivePairing
<1> QED BY <1>10, <1>11, <1>12, <1>13, <1>15, <1>16, <1>17 DEF Agrees, b
=============================================================================
