--------------------------- MODULE AgreementSteps ---------------------------
(***************************************************************************)
(* Every operation of Lifecycle keeps the tables in agreement: one lemma   *)
(* for each action, InitAgrees, StepAgrees, and what follows for the       *)
(* properties the runs check.                                              *)
(***************************************************************************)
EXTENDS AgreementProofs

(* partnerBackedOut: what it leaves of a confirmed pairing one side of     *)
(* which has just gone.                                                    *)
LEMMA PartnerBackedOutRows ==
    ASSUME IInv, Agrees(Db), NEW p \in PairingId, pairings[p].status = "confirmed",
           NEW s \in Side, NEW o \in Side, s # o, NEW b, b = pairings[p].booking[o],
           NEW d, Keeps(Db, d), OnlyBookings(Db, d, {b}),
           Left(bookings[b], d.bookings[b]) \/ WentSolo(bookings[b], d.bookings[b])
    PROVE  LET e == PartnerBackedOut(d, p, bookings[b].user)
           IN  /\ LeftBehind(Db, e, p, s, o)
               /\ e.booked = d.booked /\ e.bookings[b] = d.bookings[b]
<1> DEFINE partner == pairings[p].booking[s]
           deadline == Earlier(now + BailDecisionTime, Before(Start[ShiftOf(p)], BailMin))
           late == deadline <= now
           until == Later(deadline, now)
           choice == IF late THEN "auto_release" ELSE d.pairings[p].choice
           row == [d.pairings[p] EXCEPT
                    !.status = "cancelled", !.bailUser = bookings[partner].user,
                    !.bailDeadline = until, !.choice = choice]
           asked == PutPairing(d, p, row)
           e == PartnerBackedOut(d, p, bookings[b].user)
<1>1. Good(Db) /\ Good(d) /\ d.pairings = pairings /\ d.requests = requests
  BY Columns DEF IInv, Keeps, OnlyBookings
<1>2. /\ partner \in BookingId /\ bookings[partner].status # "free"
      /\ b \in BookingId /\ partner # b /\ bookings[partner].user # bookings[b].user
      /\ ShiftOf(p) = bookings[partner].shift /\ ShiftOf(p) \in Shift
  <2>1. PairOK(Db, p)
    BY DEF Agrees
  <2>2. /\ partner \in BookingId /\ bookings[partner].status # "free"
        /\ bookings[partner].shift \in Shift /\ b \in BookingId
    BY <1>1, Linked, Columns, Zenon
  <2> QED BY <2>1, <2>2, Columns DEF PairOK, BookingOf, Side, ShiftOf
<1>3. (IF UserOn(p, "a") = bookings[b].user THEN "b" ELSE "a") = s
  BY <1>2 DEF UserOn, Side
<1>4. e = IF late THEN KeepSpotSoloAfterRelease(asked, partner) ELSE asked
  BY <1>1, <1>3, Zenon DEF PartnerBackedOut, UserOn
<1>5. until \in Nat /\ (~late => until + BailMin <= Start[bookings[partner].shift])
  <2>1. now \in Nat /\ BailDecisionTime \in Nat /\ BailMin \in Nat /\ Start[ShiftOf(p)] \in Nat
    BY <1>2, Times, LifecycleAssumption
  <2> DEFINE t == Start[ShiftOf(p)]
  <2>2. t = Start[bookings[partner].shift] /\ deadline = Earlier(now + BailDecisionTime, Before(t, BailMin))
    BY <1>2
  <2> HIDE DEF t, partner, deadline
  <2>3. deadline \in Nat /\ (0 < deadline => deadline + BailMin <= t)
    BY <2>1, <2>2 DEF Earlier, Before, t
  <2> QED BY <2>1, <2>2, <2>3 DEF Later
<1>6. /\ asked.requests = requests /\ asked.bookings = d.bookings /\ asked.booked = d.booked
      /\ asked.pairings = [pairings EXCEPT ![p] = row] /\ pairings[p] \in Pairing
  BY <1>1, Columns DEF PutPairing, Good, DbType
<1>7. choice \in {"none", "release", "rematch", "auto_release", "no_response_release"}
  BY <1>1, <1>6 DEF Pairing
<1>8. /\ row \in Pairing /\ row.status = "cancelled" /\ row.request = pairings[p].request
      /\ row.booking = pairings[p].booking /\ row.bailUser = bookings[partner].user
      /\ row.bailDeadline = until /\ row.choice = choice
  <2>1. bookings[partner].user \in User
    BY <1>1, Linked, Columns, Zenon
  <2> HIDE DEF until, choice, partner
  <2> QED BY <1>1, <1>5, <1>6, <1>7, <2>1, ZenonT(60) DEF Pairing
<1> HIDE DEF deadline, late, until, choice, partner, row
<1>9. Keeps(d, asked)
  BY <1>1, <1>8, PutPairingKeeps
<1> HIDE DEF asked, e
<1>10. /\ \A q \in PairingId : q # p => asked.pairings[q] = pairings[q]
       /\ asked.pairings[p] = row
       /\ asked.bookings[partner] = bookings[partner]
       /\ \A c \in BookingId \ {b} : asked.bookings[c] = bookings[c]
  BY <1>1, <1>2, <1>6, Columns, SMT, ZenonT(60) DEF Good, DbType, OnlyBookings
<1>11. asked.bookings[b] = d.bookings[b] /\ Good(asked)
  BY <1>6, <1>9 DEF Keeps
<1>12. ASSUME ~late
       PROVE  /\ LeftBehind(Db, e, p, s, o)
              /\ e.booked = d.booked /\ e.bookings[b] = d.bookings[b]
  <2>1. e = asked
    BY <1>4, <1>12
  <2>2. /\ \A q \in PairingId : q # p => e.pairings[q] = pairings[q]
        /\ \A c \in BookingId \ {b, partner} : e.bookings[c] = bookings[c]
        /\ e.bookings[partner] = bookings[partner] /\ e.bookings[b] = d.bookings[b]
        /\ e.pairings[p] = row /\ e.requests = requests
    BY <1>6, <1>10, <1>11, <2>1, Zenon
  <2>3. LeftBehind(Db, e, p, s, o)
    BY <1>5, <1>8, <1>12, <2>2, Columns DEF LeftBehind, partner
  <2> QED BY <1>6, <2>1, <2>2, <2>3
<1>13. ASSUME late
       PROVE  /\ LeftBehind(Db, e, p, s, o)
              /\ e.booked = d.booked /\ e.bookings[b] = d.bookings[b]
  <2>1. /\ OnlyBookings(asked, e, {partner}) /\ WentSolo(asked.bookings[partner], e.bookings[partner])
        /\ e.booked = asked.booked
    BY <1>2, <1>4, <1>10, <1>11, <1>13, KeepSpotSoloRows, Zenon
  <2>2. /\ e.requests = requests /\ e.pairings = asked.pairings
        /\ WentSolo(bookings[partner], e.bookings[partner])
        /\ e.bookings[b] = d.bookings[b]
        /\ \A c \in BookingId \ {b, partner} : e.bookings[c] = bookings[c]
    BY <1>2, <1>6, <1>10, <1>11, <2>1 DEF OnlyBookings
  <2>3. row.choice # "none"
    BY <1>8, <1>13 DEF choice
  <2>4. LeftBehind(Db, e, p, s, o)
    BY <1>8, <1>10, <2>2, <2>3, Columns, SMT, ZenonT(60) DEF LeftBehind, partner
  <2> QED BY <1>6, <2>1, <2>2, <2>4
<1> QED BY <1>12, <1>13 DEF e

(* cancelBooking of one's own accord, all but its last step: the booking   *)
(* is gone, and so is every search for its spot.                           *)
LEMMA CancelOwnRows ==
    ASSUME IInv, NEW b \in BookingId, bookings[b].status # "free", NEW type, NEW keepSpotSolo
    PROVE  \E d :
            /\ Keeps(Db, d) /\ OnlyBookings(Db, d, {b})
            /\ IF keepSpotSolo /\ CanKeepSpotSolo(b)
               THEN WentSolo(bookings[b], d.bookings[b]) /\ d.booked = booked
               ELSE /\ Left(bookings[b], d.bookings[b])
                    /\ d.booked = ReleaseSpots(Db, bookings[b].shift, 1).booked
            /\ CancelOwn(b, type, keepSpotSolo) = EndOpenProposalOf(
                    IF PairingStatusOf(b) = "confirmed"
                    THEN PartnerBackedOut(CancelAnchored(d, b), bookings[b].pairing, bookings[b].user)
                    ELSE CancelAnchored(d, b), b)
<1> DEFINE late == type = "late"
           outcome == IF late THEN "forfeited" ELSE "released"
           settled == ResolveHold(Db, b, outcome)
           solo == SoloRow(settled, b, late)
           cancelled == CancelRow(settled, b, late)
           kept == keepSpotSolo /\ CanKeepSpotSolo(b)
           gone == IF kept THEN solo ELSE cancelled
<1>1. Good(Db) /\ Db.bookings = bookings /\ Db.booked = booked
  BY Columns DEF IInv
<1>2. outcome \in HoldOutcome /\ late \in BOOLEAN
  BY DEF HoldOutcome
<1>3. CancelOwn(b, type, keepSpotSolo) = EndOpenProposalOf(
                    IF PairingStatusOf(b) = "confirmed"
                    THEN PartnerBackedOut(CancelAnchored(gone, b), bookings[b].pairing, bookings[b].user)
                    ELSE CancelAnchored(gone, b), b)
  BY DEF CancelOwn
<1> HIDE DEF outcome, late
<1>4. /\ Keeps(Db, cancelled) /\ OnlyBookings(Db, cancelled, {b})
      /\ Left(bookings[b], cancelled.bookings[b])
      /\ cancelled.booked = ReleaseSpots(Db, bookings[b].shift, 1).booked
      /\ Keeps(Db, solo) /\ OnlyBookings(Db, solo, {b})
      /\ WentSolo(bookings[b], solo.bookings[b]) /\ solo.booked = booked
  BY <1>1, <1>2, SettledThen
<1> HIDE DEF solo, cancelled, kept
<1>5. /\ Keeps(Db, gone) /\ OnlyBookings(Db, gone, {b})
      /\ IF kept
         THEN WentSolo(bookings[b], gone.bookings[b]) /\ gone.booked = booked
         ELSE /\ Left(bookings[b], gone.bookings[b])
              /\ gone.booked = ReleaseSpots(Db, bookings[b].shift, 1).booked
  <2>1. CASE kept
    <3>1. gone = solo
      BY <2>1
    <3> QED BY <1>4, <2>1, <3>1
  <2>2. CASE ~kept
    <3>1. gone = cancelled
      BY <2>2
    <3> QED BY <1>4, <2>2, <3>1
  <2> QED BY <2>1, <2>2
<1> HIDE DEF gone
<1> QED BY <1>3, <1>5 DEF kept

(* The end of a proposal nobody of which is left is nothing.               *)
LEMMA NoOpenProposalOf ==
    ASSUME NEW d, NEW b, \A p \in PairingId, s \in Side : Open(d, p) => d.pairings[p].booking[s] # b
    PROVE  EndOpenProposalOf(d, b) = d
<1>1. {p \in PairingId : /\ d.pairings[p].status = "proposed"
                         /\ \E s \in Side : d.pairings[p].booking[s] = b} = {}
  BY DEF Open
<1> QED BY <1>1 DEF EndOpenProposalOf

(* Cancelling anchored searches changes nothing where there are none.      *)
LEMMA NothingAnchored ==
    ASSUME NEW d, Good(d), NEW b,
           \A r \in RequestId : d.requests[r].anchor = b => d.requests[r].status \notin OpenRequest
    PROVE  CancelAnchored(d, b) = d
<1> DEFINE rows == [r \in RequestId |->
                IF d.requests[r].anchor = b /\ d.requests[r].status \in OpenRequest
                THEN [d.requests[r] EXCEPT !.status = "cancelled"] ELSE d.requests[r]]
<1>1. d.requests \in [RequestId -> Request] /\ d \in DbType
  BY DEF Good, DbType
<1>2. rows = d.requests
  BY <1>1
<1> HIDE DEF rows
<1>3. CancelAnchored(d, b) = [d EXCEPT !.requests = rows]
  BY DEF CancelAnchored, rows
<1> QED BY <1>1, <1>2, <1>3 DEF DbType

(* cancelBooking of one's own accord: a confirmed partner is asked, and    *)
(* nothing else of the pairing is left.                                    *)
LEMMA CancelOwnAgrees ==
    ASSUME IInv, Agrees(Db), NEW b \in BookingId, bookings[b].status = "confirmed",
           NEW type, NEW keepSpotSolo,
           BackedOut(Db, b) => pairings[bookings[b].pairing].choice # "none"
    PROVE  Agrees(CancelOwn(b, type, keepSpotSolo))
<1>1. Good(Db) /\ Db.bookings = bookings /\ Db.pairings = pairings /\ Db.requests = requests
  BY Columns DEF IInv
<1>2. PICK d :
            /\ Keeps(Db, d) /\ OnlyBookings(Db, d, {b})
            /\ Left(bookings[b], d.bookings[b]) \/ WentSolo(bookings[b], d.bookings[b])
            /\ CancelOwn(b, type, keepSpotSolo) = EndOpenProposalOf(
                    IF PairingStatusOf(b) = "confirmed"
                    THEN PartnerBackedOut(CancelAnchored(d, b), bookings[b].pairing, bookings[b].user)
                    ELSE CancelAnchored(d, b), b)
  <2>1. bookings[b].status # "free"
    OBVIOUS
  <2>2. PICK d :
            /\ Keeps(Db, d) /\ OnlyBookings(Db, d, {b})
            /\ IF keepSpotSolo /\ CanKeepSpotSolo(b)
               THEN WentSolo(bookings[b], d.bookings[b]) /\ d.booked = booked
               ELSE /\ Left(bookings[b], d.bookings[b])
                    /\ d.booked = ReleaseSpots(Db, bookings[b].shift, 1).booked
            /\ CancelOwn(b, type, keepSpotSolo) = EndOpenProposalOf(
                    IF PairingStatusOf(b) = "confirmed"
                    THEN PartnerBackedOut(CancelAnchored(d, b), bookings[b].pairing, bookings[b].user)
                    ELSE CancelAnchored(d, b), b)
    BY <2>1, CancelOwnRows
  <2>3. Left(bookings[b], d.bookings[b]) \/ WentSolo(bookings[b], d.bookings[b])
    BY <2>2, Zenon
  <2> QED BY <2>2, <2>3, Zenon
<1>3. Good(d)
  BY <1>2 DEF Keeps
<1>4. CASE PairingStatusOf(b) = "confirmed"
  <2> DEFINE p == bookings[b].pairing
  <2>1. p \in PairingId /\ pairings[p].status = "confirmed"
    BY <1>1, <1>4 DEF PairingStatusOf, Good, GoodBooking, Booking
  <2>2. PICK o \in Side : pairings[p].booking[o] = b
    <3>1. BookingOK(Db, b) /\ p # None
      BY <2>1 DEF Agrees, PairingId, None
    <3> QED BY <1>1, <3>1 DEF BookingOK, Names
  <2>3. PICK s \in Side : s # o
    BY DEF Side
  <2> DEFINE e == PartnerBackedOut(d, p, bookings[b].user)
  <2>4. CancelAnchored(d, b) = d
    <3>1. \A r \in RequestId : requests[r].anchor = b => requests[r].status \notin OpenRequest
      BY <1>1, <2>1, <2>2, ConfirmedOnly
    <3> QED BY <1>1, <1>2, <1>3, <3>1, NothingAnchored DEF OnlyBookings
  <2>5. CancelOwn(b, type, keepSpotSolo) = EndOpenProposalOf(e, b)
    BY <1>2, <1>4, <2>4
  <2> HIDE DEF p
  <2>6. Keeps(Db, e)
    <3>1. Keeps(d, e)
      BY <1>2, <2>1, PartnerBackedOutKeeps
    <3> QED BY <1>2, <3>1, KeepsChain
  <2>7. LeftBehind(Db, e, p, s, o)
    BY <1>2, <2>1, <2>2, <2>3, PartnerBackedOutRows
  <2> HIDE DEF e
  <2>8. Agrees(e) /\ \A q \in PairingId, t \in Side : Open(e, q) => pairings[q].booking[t] # b
    BY <1>1, <2>1, <2>2, <2>3, <2>6, <2>7, LeftBehindAgrees
  <2>9. EndOpenProposalOf(e, b) = e
    BY <1>1, <2>6, <2>8, NoOpenProposalOf DEF Keeps
  <2> QED BY <2>5, <2>8, <2>9
<1>5. CASE PairingStatusOf(b) # "confirmed"
  <2> DEFINE e == CancelAnchored(d, b)
  <2>1. GivenUp(Db, e, b)
    <3>1. \A p \in PairingId : Chosen(pairings[p], d.pairings[p])
      BY <1>1, <1>2 DEF OnlyBookings, Chosen
    <3> QED BY <1>1, <1>2, <1>3, <3>1, GivenUpRows
  <2>2. Good(e) /\ e.pairings = pairings
    BY <1>1, <1>2, <1>3, CancelAnchoredKeeps, CancelAnchoredRows DEF Keeps, OnlyBookings
  <2>3. CancelOwn(b, type, keepSpotSolo) = EndOpenProposalOf(e, b)
    BY <1>2, <1>5
  <2> HIDE DEF e
  <2>4. AgreesExcept(e, b)
    <3>1. bookings[b].pairing # None => pairings[bookings[b].pairing].status # "confirmed"
      BY <1>5 DEF PairingStatusOf
    <3>2. BackedOut(Db, b) => e.pairings[bookings[b].pairing].choice # "none"
      BY <2>2
    <3> QED BY <1>1, <2>1, <3>1, <3>2, GivenUpAgrees
  <2> QED BY <2>2, <2>3, <2>4, EndOpenProposalOfAgrees
<1> QED BY <1>4, <1>5

(* cancelBooking of somebody who was backed out on: the decision is taken  *)
(* with it.                                                                *)
LEMMA CancelBackedOutOnAgrees ==
    ASSUME IInv, Agrees(Db), NEW b \in BookingId, bookings[b].status = "confirmed",
           BackedOutOn(b), NEW keepSpotSolo
    PROVE  Agrees(CancelBackedOutOn(b, keepSpotSolo))
<1> DEFINE p == bookings[b].pairing
           gone == IF keepSpotSolo THEN KeepSpotSoloAfterRelease(Db, b) ELSE ReleaseAndCancel(Db, b)
           chosen == IF pairings[p].choice = "none" THEN Choose(gone, p, "release") ELSE gone
           e == CancelAnchored(chosen, b)
<1>1. Good(Db) /\ Db.bookings = bookings /\ Db.pairings = pairings /\ Db.requests = requests
  BY Columns DEF IInv
<1>2. p \in PairingId /\ pairings[p].status = "cancelled"
  BY <1>1 DEF BackedOutOn, PairingStatusOf, Good, GoodBooking, Booking
<1>3. CancelBackedOutOn(b, keepSpotSolo) = EndOpenProposalOf(e, b)
  BY DEF CancelBackedOutOn
<1>4. /\ Keeps(Db, gone) /\ OnlyBookings(Db, gone, {b})
      /\ Left(bookings[b], gone.bookings[b]) \/ WentSolo(bookings[b], gone.bookings[b])
  BY <1>1, KeepSpotSoloRows, ReleaseAndCancelRows, Zenon
<1> HIDE DEF gone, p
<1>5. Good(gone) /\ gone.pairings = pairings
  BY <1>1, <1>4 DEF Keeps, OnlyBookings
<1>6. /\ Good(chosen) /\ chosen.bookings = gone.bookings /\ chosen.requests = gone.requests
      /\ \A q \in PairingId : Chosen(pairings[q], chosen.pairings[q])
      /\ chosen.pairings[p].choice # "none"
  <2>1. CASE pairings[p].choice = "none"
    <3>1. chosen = Choose(gone, p, "release")
      BY <2>1
    <3>2. Keeps(gone, Choose(gone, p, "release"))
      BY <1>2, <1>5, ChooseKeeps
    <3>3. /\ chosen.bookings = gone.bookings /\ chosen.requests = gone.requests
          /\ \A q \in PairingId : Chosen(pairings[q], chosen.pairings[q])
          /\ chosen.pairings[p].choice = "release"
      BY <1>2, <1>5, <2>1, <3>1, ChooseRows
    <3> QED BY <3>1, <3>2, <3>3 DEF Keeps
  <2>2. CASE pairings[p].choice # "none"
    <3>1. chosen = gone
      BY <2>2
    <3> QED BY <1>5, <2>2, <3>1 DEF Chosen
  <2> QED BY <2>1, <2>2
<1> HIDE DEF chosen
<1>7. GivenUp(Db, e, b)
  BY <1>1, <1>4, <1>6, GivenUpRows
<1>8. Good(e) /\ e.pairings = chosen.pairings
  BY <1>6, CancelAnchoredKeeps, CancelAnchoredRows DEF Keeps
<1> HIDE DEF e
<1>9. AgreesExcept(e, b)
  BY <1>1, <1>2, <1>6, <1>7, <1>8, GivenUpAgrees DEF p
<1> QED BY <1>3, <1>8, <1>9, EndOpenProposalOfAgrees

-----------------------------------------------------------------------------
(* The actions. *)

AInv == IInv /\ Agrees(Db)

(* A database that agrees still does when it is the next state.            *)
LEMMA NextAgrees ==
    ASSUME NEW d, Agrees(d), Db' = d, UNCHANGED now
    PROVE  Agrees(Db)'
<1>1. Db' = d
  OBVIOUS
<1>2. ASSUME NEW p \in PairingId
      PROVE  PairOK(Db, p)' /\ DecisionOK(Db, p)'
  <2>1. PairOK(d, p) /\ DecisionOK(d, p)
    BY DEF Agrees
  <2>2. PairOK(Db, p)'
    BY <1>1, <2>1, ZenonT(60) DEF PairOK, BookingOf, Open
  <2>3. DecisionOK(Db, p)'
    BY <1>1, <2>1, Zenon DEF DecisionOK, BookingOf
  <2> QED BY <2>2, <2>3
<1>3. ASSUME NEW p \in PairingId, NEW s \in Side
      PROVE  SideOK(Db, p, s)' /\ ConfirmedOK(Db, p, s)'
  <2>1. SideOK(d, p, s) /\ ConfirmedOK(d, p, s)
    BY DEF Agrees
  <2>2. SideOK(Db, p, s)'
    BY <1>1, <2>1 DEF SideOK, BookingOf, RequestOf, Open
  <2>3. ConfirmedOK(Db, p, s)'
    BY <1>1, <2>1 DEF ConfirmedOK, BookingOf, RequestOf
  <2> QED BY <2>2, <2>3
<1>4. Apart(Db)' /\ OneAnchor(Db)'
  BY <1>1 DEF Agrees, Apart, OneAnchor, Open
<1>5. ASSUME NEW r \in RequestId
      PROVE  RequestOK(Db, r)'
  <2>1. RequestOK(d, r)
    BY DEF Agrees
  <2> QED BY <1>1, <2>1, Zenon DEF RequestOK, BackedOut, Open
<1>6. ASSUME NEW b \in BookingId
      PROVE  BookingOK(Db, b)'
  <2>1. BookingOK(d, b)
    BY DEF Agrees
  <2> QED BY <1>1, <2>1 DEF BookingOK, BackedOut, Open, Names
<1> QED BY <1>2, <1>3, <1>4, <1>5, <1>6 DEF Agrees

(* So does what a handler commits.                                         *)
LEMMA CommitAgrees ==
    ASSUME NEW d, Good(d), Agrees(d), Commit(d), UNCHANGED now
    PROVE  Agrees(Db)'
<1>1. Db' = d
  BY DEF Commit, Db, Good, DbType
<1> QED BY <1>1, NextAgrees

(* cancelBooking.                                                          *)
LEMMA CancelBookingAgrees ==
    ASSUME AInv, NEW b \in BookingId, NEW keepSpotSolo \in BOOLEAN, CancelBooking(b, keepSpotSolo)
    PROVE  Agrees(Db)'
<1> DEFINE type == CancelType(b)
           own == CancelOwn(b, type, keepSpotSolo)
           out == CancelBackedOutOn(b, keepSpotSolo)
           d == IF type = "partner_cancelled" THEN out ELSE own
<1>1. bookings[b].status = "confirmed" /\ Commit(d) /\ UNCHANGED now
  BY DEF CancelBooking
<1>2. IInv /\ Agrees(Db) /\ Good(Db) /\ Db.bookings = bookings /\ Db.pairings = pairings
  BY Columns DEF AInv, IInv
<1>3. BackedOut(Db, b) <=> BackedOutOn(b)
  BY <1>2, Columns DEF BackedOut, BackedOutOn, PairingStatusOf, Good, GoodBooking, Booking, PairingId, None
<1>4. type = "partner_cancelled" <=> BackedOutOn(b)
  BY DEF CancelType
<1>5. CASE BackedOutOn(b)
  <2>1. Keeps(Db, out) /\ Agrees(out)
    BY <1>1, <1>2, <1>5, CancelBackedOutOnKeeps, CancelBackedOutOnAgrees
  <2>2. d = out
    BY <1>4, <1>5
  <2> QED BY <1>1, <2>1, <2>2, CommitAgrees DEF Keeps
<1>6. CASE ~BackedOutOn(b)
  <2>1. Keeps(Db, own) /\ Agrees(own)
    BY <1>1, <1>2, <1>3, <1>6, CancelOwnKeeps, CancelOwnAgrees
  <2>2. d = own
    BY <1>4, <1>6
  <2> QED BY <1>1, <2>1, <2>2, CommitAgrees DEF Keeps
<1> QED BY <1>5, <1>6

(* Whoever is in a live pairing has no decision left to take about another *)
(* one: a spot in an open proposal that was backed out on is in a rematch. *)
LEMMA InLivePairing ==
    ASSUME IInv, Agrees(Db), NEW p \in PairingId, NEW s \in Side,
           pairings[p].status \in LivePairing
    PROVE  LET b == pairings[p].booking[s]
           IN  BackedOut(Db, b) => pairings[bookings[b].pairing].choice # "none"
<1> DEFINE b == pairings[p].booking[s]
           r == pairings[p].request[s]
<1>1. /\ Good(Db) /\ Db.bookings = bookings /\ Db.pairings = pairings /\ Db.requests = requests
      /\ pairings[p].status # "free"
  BY Columns DEF IInv, LivePairing
<1>2. CASE pairings[p].status = "confirmed"
  <2>1. bookings[b].pairing = p
    BY <1>1, <1>2, ConfirmedOnly
  <2> QED BY <1>1, <1>2, <2>1 DEF BackedOut
<1>3. CASE pairings[p].status = "proposed"
  <2>1. r \in RequestId /\ requests[r] \in Request /\ b \in BookingId
    BY <1>1, Linked DEF Good, DbType
  <2>2. /\ requests[r].status = "proposed"
        /\ requests[r].anchor = None => bookings[b].pairing = p
        /\ requests[r].anchor # None => b = requests[r].anchor
    <3>1. SideOK(Db, p, s)
      BY DEF Agrees
    <3> QED BY <1>1, <1>3, <3>1 DEF SideOK, RequestOf, BookingOf, Open
  <2>3. RequestOK(Db, r)
    BY <2>1 DEF Agrees
  <2> HIDE DEF b, r
  <2>4. \/ bookings[b].pairing = p
        \/ bookings[b].pairing = None
        \/ pairings[bookings[b].pairing].choice = "rematch"
    BY <1>1, <2>1, <2>2, <2>3 DEF RequestOK, Request, OpenRequest
  <2> QED BY <1>1, <1>3, <2>4, NoneIsNoRow DEF BackedOut, b
<1> QED BY <1>2, <1>3 DEF LivePairing

(* A report: who leaves with it has already taken the decision, if there   *)
(* was one.                                                                *)
LEMMA ReportPartnerAgrees ==
    ASSUME AInv, NEW p \in PairingId, NEW s \in Side, NEW cancelPairing \in BOOLEAN,
           ReportPartner(p, s, cancelPairing)
    PROVE  Agrees(Db)'
<1> DEFINE b == pairings[p].booking[s]
           leaves == cancelPairing /\ pairings[p].status \in LivePairing
           out == CancelOwn(b, "safety", FALSE)
           ended == EndProposal(Db, p, "declined", UserOn(p, s), TRUE, None)
           d == IF leaves /\ bookings[b].status = "confirmed" THEN out
                ELSE IF leaves /\ pairings[p].status = "proposed" THEN ended ELSE Db
<1>1. /\ IInv /\ Agrees(Db) /\ Good(Db) /\ Db.bookings = bookings /\ Db.pairings = pairings
      /\ pairings[p].status # "free"
  BY Columns DEF AInv, IInv, ReportPartner
<1>2. Commit(d) /\ UNCHANGED now
  BY Zenon DEF ReportPartner
<1>3. b \in BookingId
  BY <1>1, Linked
<1>4. CASE leaves /\ bookings[b].status = "confirmed"
  <2>1. BackedOut(Db, b) => pairings[bookings[b].pairing].choice # "none"
    BY <1>1, <1>4, InLivePairing
  <2>2. d = out
    BY <1>4
  <2> HIDE DEF b
  <2>3. Keeps(Db, out) /\ Agrees(out)
    BY <1>1, <1>3, <1>4, <2>1, CancelOwnKeeps, CancelOwnAgrees, Zenon
  <2> HIDE DEF out, d
  <2> QED BY <1>2, <2>2, <2>3, CommitAgrees DEF Keeps
<1>5. CASE ~(leaves /\ bookings[b].status = "confirmed") /\ leaves /\ pairings[p].status = "proposed"
  <2>1. d = ended
    BY <1>5, Zenon
  <2>2. Keeps(Db, ended) /\ Agrees(ended)
    <3>1. Open(Db, p) /\ "declined" \in {"declined", "expired"}
      BY <1>1, <1>5 DEF Open
    <3> QED BY <1>1, <1>5, <3>1, EndProposalKeeps, EndProposalAgrees, Zenon
  <2> HIDE DEF ended, d
  <2> QED BY <1>2, <2>1, <2>2, CommitAgrees DEF Keeps
<1>6. CASE ~(leaves /\ bookings[b].status = "confirmed") /\ ~(leaves /\ pairings[p].status = "proposed")
  <2>1. d = Db
    BY <1>6, Zenon
  <2> HIDE DEF d
  <2> QED BY <1>1, <1>2, <2>1, CommitAgrees
<1> QED BY <1>4, <1>5, <1>6

(* declineProposal.                                                        *)
LEMMA DeclineAgrees ==
    ASSUME AInv, NEW p \in PairingId, NEW s \in Side, NEW keepLooking \in BOOLEAN,
           Decline(p, s, keepLooking)
    PROVE  Agrees(Db)'
<1> DEFINE e == EndProposal(Db, p, "declined", UserOn(p, s), keepLooking, None)
<1>1. Good(Db) /\ Agrees(Db) /\ Open(Db, p) /\ Db.pairings[p].status = "proposed"
  BY Columns DEF AInv, IInv, Decline, Open
<1>2. Keeps(Db, e) /\ Agrees(e)
  BY <1>1, EndProposalKeeps, EndProposalAgrees
<1>3. Commit(e) /\ UNCHANGED now
  BY DEF Decline
<1> HIDE DEF e
<1> QED BY <1>2, <1>3, CommitAgrees DEF Keeps

(* tick, first loop.                                                       *)
LEMMA TickExpireProposalAgrees ==
    ASSUME AInv, NEW p \in PairingId, TickExpireProposal(p)
    PROVE  Agrees(Db)'
<1> DEFINE e == EndProposal(Db, p, "expired", NoUser, TRUE, None)
<1>1. Good(Db) /\ Agrees(Db) /\ Open(Db, p) /\ Db.pairings[p].status = "proposed"
  BY Columns DEF AInv, IInv, TickExpireProposal, Expired, Open
<1>2. Keeps(Db, e) /\ Agrees(e)
  BY <1>1, EndProposalKeeps, EndProposalAgrees, Zenon
<1>3. Commit(e) /\ UNCHANGED now
  BY Zenon DEF TickExpireProposal
<1> HIDE DEF e
<1> QED BY <1>2, <1>3, CommitAgrees DEF Keeps

-----------------------------------------------------------------------------
(* The decision of a partner who was backed out on. *)

(* While it is open, the one who decides is in the pairing with their spot *)
(* and their hold; nobody searches for that spot, and no open proposal is  *)
(* about it.                                                               *)
LEMMA Undecided ==
    ASSUME IInv, Agrees(Db), NEW p \in PairingId, DecisionOpen(p)
    PROVE  LET b == pairings[p].booking[BailSide(p)]
           IN  /\ b \in BookingId /\ bookings[b].pairing = p /\ BackedOut(Db, b)
               /\ bookings[b].user = pairings[p].bailUser /\ bookings[b].status \in Took
               /\ pairings[p].bailDeadline + BailMin <= Start[bookings[b].shift]
               /\ ShiftOf(p) = bookings[b].shift /\ bookings[b].shift \in Shift
               /\ \A r \in RequestId : requests[r].anchor = b => requests[r].status \notin OpenRequest
               /\ \A q \in PairingId, t \in Side : Open(Db, q) => pairings[q].booking[t] # b
<1> DEFINE b == pairings[p].booking[BailSide(p)]
<1>1. Good(Db) /\ Db.bookings = bookings /\ Db.pairings = pairings /\ Db.requests = requests
  BY Columns DEF IInv
<1>2. /\ pairings[p].status = "cancelled" /\ pairings[p].bailUser # NoUser
      /\ pairings[p].choice = "none"
  BY DEF DecisionOpen
<1>3. PICK t \in Side :
        LET bk == bookings[pairings[p].booking[t]] IN
        /\ bk.user = pairings[p].bailUser
        /\ bk.pairing = p /\ bk.kind = "paired" /\ bk.status \in Took /\ bk.hold # "none"
        /\ pairings[p].bailDeadline + BailMin <= Start[bk.shift]
  <2>1. DecisionOK(Db, p)
    BY DEF Agrees
  <2> QED BY <1>1, <1>2, <2>1 DEF DecisionOK, BookingOf
<1>4. /\ \A x \in Side : pairings[p].booking[x] \in BookingId
      /\ bookings[pairings[p].booking["a"]].user # bookings[pairings[p].booking["b"]].user
      /\ bookings[pairings[p].booking["a"]].shift = bookings[pairings[p].booking["b"]].shift
      /\ bookings[pairings[p].booking["a"]].shift \in Shift
  <2>1. PairOK(Db, p) /\ "a" \in Side
    BY DEF Agrees, Side
  <2> QED BY <1>1, <1>2, <2>1, Linked, Zenon DEF PairOK, BookingOf
<1>5. BailSide(p) = t
  BY <1>3, <1>4 DEF BailSide, UserOn, Side
<1>6. /\ b \in BookingId /\ bookings[b].pairing = p
      /\ bookings[b].user = pairings[p].bailUser /\ bookings[b].status \in Took
      /\ bookings[b].kind = "paired" /\ bookings[b].hold # "none"
      /\ pairings[p].bailDeadline + BailMin <= Start[bookings[b].shift]
  BY <1>3, <1>4, <1>5
<1>7. ShiftOf(p) = bookings[b].shift /\ bookings[b].shift \in Shift
  BY <1>4, <1>5 DEF ShiftOf, Side
<1> HIDE DEF b
<1>8. BackedOut(Db, b) /\ b # None /\ p # None
  BY <1>1, <1>2, <1>6 DEF BackedOut, BookingId, PairingId, None
<1>9. ASSUME NEW r \in RequestId, requests[r].anchor = b, requests[r].status \in OpenRequest
      PROVE  FALSE
  <2>1. RequestOK(Db, r) /\ requests[r] \in Request
    BY <1>1 DEF Agrees, Good, GoodRequest
  <2> QED BY <1>1, <1>2, <1>6, <1>8, <1>9, <2>1 DEF RequestOK, OpenRequest, Request
<1>10. ASSUME NEW q \in PairingId, NEW x \in Side, Open(Db, q), pairings[q].booking[x] = b
       PROVE  FALSE
  <2>1. SideOK(Db, q, x) /\ \A r \in RequestId : RequestOK(Db, r)
    BY DEF Agrees
  <2>2. LET c == Db.pairings[q].booking[x]
        IN  Db.bookings[c].pairing = q \/ Db.bookings[c].pairing = None
            \/ Db.pairings[Db.bookings[c].pairing].choice = "rematch"
    <3>1. Good(Db) /\ Open(Db, q) BY <1>1, <1>10
    <3>2. TiedTo(Db, q, x)
      BY <2>1, <3>1, OpenSide
    <3> QED BY <3>2, Zenon DEF TiedTo
  <2> QED BY <1>1, <1>2, <1>6, <1>8, <1>10, <2>2 DEF Open
<1> QED BY <1>6, <1>7, <1>8, <1>9, <1>10 DEF b

(* The one who decides takes the Deeds back, or is given them back: the    *)
(* booking goes, and nothing else was about it.                            *)
LEMMA ReleasedAgrees ==
    ASSUME IInv, Agrees(Db), NEW p \in PairingId, DecisionOpen(p),
           NEW choice \in {"release", "no_response_release"}
    PROVE  LET e == ReleaseAndCancel(Choose(Db, p, choice), pairings[p].booking[BailSide(p)])
           IN  Good(e) /\ Agrees(e)
<1> DEFINE b == pairings[p].booking[BailSide(p)]
           chosen == Choose(Db, p, choice)
           e == ReleaseAndCancel(chosen, b)
<1>1. /\ Good(Db) /\ Db.bookings = bookings /\ Db.pairings = pairings /\ Db.requests = requests
      /\ pairings[p].choice = "none" /\ pairings[p].status = "cancelled" /\ choice # "none"
  BY Columns DEF IInv, DecisionOpen
<1>2. /\ b \in BookingId /\ bookings[b].pairing = p /\ BackedOut(Db, b)
      /\ pairings[p].status = "cancelled" /\ bookings[b].status # "free"
      /\ \A r \in RequestId : requests[r].anchor = b => requests[r].status \notin OpenRequest
      /\ \A q \in PairingId, t \in Side : Open(Db, q) => pairings[q].booking[t] # b
  BY Undecided DEF DecisionOpen, Took, Over
<1> HIDE DEF b
<1>3. /\ Keeps(Db, chosen) /\ chosen.requests = requests /\ chosen.bookings = bookings
      /\ \A q \in PairingId : Chosen(pairings[q], chosen.pairings[q])
      /\ chosen.pairings[p].choice = choice
  BY <1>1, ChooseKeeps, ChooseRows
<1> HIDE DEF chosen
<1>4. /\ Keeps(chosen, e) /\ OnlyBookings(chosen, e, {b})
      /\ Left(chosen.bookings[b], e.bookings[b])
  <2>1. Good(chosen) /\ chosen.bookings[b].status # "free"
    BY <1>2, <1>3 DEF Keeps
  <2> QED BY <1>2, <2>1, ReleaseAndCancelRows
<1> HIDE DEF e
<1>5. Good(e) /\ e.pairings = chosen.pairings /\ e.requests = requests
  BY <1>3, <1>4 DEF Keeps, OnlyBookings
<1>6. GivenUp(Db, e, b)
  BY <1>1, <1>2, <1>3, <1>4, <1>5 DEF GivenUp, OnlyBookings
<1>7. AgreesExcept(e, b)
  BY <1>1, <1>2, <1>3, <1>5, <1>6, GivenUpAgrees
<1>8. \A q \in PairingId, t \in Side : Open(e, q) => e.pairings[q].booking[t] # b
  BY <1>1, <1>2, <1>3, <1>5 DEF Open, Chosen
<1>9. EndOpenProposalOf(e, b) = e
  BY <1>8, NoOpenProposalOf
<1>10. Agrees(EndOpenProposalOf(e, b))
  BY <1>2, <1>5, <1>7, EndOpenProposalOfAgrees
<1> QED BY <1>5, <1>9, <1>10 DEF e, chosen, b

(* A choice is recorded, and nothing else happens.                         *)
LEMMA ChosenAgrees ==
    ASSUME NEW d, Good(d), Agrees(d), NEW e, e.bookings = d.bookings, e.requests = d.requests,
           \A q \in PairingId : Chosen(d.pairings[q], e.pairings[q])
    PROVE  Agrees(e)
<1>1. /\ \A p \in PairingId, s \in Side : /\ BookingOf(e, p, s) = BookingOf(d, p, s)
                                          /\ RequestOf(e, p, s) = RequestOf(d, p, s)
      /\ \A p \in PairingId : \A c : Names(e, p, c) <=> Names(d, p, c)
      /\ \A p \in PairingId : Open(e, p) <=> Open(d, p)
      /\ \A c : BackedOut(e, c) <=> BackedOut(d, c)
  BY DEF BookingOf, RequestOf, Names, Open, BackedOut, Chosen
<1>2. \A p \in PairingId : PairOK(e, p) /\ DecisionOK(e, p)
  <2> SUFFICES ASSUME NEW p \in PairingId PROVE PairOK(e, p) /\ DecisionOK(e, p)
    OBVIOUS
  <2>1. PairOK(d, p) /\ DecisionOK(d, p) /\ Chosen(d.pairings[p], e.pairings[p])
    BY DEF Agrees
  <2>2. "a" \in Side /\ "b" \in Side
    BY DEF Side
  <2>3. PairOK(e, p)
    BY <1>1, <2>1, <2>2 DEF PairOK, Chosen
  <2>4. DecisionOK(e, p)
    BY <1>1, <2>1 DEF DecisionOK, Chosen
  <2> QED BY <2>3, <2>4
<1>3. ASSUME NEW p \in PairingId, NEW s \in Side
      PROVE  SideOK(e, p, s) /\ ConfirmedOK(e, p, s)
  <2>1. SideOK(d, p, s) /\ ConfirmedOK(d, p, s) /\ Chosen(d.pairings[p], e.pairings[p])
    BY DEF Agrees
  <2> QED BY <1>1, <2>1 DEF SideOK, ConfirmedOK, Chosen
<1>4. Apart(e) /\ OneAnchor(e)
  BY <1>1 DEF Agrees, Apart, OneAnchor, Chosen
<1>5. ASSUME NEW r \in RequestId
      PROVE  RequestOK(e, r)
  <2>1. RequestOK(d, r)
    BY DEF Agrees
  <2>2. d.requests[r].status = "proposed" =>
            \E p \in PairingId, s \in Side : Open(e, p) /\ e.pairings[p].request[s] = r
    <3> SUFFICES ASSUME d.requests[r].status = "proposed"
                 PROVE  \E p \in PairingId, s \in Side : Open(e, p) /\ e.pairings[p].request[s] = r
      OBVIOUS
    <3>1. PICK p \in PairingId, s \in Side : Open(d, p) /\ d.pairings[p].request[s] = r
      BY <2>1, Zenon DEF RequestOK
    <3> QED BY <1>1, <3>1 DEF Chosen
  <2>3. BackedOut(d, d.requests[r].anchor) =>
            d.bookings[d.requests[r].anchor].pairing \in PairingId
    BY DEF BackedOut
  <2> QED BY <1>1, <2>1, <2>2, <2>3, Zenon DEF RequestOK, Chosen
<1>6. ASSUME NEW c \in BookingId
      PROVE  BookingOK(e, c)
  <2>1. BookingOK(d, c) /\ d.bookings[c].pairing \in PairingId \cup {None}
    BY DEF Agrees, Good, GoodBooking, Booking
  <2>2. d.bookings[c].pairing # None =>
            /\ Chosen(d.pairings[d.bookings[c].pairing], e.pairings[d.bookings[c].pairing])
            /\ Names(e, d.bookings[c].pairing, c) <=> Names(d, d.bookings[c].pairing, c)
    BY <1>1, <2>1
  <2> QED BY <1>1, <2>1, <2>2 DEF BookingOK, Chosen
<1> QED BY <1>2, <1>3, <1>4, <1>5, <1>6 DEF Agrees

(* bailDecision, the Deeds back.                                           *)
LEMMA BailReleaseAgrees ==
    ASSUME AInv, NEW p \in PairingId, BailRelease(p)
    PROVE  Agrees(Db)'
<1> DEFINE e == ReleaseAndCancel(Choose(Db, p, "release"), pairings[p].booking[BailSide(p)])
<1>1. DecisionOpen(p) /\ Commit(e) /\ UNCHANGED now
  BY DEF BailRelease
<1>2. Good(e) /\ Agrees(e)
  BY <1>1, ReleasedAgrees DEF AInv
<1> HIDE DEF e
<1> QED BY <1>1, <1>2, CommitAgrees

(* tick, second loop.                                                      *)
LEMMA TickBailNoResponseAgrees ==
    ASSUME AInv, NEW p \in PairingId, TickBailNoResponse(p)
    PROVE  Agrees(Db)'
<1> DEFINE b == pairings[p].booking[BailSide(p)]
           chosen == Choose(Db, p, "no_response_release")
           gone == ReleaseAndCancel(chosen, b)
           d == IF bookings[b].status = "confirmed" THEN gone ELSE chosen
<1>1. DecisionOpen(p) /\ Commit(d) /\ UNCHANGED now
  BY DEF TickBailNoResponse, Unanswered
<1>2. Good(gone) /\ Agrees(gone)
  BY <1>1, ReleasedAgrees DEF AInv
<1>3. Good(chosen) /\ Agrees(chosen)
  <2>1. /\ Good(Db) /\ Agrees(Db)
        /\ Db.pairings[p].choice = "none" /\ Db.pairings[p].status = "cancelled"
    BY <1>1, Columns DEF AInv, IInv, DecisionOpen
  <2>2. Keeps(Db, chosen)
    BY <2>1, ChooseKeeps
  <2>3. /\ chosen.bookings = Db.bookings /\ chosen.requests = Db.requests
        /\ \A q \in PairingId : Chosen(Db.pairings[q], chosen.pairings[q])
    BY <2>1, ChooseRows
  <2> HIDE DEF chosen
  <2> QED BY <2>1, <2>2, <2>3, ChosenAgrees DEF Keeps
<1> HIDE DEF gone, chosen
<1>4. Good(d) /\ Agrees(d)
  BY <1>2, <1>3
<1> HIDE DEF d
<1> QED BY <1>1, <1>4, CommitAgrees

(* A rematch search and the spot it is for.                                *)
LEMMA RematchOK ==
    ASSUME NEW e, NEW r \in RequestId,
           e.requests[r].status = "searching", e.requests[r].kind = "rematch",
           e.requests[r].anchor \in BookingId,
           e.bookings[e.requests[r].anchor].user = e.requests[r].user,
           e.bookings[e.requests[r].anchor].status \in Took,
           BackedOut(e, e.requests[r].anchor),
           e.pairings[e.bookings[e.requests[r].anchor].pairing].choice = "rematch"
    PROVE  RequestOK(e, r)
<1>1. e.requests[r].anchor # None
  BY NoneIsNoRow
<1>2. e.bookings[e.requests[r].anchor].status # "free"
  BY DEF Took, Over
<1> QED BY <1>1, <1>2 DEF RequestOK

(* A rematch search starts, for the spot of somebody who was backed out on *)
(* and chose it.                                                           *)
LEMMA RematchStartsAgrees ==
    ASSUME NEW d, Good(d), Agrees(d), NEW e, NEW r \in RequestId, d.requests[r].status = "free",
           LET rq == e.requests[r] IN
           /\ rq.status = "searching" /\ rq.kind = "rematch" /\ rq.anchor \in BookingId
           /\ d.bookings[rq.anchor].user = rq.user /\ d.bookings[rq.anchor].status \in Took
           /\ BackedOut(d, rq.anchor) /\ d.pairings[d.bookings[rq.anchor].pairing].choice = "rematch"
           /\ \A q \in RequestId : d.requests[q].anchor = rq.anchor => d.requests[q].status \notin OpenRequest,
           \A q \in RequestId \ {r} : e.requests[q] = d.requests[q],
           e.bookings = d.bookings, e.pairings = d.pairings
    PROVE  Agrees(e)
<1>1. /\ \A p \in PairingId, s \in Side : BookingOf(e, p, s) = BookingOf(d, p, s)
      /\ \A p, c : Names(e, p, c) <=> Names(d, p, c)
      /\ \A p \in PairingId : Open(e, p) <=> Open(d, p)
      /\ \A c : BackedOut(e, c) <=> BackedOut(d, c)
  BY Zenon DEF BookingOf, Names, Open, BackedOut
<1>2. "a" \in Side /\ "b" \in Side
  BY DEF Side
<1>3. ASSUME NEW p \in PairingId
      PROVE  PairOK(e, p) /\ DecisionOK(e, p)
  <2>1. PairOK(d, p) /\ DecisionOK(d, p)
    BY DEF Agrees
  <2>2. PairOK(e, p)
    BY <1>1, <1>2, <2>1 DEF PairOK
  <2>3. DecisionOK(e, p)
    BY <1>1, <2>1 DEF DecisionOK
  <2> QED BY <2>2, <2>3
<1>4. ASSUME NEW p \in PairingId, NEW s \in Side
      PROVE  SideOK(e, p, s) /\ ConfirmedOK(e, p, s)
  <2>1. SideOK(d, p, s) /\ ConfirmedOK(d, p, s)
    BY DEF Agrees
  <2>2. d.pairings[p].status # "free" => d.pairings[p].request[s] \in RequestId \ {r}
    BY Linked, ZenonT(60)
  <2>3. d.pairings[p].status # "free" => RequestOf(e, p, s) = RequestOf(d, p, s)
    BY <2>2 DEF RequestOf
  <2>4. SideOK(e, p, s)
    BY <1>1, <2>1, <2>3 DEF SideOK, Open
  <2>5. ConfirmedOK(e, p, s)
    BY <1>1, <2>1, <2>3 DEF ConfirmedOK
  <2> QED BY <2>4, <2>5
<1>5. Apart(e)
  <2>1. Apart(d)
    BY DEF Agrees
  <2> QED BY <1>1, <2>1 DEF Apart
<1>6. OneAnchor(e)
  <2>1. OneAnchor(d)
    BY DEF Agrees
  <2> QED BY <2>1 DEF OneAnchor, OpenRequest
<1>7. ASSUME NEW q \in RequestId
      PROVE  RequestOK(e, q)
  <2>1. RequestOK(d, q)
    BY DEF Agrees
  <2>2. CASE q # r
    BY <1>1, <2>1, <2>2, ZenonT(60) DEF RequestOK
  <2>3. CASE q = r
    <3>1. /\ e.requests[r].status = "searching" /\ e.requests[r].kind = "rematch"
          /\ e.requests[r].anchor \in BookingId
          /\ e.bookings[e.requests[r].anchor].user = e.requests[r].user
          /\ e.bookings[e.requests[r].anchor].status \in Took
          /\ e.pairings[e.bookings[e.requests[r].anchor].pairing].choice = "rematch"
      OBVIOUS
    <3>2. BackedOut(e, e.requests[r].anchor)
      BY <1>1, Zenon
    <3>3. RequestOK(e, r)
      BY <3>1, <3>2, RematchOK, ZenonT(60)
    <3> QED BY <2>3, <3>3, Zenon
  <2> QED BY <2>2, <2>3
<1>8. \A c \in BookingId : BookingOK(e, c)
  BY <1>1, SMT, ZenonT(60) DEF Agrees, BookingOK
<1> QED BY <1>3, <1>4, <1>5, <1>6, <1>7, <1>8 DEF Agrees

(* bailDecision, a new partner.                                            *)
LEMMA BailRematchAgrees ==
    ASSUME AInv, NEW p \in PairingId, BailRematch(p)
    PROVE  Agrees(Db)'
<1> DEFINE b == pairings[p].booking[BailSide(p)]
           chosen == Choose(Db, p, "rematch")
           deadline == Before(Start[ShiftOf(p)], RematchLast)
           row == NewRequest(pairings[p].bailUser, "rematch", deadline, b)
           e == Db'
<1>1. PICK r \in RequestId :
        /\ DecisionOpen(p) /\ requests[r].status = "free"
        /\ pairings' = [pairings EXCEPT ![p].choice = "rematch"]
        /\ requests' = [requests EXCEPT ![r] = row]
        /\ UNCHANGED <<now, bookings>>
  BY Zenon DEF BailRematch, Fresh
<1>2. /\ IInv /\ Good(Db) /\ Agrees(Db) /\ Db.bookings = bookings /\ Db.pairings = pairings
      /\ Db.requests = requests /\ pairings[p].choice = "none"
      /\ pairings \in [PairingId -> Pairing] /\ requests \in [RequestId -> Request]
  BY <1>1, Columns DEF AInv, IInv, DecisionOpen, Good, DbType
<1>3. /\ b \in BookingId /\ bookings[b].pairing = p /\ BackedOut(Db, b)
      /\ bookings[b].user = pairings[p].bailUser /\ bookings[b].status \in Took
      /\ \A r1 \in RequestId : requests[r1].anchor = b => requests[r1].status \notin OpenRequest
  BY <1>1, <1>2, Undecided
<1>4. /\ row.status = "searching" /\ row.kind = "rematch" /\ row.anchor = b
      /\ row.user = pairings[p].bailUser
  BY DEF NewRequest
<1>5. Good(chosen) /\ chosen.bookings = bookings /\ chosen.requests = requests
      /\ chosen.pairings = pairings'
  <2>1. pairings[p] \in Pairing
    BY <1>2
  <2>2. GoodPairing([pairings[p] EXCEPT !.choice = "rematch"])
    <3>1. GoodPairing(pairings[p])
      BY <1>2 DEF Good
    <3> QED BY <1>1, <2>1, <3>1 DEF GoodPairing, Pairing, DecisionOpen
  <2>3. Keeps(Db, chosen)
    BY <1>1, <1>2, <2>1, <2>2, PutPairingKeeps, Zenon DEF Choose, DecisionOpen, GoodPairing, Pairing
  <2>4. chosen.pairings = pairings' /\ chosen.bookings = bookings /\ chosen.requests = requests
    BY <1>1, <1>2 DEF Choose, PutPairing, Db
  <2> QED BY <2>3, <2>4 DEF Keeps
<1>6. /\ \A q \in PairingId : Chosen(pairings[q], chosen.pairings[q])
      /\ chosen.pairings[p].choice = "rematch"
  BY <1>2, ChooseRows
<1> HIDE DEF b, chosen, row
<1>7. Agrees(chosen)
  BY <1>2, <1>5, <1>6, ChosenAgrees
<1>8. /\ e.requests[r] = row /\ \A q \in RequestId \ {r} : e.requests[q] = requests[q]
      /\ e.bookings = bookings /\ e.pairings = pairings'
  BY <1>1, <1>2 DEF Db
<1>9. Db' = e
  OBVIOUS
<1> HIDE DEF e
<1>10. BackedOut(chosen, b)
  BY <1>2, <1>3, <1>5, <1>6 DEF BackedOut, Chosen
<1>11. Agrees(e)
  <2>1. LET rq == e.requests[r] IN
           /\ rq.status = "searching" /\ rq.kind = "rematch" /\ rq.anchor \in BookingId
           /\ chosen.bookings[rq.anchor].user = rq.user /\ chosen.bookings[rq.anchor].status \in Took
           /\ BackedOut(chosen, rq.anchor)
           /\ chosen.pairings[chosen.bookings[rq.anchor].pairing].choice = "rematch"
           /\ \A q \in RequestId :
                chosen.requests[q].anchor = rq.anchor => chosen.requests[q].status \notin OpenRequest
    BY <1>3, <1>4, <1>5, <1>6, <1>8, <1>10
  <2>2. /\ chosen.requests[r].status = "free" /\ e.bookings = chosen.bookings
        /\ \A q \in RequestId \ {r} : e.requests[q] = chosen.requests[q]
        /\ e.pairings = chosen.pairings
    BY <1>1, <1>5, <1>8
  <2> QED BY <1>5, <1>7, <2>1, <2>2, RematchStartsAgrees, Zenon
<1> QED BY <1>1, <1>9, <1>11, NextAgrees

-----------------------------------------------------------------------------
(* Searching, attendance, the clock. *)

(* The columns, and their types.                                           *)
LEMMA Rows ==
    AInv => /\ IInv /\ Good(Db) /\ Agrees(Db) /\ now \in Nat
            /\ Db.bookings = bookings /\ Db.pairings = pairings /\ Db.requests = requests
            /\ Db.booked = booked
            /\ requests \in [RequestId -> Request] /\ bookings \in [BookingId -> Booking]
            /\ pairings \in [PairingId -> Pairing]
            /\ \A r \in RequestId : RequestOK(Db, r)
            /\ \A b \in BookingId : BookingOK(Db, b)
BY Columns, Times DEF AInv, IInv, Good, DbType, Agrees

(* createRequest.                                                          *)
LEMMA CreateRequestAgrees ==
    ASSUME AInv, NEW u \in User, NEW w \in WindowEnd, CreateRequest(u, w)
    PROVE  Agrees(Db)'
<1> DEFINE row == NewRequest(u, "standard", SearchDeadline(w), None)
           e == Db'
<1>1. PICK r \in RequestId :
        /\ requests[r].status = "free" /\ requests' = [requests EXCEPT ![r] = row]
        /\ UNCHANGED <<now, bookings, pairings>>
  BY Zenon DEF CreateRequest, Fresh
<1>2. row.status = "searching" /\ row.kind = "standard" /\ row.anchor = None
  BY DEF NewRequest
<1> HIDE DEF row
<1>3. /\ e.requests[r] = row /\ \A q \in RequestId \ {r} : e.requests[q] = requests[q]
      /\ e.bookings = bookings /\ e.pairings = pairings
  BY <1>1, Rows DEF Db
<1>4. Db' = e
  OBVIOUS
<1> HIDE DEF e
<1>5. UnproposedRow(Db, r, e.requests[r])
  BY <1>1, <1>2, <1>3, Rows DEF UnproposedRow
<1>6. Agrees(e)
  BY <1>3, <1>5, Rows, RequestRowAgrees
<1> QED BY <1>1, <1>4, <1>6, NextAgrees

(* adjustRequest.                                                          *)
LEMMA AdjustRequestAgrees ==
    ASSUME AInv, NEW u \in User, NEW w \in WindowEnd, AdjustRequest(u, w)
    PROVE  Agrees(Db)'
<1> DEFINE deadline == SearchDeadline(w)
           e == Db'
<1>1. PICK r \in RequestId :
        /\ IsLatest(r, Adjustable(u)) /\ requests[r].status # "proposed"
        /\ requests[r].kind = "standard"
        /\ requests' = [requests EXCEPT ![r].deadline = deadline, ![r].status = "searching"]
        /\ UNCHANGED <<now, bookings, pairings>>
  BY Zenon DEF AdjustRequest
<1> HIDE DEF deadline
<1> DEFINE row == [requests[r] EXCEPT !.deadline = deadline, !.status = "searching"]
<1>2. requests[r].status \in {"searching", "no_match"}
  BY <1>1 DEF IsLatest, Adjustable, OpenRequests, OpenRequest
<1>3. requests[r] \in Request /\ requests[r].anchor = None
  BY <1>1, <1>2, Rows, Zenon DEF RequestOK
<1>4. row.status = "searching" /\ row.kind = "standard" /\ row.anchor = None
  BY <1>1, <1>3 DEF Request
<1>5. /\ e.requests[r] = row /\ \A q \in RequestId \ {r} : e.requests[q] = requests[q]
      /\ e.bookings = bookings /\ e.pairings = pairings
  BY <1>1, Rows DEF Db
<1>6. Db' = e
  OBVIOUS
<1> HIDE DEF e, row
<1>7. UnproposedRow(Db, r, e.requests[r])
  BY <1>2, <1>4, <1>5, Rows DEF UnproposedRow
<1>8. Agrees(e)
  BY <1>5, <1>7, Rows, RequestRowAgrees
<1> QED BY <1>1, <1>6, <1>8, NextAgrees

(* A search that ends; with it goes the hold a rematch kept.               *)
LEMMA StopSearchAgrees ==
    ASSUME AInv, NEW r \in RequestId, requests[r].status = "searching",
           NEW status \in {"cancelled", "no_match"}
    PROVE  LET ended == PutRequest(Db, r, [requests[r] EXCEPT !.status = status])
               b == requests[r].anchor
               d == IF requests[r].kind = "rematch" /\ bookings[b].status = "confirmed"
                    THEN KeepSpotSoloAfterRelease(ended, b) ELSE ended
           IN  Good(d) /\ Agrees(d)
<1> DEFINE row == [requests[r] EXCEPT !.status = status]
           ended == PutRequest(Db, r, row)
           b == requests[r].anchor
           solo == KeepSpotSoloAfterRelease(ended, b)
           rematch == requests[r].kind = "rematch" /\ bookings[b].status = "confirmed"
           d == IF rematch THEN solo ELSE ended
<1>1. requests[r] \in Request /\ GoodRequest(requests[r])
  BY Rows DEF Good
<1>2. /\ row.status = status /\ row.user = requests[r].user /\ row.kind = requests[r].kind
      /\ row.anchor = b /\ GoodRequest(row)
  BY <1>1 DEF Request, GoodRequest
<1> HIDE DEF row
<1>3. /\ ended.requests[r] = row /\ \A q \in RequestId \ {r} : ended.requests[q] = requests[q]
      /\ ended.bookings = bookings /\ ended.pairings = pairings
  BY Rows DEF PutRequest, Good, DbType
<1>4. Keeps(Db, ended)
  BY <1>2, Rows, PutRequestKeeps
<1> HIDE DEF ended
<1>5. UnproposedRow(Db, r, row)
  BY <1>2, Rows DEF UnproposedRow
<1>6. Good(ended) /\ Agrees(ended)
  <2>1. Good(ended)
    BY <1>4 DEF Keeps
  <2>2. Agrees(ended)
    BY <1>3, <1>5, Rows, RequestRowAgrees
  <2> QED BY <2>1, <2>2
<1>7. ASSUME rematch PROVE Good(solo) /\ Agrees(solo)
  <2>1. b \in BookingId /\ bookings[b].status # "free"
    BY <1>1, <1>7 DEF GoodRequest
  <2>2. Keeps(ended, solo) /\ OnlyBookings(ended, solo, {b}) /\ WentSolo(bookings[b], solo.bookings[b])
    BY <1>3, <1>6, <2>1, KeepSpotSoloRows
  <2> HIDE DEF solo
  <2>3. /\ solo.requests[r] = row /\ \A q \in RequestId \ {r} : solo.requests[q] = requests[q]
        /\ \A c \in BookingId \ {b} : solo.bookings[c] = bookings[c]
        /\ solo.pairings = pairings
    BY <1>3, <2>2 DEF OnlyBookings
  <2>4. Agrees(solo)
    BY <1>2, <1>5, <1>7, <2>2, <2>3, Rows, RematchStopsAgrees
  <2> QED BY <2>2, <2>4 DEF Keeps
<1> HIDE DEF solo
<1>8. Good(d) /\ Agrees(d)
  BY <1>6, <1>7
<1> QED BY <1>8 DEF ended, row, solo

(* cancelRequest.                                                          *)
LEMMA CancelRequestAgrees ==
    ASSUME AInv, NEW u \in User, CancelRequest(u)
    PROVE  Agrees(Db)'
<1>1. PICK r \in RequestId :
        /\ requests[r].status = "searching"
        /\ LET d == PutRequest(Db, r, [requests[r] EXCEPT !.status = "cancelled"])
               b == requests[r].anchor
           IN  Commit(IF requests[r].kind = "rematch" /\ bookings[b].status = "confirmed"
                      THEN KeepSpotSoloAfterRelease(d, b) ELSE d)
        /\ UNCHANGED now
  BY DEF CancelRequest
<1> DEFINE ended == PutRequest(Db, r, [requests[r] EXCEPT !.status = "cancelled"])
           b == requests[r].anchor
           d == IF requests[r].kind = "rematch" /\ bookings[b].status = "confirmed"
                THEN KeepSpotSoloAfterRelease(ended, b) ELSE ended
<1>2. Good(d) /\ Agrees(d)
  BY <1>1, StopSearchAgrees, Zenon
<1>3. Commit(d)
  BY <1>1
<1> HIDE DEF d
<1> QED BY <1>1, <1>2, <1>3, CommitAgrees

(* tick, third loop.                                                       *)
LEMMA TickSearchDeadlineAgrees ==
    ASSUME AInv, NEW r \in RequestId, TickSearchDeadline(r)
    PROVE  Agrees(Db)'
<1> DEFINE ended == PutRequest(Db, r, [requests[r] EXCEPT !.status = "no_match"])
           b == requests[r].anchor
           d == IF requests[r].kind = "rematch" /\ bookings[b].status = "confirmed"
                THEN KeepSpotSoloAfterRelease(ended, b) ELSE ended
<1>1. requests[r].status = "searching" /\ Commit(d) /\ UNCHANGED now
  BY DEF TickSearchDeadline, Fruitless
<1>2. Good(d) /\ Agrees(d)
  BY <1>1, StopSearchAgrees, Zenon
<1> HIDE DEF d
<1> QED BY <1>1, <1>2, CommitAgrees

(* Attendance, once check-in is open.                                      *)
LEMMA AttendanceAgrees ==
    ASSUME AInv, NEW b \in BookingId, bookings[b].status = "confirmed",
           Before(Start[bookings[b].shift], CheckInLead) <= now,
           NEW outcome \in HoldOutcome, NEW status \in Over,
           Commit(CompleteIfResolved(Mark(ResolveHold(Db, b, outcome), b, status),
                                     bookings[b].pairing)),
           UNCHANGED now
    PROVE  Agrees(Db)'
<1> DEFINE marked == Mark(ResolveHold(Db, b, outcome), b, status)
           p == bookings[b].pairing
           d == CompleteIfResolved(marked, p)
<1>1. p \in PairingId \cup {None}
  BY Rows DEF Booking
<1>2. Good(marked) /\ Agrees(marked) /\ Keeps(Db, marked) /\ Good(Db)
  <2>1. Keeps(Db, marked) /\ Good(Db)
    BY Rows, MarkedRows, Zenon
  <2>2. Agrees(marked)
    BY Rows, MarkedAgrees
  <2> QED BY <2>1, <2>2 DEF Keeps
<1> HIDE DEF marked, p
<1>3. Keeps(marked, d) /\ Agrees(d)
  BY <1>1, <1>2, CompleteIfResolvedKeeps, CompleteIfResolvedAgrees
<1>4. Commit(d)
  BY DEF marked, p
<1> HIDE DEF d
<1> QED BY <1>3, <1>4, CommitAgrees DEF Keeps

(* checkIn, markNoShow and tick's last loop.                               *)
LEMMA ShiftDayAgrees ==
    ASSUME AInv, NEW b \in BookingId, CheckIn(b) \/ MarkNoShow(b) \/ TickAutoResolve(b)
    PROVE  Agrees(Db)'
<1>1. ASSUME bookings[b].status = "confirmed"
      PROVE  /\ Start[bookings[b].shift] \in Nat /\ End[bookings[b].shift] \in Nat
             /\ Start[bookings[b].shift] < End[bookings[b].shift]
  <2>1. bookings[b].shift \in Shift
    BY <1>1, Rows DEF Good, GoodBooking
  <2> QED BY <2>1, LifecycleAssumption
<1>2. CASE CheckIn(b)
  <2>1. /\ bookings[b].status = "confirmed" /\ now >= Before(Start[bookings[b].shift], CheckInLead)
        /\ UNCHANGED now
        /\ Commit(CompleteIfResolved(Mark(ResolveHold(Db, b, "returned"), b, "attended"),
                                     bookings[b].pairing))
    BY <1>2 DEF CheckIn
  <2>2. Before(Start[bookings[b].shift], CheckInLead) <= now
    BY <1>1, <2>1, Rows, LifecycleAssumption DEF Before
  <2> QED BY <2>1, <2>2, AttendanceAgrees DEF HoldOutcome, Over
<1>3. CASE MarkNoShow(b)
  <2>1. /\ bookings[b].status = "confirmed" /\ now >= Start[bookings[b].shift]
        /\ UNCHANGED now
        /\ Commit(CompleteIfResolved(Mark(ResolveHold(Db, b, "forfeited"), b, "no_show"),
                                     bookings[b].pairing))
    BY <1>3 DEF MarkNoShow
  <2>2. Before(Start[bookings[b].shift], CheckInLead) <= now
    BY <1>1, <2>1, Rows, LifecycleAssumption DEF Before
  <2> QED BY <2>1, <2>2, AttendanceAgrees DEF HoldOutcome, Over
<1>4. CASE TickAutoResolve(b)
  <2>1. /\ bookings[b].status = "confirmed" /\ End[bookings[b].shift] + AutoResolve <= now
        /\ UNCHANGED now
        /\ Commit(CompleteIfResolved(Mark(ResolveHold(Db, b, "released"), b, "unverified"),
                                     bookings[b].pairing))
    BY <1>4 DEF TickAutoResolve, Unmarked
  <2>2. Before(Start[bookings[b].shift], CheckInLead) <= now
    BY <1>1, <2>1, Rows, LifecycleAssumption DEF Before
  <2> QED BY <2>1, <2>2, AttendanceAgrees DEF HoldOutcome, Over
<1> QED BY <1>2, <1>3, <1>4

(* tick, fourth loop.                                                      *)
LEMMA TickCompleteAgrees ==
    ASSUME AInv, NEW p \in PairingId, TickComplete(p)
    PROVE  Agrees(Db)'
<1> DEFINE d == CompleteIfResolved(Db, p)
<1>1. Commit(d) /\ UNCHANGED now
  BY DEF TickComplete
<1>2. Keeps(Db, d) /\ Agrees(d)
  BY Rows, KeepsSelf, CompleteIfResolvedKeeps, CompleteIfResolvedAgrees
<1> HIDE DEF d
<1> QED BY <1>1, <1>2, CommitAgrees DEF Keeps

(* Time passes, or nothing happens.                                        *)
LEMMA TimePassesAgrees ==
    ASSUME AInv, Db' = Db, now' \in Nat, now <= now'
    PROVE  Agrees(Db)'
<1>1. now \in Nat
  BY Rows
<1>2. ASSUME NEW p \in PairingId
      PROVE  PairOK(Db, p)' /\ DecisionOK(Db, p)'
  <2>1. PairOK(Db, p) /\ DecisionOK(Db, p)
    BY Rows DEF Agrees
  <2>2. PairOK(Db, p)'
    <3>1. Db.pairings[p].status # "free" => End[BookingOf(Db, p, "a").shift] \in Nat
      BY Linked, Rows, LifecycleAssumption, Zenon DEF BookingOf, Side
    <3>2. Db.pairings[p].status = "completed" => End[BookingOf(Db, p, "a").shift] <= now'
      BY <1>1, <2>1, <3>1 DEF PairOK
    <3> QED BY <2>1, <3>2, ZenonT(60) DEF PairOK, BookingOf, Open
  <2>3. DecisionOK(Db, p)'
    BY <2>1, Zenon DEF DecisionOK, BookingOf
  <2> QED BY <2>2, <2>3
<1>3. ASSUME NEW p \in PairingId, NEW s \in Side
      PROVE  SideOK(Db, p, s)' /\ ConfirmedOK(Db, p, s)'
  <2>1. SideOK(Db, p, s) /\ ConfirmedOK(Db, p, s) /\ Db.pairings[p].expires \in Nat
    BY Rows DEF Agrees, Pairing
  <2>2. SideOK(Db, p, s)'
    <3>1. now' < Db.pairings[p].expires => now < Db.pairings[p].expires
      BY <1>1, <2>1
    <3> QED BY <2>1, <3>1, Zenon DEF SideOK, BookingOf, RequestOf, Open
  <2>3. ConfirmedOK(Db, p, s)'
    BY <2>1 DEF ConfirmedOK, BookingOf, RequestOf
  <2> QED BY <2>2, <2>3
<1>4. Apart(Db)' /\ OneAnchor(Db)'
  BY Rows DEF Agrees, Apart, OneAnchor, Open
<1>5. ASSUME NEW r \in RequestId
      PROVE  RequestOK(Db, r)'
  <2>1. RequestOK(Db, r)
    BY Rows
  <2> QED BY <2>1, Zenon DEF RequestOK, BackedOut, Open
<1>6. ASSUME NEW b \in BookingId
      PROVE  BookingOK(Db, b)'
  <2>1. BookingOK(Db, b)
    BY Rows
  <2>2. Db.bookings[b].status \in Over => Before(Start[Db.bookings[b].shift], CheckInLead) <= now'
    <3>1. Db.bookings[b].status \in Over => Db.bookings[b].shift \in Shift
      BY Rows DEF Good, GoodBooking, Over
    <3>2. Db.bookings[b].status \in Over => Before(Start[Db.bookings[b].shift], CheckInLead) \in Nat
      BY <3>1, LifecycleAssumption DEF Before
    <3> QED BY <1>1, <2>1, <3>2 DEF BookingOK
  <2> QED BY <2>1, <2>2 DEF BookingOK, BackedOut, Open, Names
<1> QED BY <1>2, <1>3, <1>4, <1>5, <1>6 DEF Agrees

-----------------------------------------------------------------------------
(* Confirming. *)

(* A booking is confirmed, and its hold placed.                            *)
ConfirmedRow(x, y) ==
    /\ y.status = "confirmed" /\ y.kind = "paired" /\ y.hold = "held"
    /\ y.pairing = x.pairing /\ y.user = x.user /\ y.shift = x.shift

(* placeHold and the change of a proposed booking, of nothing else.        *)
LEMMA ConfirmRowRows ==
    ASSUME NEW d, Good(d), NEW b \in BookingId, d.bookings[b].status # "free"
    PROVE  LET e == ConfirmRow(PlaceHold(d, b), b)
           IN  /\ OnlyBookings(d, e, {b}) /\ ConfirmedRow(d.bookings[b], e.bookings[b])
               /\ e.booked = d.booked
<1> DEFINE row == [d.bookings[b] EXCEPT !.hold = "held", !.status = "confirmed",
                                        !.kind = "paired", !.at = now, !.cap = TRUE]
           e == ConfirmRow(PlaceHold(d, b), b)
<1>1. d.bookings[b].user \in User /\ d.bookings[b] \in Booking
  BY DEF Good, GoodBooking
<1>2. /\ e.bookings = [d.bookings EXCEPT ![b] = row]
      /\ e.requests = d.requests /\ e.pairings = d.pairings /\ e.booked = d.booked
  BY <1>1, Zenon DEF ConfirmRow, PlaceHold, PutBooking, Good, DbType, Booking
<1>3. ConfirmedRow(d.bookings[b], row)
  BY <1>1 DEF ConfirmedRow, Booking
<1> HIDE DEF row, e
<1>4. /\ e.bookings[b] = row /\ \A c \in BookingId \ {b} : e.bookings[c] = d.bookings[c]
  BY <1>2 DEF Good, DbType
<1> QED BY <1>2, <1>3, <1>4 DEF OnlyBookings, e

(* The two ways a side is tied to its booking, read off its rows.          *)
LEMMA OpenSideRows ==
    ASSUME NEW d, Good(d), Agrees(d), NEW p \in PairingId, Open(d, p), NEW s \in Side,
           NEW b, b = d.pairings[p].booking[s], NEW r, r = d.pairings[p].request[s]
    PROVE  /\ b \in BookingId /\ r \in RequestId
           /\ d.requests[r].status = "proposed" /\ d.requests[r].user = d.bookings[b].user
           /\ \/ d.requests[r].anchor = None /\ d.bookings[b].pairing = p
              \/ d.requests[r].anchor = b /\ d.bookings[b].pairing = None
              \/ /\ d.requests[r].anchor = b /\ BackedOut(d, b)
                 /\ d.pairings[d.bookings[b].pairing].choice = "rematch"
<1>1. b \in BookingId /\ r \in RequestId
  BY Linked DEF Open
<1>2. /\ d.requests[r].status = "proposed" /\ d.requests[r].user = d.bookings[b].user
      /\ d.requests[r].anchor = None => d.bookings[b].pairing = p
      /\ d.requests[r].anchor # None => b = d.requests[r].anchor
  <2>1. SideOK(d, p, s)
    BY DEF Agrees
  <2> QED BY <2>1 DEF SideOK, BookingOf, RequestOf
<1>3. RequestOK(d, r) /\ d.requests[r] \in Request
  BY <1>1 DEF Good, GoodRequest, Agrees
<1>4. CASE d.requests[r].anchor = None
  BY <1>1, <1>2, <1>4
<1>5. CASE d.requests[r].anchor # None
  <2>1. /\ d.requests[r].kind # "standard" /\ d.bookings[b].status \in Took
        /\ d.requests[r].kind = "solo_rsvp" => d.bookings[b].pairing = None
        /\ d.requests[r].kind = "rematch" =>
            BackedOut(d, b) /\ d.pairings[d.bookings[b].pairing].choice = "rematch"
    BY <1>2, <1>3, <1>5, Zenon DEF RequestOK, OpenRequest
  <2>2. d.requests[r].kind \in {"standard", "solo_rsvp", "rematch"}
    BY <1>3 DEF Request
  <2> QED BY <1>1, <1>2, <1>5, <2>1, <2>2, ZenonT(60)
<1> QED BY <1>4, <1>5, Zenon

(* Somebody with an answer to give is in no pairing, or in this one.       *)
LEMMA NotYetIn ==
    ASSUME NEW d, Good(d), Agrees(d), NEW p \in PairingId, Open(d, p), NEW s \in Side,
           NEW b, b = d.pairings[p].booking[s], now < d.pairings[p].expires,
           ~(d.bookings[b].status = "confirmed" /\ d.bookings[b].hold # "none"
             /\ d.bookings[b].kind = "paired")
    PROVE  d.bookings[b].pairing = p \/ d.bookings[b].pairing = None
<1> DEFINE r == d.pairings[p].request[s]
<1>1. b = d.pairings[p].booking[s] /\ r = d.pairings[p].request[s]
  OBVIOUS
<1> HIDE DEF r
<1>2. d.bookings[b].pairing = p \/ d.bookings[b].pairing = None \/ BackedOut(d, b)
  BY <1>1, OpenSideRows
<1>3. d.requests[r].anchor = None \/ d.bookings[b].status \in Took
  <2>1. /\ r \in RequestId /\ d.requests[r].status = "proposed"
        /\ d.requests[r].anchor # None => b = d.requests[r].anchor
    BY <1>1, Linked, Zenon DEF Agrees, SideOK, BookingOf, RequestOf, Open
  <2>2. RequestOK(d, r)
    BY <2>1 DEF Agrees
  <2> QED BY <2>1, <2>2 DEF RequestOK, OpenRequest
<1>4. d.requests[r].anchor = None => d.bookings[b].pairing = p
  BY <1>1, ZenonT(60) DEF Agrees, SideOK, BookingOf, RequestOf
<1>5. d.bookings[b].status \in ActiveBooking
  BY Zenon DEF Agrees, SideOK, BookingOf
<1> QED BY <1>2, <1>3, <1>4, <1>5, Zenon DEF BackedOut, Took, Over, ActiveBooking

(* Open pairings that name the rows they named stay apart.                 *)
LEMMA ApartStays ==
    ASSUME NEW d, NEW e, Apart(d),
           \A q \in PairingId : /\ e.pairings[q].request = d.pairings[q].request
                                /\ e.pairings[q].booking = d.pairings[q].booking
                                /\ Open(e, q) => Open(d, q)
    PROVE  Apart(e)
BY DEF Apart

(* Someone who can still answer the proposal confirms into it.             *)
LEMMA ConfirmRowAgrees ==
    ASSUME NEW d, Good(d), Agrees(d), NEW p \in PairingId, Open(d, p), NEW s \in Side,
           NEW b, b = d.pairings[p].booking[s], now < d.pairings[p].expires,
           ~(d.bookings[b].status = "confirmed" /\ d.bookings[b].hold # "none"
             /\ d.bookings[b].kind = "paired"),
           NEW e, OnlyBookings(d, e, {b}), ConfirmedRow(d.bookings[b], e.bookings[b])
    PROVE  Agrees(e)
<1>1. /\ e.requests = d.requests /\ e.pairings = d.pairings
      /\ \A c \in BookingId : c # b => e.bookings[c] = d.bookings[c]
      /\ e.bookings[b].status = "confirmed" /\ e.bookings[b].kind = "paired"
      /\ e.bookings[b].hold = "held" /\ e.bookings[b].pairing = d.bookings[b].pairing
      /\ e.bookings[b].user = d.bookings[b].user /\ e.bookings[b].shift = d.bookings[b].shift
  BY ZenonT(60) DEF OnlyBookings, ConfirmedRow
<1>2. /\ b \in BookingId /\ d.bookings[b].status # "free" /\ d.pairings[p].status # "free"
      /\ d.pairings[p].status = "proposed"
  BY Linked, ZenonT(60) DEF Open
<1>3. d.bookings[b].pairing = p \/ d.bookings[b].pairing = None
  BY NotYetIn, ZenonT(60)
<1>4. ASSUME NEW c \in BookingId
      PROVE  BackedOut(e, c) <=> BackedOut(d, c)
  <2>1. CASE c # b
    BY <1>1, <2>1, ZenonT(60) DEF BackedOut
  <2>2. CASE c = b
    BY <1>1, <1>2, <1>3, <2>2, NoneIsNoRow, ZenonT(60) DEF BackedOut
  <2> QED BY <2>1, <2>2
<1>5. /\ \A q, c : Names(e, q, c) <=> Names(d, q, c)
      /\ \A q \in PairingId : Open(e, q) <=> Open(d, q)
      /\ \A q \in PairingId, x \in Side : RequestOf(e, q, x) = RequestOf(d, q, x)
      /\ "a" \in Side /\ "b" \in Side
  BY <1>1, ZenonT(60) DEF Names, Open, RequestOf, Side
<1>6. ASSUME NEW q \in PairingId, d.pairings[q].status # "free", NEW x \in Side
      PROVE  /\ BookingOf(e, q, x).user = BookingOf(d, q, x).user
             /\ BookingOf(e, q, x).shift = BookingOf(d, q, x).shift
             /\ BookingOf(e, q, x).pairing = BookingOf(d, q, x).pairing
             /\ \/ BookingOf(e, q, x) = BookingOf(d, q, x)
                \/ d.pairings[q].booking[x] = b
  <2>1. d.pairings[q].booking[x] \in BookingId
    BY <1>6, Linked, ZenonT(60)
  <2> QED BY <1>1, <2>1, ZenonT(60) DEF BookingOf
<1>7. ASSUME NEW q \in PairingId
      PROVE  PairOK(e, q) /\ DecisionOK(e, q)
  <2>1. PairOK(d, q) /\ DecisionOK(d, q)
    BY DEF Agrees
  <2>2. PairOK(e, q)
    <3>1. e.pairings[q] = d.pairings[q] /\ (Open(e, q) <=> Open(d, q))
      BY <1>1, <1>5, ZenonT(60)
    <3> QED BY <1>5, <1>6, <2>1, <3>1, ZenonT(60) DEF PairOK
  <2>3. DecisionOK(e, q)
    <3>1. ASSUME NEW x \in Side, d.pairings[q].status = "cancelled", BookingOf(d, q, x).pairing = q
          PROVE  BookingOf(e, q, x) = BookingOf(d, q, x)
      <4>1. d.pairings[q].booking[x] # b
        BY <1>2, <1>3, <3>1, NoneIsNoRow, ZenonT(60) DEF BookingOf
      <4> QED BY <1>6, <3>1, <4>1, ZenonT(60)
    <3> QED BY <1>1, <2>1, <3>1, ZenonT(60) DEF DecisionOK
  <2> QED BY <2>2, <2>3
<1>8. ASSUME NEW q \in PairingId, NEW x \in Side
      PROVE  SideOK(e, q, x) /\ ConfirmedOK(e, q, x)
  <2>1. SideOK(d, q, x) /\ ConfirmedOK(d, q, x)
    BY DEF Agrees
  <2>2. CASE d.pairings[q].booking[x] # b
    <3>1. d.pairings[q].status # "free" => BookingOf(e, q, x) = BookingOf(d, q, x)
      BY <1>6, <2>2, ZenonT(60)
    <3>2. e.pairings[q] = d.pairings[q] /\ RequestOf(e, q, x) = RequestOf(d, q, x)
      BY <1>1, <1>5, ZenonT(60)
    <3> QED BY <2>1, <3>1, <3>2, ZenonT(60) DEF SideOK, ConfirmedOK, Open
  <2>3. CASE d.pairings[q].booking[x] = b
    <3>1. BookingOf(e, q, x) = e.bookings[b] /\ BookingOf(d, q, x) = d.bookings[b]
      BY <1>1, <2>3, ZenonT(60) DEF BookingOf
    <3>2. "confirmed" \in TakesSpot /\ "confirmed" \in ActiveBooking /\ "confirmed" \in Took
      BY ZenonT(60) DEF TakesSpot, ActiveBooking, Took
    <3>3. e.pairings[q] = d.pairings[q] /\ RequestOf(e, q, x) = RequestOf(d, q, x)
      BY <1>1, <1>5, ZenonT(60)
    <3>4. SideOK(e, q, x)
      BY <1>1, <2>1, <2>3, <3>1, <3>2, <3>3, ZenonT(60) DEF SideOK, Open
    <3>5. ConfirmedOK(e, q, x)
      BY <1>1, <2>1, <3>1, <3>2, <3>3, ZenonT(60) DEF ConfirmedOK
    <3> QED BY <3>4, <3>5
  <2> QED BY <2>2, <2>3
<1>9. Apart(e) /\ OneAnchor(e)
  <2>1. Apart(d) /\ OneAnchor(d)
    BY DEF Agrees
  <2>2. Apart(e)
    BY <1>1, <1>5, <2>1, ApartStays, ZenonT(60)
  <2>3. OneAnchor(e)
    BY <1>1, <2>1, ZenonT(60) DEF OneAnchor
  <2> QED BY <2>2, <2>3
<1>10. ASSUME NEW r \in RequestId
       PROVE  RequestOK(e, r)
  <2>1. RequestOK(d, r) /\ d.requests[r].anchor \in BookingId \cup {None}
    BY ZenonT(60) DEF Agrees, Good, GoodRequest, Request
  <2>2. CASE d.requests[r].anchor # b
    BY <1>1, <1>4, <1>5, <2>1, <2>2, ZenonT(60) DEF RequestOK
  <2>3. CASE d.requests[r].anchor = b
    <3>1. "confirmed" \in Took
      BY DEF Took
    <3> QED BY <1>1, <1>2, <1>4, <1>5, <2>1, <2>3, <3>1, Zenon DEF RequestOK
  <2> QED BY <2>2, <2>3
<1>11. ASSUME NEW c \in BookingId
       PROVE  BookingOK(e, c)
  <2>1. BookingOK(d, c)
    BY DEF Agrees
  <2>2. CASE c # b
    BY <1>1, <1>4, <1>5, <2>1, <2>2, ZenonT(60) DEF BookingOK
  <2>3. CASE c = b
    <3>1. Names(e, p, b) /\ Open(e, p) /\ e.pairings[p].status \in LivePairing
      BY <1>1, <1>2, <1>5, ZenonT(60) DEF Names, Open, LivePairing
    <3>2. "confirmed" \notin Over
      BY DEF Over
    <3> QED BY <1>1, <1>2, <1>3, <2>1, <2>3, <3>1, <3>2, ZenonT(60) DEF BookingOK
  <2> QED BY <2>2, <2>3
<1> QED BY <1>7, <1>8, <1>9, <1>10, <1>11 DEF Agrees

(* A booking joins the confirmed pairing, and its request is matched.      *)
Joined(x, y, p) ==
    /\ y.pairing = p /\ y.status = x.status /\ y.kind = x.kind /\ y.hold = x.hold
    /\ y.user = x.user /\ y.shift = x.shift
Matched(x, y) ==
    /\ y.status = "matched" /\ y.user = x.user /\ y.kind = x.kind /\ y.anchor = x.anchor

(* JoinSide does both, and touches no other row.                           *)
LEMMA JoinSideRows ==
    ASSUME NEW d, Good(d), NEW p \in PairingId, d.pairings[p].status # "free", NEW s \in Side
    PROVE  LET e == JoinSide(d, p, s)
               b == d.pairings[p].booking[s]
               r == d.pairings[p].request[s]
           IN  /\ Keeps(d, e) /\ e.pairings = d.pairings /\ e.booked = d.booked
               /\ Joined(d.bookings[b], e.bookings[b], p)
               /\ Matched(d.requests[r], e.requests[r])
               /\ \A c \in BookingId \ {b} : e.bookings[c] = d.bookings[c]
               /\ \A q \in RequestId \ {r} : e.requests[q] = d.requests[q]
<1> DEFINE r == d.pairings[p].request[s]
           b == d.pairings[p].booking[s]
           rq == [d.requests[r] EXCEPT !.status = "matched"]
           bk == [d.bookings[b] EXCEPT !.pairing = p]
           e == JoinSide(d, p, s)
<1>1. r \in RequestId /\ b \in BookingId
  BY Linked
<1>2. Matched(d.requests[r], rq)
  <2>1. d.requests[r] \in Request
    BY <1>1 DEF Good, GoodRequest
  <2> HIDE DEF r
  <2> QED BY <2>1 DEF Request, Matched
<1>3. Joined(d.bookings[b], bk, p)
  <2>1. d.bookings[b] \in Booking
    BY <1>1 DEF Good, GoodBooking
  <2> HIDE DEF b
  <2> QED BY <2>1 DEF Booking, Joined
<1>4. /\ e.bookings = [d.bookings EXCEPT ![b] = bk] /\ e.requests = [d.requests EXCEPT ![r] = rq]
      /\ e.pairings = d.pairings /\ e.booked = d.booked
  BY DEF JoinSide, MatchRequest, PutRequest, PutBooking, Good, DbType
<1>5. Keeps(d, e)
  BY JoinSideKeeps
<1> HIDE DEF rq, bk, e, r, b
<1>6. /\ e.bookings[b] = bk /\ \A c \in BookingId \ {b} : e.bookings[c] = d.bookings[c]
      /\ e.requests[r] = rq /\ \A q \in RequestId \ {r} : e.requests[q] = d.requests[q]
  BY <1>1, <1>4 DEF Good, DbType
<1> QED BY <1>2, <1>3, <1>4, <1>5, <1>6 DEF e, r, b

(* finalizeIfReady, once both sides have confirmed.                        *)
Finalized(d, e, p) ==
    /\ Keeps(d, e)
    /\ e.pairings[p].status = "confirmed" /\ e.pairings[p].request = d.pairings[p].request
    /\ e.pairings[p].booking = d.pairings[p].booking
    /\ \A q \in PairingId \ {p} : e.pairings[q] = d.pairings[q]
    /\ \A s \in Side : /\ Joined(BookingOf(d, p, s), BookingOf(e, p, s), p)
                       /\ Matched(RequestOf(d, p, s), RequestOf(e, p, s))
    /\ \A c \in BookingId : ~Names(d, p, c) => e.bookings[c] = d.bookings[c]
    /\ \A r \in RequestId : ~Carries(d, p, r) => e.requests[r] = d.requests[r]
    /\ e.booked = d.booked

(* It confirms the pairing and joins its two sides to it.                  *)
LEMMA FinalizeRows ==
    ASSUME NEW d, Good(d), NEW p \in PairingId, d.pairings[p].status = "proposed", Ready(d, p),
           d.pairings[p].request["a"] # d.pairings[p].request["b"],
           d.pairings[p].booking["a"] # d.pairings[p].booking["b"]
    PROVE  Finalized(d, FinalizeIfReady(d, p), p)
<1> DEFINE e == PutStatus(d, p, "confirmed")
           f == JoinSide(e, p, "a")
           g == JoinSide(f, p, "b")
           ba == d.pairings[p].booking["a"]
           bb == d.pairings[p].booking["b"]
           ra == d.pairings[p].request["a"]
           rb == d.pairings[p].request["b"]
<1>1. FinalizeIfReady(d, p) = g
  BY DEF FinalizeIfReady
<1>2. Keeps(d, e)
  BY PutStatusKeeps DEF LivePairing
<1>3. /\ e.requests = d.requests /\ e.bookings = d.bookings /\ e.booked = d.booked
      /\ \A q \in PairingId \ {p} : e.pairings[q] = d.pairings[q]
      /\ e.pairings[p].status = "confirmed"
      /\ e.pairings[p].request = d.pairings[p].request
      /\ e.pairings[p].booking = d.pairings[p].booking
  BY PutStatusRows
<1>4. "a" \in Side /\ "b" \in Side /\ \A s \in Side : s = "a" \/ s = "b"
  BY DEF Side
<1>5. ba \in BookingId /\ bb \in BookingId /\ ra \in RequestId /\ rb \in RequestId
  BY <1>4, Linked
<1>6. ba # bb /\ ra # rb
  OBVIOUS
<1> HIDE DEF e
<1>7. Good(e) /\ e.pairings[p].status # "free"
  BY <1>2 DEF Keeps
<1>8. /\ Keeps(e, f) /\ f.pairings = e.pairings /\ f.booked = e.booked
      /\ Joined(e.bookings[e.pairings[p].booking["a"]], f.bookings[e.pairings[p].booking["a"]], p)
      /\ Matched(e.requests[e.pairings[p].request["a"]], f.requests[e.pairings[p].request["a"]])
      /\ \A c \in BookingId \ {e.pairings[p].booking["a"]} : f.bookings[c] = e.bookings[c]
      /\ \A q \in RequestId \ {e.pairings[p].request["a"]} : f.requests[q] = e.requests[q]
  BY <1>4, <1>7, JoinSideRows
<1> HIDE DEF f
<1>9. Good(f) /\ f.pairings[p].status # "free"
  BY <1>7, <1>8, Zenon DEF Keeps
<1>10. /\ Keeps(f, g) /\ g.pairings = f.pairings /\ g.booked = f.booked
       /\ Joined(f.bookings[f.pairings[p].booking["b"]], g.bookings[f.pairings[p].booking["b"]], p)
       /\ Matched(f.requests[f.pairings[p].request["b"]], g.requests[f.pairings[p].request["b"]])
       /\ \A c \in BookingId \ {f.pairings[p].booking["b"]} : g.bookings[c] = f.bookings[c]
       /\ \A q \in RequestId \ {f.pairings[p].request["b"]} : g.requests[q] = f.requests[q]
  BY <1>4, <1>9, JoinSideRows
<1> HIDE DEF g
<1>11. Keeps(d, g)
  BY <1>2, <1>8, <1>10, KeepsChain, ZenonT(60)
<1>12. /\ e.pairings[p].booking["a"] = ba /\ e.pairings[p].request["a"] = ra
       /\ f.pairings[p].booking["b"] = bb /\ f.pairings[p].request["b"] = rb
       /\ g.pairings[p].booking = d.pairings[p].booking
       /\ g.pairings[p].request = d.pairings[p].request
  BY <1>3, <1>8, <1>10, Zenon
<1> HIDE DEF ba, bb, ra, rb
<1>13. /\ f.bookings[bb] = d.bookings[bb] /\ f.requests[rb] = d.requests[rb]
       /\ g.bookings[ba] = f.bookings[ba] /\ g.requests[ra] = f.requests[ra]
       /\ \A c \in BookingId \ {ba, bb} : g.bookings[c] = d.bookings[c]
       /\ \A q \in RequestId \ {ra, rb} : g.requests[q] = d.requests[q]
  <2>1. /\ \A c \in BookingId \ {ba} : f.bookings[c] = d.bookings[c]
        /\ \A q \in RequestId \ {ra} : f.requests[q] = d.requests[q]
    BY <1>3, <1>8, <1>12
  <2>2. /\ \A c \in BookingId \ {bb} : g.bookings[c] = f.bookings[c]
        /\ \A q \in RequestId \ {rb} : g.requests[q] = f.requests[q]
    BY <1>10, <1>12
  <2> QED BY <1>5, <1>6, <2>1, <2>2
<1>14. ASSUME NEW s \in Side
       PROVE  /\ Joined(BookingOf(d, p, s), BookingOf(g, p, s), p)
              /\ Matched(RequestOf(d, p, s), RequestOf(g, p, s))
  <2>1. CASE s = "a"
    BY <1>3, <1>8, <1>12, <1>13, <2>1, ZenonT(60) DEF BookingOf, RequestOf, ba, ra
  <2>2. CASE s = "b"
    BY <1>3, <1>10, <1>12, <1>13, <2>2, ZenonT(60) DEF BookingOf, RequestOf, bb, rb
  <2> QED BY <1>4, <2>1, <2>2
<1>15. /\ \A c \in BookingId : ~Names(d, p, c) => g.bookings[c] = d.bookings[c]
       /\ \A r \in RequestId : ~Carries(d, p, r) => g.requests[r] = d.requests[r]
  BY <1>4, <1>13 DEF Names, Carries, ba, bb, ra, rb
<1>16. /\ g.pairings[p].status = "confirmed" /\ g.booked = d.booked
       /\ \A q \in PairingId \ {p} : g.pairings[q] = d.pairings[q]
  BY <1>3, <1>8, <1>10, ZenonT(60)
<1> QED BY <1>1, <1>11, <1>12, <1>14, <1>15, <1>16 DEF Finalized

(* finalizeIfReady: what was proposed is confirmed, and is nobody else's.  *)
LEMMA FinalizedAgrees ==
    ASSUME NEW d, Good(d), Agrees(d), NEW p \in PairingId, Open(d, p), Ready(d, p),
           NEW e, Finalized(d, e, p)
    PROVE  Agrees(e)
<1>1. /\ e.pairings[p].status = "confirmed" /\ d.pairings[p].status = "proposed"
      /\ d.pairings[p].status # "free"
      /\ \A q \in PairingId : q # p => e.pairings[q] = d.pairings[q]
      /\ \A c \in BookingId : ~Names(d, p, c) => e.bookings[c] = d.bookings[c]
      /\ \A r \in RequestId : ~Carries(d, p, r) => e.requests[r] = d.requests[r]
  BY DEF Finalized, Open
<1>2. /\ \A q \in PairingId : /\ e.pairings[q].request = d.pairings[q].request
                              /\ e.pairings[q].booking = d.pairings[q].booking
                              /\ e.pairings[q].status = "free" <=> d.pairings[q].status = "free"
      /\ \A c \in BookingId : /\ e.bookings[c].user = d.bookings[c].user
                              /\ e.bookings[c].shift = d.bookings[c].shift
                              /\ e.bookings[c].status = "free" <=> d.bookings[c].status = "free"
  BY DEF Finalized, Keeps
<1>3. ASSUME NEW s \in Side
      PROVE  LET b == d.pairings[p].booking[s]
                 r == d.pairings[p].request[s]
             IN  /\ b \in BookingId /\ r \in RequestId
                 /\ Joined(d.bookings[b], e.bookings[b], p) /\ Matched(d.requests[r], e.requests[r])
                 /\ d.bookings[b].status = "confirmed" /\ d.bookings[b].kind = "paired"
                 /\ d.bookings[b].hold # "none" /\ d.requests[r].status = "proposed"
                 /\ \/ d.requests[r].anchor = None /\ d.bookings[b].pairing = p
                    \/ d.requests[r].anchor = b /\ d.bookings[b].pairing = None
                    \/ /\ d.requests[r].anchor = b /\ BackedOut(d, b)
                       /\ d.pairings[d.bookings[b].pairing].choice = "rematch"
  <2>1. SideOK(d, p, s) /\ \A r \in RequestId : RequestOK(d, r)
    BY DEF Agrees
  <2>2. /\ Joined(BookingOf(d, p, s), BookingOf(e, p, s), p)
        /\ Matched(RequestOf(d, p, s), RequestOf(e, p, s))
    BY DEF Finalized
  <2>3. e.pairings[p].booking = d.pairings[p].booking /\ e.pairings[p].request = d.pairings[p].request
    BY <1>2
  <2> DEFINE b == d.pairings[p].booking[s]
             r == d.pairings[p].request[s]
  <2>4. /\ d.bookings[b].status = "confirmed" /\ d.bookings[b].kind = "paired"
        /\ d.bookings[b].hold # "none"
    BY DEF Ready
  <2>5. Joined(d.bookings[b], e.bookings[b], p) /\ Matched(d.requests[r], e.requests[r])
    BY <2>2, <2>3, ZenonT(60) DEF BookingOf, RequestOf
  <2>6. /\ b \in BookingId /\ r \in RequestId
        /\ d.requests[r].status = "proposed"
        /\ \/ d.requests[r].anchor = None /\ d.bookings[b].pairing = p
           \/ d.requests[r].anchor = b /\ d.bookings[b].pairing = None
           \/ /\ d.requests[r].anchor = b /\ BackedOut(d, b)
              /\ d.pairings[d.bookings[b].pairing].choice = "rematch"
    <3> HIDE DEF b, r
    <3>1. b = d.pairings[p].booking[s] /\ r = d.pairings[p].request[s]
      BY DEF b, r
    <3> QED BY <3>1, OpenSideRows
  <2> HIDE DEF b, r
  <2>7. /\ b \in BookingId /\ r \in RequestId
        /\ Joined(d.bookings[b], e.bookings[b], p) /\ Matched(d.requests[r], e.requests[r])
        /\ d.bookings[b].status = "confirmed" /\ d.bookings[b].kind = "paired"
        /\ d.bookings[b].hold # "none" /\ d.requests[r].status = "proposed"
        /\ \/ d.requests[r].anchor = None /\ d.bookings[b].pairing = p
           \/ d.requests[r].anchor = b /\ d.bookings[b].pairing = None
           \/ /\ d.requests[r].anchor = b /\ BackedOut(d, b)
              /\ d.pairings[d.bookings[b].pairing].choice = "rematch"
    BY <2>4, <2>5, <2>6
  <2> QED BY <2>7, Zenon DEF b, r
<1>4. \A q \in PairingId : Open(e, q) <=> Open(d, q) /\ q # p
  BY <1>1 DEF Open
<1>5. ASSUME NEW q \in PairingId, Open(d, q), q # p, NEW x \in Side
      PROVE  BookingOf(e, q, x) = BookingOf(d, q, x) /\ RequestOf(e, q, x) = RequestOf(d, q, x)
  <2>1. Apart(d) /\ d.pairings[q].status # "free"
    BY <1>5 DEF Agrees, Open
  <2>2. d.pairings[q].booking[x] \in BookingId /\ d.pairings[q].request[x] \in RequestId
    BY <2>1, Linked
  <2>3. ~Names(d, p, d.pairings[q].booking[x]) /\ ~Carries(d, p, d.pairings[q].request[x])
    BY <1>5, <2>1 DEF Apart, Names, Carries
  <2> QED BY <1>1, <1>2, <2>2, <2>3 DEF BookingOf, RequestOf
<1>6. ASSUME NEW c \in BookingId, Names(d, p, c)
      PROVE  /\ d.bookings[c].status = "confirmed" /\ d.bookings[c].kind = "paired"
             /\ d.bookings[c].hold # "none" /\ Joined(d.bookings[c], e.bookings[c], p)
             /\ \/ d.bookings[c].pairing = p \/ d.bookings[c].pairing = None
                \/ BackedOut(d, c) /\ d.pairings[d.bookings[c].pairing].choice = "rematch"
  <2>1. PICK s \in Side : d.pairings[p].booking[s] = c
    BY <1>6 DEF Names
  <2> QED BY <1>3, <2>1, ZenonT(60)
<1>7. ASSUME NEW r \in RequestId, Carries(d, p, r)
      PROVE  Matched(d.requests[r], e.requests[r]) /\ d.requests[r].status = "proposed"
  BY <1>3, <1>7, Zenon DEF Carries
<1>8. ASSUME NEW r \in RequestId, ~Carries(d, p, r), d.requests[r].status \in OpenRequest,
             d.requests[r].anchor # None
      PROVE  ~Names(d, p, d.requests[r].anchor) /\ d.requests[r].anchor \in BookingId
  <2>1. d.requests[r].anchor \in BookingId /\ RequestOK(d, r) /\ d.requests[r] \in Request
    BY <1>8 DEF Agrees, Good, GoodRequest, Request
  <2>2. ASSUME NEW s \in Side, d.pairings[p].booking[s] = d.requests[r].anchor
        PROVE  FALSE
    <3> DEFINE b == d.pairings[p].booking[s]
               q == d.pairings[p].request[s]
    <3>1. q \in RequestId /\ q # r /\ d.requests[q].status \in OpenRequest
      BY <1>3, <1>8, Zenon DEF Carries, OpenRequest
    <3>2. d.requests[q].anchor # b
      BY <1>8, <2>2, <3>1 DEF Agrees, OneAnchor
    <3>3. d.bookings[b].pairing = p
      BY <1>3, <3>2, ZenonT(60)
    <3>4. \/ d.bookings[b].pairing = None
          \/ BackedOut(d, b)
      <4> HIDE DEF b, q
      <4>1. b = d.requests[r].anchor
        BY <2>2 DEF b
      <4> QED BY <1>8, <2>1, <4>1 DEF RequestOK, Request, OpenRequest
    <3> QED BY <1>1, <3>3, <3>4, NoneIsNoRow DEF BackedOut
  <2> QED BY <2>1, <2>2 DEF Names
<1>9. ASSUME NEW c \in BookingId, ~Names(d, p, c)
      PROVE  BackedOut(e, c) <=> BackedOut(d, c)
  BY <1>1, <1>9, Zenon DEF BackedOut
<1>10. ASSUME NEW q \in PairingId
       PROVE  PairOK(e, q)
  <2>1. PairOK(d, q) /\ "a" \in Side /\ "b" \in Side
    BY DEF Agrees, Side
  <2>2. CASE d.pairings[q].status = "free"
    BY <1>2, <2>2 DEF PairOK
  <2>3. CASE d.pairings[q].status # "free"
    <3>1. ASSUME NEW x \in Side
          PROVE  /\ BookingOf(e, q, x).user = BookingOf(d, q, x).user
                 /\ BookingOf(e, q, x).shift = BookingOf(d, q, x).shift
      <4>1. d.pairings[q].booking[x] \in BookingId
        BY <2>3, Linked
      <4> QED BY <1>2, <4>1, Zenon DEF BookingOf
    <3>2. Open(e, q) => Open(d, q) /\ e.pairings[q].expires = d.pairings[q].expires
      BY <1>1, <1>4
    <3>3. e.pairings[q].status = "completed" => d.pairings[q].status = "completed"
      BY <1>1
    <3> QED BY <1>2, <2>1, <2>3, <3>1, <3>2, <3>3 DEF PairOK
  <2> QED BY <2>2, <2>3
<1>11. ASSUME NEW q \in PairingId
       PROVE  DecisionOK(e, q)
  <2>1. CASE q = p
    BY <1>1, <2>1 DEF DecisionOK
  <2>2. CASE q # p
    <3>1. DecisionOK(d, q) /\ e.pairings[q] = d.pairings[q]
      BY <1>1, <2>2 DEF Agrees
    <3>2. ASSUME NEW x \in Side, d.pairings[q].status = "cancelled", d.pairings[q].choice = "none",
                 BookingOf(d, q, x).pairing = q
          PROVE  BookingOf(e, q, x) = BookingOf(d, q, x)
      <4>1. d.pairings[q].booking[x] \in BookingId
        BY <3>2, Linked
      <4>2. ~Names(d, p, d.pairings[q].booking[x])
        BY <1>6, <2>2, <3>2, <4>1, NoneIsNoRow DEF BookingOf
      <4> QED BY <1>1, <1>2, <4>1, <4>2 DEF BookingOf
    <3> QED BY <3>1, <3>2 DEF DecisionOK
  <2> QED BY <2>1, <2>2
<1>12. ASSUME NEW q \in PairingId, NEW x \in Side
       PROVE  SideOK(e, q, x)
  <2>1. SideOK(d, q, x)
    BY DEF Agrees
  <2>2. CASE q = p
    BY <1>4, <2>2 DEF SideOK
  <2>3. CASE q # p
    <3>1. e.pairings[q] = d.pairings[q]
      BY <1>1, <2>3
    <3> QED BY <1>4, <1>5, <2>1, <2>3, <3>1 DEF SideOK
  <2> QED BY <2>2, <2>3
<1>13. ASSUME NEW q \in PairingId, NEW x \in Side
       PROVE  ConfirmedOK(e, q, x)
  <2>1. CASE q = p
    <3>1. /\ BookingOf(e, p, x) = e.bookings[d.pairings[p].booking[x]]
          /\ RequestOf(e, p, x) = e.requests[d.pairings[p].request[x]]
      BY <1>2 DEF BookingOf, RequestOf
    <3>2. /\ Joined(d.bookings[d.pairings[p].booking[x]], BookingOf(e, p, x), p)
          /\ Matched(d.requests[d.pairings[p].request[x]], RequestOf(e, p, x))
          /\ d.bookings[d.pairings[p].booking[x]].status = "confirmed"
          /\ d.bookings[d.pairings[p].booking[x]].kind = "paired"
          /\ d.bookings[d.pairings[p].booking[x]].hold # "none"
      BY <1>3, <3>1, Zenon
    <3> QED BY <2>1, <3>2 DEF ConfirmedOK, Joined, Matched, Took
  <2>2. CASE q # p /\ d.pairings[q].status = "confirmed"
    <3>1. ConfirmedOK(d, q, x) /\ e.pairings[q] = d.pairings[q]
      BY <1>1, <2>2 DEF Agrees
    <3>2. d.pairings[q].booking[x] \in BookingId /\ d.pairings[q].request[x] \in RequestId
      BY <2>2, Linked
    <3>3. BookingOf(d, q, x).pairing = q /\ RequestOf(d, q, x).status = "matched"
      BY <2>2, <3>1 DEF ConfirmedOK
    <3>4. ~Carries(d, p, d.pairings[q].request[x])
      BY <1>7, <3>2, <3>3 DEF RequestOf
    <3>5. ~Names(d, p, d.pairings[q].booking[x])
      BY <1>6, <2>2, <3>2, <3>3, NoneIsNoRow DEF BookingOf, BackedOut
    <3>6. BookingOf(e, q, x) = BookingOf(d, q, x) /\ RequestOf(e, q, x) = RequestOf(d, q, x)
      BY <1>1, <1>2, <3>2, <3>4, <3>5 DEF BookingOf, RequestOf
    <3> QED BY <3>1, <3>6 DEF ConfirmedOK
  <2>3. CASE q # p /\ d.pairings[q].status # "confirmed"
    BY <1>1, <2>3 DEF ConfirmedOK
  <2> QED BY <2>1, <2>2, <2>3
<1>14. Apart(e)
  <2>1. Apart(d)
    BY DEF Agrees
  <2> QED BY <1>2, <1>4, <2>1 DEF Apart
<1>15. /\ \A r \in RequestId : /\ e.requests[r].status \in OpenRequest =>
                                    d.requests[r].status \in OpenRequest /\ ~Carries(d, p, r)
                               /\ e.requests[r].anchor = d.requests[r].anchor
                               /\ e.requests[r].kind = d.requests[r].kind
                               /\ e.requests[r].user = d.requests[r].user
                               /\ e.requests[r].status = "free" => d.requests[r].status = "free"
  BY <1>1, <1>7 DEF Matched, OpenRequest
<1>16. OneAnchor(e)
  <2>1. OneAnchor(d)
    BY DEF Agrees
  <2> QED BY <1>15, <2>1 DEF OneAnchor
<1>17. ASSUME NEW r \in RequestId
       PROVE  RequestOK(e, r)
  <2>1. RequestOK(d, r) /\ d.requests[r].anchor \in BookingId \cup {None}
    BY DEF Agrees, Good, GoodRequest, Request
  <2>2. CASE Carries(d, p, r)
    <3>1. /\ d.requests[r].status # "free" /\ e.requests[r].status \notin OpenRequest
          /\ e.requests[r].status # "proposed"
      BY <1>7, <2>2 DEF Matched, OpenRequest
    <3> QED BY <1>2, <1>15, <2>1, <3>1, ZenonT(60) DEF RequestOK
  <2>3. CASE ~Carries(d, p, r)
    <3> DEFINE a == d.requests[r].anchor
    <3>1. e.requests[r] = d.requests[r]
      BY <1>1, <2>3
    <3>2. d.requests[r].status \in OpenRequest /\ a # None =>
            /\ e.bookings[a] = d.bookings[a]
            /\ BackedOut(d, a) <=> BackedOut(e, a)
      BY <1>1, <1>8, <1>9, <2>3
    <3>3. BackedOut(d, a) /\ e.bookings[a] = d.bookings[a] =>
            e.pairings[d.bookings[a].pairing] = d.pairings[d.bookings[a].pairing]
      BY <1>1, Zenon DEF BackedOut
    <3>4. d.requests[r].status = "proposed" =>
            \E q \in PairingId, s \in Side : Open(e, q) /\ e.pairings[q].request[s] = r
      <4> SUFFICES ASSUME d.requests[r].status = "proposed"
                   PROVE  \E q \in PairingId, s \in Side : Open(e, q) /\ e.pairings[q].request[s] = r
        OBVIOUS
      <4>1. PICK q \in PairingId, s \in Side : Open(d, q) /\ d.pairings[q].request[s] = r
        BY <2>1, Zenon DEF RequestOK
      <4>2. q # p
        BY <2>3, <4>1, Zenon DEF Carries
      <4> QED BY <1>2, <1>4, <4>1, <4>2
    <3>5. a # None => /\ e.bookings[a].user = d.bookings[a].user
                      /\ e.bookings[a].status = "free" <=> d.bookings[a].status = "free"
      BY <1>2, <2>1
    <3> HIDE DEF a
    <3> QED BY <2>1, <3>1, <3>2, <3>3, <3>4, <3>5, Zenon DEF RequestOK, a
  <2> QED BY <2>2, <2>3
<1>18. ASSUME NEW c \in BookingId
       PROVE  BookingOK(e, c)
  <2>1. BookingOK(d, c) /\ d.bookings[c].pairing \in PairingId \cup {None}
    BY DEF Agrees, Good, GoodBooking, Booking
  <2>2. \A q \in PairingId : Names(e, q, c) <=> Names(d, q, c)
    BY <1>2 DEF Names
  <2>3. CASE Names(d, p, c)
    <3>1. /\ e.bookings[c].pairing = p /\ e.bookings[c].status = "confirmed"
          /\ e.bookings[c].kind = "paired" /\ e.bookings[c].hold = d.bookings[c].hold
          /\ d.bookings[c].status = "confirmed" /\ d.bookings[c].kind = "paired"
      BY <1>6, <2>3 DEF Joined
    <3>2. d.bookings[c].hold = "held"
      BY <2>1, <3>1 DEF BookingOK
    <3>3. "confirmed" \notin Over /\ "confirmed" \in LivePairing
      BY DEF Over, LivePairing
    <3> QED BY <1>1, <2>2, <2>3, <3>1, <3>2, <3>3, NoneIsNoRow DEF BookingOK
  <2>4. CASE ~Names(d, p, c)
    <3>1. e.bookings[c] = d.bookings[c] /\ (BackedOut(e, c) <=> BackedOut(d, c))
      BY <1>1, <1>9, <2>4
    <3>2. d.bookings[c].pairing # None => e.pairings[d.bookings[c].pairing].status # "free"
      BY <1>2, <2>1 DEF BookingOK
    <3>3. d.bookings[c].pairing # None /\ d.bookings[c].status # "cancelled" =>
            /\ d.bookings[c].pairing # p
            /\ e.pairings[d.bookings[c].pairing] = d.pairings[d.bookings[c].pairing]
            /\ Names(e, d.bookings[c].pairing, c)
      BY <1>1, <2>1, <2>2, <2>4 DEF BookingOK
    <3>4. (\E q \in PairingId : Open(d, q) /\ Names(d, q, c)) =>
            \E q \in PairingId : Open(e, q) /\ Names(e, q, c)
      BY <1>4, <2>2, <2>4
    <3> QED BY <2>1, <3>1, <3>2, <3>3, <3>4 DEF BookingOK
  <2> QED BY <2>3, <2>4
<1> QED BY <1>10, <1>11, <1>12, <1>13, <1>14, <1>16, <1>17, <1>18 DEF Agrees

(* confirm.                                                                *)
LEMMA ConfirmAgrees ==
    ASSUME AInv, NEW p \in PairingId, NEW s \in Side, Confirm(p, s)
    PROVE  Agrees(Db)'
<1> DEFINE b == pairings[p].booking[s]
           row == ConfirmRow(PlaceHold(Db, b), b)
           d == IF AlreadyIn(b) THEN Db ELSE row
           e == FinalizeIfReady(d, p)
<1>1. /\ Good(Db) /\ Agrees(Db) /\ Open(Db, p) /\ Db.pairings[p].status # "free"
      /\ now < Db.pairings[p].expires /\ now \in Nat /\ IInv
  BY Rows, Columns DEF Confirm, Open, Good, DbType, Pairing
<1>2. b \in BookingId /\ Db.bookings[b].status # "free" /\ b = Db.pairings[p].booking[s]
  BY <1>1, Linked, Columns
<1>3. Commit(e) /\ UNCHANGED now
  BY DEF Confirm
<1>4. AlreadyIn(b) \/ balance[bookings[b].user] >= 1
  BY DEF Confirm, CanConfirm
<1> HIDE DEF b
<1>5. Good(d) /\ Agrees(d) /\ d.pairings = Db.pairings
  <2>1. CASE AlreadyIn(b)
    BY <1>1, <2>1
  <2>2. ASSUME ~AlreadyIn(b) PROVE Good(row) /\ Agrees(row) /\ row.pairings = Db.pairings
    <3>1. ~ /\ Db.bookings[b].status = "confirmed" /\ Db.bookings[b].hold # "none"
            /\ Db.bookings[b].kind = "paired"
      BY <2>2, Columns DEF AlreadyIn
    <3>2. Db.bookings[b].hold # "held"
      BY <1>1, <1>2, <3>1, Zenon DEF Good, GoodBooking
    <3>3. Keeps(Db, row)
      BY <1>1, <1>2, <1>4, <2>2, <3>2, ConfirmRowKeeps, Columns
    <3>4. OnlyBookings(Db, row, {b}) /\ ConfirmedRow(Db.bookings[b], row.bookings[b])
      BY <1>1, <1>2, ConfirmRowRows
    <3> HIDE DEF row
    <3>5. Agrees(row)
      BY <1>1, <1>2, <3>1, <3>4, ConfirmRowAgrees, Zenon
    <3> QED BY <3>3, <3>4, <3>5 DEF Keeps, OnlyBookings
  <2> HIDE DEF row
  <2> QED BY <1>1, <2>1, <2>2
<1> HIDE DEF d
<1>6. Open(d, p) /\ d.pairings[p].status # "free"
  BY <1>1, <1>5 DEF Open
<1>7. Good(e) /\ Agrees(e)
  <2>1. CASE Ready(d, p)
    <3>1. PairOK(d, p)
      BY <1>5 DEF Agrees
    <3>2. Finalized(d, e, p)
      BY <1>5, <1>6, <2>1, <3>1, FinalizeRows DEF PairOK, Open
    <3> HIDE DEF e
    <3>3. Agrees(e)
      BY <1>5, <1>6, <2>1, <3>2, FinalizedAgrees
    <3> QED BY <3>2, <3>3 DEF Finalized, Keeps
  <2>2. CASE ~Ready(d, p)
    BY <1>5, <2>2 DEF FinalizeIfReady
  <2> QED BY <2>1, <2>2
<1> HIDE DEF e
<1> QED BY <1>3, <1>7, CommitAgrees

-----------------------------------------------------------------------------
(* New rows: a solo RSVP, a proposal. *)

(* Bookings and pairings are added; what is there stays as it is, but that *)
(* a search may be proposed.                                               *)
Grows(d, e) ==
    /\ \A q \in PairingId : d.pairings[q].status # "free" => e.pairings[q] = d.pairings[q]
    /\ \A c \in BookingId : d.bookings[c].status # "free" => e.bookings[c] = d.bookings[c]
    /\ \A c \in BookingId : d.bookings[c].status = "free" =>
        \/ e.bookings[c] = d.bookings[c]
        \/ e.bookings[c].pairing = None
        \/ e.pairings[e.bookings[c].pairing].status = "proposed"
    /\ \A r \in RequestId : d.requests[r].status # "free" =>
        /\ e.requests[r].user = d.requests[r].user /\ e.requests[r].kind = d.requests[r].kind
        /\ e.requests[r].anchor = d.requests[r].anchor
        /\ \/ e.requests[r].status = d.requests[r].status
           \/ d.requests[r].status = "searching" /\ e.requests[r].status = "proposed"

(* What is added changes nobody's standing.                                *)
LEMMA GrownRows ==
    ASSUME NEW d, Good(d), Agrees(d), NEW e, Grows(d, e)
    PROVE  /\ \A c \in BookingId : BackedOut(e, c) <=> BackedOut(d, c)
           /\ \A q \in PairingId, x \in Side : d.pairings[q].status # "free" =>
                /\ BookingOf(e, q, x) = BookingOf(d, q, x)
                /\ RequestOf(e, q, x).user = RequestOf(d, q, x).user
                /\ RequestOf(e, q, x).anchor = RequestOf(d, q, x).anchor
                /\ RequestOf(d, q, x).status # "searching" =>
                        RequestOf(e, q, x).status = RequestOf(d, q, x).status
<1>1. ASSUME NEW c \in BookingId
      PROVE  BackedOut(e, c) <=> BackedOut(d, c)
  <2>1. BookingOK(d, c)
    BY DEF Agrees
  <2>2. CASE d.bookings[c].status # "free"
    <3>1. e.bookings[c] = d.bookings[c]
      BY <2>2 DEF Grows
    <3>2. d.bookings[c].pairing \in PairingId =>
            e.pairings[d.bookings[c].pairing] = d.pairings[d.bookings[c].pairing]
      BY <2>1, NoneIsNoRow DEF BookingOK, Grows
    <3> QED BY <3>1, <3>2 DEF BackedOut
  <2>3. CASE d.bookings[c].status = "free"
    <3>1. ~BackedOut(d, c)
      BY <2>1, <2>3, NoneIsNoRow DEF BookingOK, BackedOut
    <3>2. \/ e.bookings[c].pairing = None
          \/ e.pairings[e.bookings[c].pairing].status = "proposed"
      BY <2>1, <2>3 DEF BookingOK, Grows
    <3> QED BY <3>1, <3>2, NoneIsNoRow DEF BackedOut
  <2> QED BY <2>2, <2>3
<1>2. ASSUME NEW q \in PairingId, NEW x \in Side, d.pairings[q].status # "free"
      PROVE  /\ BookingOf(e, q, x) = BookingOf(d, q, x)
             /\ RequestOf(e, q, x).user = RequestOf(d, q, x).user
             /\ RequestOf(e, q, x).anchor = RequestOf(d, q, x).anchor
             /\ RequestOf(d, q, x).status # "searching" =>
                    RequestOf(e, q, x).status = RequestOf(d, q, x).status
  <2>1. /\ d.pairings[q].request[x] \in RequestId /\ d.pairings[q].booking[x] \in BookingId
        /\ d.requests[d.pairings[q].request[x]].status # "free"
        /\ d.bookings[d.pairings[q].booking[x]].status # "free"
    BY <1>2, Linked
  <2>2. e.pairings[q] = d.pairings[q]
    BY <1>2 DEF Grows
  <2> QED BY <2>1, <2>2, SMT, ZenonT(60) DEF BookingOf, RequestOf, Grows
<1> QED BY <1>1, <1>2

(* Nor a pairing that is there.                                            *)
LEMMA GrownPairing ==
    ASSUME NEW d, Good(d), Agrees(d), NEW e, Grows(d, e), NEW q \in PairingId,
           d.pairings[q].status # "free"
    PROVE  /\ PairOK(e, q) /\ DecisionOK(e, q)
           /\ \A x \in Side : SideOK(e, q, x) /\ ConfirmedOK(e, q, x)
<1>1. e.pairings[q] = d.pairings[q]
  BY DEF Grows
<1>2. PairOK(d, q) /\ DecisionOK(d, q) /\ "a" \in Side /\ "b" \in Side
  BY DEF Agrees, Side
<1>3. \A x \in Side : BookingOf(e, q, x) = BookingOf(d, q, x)
  BY GrownRows
<1>4. PairOK(e, q)
  BY <1>1, <1>2, <1>3 DEF PairOK, Open
<1>5. DecisionOK(e, q)
  BY <1>1, <1>2, <1>3 DEF DecisionOK
<1>6. ASSUME NEW x \in Side
      PROVE  SideOK(e, q, x) /\ ConfirmedOK(e, q, x)
  <2>1. SideOK(d, q, x) /\ ConfirmedOK(d, q, x)
    BY DEF Agrees
  <2>2. /\ RequestOf(e, q, x).user = RequestOf(d, q, x).user
        /\ RequestOf(e, q, x).anchor = RequestOf(d, q, x).anchor
        /\ RequestOf(d, q, x).status # "searching" =>
                RequestOf(e, q, x).status = RequestOf(d, q, x).status
    BY GrownRows
  <2>3. SideOK(e, q, x)
    BY <1>1, <1>3, <2>1, <2>2 DEF SideOK, Open
  <2>4. ConfirmedOK(e, q, x)
    BY <1>1, <1>3, <2>1, <2>2 DEF ConfirmedOK
  <2> QED BY <2>3, <2>4
<1> QED BY <1>4, <1>5, <1>6

(* Nor a booking.                                                          *)
LEMMA GrownBooking ==
    ASSUME NEW d, Good(d), Agrees(d), NEW e, Grows(d, e), NEW c \in BookingId,
           d.bookings[c].status # "free"
    PROVE  BookingOK(e, c)
<1>1. e.bookings[c] = d.bookings[c] /\ BookingOK(d, c) /\ (BackedOut(e, c) <=> BackedOut(d, c))
  BY GrownRows DEF Grows, Agrees
<1>2. d.bookings[c].pairing \in PairingId \cup {None}
  BY DEF Good, GoodBooking, Booking
<1>3. d.bookings[c].pairing # None =>
        e.pairings[d.bookings[c].pairing] = d.pairings[d.bookings[c].pairing]
  BY <1>1, <1>2 DEF BookingOK, Grows
<1>4. d.bookings[c].pairing # None => (Names(e, d.bookings[c].pairing, c)
                                         <=> Names(d, d.bookings[c].pairing, c))
  BY <1>3, Zenon DEF Names
<1>5. (\E q \in PairingId : Open(d, q) /\ Names(d, q, c)) =>
        \E q \in PairingId : Open(e, q) /\ Names(e, q, c)
  BY DEF Open, Names, Grows
<1> QED BY <1>1, <1>3, <1>4, <1>5 DEF BookingOK

(* Nor a request: its anchor stays.                                        *)
LEMMA GrownRequest ==
    ASSUME NEW d, Good(d), Agrees(d), NEW e, Grows(d, e), NEW r \in RequestId,
           d.requests[r].status # "free",
           e.requests[r].status = "proposed" /\ d.requests[r].status = "searching" =>
                \E q \in PairingId, s \in Side : Open(e, q) /\ e.pairings[q].request[s] = r
    PROVE  RequestOK(e, r)
<1> DEFINE a == d.requests[r].anchor
<1>1. /\ RequestOK(d, r) /\ d.requests[r] \in Request
      /\ e.requests[r].user = d.requests[r].user /\ e.requests[r].kind = d.requests[r].kind
      /\ e.requests[r].anchor = a
      /\ \/ e.requests[r].status = d.requests[r].status
         \/ d.requests[r].status = "searching" /\ e.requests[r].status = "proposed"
  BY DEF Agrees, Grows, Good, GoodRequest
<1>2. a \in BookingId \cup {None}
  BY <1>1 DEF Request
<1>3. a # None =>
        /\ a \in BookingId /\ d.bookings[a].status # "free" /\ e.bookings[a] = d.bookings[a]
        /\ BackedOut(e, a) <=> BackedOut(d, a)
  BY <1>1, <1>2, GrownRows DEF RequestOK, Grows
<1>4. a # None /\ BackedOut(d, a) =>
        e.pairings[d.bookings[a].pairing] = d.pairings[d.bookings[a].pairing]
  BY ZenonT(60) DEF BackedOut, Grows
<1>5. e.requests[r].status = "proposed" =>
        \E q \in PairingId, s \in Side : Open(e, q) /\ e.pairings[q].request[s] = r
  <2> SUFFICES ASSUME e.requests[r].status = "proposed", d.requests[r].status = "proposed"
               PROVE  \E q \in PairingId, s \in Side : Open(e, q) /\ e.pairings[q].request[s] = r
    BY <1>1, Zenon
  <2>1. PICK q \in PairingId, s \in Side : Open(d, q) /\ d.pairings[q].request[s] = r
    BY <1>1, Zenon DEF RequestOK
  <2>2. e.pairings[q] = d.pairings[q]
    BY <2>1 DEF Open, Grows
  <2> QED BY <2>1, <2>2 DEF Open
<1>6. e.requests[r].status \in OpenRequest <=> d.requests[r].status \in OpenRequest
  BY <1>1 DEF OpenRequest
<1> HIDE DEF a
<1> QED BY <1>1, <1>3, <1>4, <1>5, <1>6, Zenon DEF RequestOK, a

(* A solo spot, and the search that is for it.                             *)
LEMMA SoloSpotAgrees ==
    ASSUME NEW d, Good(d), Agrees(d), NEW e, NEW b \in BookingId, d.bookings[b].status = "free",
           NEW r \in RequestId, d.requests[r].status = "free",
           e.pairings = d.pairings,
           \A c \in BookingId \ {b} : e.bookings[c] = d.bookings[c],
           \A q \in RequestId \ {r} : e.requests[q] = d.requests[q],
           e.bookings[b].status = "confirmed", e.bookings[b].kind = "solo",
           e.bookings[b].hold # "held", e.bookings[b].pairing = None,
           \/ e.requests[r] = d.requests[r]
           \/ /\ e.requests[r].status = "searching" /\ e.requests[r].kind = "solo_rsvp"
              /\ e.requests[r].anchor = b /\ e.requests[r].user = e.bookings[b].user
    PROVE  Agrees(e)
<1>1. Grows(d, e)
  BY DEF Grows
<1>2. ASSUME NEW q \in PairingId
      PROVE  /\ PairOK(e, q) /\ DecisionOK(e, q)
             /\ \A x \in Side : SideOK(e, q, x) /\ ConfirmedOK(e, q, x)
  <2>1. CASE d.pairings[q].status = "free"
    BY <2>1 DEF PairOK, DecisionOK, SideOK, ConfirmedOK, Open
  <2>2. CASE d.pairings[q].status # "free"
    BY <1>1, <2>2, GrownPairing
  <2> QED BY <2>1, <2>2
<1>3. Apart(e)
  <2>1. Apart(d)
    BY DEF Agrees
  <2> QED BY <2>1, ApartStays DEF Open
<1>4. OneAnchor(e)
  <2>1. OneAnchor(d)
    BY DEF Agrees
  <2>2. \A q \in RequestId : d.requests[q].status \in OpenRequest => d.requests[q].anchor # b
    BY NoneIsNoRow, SMT, ZenonT(60) DEF Agrees, RequestOK, OpenRequest
  <2> QED BY <2>1, <2>2 DEF OneAnchor, OpenRequest
<1>5. ASSUME NEW q \in RequestId
      PROVE  RequestOK(e, q)
  <2>1. CASE d.requests[q].status # "free"
    <3>1. e.requests[q] = d.requests[q]
      BY <2>1
    <3> QED BY <1>1, <2>1, <3>1, GrownRequest
  <2>2. CASE e.requests[q].status = "free"
    BY <2>2 DEF RequestOK
  <2>3. CASE d.requests[q].status = "free" /\ e.requests[q].status # "free"
    <3>1. /\ e.requests[q].status = "searching" /\ e.requests[q].kind = "solo_rsvp"
          /\ e.requests[q].anchor = b /\ e.requests[q].user = e.bookings[b].user
      BY <2>3
    <3> QED BY <3>1, NoneIsNoRow DEF RequestOK, Took
  <2> QED BY <2>1, <2>2, <2>3
<1>6. ASSUME NEW c \in BookingId
      PROVE  BookingOK(e, c)
  <2>1. CASE d.bookings[c].status # "free"
    BY <1>1, <2>1, GrownBooking
  <2>2. CASE d.bookings[c].status = "free" /\ c # b
    <3>1. BookingOK(d, c) /\ e.bookings[c] = d.bookings[c]
      BY <2>2 DEF Agrees
    <3> QED BY <2>2, <3>1 DEF BookingOK, Over
  <2>3. CASE c = b
    BY <2>3 DEF BookingOK, Over
  <2> QED BY <2>1, <2>2, <2>3
<1> QED BY <1>2, <1>3, <1>4, <1>5, <1>6 DEF Agrees

(* rsvpSolo: the open search is cancelled, then the spot is taken.         *)
LEMMA RsvpSoloAgrees ==
    ASSUME AInv, NEW u \in User, NEW s \in Shift, RsvpSolo(u, s)
    PROVE  Agrees(Db)'
<1> DEFINE deadline == Before(Start[s], LastResponse)
           looks == deadline > now /\ ~CapReached(u)
           bk == SoloBooking(u, s)
           rq(b) == NewRequest(u, "solo_rsvp", deadline, b)
           row(q, r, b) ==
                IF IsLatest(q, OpenRequests(u)) THEN [requests[q] EXCEPT !.status = "cancelled"]
                ELSE IF q = r /\ looks THEN rq(b) ELSE requests[q]
           e == Db'
<1>1. PICK b \in BookingId, r \in RequestId :
        /\ bookings[b].status = "free" /\ requests[r].status = "free"
        /\ bookings' = [bookings EXCEPT ![b] = bk]
        /\ requests' = [q \in RequestId |-> row(q, r, b)]
        /\ UNCHANGED <<now, pairings>>
  BY Zenon DEF RsvpSolo, Fresh
<1>2. /\ bk.status = "confirmed" /\ bk.kind = "solo" /\ bk.hold = "none" /\ bk.pairing = None
      /\ bk.user = u
  BY DEF SoloBooking, NoBooking, None
<1>3. /\ rq(b).status = "searching" /\ rq(b).kind = "solo_rsvp"
      /\ rq(b).anchor = b /\ rq(b).user = u
  BY DEF NewRequest
<1>4. \A q \in RequestId : IsLatest(q, OpenRequests(u)) =>
        requests[q].status = "searching" /\ q # r
  BY <1>1 DEF RsvpSolo, IsLatest, OpenRequests, OpenRequest
<1>5. /\ e.bookings[b] = bk /\ \A c \in BookingId \ {b} : e.bookings[c] = bookings[c]
      /\ e.pairings = pairings
      /\ \A q \in RequestId : e.requests[q] = row(q, r, b)
  BY <1>1, Rows DEF Db
<1>6. \A q \in RequestId, x \in RequestId :
        IsLatest(q, OpenRequests(u)) /\ IsLatest(x, OpenRequests(u)) => q = x
  BY DEF IsLatest, RequestId
<1>7. Db' = e
  OBVIOUS
<1> HIDE DEF e, bk, rq, looks
<1>8. Agrees(e)
  <2>1. CASE \A q \in RequestId : ~IsLatest(q, OpenRequests(u))
    <3>1. /\ \A q \in RequestId \ {r} : e.requests[q] = requests[q]
          /\ e.requests[r] = requests[r] \/ e.requests[r] = rq(b)
      BY <1>5, <2>1, Zenon
    <3> HIDE DEF row
    <3> QED BY <1>1, <1>2, <1>3, <1>5, <3>1, Rows, SoloSpotAgrees
  <2>2. ASSUME NEW q \in RequestId, IsLatest(q, OpenRequests(u))
        PROVE  Agrees(e)
    <3> DEFINE closed == [requests[q] EXCEPT !.status = "cancelled"]
               d == PutRequest(Db, q, closed)
    <3>1. requests[q].status = "searching" /\ q # r /\ requests[q] \in Request
      BY <1>4, <2>2, Rows
    <3>2. /\ closed.status = "cancelled" /\ closed.user = requests[q].user
          /\ closed.kind = requests[q].kind /\ closed.anchor = requests[q].anchor
          /\ GoodRequest(closed)
      BY <3>1, Rows, GoodNow DEF Request, GoodRequest
    <3>3. /\ \A x \in RequestId \ {r, q} : e.requests[x] = requests[x]
          /\ e.requests[r] = requests[r] \/ e.requests[r] = rq(b)
          /\ e.requests[q] = closed
      BY <1>4, <1>5, <1>6, <2>2, Zenon
    <3> HIDE DEF row, closed
    <3>4. Keeps(Db, d)
      BY <3>1, <3>2, Rows, PutRequestKeeps
    <3>5. /\ d.requests[q] = closed /\ \A x \in RequestId \ {q} : d.requests[x] = requests[x]
          /\ d.bookings = bookings /\ d.pairings = pairings
      BY Rows DEF PutRequest, Db
    <3> HIDE DEF d
    <3>6. UnproposedRow(Db, q, d.requests[q])
      BY <3>1, <3>2, <3>5, Rows DEF UnproposedRow
    <3>7. Agrees(d)
      BY <3>5, <3>6, Rows, RequestRowAgrees
    <3>8. Good(d) /\ d.requests[r].status = "free" /\ d.bookings[b].status = "free"
      BY <1>1, <3>1, <3>4, <3>5 DEF Keeps
    <3>9. /\ \A x \in RequestId \ {r} : e.requests[x] = d.requests[x]
          /\ e.requests[r] = d.requests[r] \/ e.requests[r] = rq(b)
          /\ \A c \in BookingId \ {b} : e.bookings[c] = d.bookings[c]
          /\ e.pairings = d.pairings /\ e.bookings[b] = bk
      BY <1>5, <3>1, <3>3, <3>5
    <3> QED BY <1>2, <1>3, <3>7, <3>8, <3>9, SoloSpotAgrees
  <2> QED BY <2>1, <2>2
<1> QED BY <1>1, <1>7, <1>8, NextAgrees

(* One side of a new proposal: an anchored search brings its booking, any  *)
(* other one gets a new booking.                                           *)
Proposed(d, e, p, r, b, s) ==
    /\ d.requests[r].status = "searching" /\ e.requests[r].status = "proposed"
    /\ e.requests[r].user = d.requests[r].user /\ e.requests[r].kind = d.requests[r].kind
    /\ e.requests[r].anchor = d.requests[r].anchor
    /\ e.bookings[b].shift = s
    /\ IF d.requests[r].anchor # None
       THEN b = d.requests[r].anchor /\ e.bookings[b] = d.bookings[b]
       ELSE /\ d.bookings[b].status = "free"
            /\ e.bookings[b].status = "proposed" /\ e.bookings[b].pairing = p
            /\ e.bookings[b].user = d.requests[r].user /\ e.bookings[b].kind = "paired"
            /\ e.bookings[b].hold = "none"

(* Whoever is proposed is not in another open proposal, and neither is the *)
(* booking they bring.                                                     *)
LEMMA ProposedAlone ==
    ASSUME NEW d, Good(d), Agrees(d), NEW p \in PairingId, d.pairings[p].status = "free",
           NEW r \in RequestId, NEW b \in BookingId, NEW s, NEW e, Proposed(d, e, p, r, b, s),
           NEW q \in PairingId, Open(d, q), NEW x \in Side
    PROVE  d.pairings[q].request[x] # r /\ d.pairings[q].booking[x] # b
<1> DEFINE c == d.pairings[q].booking[x]
           k == d.pairings[q].request[x]
<1>1. c = d.pairings[q].booking[x] /\ k = d.pairings[q].request[x]
  OBVIOUS
<1>2. /\ c \in BookingId /\ d.bookings[c].status # "free" /\ k \in RequestId
      /\ d.pairings[q].status = "proposed"
  BY Linked DEF Open
<1>3. d.requests[k].status = "proposed"
  BY DEF Agrees, SideOK, RequestOf
<1>4. k # r
  BY <1>3 DEF Proposed
<1>5. ASSUME c = b
      PROVE  FALSE
  <2>1. /\ d.requests[r].anchor = b /\ d.requests[r].anchor # None
        /\ d.requests[r].status = "searching" /\ d.requests[r] \in Request
        /\ RequestOK(d, r)
    BY <1>2, <1>5 DEF Proposed, Agrees, Good, GoodRequest
  <2> HIDE DEF c, k
  <2>2. d.bookings[b].pairing = None \/ BackedOut(d, b)
    BY <2>1 DEF RequestOK, Request, OpenRequest
  <2>3. d.bookings[c].pairing # q
    BY <1>2, <1>5, <2>2, NoneIsNoRow DEF BackedOut
  <2>4. d.requests[k].anchor # None
    BY <1>1, <2>3 DEF Agrees, SideOK, BookingOf, RequestOf
  <2>5. d.requests[k].anchor = c
    BY <1>1, <2>4 DEF Agrees, SideOK, BookingOf, RequestOf
  <2>6. OneAnchor(d)
    BY DEF Agrees
  <2> QED BY <1>2, <1>3, <1>4, <1>5, <2>1, <2>4, <2>5, <2>6 DEF OneAnchor, OpenRequest
<1> QED BY <1>4, <1>5

(* createProposal, on the rows.                                            *)
LEMMA ProposedAgrees ==
    ASSUME NEW d, Good(d), Agrees(d), now \in Nat, NEW e, NEW s \in Shift,
           NEW p \in PairingId, d.pairings[p].status = "free",
           NEW ra \in RequestId, NEW rb \in RequestId, ra # rb,
           NEW ba \in BookingId, NEW bb \in BookingId, ba # bb,
           Proposed(d, e, p, ra, ba, s), Proposed(d, e, p, rb, bb, s),
           d.requests[ra].user # d.requests[rb].user,
           now < Before(Start[s], CheckInLead) \/ d.requests[ra].anchor = None,
           now < Before(Start[s], CheckInLead) \/ d.requests[rb].anchor = None,
           e.pairings[p].status = "proposed",
           e.pairings[p].request = [x \in Side |-> IF x = "a" THEN ra ELSE rb],
           e.pairings[p].booking = [x \in Side |-> IF x = "a" THEN ba ELSE bb],
           e.pairings[p].expires <= Before(Start[s], RematchLast),
           \A q \in PairingId \ {p} : e.pairings[q] = d.pairings[q],
           \A c \in BookingId \ {ba, bb} : e.bookings[c] = d.bookings[c],
           \A r \in RequestId \ {ra, rb} : e.requests[r] = d.requests[r]
    PROVE  Agrees(e)
<1>1. /\ "a" \in Side /\ "b" \in Side /\ "a" # "b"
      /\ \A x \in Side : x = "a" \/ x = "b"
      /\ e.pairings[p].request["a"] = ra /\ e.pairings[p].request["b"] = rb
      /\ e.pairings[p].booking["a"] = ba /\ e.pairings[p].booking["b"] = bb
  BY DEF Side
<1>2. Grows(d, e)
  <2>1. \A q \in PairingId : d.pairings[q].status # "free" => e.pairings[q] = d.pairings[q]
    OBVIOUS
  <2>2. \A c \in BookingId : d.bookings[c].status # "free" => e.bookings[c] = d.bookings[c]
    BY DEF Proposed
  <2>3. ASSUME NEW c \in BookingId, d.bookings[c].status = "free"
        PROVE  \/ e.bookings[c] = d.bookings[c]
               \/ e.bookings[c].pairing = None
               \/ e.pairings[e.bookings[c].pairing].status = "proposed"
    BY <2>3 DEF Proposed
  <2>4. ASSUME NEW r \in RequestId
        PROVE  /\ e.requests[r].user = d.requests[r].user /\ e.requests[r].kind = d.requests[r].kind
               /\ e.requests[r].anchor = d.requests[r].anchor
               /\ \/ e.requests[r].status = d.requests[r].status
                  \/ d.requests[r].status = "searching" /\ e.requests[r].status = "proposed"
    BY DEF Proposed
  <2> QED BY <2>1, <2>2, <2>3, <2>4 DEF Grows
<1>3. ASSUME NEW r \in RequestId, NEW b \in BookingId, Proposed(d, e, p, r, b, s),
             now < Before(Start[s], CheckInLead) \/ d.requests[r].anchor = None
      PROVE  /\ e.requests[r].status = "proposed" /\ e.requests[r].user = e.bookings[b].user
             /\ e.bookings[b].user = d.requests[r].user
             /\ e.requests[r].anchor = None => e.bookings[b].pairing = p
             /\ e.requests[r].anchor # None => b = e.requests[r].anchor
             /\ e.bookings[b].status \in ActiveBooking /\ e.bookings[b].shift = s
  <2>1. CASE d.requests[r].anchor = None
    BY <1>3, <2>1 DEF Proposed, ActiveBooking
  <2>2. CASE d.requests[r].anchor # None
    <3>1. /\ d.requests[r].status = "searching" /\ b = d.requests[r].anchor
          /\ e.bookings[b] = d.bookings[b] /\ d.bookings[b].shift = s
          /\ e.requests[r].anchor = b /\ e.requests[r].user = d.requests[r].user
          /\ e.requests[r].status = "proposed"
      BY <1>3, <2>2 DEF Proposed
    <3>2. RequestOK(d, r) /\ BookingOK(d, b)
      BY DEF Agrees
    <3>3. d.bookings[b].status \in Took /\ d.bookings[b].user = d.requests[r].user
      BY <2>2, <3>1, <3>2 DEF RequestOK, OpenRequest
    <3>4. d.bookings[b].status \notin Over
      <4>1. now < Before(Start[s], CheckInLead) /\ Before(Start[s], CheckInLead) \in Nat
        BY <1>3, <2>2, LifecycleAssumption DEF Before
      <4>2. d.bookings[b].status \in Over => Before(Start[d.bookings[b].shift], CheckInLead) <= now
        BY <3>2 DEF BookingOK
      <4>3. d.bookings[b].status \in Over => Before(Start[s], CheckInLead) <= now
        BY <3>1, <4>2
      <4> QED BY <4>1, <4>3
    <3> QED BY <2>2, <3>1, <3>3, <3>4 DEF Took, ActiveBooking
  <2> QED BY <2>1, <2>2
<1>4. \A x \in Side :
        LET r == e.pairings[p].request[x]
            b == e.pairings[p].booking[x]
        IN  /\ r \in RequestId /\ b \in BookingId /\ Proposed(d, e, p, r, b, s)
            /\ now < Before(Start[s], CheckInLead) \/ d.requests[r].anchor = None
  BY <1>1
<1>5. /\ \A q \in PairingId : Open(e, q) <=> Open(d, q) \/ q = p
      /\ ~Open(d, p)
  BY DEF Open
<1>6. ASSUME NEW q \in PairingId
      PROVE  /\ PairOK(e, q) /\ DecisionOK(e, q)
             /\ \A x \in Side : SideOK(e, q, x) /\ ConfirmedOK(e, q, x)
  <2>1. CASE q # p /\ d.pairings[q].status = "free"
    <3>1. e.pairings[q].status = "free"
      BY <2>1
    <3> QED BY <3>1 DEF PairOK, DecisionOK, SideOK, ConfirmedOK, Open
  <2>2. CASE d.pairings[q].status # "free"
    BY <1>2, <2>2, GrownPairing
  <2>3. CASE q = p
    <3>1. PairOK(e, p)
      <4>1. e.bookings[ba].user # e.bookings[bb].user /\ e.bookings[ba].shift = s
            /\ e.bookings[bb].shift = s
        BY <1>3
      <4> QED BY <1>1, <4>1 DEF PairOK, BookingOf
    <3>2. DecisionOK(e, p)
      BY DEF DecisionOK
    <3>3. \A x \in Side : ConfirmedOK(e, p, x)
      BY DEF ConfirmedOK
    <3>4. ASSUME NEW x \in Side
          PROVE  SideOK(e, p, x)
      <4> DEFINE r == e.pairings[p].request[x]
                 b == e.pairings[p].booking[x]
      <4>1. /\ r \in RequestId /\ b \in BookingId /\ Proposed(d, e, p, r, b, s)
            /\ now < Before(Start[s], CheckInLead) \/ d.requests[r].anchor = None
        BY <1>4
      <4>2. ActiveBooking \subseteq TakesSpot
        BY DEF ActiveBooking, TakesSpot
      <4>3. BookingOf(e, p, x) = e.bookings[b] /\ RequestOf(e, p, x) = e.requests[r]
        BY DEF BookingOf, RequestOf
      <4>4. e.pairings[p].booking[x] = b
        OBVIOUS
      <4> HIDE DEF r, b
      <4>5. /\ e.requests[r].status = "proposed" /\ e.requests[r].user = e.bookings[b].user
            /\ e.requests[r].anchor = None => e.bookings[b].pairing = p
            /\ e.requests[r].anchor # None => b = e.requests[r].anchor
            /\ e.bookings[b].status \in ActiveBooking
        BY <1>3, <4>1
      <4> QED BY <4>2, <4>3, <4>4, <4>5 DEF SideOK
    <3> QED BY <2>3, <3>1, <3>2, <3>3, <3>4
  <2> QED BY <2>1, <2>2, <2>3
<1>7. Apart(e)
  <2>1. Apart(d)
    BY DEF Agrees
  <2>2. ASSUME NEW q \in PairingId, Open(d, q), NEW x \in Side, NEW y \in Side
        PROVE  /\ e.pairings[q].request[x] # e.pairings[p].request[y]
               /\ e.pairings[q].booking[x] # e.pairings[p].booking[y]
    <3>1. e.pairings[q] = d.pairings[q]
      BY <1>5, <2>2
    <3>2. /\ d.pairings[q].request[x] \notin {ra, rb}
          /\ d.pairings[q].booking[x] \notin {ba, bb}
      BY <2>2, ProposedAlone
    <3> QED BY <1>1, <3>1, <3>2
  <2>3. \A x \in Side, y \in Side : x # y =>
          /\ e.pairings[p].request[x] # e.pairings[p].request[y]
          /\ e.pairings[p].booking[x] # e.pairings[p].booking[y]
    BY <1>1
  <2>4. \A q \in PairingId : q # p => e.pairings[q] = d.pairings[q]
    OBVIOUS
  <2>5. ASSUME NEW q \in PairingId, NEW u \in PairingId, NEW x \in Side, NEW y \in Side,
               Open(e, q), Open(e, u), q # u \/ x # y
        PROVE  /\ e.pairings[q].request[x] # e.pairings[u].request[y]
               /\ e.pairings[q].booking[x] # e.pairings[u].booking[y]
    <3>1. CASE q # p /\ u # p
      BY <1>5, <2>1, <2>4, <2>5, <3>1 DEF Apart
    <3>2. CASE q = p /\ u = p
      BY <2>3, <2>5, <3>2
    <3>3. CASE q = p /\ u # p
      BY <1>5, <2>2, <2>5, <3>3
    <3>4. CASE q # p /\ u = p
      BY <1>5, <2>2, <2>5, <3>4
    <3> QED BY <3>1, <3>2, <3>3, <3>4
  <2> HIDE DEF Open
  <2> QED BY <2>5 DEF Apart
<1>8. OneAnchor(e)
  <2>1. OneAnchor(d)
    BY DEF Agrees
  <2>2. \A r \in RequestId : /\ e.requests[r].anchor = d.requests[r].anchor
                             /\ e.requests[r].status \in OpenRequest =>
                                    d.requests[r].status \in OpenRequest
    BY DEF Proposed, OpenRequest
  <2> QED BY <2>1, <2>2 DEF OneAnchor
<1>9. ASSUME NEW r \in RequestId
      PROVE  RequestOK(e, r)
  <2>1. CASE d.requests[r].status # "free"
    <3>1. r \in {ra, rb} => \E x \in Side : Open(e, p) /\ e.pairings[p].request[x] = r
      BY <1>1, <1>5
    <3>2. r \notin {ra, rb} => e.requests[r] = d.requests[r]
      OBVIOUS
    <3>3. e.requests[r].status = "proposed" /\ d.requests[r].status = "searching" =>
            \E q \in PairingId, x \in Side : Open(e, q) /\ e.pairings[q].request[x] = r
      BY <3>1, <3>2
    <3> QED BY <1>2, <2>1, <3>3, GrownRequest
  <2>2. CASE d.requests[r].status = "free"
    BY <2>2 DEF RequestOK, Proposed
  <2> QED BY <2>1, <2>2
<1>10. ASSUME NEW c \in BookingId
       PROVE  BookingOK(e, c)
  <2>1. CASE d.bookings[c].status # "free"
    BY <1>2, <2>1, GrownBooking
  <2>2. CASE d.bookings[c].status = "free" /\ c \notin {ba, bb}
    <3>1. BookingOK(d, c) /\ e.bookings[c] = d.bookings[c]
      BY <2>2 DEF Agrees
    <3> QED BY <2>2, <3>1 DEF BookingOK, Over
  <2>3. CASE d.bookings[c].status = "free" /\ c \in {ba, bb}
    <3>1. \A r \in RequestId : d.requests[r].status = "searching" /\ d.requests[r].anchor # None =>
            d.bookings[d.requests[r].anchor].status # "free"
      BY Zenon DEF Agrees, RequestOK
    <3>2. /\ e.bookings[c].status = "proposed" /\ e.bookings[c].pairing = p
          /\ e.bookings[c].hold = "none"
      BY <2>3, <3>1 DEF Proposed
    <3>3. Names(e, p, c)
      BY <1>1, <2>3 DEF Names
    <3> QED BY <3>2, <3>3 DEF BookingOK, LivePairing, Over
  <2> QED BY <2>1, <2>2, <2>3
<1> QED BY <1>6, <1>7, <1>8, <1>9, <1>10 DEF Agrees

(* A later deadline is no later than the check-in; none is later than the  *)
(* last moment to rematch.                                                 *)
LEMMA LastMoments ==
    ASSUME now \in Nat, NEW s \in Shift, NEW ra, NEW rb
    PROVE  /\ Before(Start[s], RematchLast) <= Before(Start[s], CheckInLead)
           /\ Before(Start[s], RematchLast) \in Nat /\ Before(Start[s], CheckInLead) \in Nat
           /\ ProposalExpires(ra, rb, s) <= Before(Start[s], RematchLast)
<1>1. /\ Start[s] \in Nat /\ RematchLast \in Nat /\ CheckInLead \in Nat /\ LastResponse \in Nat
      /\ CheckInLead <= RematchLast /\ RematchLast <= LastResponse /\ ProposalResponse \in Nat
  BY LifecycleAssumption
<1>2. /\ Before(Start[s], RematchLast) <= Before(Start[s], CheckInLead)
      /\ Before(Start[s], LastResponse) <= Before(Start[s], RematchLast)
      /\ Before(Start[s], RematchLast) \in Nat /\ Before(Start[s], LastResponse) \in Nat
      /\ Before(Start[s], CheckInLead) \in Nat
  BY <1>1 DEF Before
<1>3. ProposalExpires(ra, rb, s) \in
        {Earlier(now + ProposalResponse, Before(Start[s], RematchLast)),
         Earlier(now + ProposalResponse, Before(Start[s], LastResponse))}
  BY DEF ProposalExpires
<1> QED BY <1>1, <1>2, <1>3 DEF Earlier

(* What createProposal writes for the matched searches ra and rb.          *)
NewProposal(d, e, p, ra, rb, ba, bb, s) ==
    /\ d.pairings[p].status = "free" /\ ra # rb /\ ba # bb
    /\ Proposed(d, e, p, ra, ba, s) /\ Proposed(d, e, p, rb, bb, s)
    /\ d.requests[ra].user # d.requests[rb].user
    /\ now < Before(Start[s], CheckInLead) \/ d.requests[ra].anchor = None
    /\ now < Before(Start[s], CheckInLead) \/ d.requests[rb].anchor = None
    /\ e.pairings[p].status = "proposed"
    /\ e.pairings[p].request = [x \in Side |-> IF x = "a" THEN ra ELSE rb]
    /\ e.pairings[p].booking = [x \in Side |-> IF x = "a" THEN ba ELSE bb]
    /\ e.pairings[p].expires <= Before(Start[s], RematchLast)
    /\ \A q \in PairingId \ {p} : e.pairings[q] = d.pairings[q]
    /\ \A c \in BookingId \ {ba, bb} : e.bookings[c] = d.bookings[c]
    /\ \A r \in RequestId \ {ra, rb} : e.requests[r] = d.requests[r]

LEMMA CreateProposalRows ==
    ASSUME AInv, NEW ra \in RequestId, NEW rb \in RequestId, NEW s \in Shift,
           CreateProposal(ra, rb, s)
    PROVE  \E ba, bb \in BookingId, p \in PairingId :
                NewProposal(Db, Db', p, ra, rb, ba, bb, s) /\ written' = written \cup {p}
<1> DEFINE bk(b, ba, p) == [NoBooking EXCEPT !.status = "proposed", !.shift = s, !.pairing = p,
                        !.user = IF b = ba THEN requests[ra].user ELSE requests[rb].user]
           brow(b, ba, bb, p) == IF b \in {ba, bb} /\ bookings[b].status = "free"
                                 THEN bk(b, ba, p) ELSE bookings[b]
           prow(ba, bb) ==
                [NoPairing EXCEPT !.status = "proposed",
                    !.request = [x \in Side |-> IF x = "a" THEN ra ELSE rb],
                    !.booking = [x \in Side |-> IF x = "a" THEN ba ELSE bb],
                    !.expires = ProposalExpires(ra, rb, s)]
           e == Db'
<1>1. PICK ba \in BookingId, bb \in BookingId, p \in PairingId :
        /\ pairings[p].status = "free"
        /\ UsesBooking(ra, {}, ba) /\ UsesBooking(rb, {ba}, bb)
        /\ bookings' = [b \in BookingId |-> brow(b, ba, bb, p)]
        /\ pairings' = [pairings EXCEPT ![p] = prow(ba, bb)]
        /\ requests' = [requests EXCEPT ![ra].status = "proposed", ![rb].status = "proposed"]
        /\ written' = written \cup {p}
        /\ UNCHANGED now
  BY ZenonT(60) DEF CreateProposal, Fresh
<1>2. /\ ra < rb /\ requests[ra].status = "searching" /\ requests[rb].status = "searching"
      /\ requests[ra].user # requests[rb].user /\ CanGo(ra, s) /\ CanGo(rb, s)
  BY Zenon DEF CreateProposal, Eligible, MayPair
<1>3. ra # rb
  BY <1>2 DEF RequestId
<1>4. /\ requests[ra].anchor # None => ba = requests[ra].anchor
      /\ requests[rb].anchor # None => bb = requests[rb].anchor
      /\ requests[ra].anchor = None => bookings[ba].status = "free"
      /\ requests[rb].anchor = None => bookings[bb].status = "free" /\ bb # ba
  BY <1>1, Zenon DEF UsesBooking, Fresh
<1>5. ASSUME NEW r \in {ra, rb}, requests[r].anchor # None
      PROVE  /\ bookings[requests[r].anchor].status # "free"
             /\ bookings[requests[r].anchor].shift = s
             /\ now < Before(Start[s], CheckInLead)
  <2>1. RequestOK(Db, r) /\ requests[r].status = "searching" /\ CanGo(r, s)
    BY <1>2, Rows
  <2>2. s = bookings[requests[r].anchor].shift /\ now < Before(Start[s], RematchLast)
    BY <1>5, <2>1 DEF CanGo
  <2>3. now < Before(Start[s], CheckInLead)
    BY <2>2, Rows, LastMoments
  <2> QED BY <1>5, <2>1, <2>2, <2>3, Rows, Zenon DEF RequestOK
<1>6. ba # bb
  <2>1. OneAnchor(Db)
    BY Rows DEF Agrees
  <2>2. requests[ra].anchor # None /\ requests[rb].anchor # None =>
            requests[ra].anchor # requests[rb].anchor
    BY <1>2, <1>3, <2>1, Rows DEF OneAnchor, OpenRequest
  <2> QED BY <1>4, <1>5, <2>2
<1>7. Db' = e
  OBVIOUS
<1>8. /\ \A c \in BookingId : e.bookings[c] = brow(c, ba, bb, p)
      /\ \A q \in PairingId \ {p} : e.pairings[q] = pairings[q]
      /\ e.pairings[p] = prow(ba, bb)
      /\ \A r \in RequestId \ {ra, rb} : e.requests[r] = requests[r]
      /\ \A r \in {ra, rb} : e.requests[r] = [requests[r] EXCEPT !.status = "proposed"]
  BY <1>1, <1>3, Rows, Zenon DEF Db
<1> HIDE DEF e
<1>9. /\ e.pairings[p].status = "proposed"
      /\ e.pairings[p].request = [x \in Side |-> IF x = "a" THEN ra ELSE rb]
      /\ e.pairings[p].booking = [x \in Side |-> IF x = "a" THEN ba ELSE bb]
      /\ e.pairings[p].expires = ProposalExpires(ra, rb, s)
  BY <1>8, Zenon DEF NoPairing
<1> HIDE DEF prow
<1>10. ASSUME NEW r \in {ra, rb}, NEW b \in {ba, bb}, b = ba <=> r = ra
       PROVE  Proposed(Db, e, p, r, b, s)
  <2>1. /\ bk(b, ba, p).status = "proposed" /\ bk(b, ba, p).shift = s /\ bk(b, ba, p).pairing = p
        /\ bk(b, ba, p).kind = "paired" /\ bk(b, ba, p).hold = "none"
        /\ bk(b, ba, p).user = requests[r].user
    BY <1>3, <1>6, <1>10 DEF NoBooking
  <2> HIDE DEF bk
  <2>2. /\ e.requests[r].status = "proposed" /\ e.requests[r].user = requests[r].user
        /\ e.requests[r].kind = requests[r].kind /\ e.requests[r].anchor = requests[r].anchor
    <3>1. requests[r] \in Request
      BY Rows
    <3> QED BY <1>8, <3>1 DEF Request
  <2>3. CASE requests[r].anchor = None
    <3>1. bookings[b].status = "free"
      BY <1>3, <1>4, <1>6, <1>10, <2>3
    <3>2. e.bookings[b] = bk(b, ba, p)
      BY <1>8, <3>1
    <3> QED BY <1>2, <2>1, <2>2, <2>3, <3>1, <3>2, Rows DEF Proposed
  <2>4. CASE requests[r].anchor # None
    <3>1. b = requests[r].anchor
      BY <1>3, <1>4, <1>6, <1>10, <2>4
    <3>2. e.bookings[b] = bookings[b] /\ bookings[b].shift = s
      BY <1>5, <1>8, <2>4, <3>1
    <3> QED BY <1>2, <2>2, <2>4, <3>1, <3>2, Rows DEF Proposed
  <2> QED BY <2>3, <2>4
<1>11. Proposed(Db, e, p, ra, ba, s) /\ Proposed(Db, e, p, rb, bb, s)
  BY <1>3, <1>6, <1>10
<1>12. \A c \in BookingId \ {ba, bb} : e.bookings[c] = bookings[c]
  BY <1>8, Zenon
<1>13. /\ e.pairings[p].expires <= Before(Start[s], RematchLast)
       /\ now < Before(Start[s], CheckInLead) \/ requests[ra].anchor = None
       /\ now < Before(Start[s], CheckInLead) \/ requests[rb].anchor = None
  BY <1>5, <1>9, Rows, LastMoments
<1>14. /\ \A q \in PairingId \ {p} : e.pairings[q] = pairings[q]
       /\ \A r \in RequestId \ {ra, rb} : e.requests[r] = requests[r]
  BY <1>8, Zenon
<1> HIDE DEF bk, brow
<1>15. NewProposal(Db, e, p, ra, rb, ba, bb, s)
  <2>1. /\ Db.pairings[p].status = "free"
        /\ Db.requests[ra].user # Db.requests[rb].user
        /\ now < Before(Start[s], CheckInLead) \/ Db.requests[ra].anchor = None
        /\ now < Before(Start[s], CheckInLead) \/ Db.requests[rb].anchor = None
        /\ \A q \in PairingId \ {p} : e.pairings[q] = Db.pairings[q]
        /\ \A c \in BookingId \ {ba, bb} : e.bookings[c] = Db.bookings[c]
        /\ \A r \in RequestId \ {ra, rb} : e.requests[r] = Db.requests[r]
    BY <1>1, <1>2, <1>12, <1>13, <1>14, Rows
  <2> QED BY <1>3, <1>6, <1>9, <1>11, <1>13, <2>1 DEF NewProposal
<1> QED BY <1>1, <1>7, <1>15

(* createProposal.                                                         *)
LEMMA CreateProposalAgrees ==
    ASSUME AInv, NEW ra \in RequestId, NEW rb \in RequestId, NEW s \in Shift,
           CreateProposal(ra, rb, s)
    PROVE  Agrees(Db)'
<1> DEFINE e == Db'
<1>1. PICK ba \in BookingId, bb \in BookingId, p \in PairingId :
        NewProposal(Db, e, p, ra, rb, ba, bb, s)
  BY CreateProposalRows
<1>2. Db' = e /\ UNCHANGED now
  BY Zenon DEF CreateProposal
<1> HIDE DEF e
<1>3. Good(Db) /\ Agrees(Db) /\ now \in Nat
  BY Rows
<1>4. Agrees(e)
  BY <1>1, <1>3, ProposedAgrees DEF NewProposal
<1> QED BY <1>2, <1>4, NextAgrees

-----------------------------------------------------------------------------
(* The invariant, and what it says. *)

(* Before anyone does anything.                                            *)
LEMMA InitAgrees == Init => AInv
<1> SUFFICES ASSUME Init PROVE Agrees(Db)
  BY InitIInv DEF AInv
<1>1. /\ \A p \in PairingId : Db.pairings[p].status = "free"
      /\ \A r \in RequestId : Db.requests[r].status = "free"
      /\ \A b \in BookingId : Db.bookings[b] = NoBooking
  BY Columns DEF Init, NoPairing, NoRequest
<1>2. \A p \in PairingId : PairOK(Db, p) /\ DecisionOK(Db, p)
  BY <1>1 DEF PairOK, DecisionOK
<1>3. \A p \in PairingId, s \in Side : SideOK(Db, p, s) /\ ConfirmedOK(Db, p, s)
  BY <1>1 DEF SideOK, ConfirmedOK, Open
<1>4. Apart(Db) /\ OneAnchor(Db)
  BY <1>1 DEF Apart, OneAnchor, Open, OpenRequest
<1>5. \A r \in RequestId : RequestOK(Db, r)
  BY <1>1 DEF RequestOK
<1>6. \A b \in BookingId : BookingOK(Db, b)
  BY <1>1 DEF BookingOK, NoBooking, Over
<1> QED BY <1>2, <1>3, <1>4, <1>5, <1>6 DEF Agrees

(* One case per action, and stuttering.                                    *)
LEMMA StepAgrees == AInv /\ [Next]_vars => AInv'
<1> SUFFICES ASSUME AInv, [Next]_vars PROVE Agrees(Db)'
  BY StepIInv DEF AInv
<1>1. CASE UserStep
  BY <1>1, CreateRequestAgrees, CancelRequestAgrees, AdjustRequestAgrees, RsvpSoloAgrees,
     ConfirmAgrees, DeclineAgrees, CancelBookingAgrees, ReportPartnerAgrees, BailReleaseAgrees,
     BailRematchAgrees DEF UserStep
<1>2. CASE OrgStep
  BY <1>2, ShiftDayAgrees DEF OrgStep
<1>3. CASE Matching
  BY <1>3, CreateProposalAgrees DEF Matching
<1>4. CASE Tick
  BY <1>4, TickExpireProposalAgrees, TickBailNoResponseAgrees, TickSearchDeadlineAgrees,
     TickCompleteAgrees, ShiftDayAgrees DEF Tick
<1>5. CASE Advance
  <2>1. Db' = Db /\ now' = now + 1 /\ now \in Nat
    BY <1>5, Rows DEF Advance, Db
  <2> QED BY <2>1, TimePassesAgrees
<1>6. CASE UNCHANGED vars
  <2>1. Db' = Db /\ now' = now /\ now \in Nat
    BY <1>6, Rows DEF vars, Db
  <2> QED BY <2>1, TimePassesAgrees
<1> QED BY <1>1, <1>2, <1>3, <1>4, <1>5, <1>6 DEF Next

(* In every behaviour requests, bookings and pairings agree.               *)
THEOREM Agreement == Spec => []AInv
BY InitAgrees, StepAgrees, PTL DEF Spec

(* A confirmed pairing is in both its bookings, and both searches are over. *)
LEMMA AInvMutual == AInv => ConfirmedIsMutual
<1> SUFFICES ASSUME AInv, NEW p \in PairingId, NEW s \in Side, pairings[p].status = "confirmed"
             PROVE  LET b == pairings[p].booking[s]
                    IN  /\ bookings[b].pairing = p /\ bookings[b].kind = "paired"
                        /\ bookings[b].status \in TakesSpot \ {"proposed"}
                        /\ requests[pairings[p].request[s]].status = "matched"
  BY DEF ConfirmedIsMutual
<1>1. ConfirmedOK(Db, p, s)
  BY Rows DEF Agrees
<1> QED BY <1>1, Rows DEF ConfirmedOK, BookingOf, RequestOf, Took, Over, TakesSpot

(* The side of the partner who was backed out on is theirs, and theirs     *)
(* only.                                                                   *)
LEMMA AInvDecision == AInv => DecisionStands
<1> SUFFICES ASSUME AInv, NEW p \in PairingId, DecisionOpen(p), now < pairings[p].bailDeadline
             PROVE  LET b == pairings[p].booking[BailSide(p)]
                    IN  /\ bookings[b].pairing = p /\ bookings[b].hold = "held"
                        /\ pairings[p].bailDeadline < Start[ShiftOf(p)]
  BY DEF DecisionStands
<1> DEFINE b == pairings[p].booking[BailSide(p)]
<1>1. /\ pairings[p].status = "cancelled" /\ pairings[p].bailUser # NoUser
      /\ pairings[p].choice = "none" /\ now \in Nat /\ pairings[p].bailDeadline \in Nat
  BY Rows DEF DecisionOpen, Pairing
<1>2. PairOK(Db, p) /\ DecisionOK(Db, p)
  BY Rows DEF Agrees
<1>3. /\ UserOn(p, "a") # UserOn(p, "b")
      /\ bookings[pairings[p].booking["a"]].shift = bookings[pairings[p].booking["b"]].shift
  BY <1>1, <1>2, Rows DEF PairOK, BookingOf, UserOn
<1>4. PICK s \in Side :
        LET bk == BookingOf(Db, p, s) IN
        /\ bk.user = pairings[p].bailUser
        /\ bk.pairing = p /\ bk.kind = "paired" /\ bk.status \in Took /\ bk.hold # "none"
        /\ pairings[p].bailDeadline + BailMin <= Start[bk.shift]
  BY <1>1, <1>2, Rows DEF DecisionOK
<1>5. BailSide(p) = s
  BY <1>3, <1>4, Rows DEF BailSide, UserOn, Side, BookingOf
<1>6. /\ bookings[b].user = pairings[p].bailUser /\ bookings[b].pairing = p
      /\ bookings[b].kind = "paired" /\ bookings[b].status \in Took
      /\ pairings[p].bailDeadline + BailMin <= Start[bookings[b].shift]
      /\ b \in BookingId /\ bookings[b].shift = bookings[pairings[p].booking["a"]].shift
      /\ bookings[b].shift \in Shift
  BY <1>1, <1>3, <1>4, <1>5, Linked, Rows, ZenonT(60) DEF BookingOf, Side
<1> HIDE DEF b
<1>7. bookings[b].status = "confirmed" /\ bookings[b].hold = "held"
  <2>1. BookingOK(Db, b)
    BY <1>6, Rows
  <2>2. /\ Start[bookings[b].shift] \in Nat /\ CheckInLead \in Nat /\ BailMin \in Nat
        /\ CheckInLead < BailMin
    BY <1>6, LifecycleAssumption
  <2>3. now < Before(Start[bookings[b].shift], CheckInLead)
    BY <1>1, <1>6, <2>2 DEF Before
  <2>4. bookings[b].status \in Over => Before(Start[bookings[b].shift], CheckInLead) <= now
    BY <2>1, Rows DEF BookingOK
  <2>5. Before(Start[bookings[b].shift], CheckInLead) \in Nat
    BY <2>2 DEF Before
  <2>6. bookings[b].status = "confirmed"
    BY <1>1, <1>6, <2>3, <2>4, <2>5 DEF Took
  <2> QED BY <1>6, <2>1, <2>6, Rows, Zenon DEF BookingOK
<1>8. pairings[p].bailDeadline < Start[ShiftOf(p)]
  <2>1. Start[bookings[b].shift] \in Nat /\ BailMin \in Nat /\ BailMin > 0
    BY <1>6, LifecycleAssumption
  <2> QED BY <1>1, <1>6, <2>1 DEF ShiftOf
<1> QED BY <1>6, <1>7, <1>8 DEF b

(* Every hold is of something that can settle it.                          *)
LEMMA AInvHoldBacked == AInv => HoldBacked
<1> SUFFICES ASSUME AInv, NEW b \in BookingId
             PROVE  /\ bookings[b].hold = "held"
                        <=> bookings[b].status = "confirmed" /\ bookings[b].kind = "paired"
                    /\ bookings[b].hold = "held" =>
                        \/ \E p \in PairingId, s \in Side :
                                pairings[p].status \in LivePairing /\ pairings[p].booking[s] = b
                        \/ BackedOutOn(b)
  BY DEF HoldBacked
<1>1. BookingOK(Db, b) /\ bookings[b].pairing \in PairingId \cup {None}
  BY Rows DEF Booking
<1>2. bookings[b].hold = "held"
        <=> bookings[b].status = "confirmed" /\ bookings[b].kind = "paired"
  BY <1>1, Rows DEF BookingOK
<1>3. ASSUME bookings[b].hold = "held"
      PROVE  \/ \E p \in PairingId, s \in Side :
                    pairings[p].status \in LivePairing /\ pairings[p].booking[s] = b
             \/ BackedOutOn(b)
  <2>1. CASE bookings[b].pairing = None
    BY <1>1, <1>2, <1>3, <2>1, Rows DEF BookingOK, Open, Names, LivePairing
  <2>2. CASE bookings[b].pairing # None
    <3>1. /\ Names(Db, bookings[b].pairing, b) /\ bookings[b].pairing \in PairingId
          /\ pairings[bookings[b].pairing].status \in LivePairing \/ BackedOut(Db, b)
      BY <1>1, <1>2, <1>3, <2>2, Rows DEF BookingOK, Over
    <3>2. BackedOut(Db, b) => BackedOutOn(b)
      BY <1>1, <2>2, Rows DEF BackedOut, BackedOutOn, PairingStatusOf
    <3> QED BY <3>1, <3>2, Rows DEF Names
  <2> QED BY <2>1, <2>2
<1> QED BY <1>2, <1>3

(* A proposed request is carried by one open proposal, any other by none.  *)
LEMMA AInvProposals == AInv => ProposalsAgree
<1> SUFFICES ASSUME AInv PROVE ProposalsAgree
  OBVIOUS
<1>1. ASSUME NEW r \in RequestId
      PROVE  Cardinality(ProposalOf(r)) = IF requests[r].status = "proposed" THEN 1 ELSE 0
  <2>1. CASE requests[r].status = "proposed"
    <3>1. RequestOK(Db, r) /\ Apart(Db)
      BY Rows DEF Agrees
    <3>2. PICK p \in PairingId, s \in Side : Open(Db, p) /\ pairings[p].request[s] = r
      BY <2>1, <3>1, Rows, Zenon DEF RequestOK
    <3>3. ASSUME NEW q \in ProposalOf(r)
          PROVE  q = p
      <4>1. PICK x \in Side : q \in PairingId /\ Open(Db, q) /\ pairings[q].request[x] = r
        BY <3>3, Rows DEF ProposalOf, Open
      <4> QED BY <3>1, <3>2, <4>1, Rows DEF Apart
    <3>4. ProposalOf(r) = {p}
      BY <3>2, <3>3, Rows DEF ProposalOf, Open
    <3> QED BY <2>1, <3>4, FS_Singleton
  <2>2. CASE requests[r].status # "proposed"
    <3>1. ASSUME NEW p \in ProposalOf(r)
          PROVE  FALSE
      <4>1. PICK s \in Side : p \in PairingId /\ Open(Db, p) /\ pairings[p].request[s] = r
        BY <3>1, Rows DEF ProposalOf, Open
      <4>2. SideOK(Db, p, s)
        BY <4>1, Rows DEF Agrees
      <4> QED BY <2>2, <4>1, <4>2, Rows DEF SideOK, RequestOf
    <3>2. ProposalOf(r) = {}
      BY <3>1
    <3> QED BY <2>2, <3>2, FS_EmptySet
  <2> QED BY <2>1, <2>2
<1>2. ASSUME NEW p \in PairingId, NEW s \in Side, pairings[p].status = "proposed"
      PROVE  LET b == pairings[p].booking[s]
                 r == pairings[p].request[s]
             IN  /\ pairings[p].expires > now => bookings[b].status \in ActiveBooking
                 /\ bookings[b].user = requests[r].user
                 /\ requests[r].anchor = None => bookings[b].pairing = p
                 /\ requests[r].anchor # None => b = requests[r].anchor
  <2>1. SideOK(Db, p, s) /\ pairings[p].expires \in Nat
    BY Rows DEF Agrees, Pairing
  <2> QED BY <1>2, <2>1, Rows, Zenon DEF SideOK, Open, BookingOf, RequestOf
<1> QED BY <1>1, <1>2 DEF ProposalsAgree

(* What a completed pairing leaves is over.                                *)
LEMMA AInvCompleted == AInv => CompletedIsOver
<1> SUFFICES ASSUME AInv, NEW p \in PairingId, pairings[p].status = "completed"
             PROVE  /\ End[ShiftOf(p)] <= now
                    /\ \A s \in Side : Resolved(bookings[pairings[p].booking[s]], p)
  BY DEF CompletedIsOver
<1>1. End[ShiftOf(p)] <= now
  <2>1. PairOK(Db, p)
    BY Rows DEF Agrees
  <2> QED BY <2>1, Rows DEF PairOK, BookingOf, ShiftOf
<1>2. ASSUME NEW s \in Side
      PROVE  Resolved(bookings[pairings[p].booking[s]], p)
  <2> DEFINE b == pairings[p].booking[s]
  <2>1. b \in BookingId
    BY Linked, Rows
  <2> HIDE DEF b
  <2>2. BookingOK(Db, b)
    BY <2>1, Rows
  <2>3. bookings[b].pairing = p /\ bookings[b].status # "cancelled" => bookings[b].status \in Over
    BY <2>2, Rows, NoneIsNoRow DEF BookingOK, BackedOut, LivePairing
  <2>4. Resolved(bookings[b], p)
    BY <2>3 DEF Resolved, Over
  <2> QED BY <2>4 DEF b
<1> QED BY <1>1, <1>2

(* Two people who are confirmed together are booked with each other:       *)
(* confirmPairing and finalizePairing, cancelOneBooking, the no-show and   *)
(* the completion sweep never leave one side of a confirmed pairing with   *)
(* a booking that points elsewhere or went solo, or a request still open.  *)
THEOREM ConfirmedAreMutual == Spec => []ConfirmedIsMutual
BY AInvMutual, Agreement, PTL

(* A decision still open after a partner backed out (partnerBackedOut) is  *)
(* of the one who still has the confirmed or attended booking, and its     *)
(* deadline is before the shift starts.                                    *)
THEOREM DecisionsStand == Spec => []DecisionStands
BY AInvDecision, Agreement, PTL

(* A hold is open exactly while a paired booking is confirmed, and there   *)
(* is then a live pairing, or a decision after a partner backed out, that  *)
(* settles it: no sequence of calls leaves a hold nobody resolves.         *)
THEOREM HoldsAreBacked == Spec => []HoldBacked
BY AInvHoldBacked, Agreement, PTL

(* A proposed request is behind exactly one open proposal and any other    *)
(* request behind none; the booking of each side is of the same person,    *)
(* is still active while the proposal can be answered, and is the anchor   *)
(* of a request that has one.                                              *)
THEOREM RequestsAndProposalsAgree == Spec => []ProposalsAgree
BY AInvProposals, Agreement, PTL

(* A pairing the sweep completes is of a shift that has ended, and neither *)
(* of its bookings is left confirmed.                                      *)
THEOREM CompletedAreOver == Spec => []CompletedIsOver
BY AInvCompleted, Agreement, PTL
=============================================================================
