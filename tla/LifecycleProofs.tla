--------------------------- MODULE LifecycleProofs ---------------------------
(***************************************************************************)
(* TypeOK and DeedsConserved, for every value of the constants.            *)
(*                                                                         *)
(* The argument follows the code: a handler is a chain of helpers, each    *)
(* from a database to a database.  Good says what every database of the    *)
(* chain is; Keeps, what a helper leaves alone of the rows it finds (who   *)
(* they belong to, and that they exist).  There is one lemma per helper,   *)
(* one per action, and Commit carries the last database of the chain into  *)
(* the next state.                                                         *)
(***************************************************************************)
EXTENDS LifecycleProperties, FiniteSetTheorems, TLAPS

DbType == [booked : [Shift -> Nat], requests : [RequestId -> Request],
           bookings : [BookingId -> Booking], pairings : [PairingId -> Pairing],
           balance : [User -> Nat], lost : [User -> Nat]]

GoodRequest(rq) ==
    /\ rq \in Request
    /\ rq.status # "free" => rq.user \in User
    /\ rq.kind = "rematch" => rq.anchor \in BookingId

(* Only a confirmed paired booking holds Deeds: what is about to place a   *)
(* hold never finds one there, and what resolves one knows whose it is.    *)
GoodBooking(bk) ==
    /\ bk \in Booking
    /\ bk.status # "free" => bk.user \in User /\ bk.shift \in Shift
    /\ bk.hold = "held" => bk.status = "confirmed" /\ bk.kind = "paired"

(* Only a cancelled pairing has a choice: the one left behind makes it.    *)
GoodPairing(pg) ==
    /\ pg \in Pairing
    /\ pg.status # "free" =>
        \A s \in Side : pg.request[s] \in RequestId /\ pg.booking[s] \in BookingId
    /\ pg.choice # "none" => pg.status = "cancelled"

Held(bookingRows, u) == {b \in BookingId : bookingRows[b].user = u /\ bookingRows[b].hold = "held"}

Conserved(d) ==
    \A u \in User : d.balance[u] + Cardinality(Held(d.bookings, u)) + d.lost[u] = StartBalance

Good(d) ==
    /\ d \in DbType
    /\ \A r \in RequestId : GoodRequest(d.requests[r])
    /\ \A b \in BookingId : GoodBooking(d.bookings[b])
    /\ \A p \in PairingId : GoodPairing(d.pairings[p])
    /\ \A p \in PairingId, s \in Side : d.pairings[p].status # "free" =>
            /\ d.requests[d.pairings[p].request[s]].status # "free"
            /\ d.bookings[d.pairings[p].booking[s]].status # "free"
    /\ Conserved(d)

(* From d to e no row appears, disappears or changes hands.                *)
Keeps(d, e) ==
    /\ Good(e)
    /\ \A r \in RequestId :
        /\ e.requests[r].status = "free" <=> d.requests[r].status = "free"
        /\ e.requests[r].kind = d.requests[r].kind
        /\ e.requests[r].anchor = d.requests[r].anchor
    /\ \A b \in BookingId :
        /\ e.bookings[b].status = "free" <=> d.bookings[b].status = "free"
        /\ e.bookings[b].user = d.bookings[b].user
        /\ e.bookings[b].shift = d.bookings[b].shift
    /\ \A p \in PairingId :
        /\ e.pairings[p].status = "free" <=> d.pairings[p].status = "free"
        /\ e.pairings[p].request = d.pairings[p].request
        /\ e.pairings[p].booking = d.pairings[p].booking

(* A helper that does nothing keeps everything.                            *)
LEMMA KeepsSelf == ASSUME NEW d, Good(d) PROVE Keeps(d, d)
BY DEF Keeps

(* Helpers called one after the other keep what each of them keeps.        *)
LEMMA KeepsChain ==
    ASSUME NEW d, NEW e, NEW f, Keeps(d, e), Keeps(e, f)
    PROVE  Keeps(d, f)
BY DEF Keeps

-----------------------------------------------------------------------------
(* Writing one row. *)

(* What a user has on hold can be counted.                                 *)
LEMMA HeldFinite ==
    ASSUME NEW rows, NEW u
    PROVE  IsFiniteSet(Held(rows, u)) /\ Cardinality(Held(rows, u)) \in Nat
<1>1. IsFiniteSet(BookingId)
  BY LifecycleAssumption, FS_Interval DEF BookingId
<1>2. Held(rows, u) \in SUBSET BookingId
  BY DEF Held
<1> QED BY <1>1, <1>2, FS_Subset, FS_CardinalityType

(* A request row is replaced by a well-formed one.                         *)
LEMMA PutRequestKeeps ==
    ASSUME NEW d, Good(d), NEW r \in RequestId, NEW row, GoodRequest(row),
           row.status = "free" <=> d.requests[r].status = "free",
           row.kind = d.requests[r].kind, row.anchor = d.requests[r].anchor
    PROVE  Keeps(d, PutRequest(d, r, row))
<1> DEFINE e == PutRequest(d, r, row)
<1>1. /\ e.requests = [d.requests EXCEPT ![r] = row]
      /\ e.bookings = d.bookings /\ e.pairings = d.pairings /\ e.booked = d.booked
      /\ e.balance = d.balance /\ e.lost = d.lost
  BY DEF PutRequest, Good, DbType
<1>2. e \in DbType
  BY DEF PutRequest, Good, DbType, GoodRequest
<1> HIDE DEF e
<1>3. \A q \in RequestId : e.requests[q] = IF q = r THEN row ELSE d.requests[q]
  BY <1>1 DEF Good, DbType
<1>4. Conserved(e)
  BY <1>1 DEF Good, Conserved
<1>5. /\ \A q \in RequestId : GoodRequest(e.requests[q])
      /\ \A p \in PairingId, s \in Side : e.pairings[p].status # "free" =>
            e.requests[e.pairings[p].request[s]].status # "free"
  BY <1>1, <1>3 DEF Good, GoodPairing
<1>6. Good(e)
  BY <1>1, <1>2, <1>4, <1>5 DEF Good
<1> QED BY <1>1, <1>3, <1>6 DEF Keeps, e

(* A pairing row is replaced by one of the same two bookings and requests. *)
LEMMA PutPairingKeeps ==
    ASSUME NEW d, Good(d), NEW p \in PairingId, NEW row \in Pairing,
           row.status = "free" <=> d.pairings[p].status = "free",
           row.request = d.pairings[p].request, row.booking = d.pairings[p].booking,
           row.choice # "none" => row.status = "cancelled"
    PROVE  Keeps(d, PutPairing(d, p, row))
<1> DEFINE e == PutPairing(d, p, row)
<1>1. /\ e.pairings = [d.pairings EXCEPT ![p] = row]
      /\ e.bookings = d.bookings /\ e.requests = d.requests /\ e.booked = d.booked
      /\ e.balance = d.balance /\ e.lost = d.lost
  BY DEF PutPairing, Good, DbType
<1>2. e \in DbType
  BY DEF PutPairing, Good, DbType
<1> HIDE DEF e
<1>3. \A q \in PairingId : e.pairings[q] = IF q = p THEN row ELSE d.pairings[q]
  BY <1>1 DEF Good, DbType
<1>4. Conserved(e)
  BY <1>1 DEF Good, Conserved
<1>5. /\ \A q \in PairingId : GoodPairing(e.pairings[q])
      /\ \A q \in PairingId, s \in Side : e.pairings[q].status # "free" =>
            /\ d.pairings[q].status # "free"
            /\ e.pairings[q].request[s] = d.pairings[q].request[s]
            /\ e.pairings[q].booking[s] = d.pairings[q].booking[s]
  BY <1>1, <1>3 DEF Good, GoodPairing
<1>6. Good(e)
  BY <1>1, <1>2, <1>4, <1>5 DEF Good
<1> QED BY <1>1, <1>3, <1>6 DEF Keeps, e

(* The parts of Good that a booking's row bears on, the balance aside.     *)
LEMMA PutBookingParts ==
    ASSUME NEW d, Good(d), NEW b \in BookingId, NEW row, GoodBooking(row),
           row.status = "free" <=> d.bookings[b].status = "free",
           row.user = d.bookings[b].user, row.shift = d.bookings[b].shift
    PROVE  LET e == PutBooking(d, b, row)
           IN  /\ e \in DbType
               /\ e.bookings = [d.bookings EXCEPT ![b] = row]
               /\ e.requests = d.requests /\ e.pairings = d.pairings /\ e.booked = d.booked
               /\ e.balance = d.balance /\ e.lost = d.lost
BY DEF PutBooking, Good, DbType, GoodBooking

(* A booking row is replaced by one with the same owner and the same hold. *)
LEMMA PutBookingKeeps ==
    ASSUME NEW d, Good(d), NEW b \in BookingId, NEW row, GoodBooking(row),
           row.status = "free" <=> d.bookings[b].status = "free",
           row.user = d.bookings[b].user, row.shift = d.bookings[b].shift,
           row.hold = "held" <=> d.bookings[b].hold = "held"
    PROVE  Keeps(d, PutBooking(d, b, row))
<1> DEFINE e == PutBooking(d, b, row)
<1>1. /\ e \in DbType
      /\ e.bookings = [d.bookings EXCEPT ![b] = row]
      /\ e.requests = d.requests /\ e.pairings = d.pairings /\ e.booked = d.booked
      /\ e.balance = d.balance /\ e.lost = d.lost
  BY PutBookingParts
<1> HIDE DEF e
<1>2. \A c \in BookingId : e.bookings[c] = IF c = b THEN row ELSE d.bookings[c]
  BY <1>1 DEF Good, DbType
<1>3. \A u \in User : Held(e.bookings, u) = Held(d.bookings, u)
  BY <1>2 DEF Held
<1>4. Conserved(e)
  BY <1>1, <1>3 DEF Good, Conserved
<1>5. /\ \A c \in BookingId : GoodBooking(e.bookings[c])
      /\ \A p \in PairingId, s \in Side : e.pairings[p].status # "free" =>
            e.bookings[e.pairings[p].booking[s]].status # "free"
  BY <1>1, <1>2 DEF Good, GoodPairing
<1>6. Good(e)
  BY <1>1, <1>4, <1>5 DEF Good
<1> QED BY <1>1, <1>2, <1>6 DEF Keeps, e

-----------------------------------------------------------------------------
(* Holds. *)

(* Confirming: the row starts to hold what the balance loses.              *)
LEMMA ConfirmRowKeeps ==
    ASSUME NEW d, Good(d), NEW b \in BookingId, now \in Nat,
           d.bookings[b].status # "free", d.bookings[b].hold # "held",
           d.balance[d.bookings[b].user] >= 1
    PROVE  Keeps(d, ConfirmRow(PlaceHold(d, b), b))
<1> DEFINE u == d.bookings[b].user
           row == [d.bookings[b] EXCEPT !.hold = "held", !.status = "confirmed",
                                        !.kind = "paired", !.at = now, !.cap = TRUE]
           e == ConfirmRow(PlaceHold(d, b), b)
<1>1. u \in User /\ d.bookings[b] \in Booking /\ d.balance \in [User -> Nat]
  BY DEF Good, GoodBooking, DbType
<1>2. /\ GoodBooking(row) /\ row.user = u /\ row.shift = d.bookings[b].shift
      /\ row.hold = "held" /\ row.status = "confirmed"
  BY <1>1 DEF Good, GoodBooking, Booking
<1>3. /\ e.bookings = [d.bookings EXCEPT ![b] = row]
      /\ e.balance = [d.balance EXCEPT ![u] = @ - 1]
      /\ e.requests = d.requests /\ e.pairings = d.pairings /\ e.booked = d.booked
      /\ e.lost = d.lost
      /\ e = [d EXCEPT !.bookings = e.bookings, !.balance = e.balance]
  BY <1>1 DEF ConfirmRow, PlaceHold, PutBooking, Good, DbType, Booking
<1>4. e.balance \in [User -> Nat]
  BY <1>1, <1>3
<1>5. e \in DbType
  <2>1. e.bookings \in [BookingId -> Booking]
    BY <1>2, <1>3, SMT, ZenonT(60) DEF Good, DbType, GoodBooking
  <2> HIDE DEF e
  <2> QED BY <1>3, <1>4, <2>1 DEF Good, DbType
<1> HIDE DEF e, row
<1>6. \A c \in BookingId : e.bookings[c] = IF c = b THEN row ELSE d.bookings[c]
  BY <1>3 DEF Good, DbType
<1>7. Conserved(e)
  <2> SUFFICES ASSUME NEW v \in User
               PROVE  e.balance[v] + Cardinality(Held(e.bookings, v)) + e.lost[v] = StartBalance
    BY DEF Conserved
  <2>1. d.balance[v] + Cardinality(Held(d.bookings, v)) + d.lost[v] = StartBalance
    BY DEF Good, Conserved
  <2>2. CASE v # u
    <3>1. Held(e.bookings, v) = Held(d.bookings, v)
      BY <1>2, <1>6, <2>2 DEF Held
    <3> QED BY <1>1, <1>3, <2>1, <2>2, <3>1
  <2>3. CASE v = u
    <3>1. Held(e.bookings, u) = Held(d.bookings, u) \cup {b} /\ b \notin Held(d.bookings, u)
      BY <1>2, <1>6 DEF Held
    <3>2. Cardinality(Held(e.bookings, u)) = Cardinality(Held(d.bookings, u)) + 1
      BY <3>1, HeldFinite, FS_AddElement
    <3>3. d.lost[u] \in Nat /\ d.balance[u] \in Nat /\ Cardinality(Held(d.bookings, u)) \in Nat
      BY <1>1, HeldFinite DEF Good, DbType
    <3> QED BY <1>1, <1>3, <2>1, <2>3, <3>2, <3>3
  <2> QED BY <2>2, <2>3
<1>8. e.requests = d.requests /\ e.pairings = d.pairings
  BY <1>3
<1>9. Good(e)
  BY <1>2, <1>5, <1>6, <1>7, <1>8 DEF Good, GoodPairing
<1> QED BY <1>2, <1>6, <1>8, <1>9 DEF Keeps, e

(* Resolving: what the row no longer holds went back, or is lost.          *)
HoldOutcome == {"released", "returned", "forfeited"}

(* A hold that is open becomes available again or lost: one unit, once.    *)
LEMMA SettleKeeps ==
    ASSUME NEW d, Good(d), NEW b \in BookingId, NEW outcome \in HoldOutcome,
           d.bookings[b].hold = "held"
    PROVE  Keeps(d, Settle(d, b, outcome))
<1> DEFINE u == d.bookings[b].user
           row == [d.bookings[b] EXCEPT !.hold = outcome]
           p == PutBooking(d, b, row)
           e == Settle(d, b, outcome)
           back == IF outcome = "forfeited" THEN 0 ELSE 1
<1>1. /\ d.bookings[b] \in Booking /\ u \in User /\ d.bookings[b].status # "free"
      /\ d.balance \in [User -> Nat] /\ d.lost \in [User -> Nat]
  BY DEF Good, GoodBooking, DbType
<1>2. /\ GoodBooking(row) /\ row.user = u /\ row.shift = d.bookings[b].shift
      /\ row.hold # "held" /\ row.status = d.bookings[b].status
  BY <1>1 DEF Good, GoodBooking, Booking, HoldOutcome
<1> HIDE DEF row
<1>3. /\ p \in DbType /\ p.bookings = [d.bookings EXCEPT ![b] = row]
      /\ p.requests = d.requests /\ p.pairings = d.pairings /\ p.booked = d.booked
      /\ p.balance = d.balance /\ p.lost = d.lost
  BY <1>1, <1>2, PutBookingParts
<1>4. e = IF outcome = "forfeited" THEN [p EXCEPT !.lost[u] = @ + 1]
          ELSE [p EXCEPT !.balance[u] = @ + 1]
  BY DEF Settle, row
<1> HIDE DEF p, e
<1>5. /\ e \in DbType /\ e.bookings = p.bookings
      /\ e.requests = d.requests /\ e.pairings = d.pairings /\ e.booked = d.booked
      /\ e.balance = [d.balance EXCEPT ![u] = @ + back]
      /\ e.lost = [d.lost EXCEPT ![u] = @ + (1 - back)]
  <2>1. CASE outcome = "forfeited"
    BY <1>1, <1>3, <1>4, <2>1 DEF DbType
  <2>2. CASE outcome # "forfeited"
    BY <1>1, <1>3, <1>4, <2>2 DEF DbType
  <2> QED BY <2>1, <2>2
<1>6. \A c \in BookingId : e.bookings[c] = IF c = b THEN row ELSE d.bookings[c]
  BY <1>3, <1>5 DEF Good, DbType
<1>7. Conserved(e)
  <2> SUFFICES ASSUME NEW v \in User
               PROVE  e.balance[v] + Cardinality(Held(e.bookings, v)) + e.lost[v] = StartBalance
    BY DEF Conserved
  <2>1. d.balance[v] + Cardinality(Held(d.bookings, v)) + d.lost[v] = StartBalance
    BY DEF Good, Conserved
  <2>2. CASE v # u
    <3>1. Held(e.bookings, v) = Held(d.bookings, v)
      BY <1>2, <1>6, <2>2 DEF Held
    <3> QED BY <1>1, <1>5, <2>1, <2>2, <3>1
  <2>3. CASE v = u
    <3>1. Held(e.bookings, u) = Held(d.bookings, u) \ {b} /\ b \in Held(d.bookings, u)
      BY <1>2, <1>6 DEF Held
    <3>2. Cardinality(Held(e.bookings, u)) = Cardinality(Held(d.bookings, u)) - 1
      <4> DEFINE held == Held(d.bookings, u)
      <4>1. IsFiniteSet(held)
        BY HeldFinite
      <4> HIDE DEF held
      <4>2. Cardinality(held \ {b}) = IF b \in held THEN Cardinality(held) - 1 ELSE Cardinality(held)
        BY <4>1, FS_RemoveElement
      <4> QED BY <3>1, <4>2 DEF held
    <3>3. d.lost[u] \in Nat /\ d.balance[u] \in Nat /\ Cardinality(Held(d.bookings, u)) \in Nat
      BY <1>1, HeldFinite
    <3>4. e.balance[u] = d.balance[u] + back /\ e.lost[u] = d.lost[u] + (1 - back)
      BY <1>1, <1>5
    <3> QED BY <2>1, <2>3, <3>2, <3>3, <3>4
  <2> QED BY <2>2, <2>3
<1>8. e.requests = d.requests /\ e.pairings = d.pairings /\ e \in DbType
  BY <1>5
<1>9. row.status # "free"
  BY <1>1, <1>2
<1>10. Good(e)
  BY <1>2, <1>6, <1>7, <1>8, <1>9 DEF Good, GoodPairing
<1> QED BY <1>1, <1>2, <1>6, <1>8, <1>10 DEF Keeps, e

(* resolveHold, also of a hold that is settled already.                    *)
LEMMA ResolveHoldKeeps ==
    ASSUME NEW d, Good(d), NEW b \in BookingId, NEW outcome \in HoldOutcome
    PROVE  /\ Keeps(d, ResolveHold(d, b, outcome))
           /\ ResolveHold(d, b, outcome).bookings[b].hold # "held"
<1>1. CASE d.bookings[b].hold # "held"
  BY <1>1, KeepsSelf DEF ResolveHold
<1>2. CASE d.bookings[b].hold = "held"
  <2>1. ResolveHold(d, b, outcome) = Settle(d, b, outcome)
    BY <1>2 DEF ResolveHold
  <2>2. Settle(d, b, outcome).bookings[b].hold = outcome
    BY DEF Settle, PutBooking, Good, DbType, Booking
  <2> QED BY <1>2, <2>1, <2>2, SettleKeeps DEF HoldOutcome
<1> QED BY <1>1, <1>2

-----------------------------------------------------------------------------
(* Helpers on a single booking. *)

(* releaseSpots touches the counter only.                                  *)
LEMMA ReleaseSpotsKeeps ==
    ASSUME NEW d, Good(d), NEW s, NEW n \in Nat
    PROVE  Keeps(d, ReleaseSpots(d, s, n))
<1> DEFINE e == ReleaseSpots(d, s, n)
<1>1. /\ e.requests = d.requests /\ e.bookings = d.bookings /\ e.pairings = d.pairings
      /\ e.balance = d.balance /\ e.lost = d.lost
  BY DEF ReleaseSpots, Good, DbType
<1>2. e \in DbType
  BY DEF ReleaseSpots, Good, DbType
<1> HIDE DEF e
<1>3. Good(e)
  BY <1>1, <1>2 DEF Good, Conserved
<1> QED BY <1>1, <1>3 DEF Keeps, e

(* A row is cancelled once its hold is settled.                            *)
LEMMA CancelRowKeeps ==
    ASSUME NEW d, Good(d), NEW b \in BookingId, NEW keepCap \in BOOLEAN,
           d.bookings[b].status # "free", d.bookings[b].hold # "held"
    PROVE  Keeps(d, CancelRow(d, b, keepCap))
<1> DEFINE row == [d.bookings[b] EXCEPT !.status = "cancelled", !.cap = keepCap /\ @]
           e == PutBooking(d, b, row)
<1>1. /\ GoodBooking(row) /\ row.status # "free" /\ row.hold # "held"
      /\ row.user = d.bookings[b].user /\ row.shift = d.bookings[b].shift
  BY DEF Good, GoodBooking, Booking
<1>2. Keeps(d, e)
  <2> HIDE DEF row
  <2> QED BY <1>1, PutBookingKeeps
<1>3. CancelRow(d, b, keepCap) = ReleaseSpots(e, d.bookings[b].shift, 1)
  BY DEF CancelRow
<1> HIDE DEF e
<1>4. Keeps(e, ReleaseSpots(e, d.bookings[b].shift, 1))
  BY <1>2, ReleaseSpotsKeeps DEF Keeps
<1> QED BY <1>2, <1>3, <1>4, KeepsChain

(* A row goes solo once its hold is settled.                               *)
LEMMA SoloRowKeeps ==
    ASSUME NEW d, Good(d), NEW b \in BookingId, NEW keepCap \in BOOLEAN,
           d.bookings[b].status # "free", d.bookings[b].hold # "held"
    PROVE  Keeps(d, SoloRow(d, b, keepCap))
<1> DEFINE row == [d.bookings[b] EXCEPT !.kind = "solo", !.pairing = None, !.cap = keepCap /\ @]
<1>1. /\ GoodBooking(row) /\ row.status # "free" /\ row.hold # "held"
      /\ row.user = d.bookings[b].user /\ row.shift = d.bookings[b].shift
  BY DEF Good, GoodBooking, Booking
<1>2. SoloRow(d, b, keepCap) = PutBooking(d, b, row)
  BY DEF SoloRow
<1> HIDE DEF row
<1> QED BY <1>1, <1>2, PutBookingKeeps

(* Attendance is recorded once the hold is settled.                        *)
LEMMA MarkKeeps ==
    ASSUME NEW d, Good(d), NEW b \in BookingId,
           NEW status \in {"attended", "no_show", "unverified"},
           d.bookings[b].status # "free", d.bookings[b].hold # "held"
    PROVE  Keeps(d, Mark(d, b, status))
<1> DEFINE row == [d.bookings[b] EXCEPT !.status = status]
<1>1. /\ GoodBooking(row) /\ row.status # "free" /\ row.hold # "held"
      /\ row.user = d.bookings[b].user /\ row.shift = d.bookings[b].shift
  BY DEF Good, GoodBooking, Booking
<1>2. Mark(d, b, status) = PutBooking(d, b, row)
  BY DEF Mark
<1> HIDE DEF row
<1> QED BY <1>1, <1>2, PutBookingKeeps

(* keepSpotSoloAfterRelease.                                               *)
LEMMA KeepSpotSoloKeeps ==
    ASSUME NEW d, Good(d), NEW b \in BookingId, d.bookings[b].status # "free"
    PROVE  Keeps(d, KeepSpotSoloAfterRelease(d, b))
<1> DEFINE e == ResolveHold(d, b, "released")
<1>1. Keeps(d, e) /\ e.bookings[b].hold # "held"
  BY ResolveHoldKeeps DEF HoldOutcome
<1> HIDE DEF e
<1>2. Good(e) /\ e.bookings[b].status # "free"
  BY <1>1 DEF Keeps
<1>3. Keeps(e, SoloRow(e, b, FALSE))
  BY <1>1, <1>2, SoloRowKeeps, Zenon
<1> QED BY <1>1, <1>3, KeepsChain DEF KeepSpotSoloAfterRelease, e

(* releaseAndCancel.                                                       *)
LEMMA ReleaseAndCancelKeeps ==
    ASSUME NEW d, Good(d), NEW b \in BookingId, d.bookings[b].status # "free"
    PROVE  Keeps(d, ReleaseAndCancel(d, b))
<1> DEFINE e == ResolveHold(d, b, "released")
<1>1. Keeps(d, e) /\ e.bookings[b].hold # "held"
  BY ResolveHoldKeeps DEF HoldOutcome
<1> HIDE DEF e
<1>2. Good(e) /\ e.bookings[b].status # "free"
  BY <1>1 DEF Keeps
<1>3. Keeps(e, CancelRow(e, b, FALSE))
  BY <1>1, <1>2, CancelRowKeeps, Zenon
<1> QED BY <1>1, <1>3, KeepsChain DEF ReleaseAndCancel, e

-----------------------------------------------------------------------------
(* Helpers on a pairing. *)

(* A pairing changes its status.                                           *)
LEMMA PutStatusKeeps ==
    ASSUME NEW d, Good(d), NEW p \in PairingId, d.pairings[p].status \in LivePairing,
           NEW status \in {"confirmed", "completed", "declined", "expired"}
    PROVE  Keeps(d, PutStatus(d, p, status))
<1> DEFINE row == [d.pairings[p] EXCEPT !.status = status]
<1> d.pairings[p] \in Pairing /\ d.pairings[p].choice = "none"
  BY DEF Good, GoodPairing, LivePairing
<1>1. /\ row \in Pairing /\ row.status # "free" /\ d.pairings[p].status # "free"
      /\ row.request = d.pairings[p].request /\ row.booking = d.pairings[p].booking
      /\ row.choice = "none"
  BY DEF Pairing, LivePairing
<1>2. PutStatus(d, p, status) = PutPairing(d, p, row)
  BY DEF PutStatus
<1> HIDE DEF row
<1> QED BY <1>1, <1>2, PutPairingKeeps

(* A bail choice is recorded.                                              *)
LEMMA ChooseKeeps ==
    ASSUME NEW d, Good(d), NEW p \in PairingId, d.pairings[p].status = "cancelled",
           NEW choice \in {"release", "no_response_release"}
    PROVE  Keeps(d, Choose(d, p, choice))
<1> DEFINE row == [d.pairings[p] EXCEPT !.choice = choice]
<1> d.pairings[p] \in Pairing
  BY DEF Good, GoodPairing
<1>1. /\ row \in Pairing /\ row.status = d.pairings[p].status
      /\ row.request = d.pairings[p].request /\ row.booking = d.pairings[p].booking
  BY DEF Pairing
<1>2. Choose(d, p, choice) = PutPairing(d, p, row)
  BY DEF Choose
<1> HIDE DEF row
<1> QED BY <1>1, <1>2, PutPairingKeeps

(* The rows a pairing names are there.                                     *)
LEMMA Linked ==
    ASSUME NEW d, Good(d), NEW p \in PairingId, d.pairings[p].status # "free", NEW s \in Side
    PROVE  /\ d.pairings[p].request[s] \in RequestId
           /\ d.requests[d.pairings[p].request[s]].status # "free"
           /\ d.pairings[p].booking[s] \in BookingId
           /\ d.bookings[d.pairings[p].booking[s]].status # "free"
           /\ d.bookings[d.pairings[p].booking[s]].user \in User
           /\ d.bookings[d.pairings[p].booking[s]].shift \in Shift
BY DEF Good, GoodPairing, GoodBooking

(* A booking joins the confirmed pairing, its request is matched.          *)
LEMMA JoinSideKeeps ==
    ASSUME NEW d, Good(d), NEW p \in PairingId, d.pairings[p].status # "free", NEW s \in Side
    PROVE  Keeps(d, JoinSide(d, p, s))
<1> DEFINE r == d.pairings[p].request[s]
           b == d.pairings[p].booking[s]
           rq == [d.requests[r] EXCEPT !.status = "matched"]
           bk == [d.bookings[b] EXCEPT !.pairing = p]
           e == PutRequest(d, r, rq)
<1>1. r \in RequestId /\ b \in BookingId /\ d.requests[r].status # "free"
  BY Linked
<1>2. /\ GoodRequest(rq) /\ rq.status # "free"
      /\ rq.kind = d.requests[r].kind /\ rq.anchor = d.requests[r].anchor
  BY <1>1 DEF Good, GoodRequest, Request
<1>3. /\ GoodBooking(bk) /\ bk.status = d.bookings[b].status /\ bk.hold = d.bookings[b].hold
      /\ bk.user = d.bookings[b].user /\ bk.shift = d.bookings[b].shift
  BY <1>1, SMT, ZenonT(60) DEF Good, GoodBooking, Booking
<1>4. JoinSide(d, p, s) = PutBooking(e, b, bk)
  BY DEF JoinSide, MatchRequest
<1>5. e.bookings = d.bookings
  BY DEF PutRequest, Good, DbType
<1> HIDE DEF rq, bk
<1>6. Keeps(d, e)
  <2> HIDE DEF r
  <2> QED BY <1>1, <1>2, PutRequestKeeps
<1> HIDE DEF e
<1>7. Keeps(e, PutBooking(e, b, bk))
  <2> HIDE DEF b
  <2> QED BY <1>1, <1>3, <1>5, <1>6, PutBookingKeeps DEF Keeps
<1> QED BY <1>4, <1>6, <1>7, KeepsChain

(* finalizeIfReady.                                                        *)
LEMMA FinalizeIfReadyKeeps ==
    ASSUME NEW d, Good(d), NEW p \in PairingId, d.pairings[p].status = "proposed"
    PROVE  Keeps(d, FinalizeIfReady(d, p))
<1> DEFINE e == PutStatus(d, p, "confirmed")
           f == JoinSide(e, p, "a")
<1>1. "a" \in Side /\ "b" \in Side
  BY DEF Side
<1>2. Keeps(d, e)
  BY PutStatusKeeps DEF LivePairing
<1>3. FinalizeIfReady(d, p) = IF Ready(d, p) THEN JoinSide(f, p, "b") ELSE d
  BY DEF FinalizeIfReady
<1> HIDE DEF e
<1>4. Keeps(e, f)
  BY <1>1, <1>2, JoinSideKeeps DEF Keeps
<1> HIDE DEF f
<1>5. Keeps(f, JoinSide(f, p, "b"))
  BY <1>1, <1>2, <1>4, JoinSideKeeps DEF Keeps
<1>6. Keeps(d, JoinSide(f, p, "b"))
  BY <1>2, <1>4, <1>5, KeepsChain
<1> QED BY <1>3, <1>6, KeepsSelf

(* endProposal, the booking of one side.                                   *)
LEMMA EndSideBookingKeeps ==
    ASSUME NEW d, Good(d), NEW p \in PairingId, d.pairings[p].status # "free",
           NEW s \in Side, NEW skip
    PROVE  Keeps(d, EndSideBooking(d, p, s, skip))
<1> DEFINE b == d.pairings[p].booking[s]
           r == d.pairings[p].request[s]
           row == [d.bookings[b] EXCEPT !.kind = "solo", !.hold = "none", !.cap = FALSE]
           e == ResolveHold(d, b, "released")
<1>1. b \in BookingId /\ d.bookings[b].status # "free"
  BY Linked
<1>2. EndSideBooking(d, p, s, skip) =
        IF b = skip THEN d
        ELSE IF d.bookings[b].pairing = p THEN ReleaseAndCancel(d, b)
        ELSE IF d.requests[r].kind = "solo_rsvp" /\ d.bookings[b].hold # "none"
        THEN PutBooking(e, b, row) ELSE d
  BY DEF EndSideBooking
<1>3. Keeps(d, ReleaseAndCancel(d, b))
  BY <1>1, ReleaseAndCancelKeeps
<1>4. Keeps(d, e) /\ e.bookings[b].hold # "held"
  BY <1>1, ResolveHoldKeeps DEF HoldOutcome
<1>5. /\ GoodBooking(row) /\ row.status = d.bookings[b].status /\ row.hold # "held"
      /\ row.user = d.bookings[b].user /\ row.shift = d.bookings[b].shift
  BY <1>1 DEF Good, GoodBooking, Booking
<1> HIDE DEF e, row, b
<1>6. Keeps(e, PutBooking(e, b, row))
  BY <1>1, <1>4, <1>5, PutBookingKeeps DEF Keeps
<1>7. Keeps(d, PutBooking(e, b, row))
  BY <1>4, <1>6, KeepsChain
<1> QED BY <1>2, <1>3, <1>7, KeepsSelf

(* endProposal, one side: the booking, then the request.                   *)
LEMMA EndSideKeeps ==
    ASSUME NEW d, Good(d), NEW p \in PairingId, d.pairings[p].status # "free",
           NEW s \in Side, NEW status, NEW actor, NEW keepLooking, NEW skip
    PROVE  Keeps(d, EndSide(d, p, s, status, actor, keepLooking, skip))
<1> DEFINE r == d.pairings[p].request[s]
           bk == d.bookings[d.pairings[p].booking[s]]
           next == NextRequestStatus(d, p, s, status, actor, keepLooking)
           again == bk.user = actor /\ keepLooking /\ d.requests[r].anchor = None
           row == [d.requests[r] EXCEPT !.status = next,
                        !.excluded = IF again THEN @ \cup {bk.shift} ELSE @]
           e == EndSideBooking(d, p, s, skip)
<1>1. r \in RequestId /\ d.requests[r].status # "free" /\ bk.shift \in Shift
  BY Linked
<1>2. EndSide(d, p, s, status, actor, keepLooking, skip) = PutRequest(e, r, row)
  BY DEF EndSide
<1>3. next \in {"searching", "cancelled", "no_match"}
  BY DEF NextRequestStatus
<1>4. Keeps(d, e)
  BY EndSideBookingKeeps
<1> HIDE DEF next, again, bk, e
<1>5. /\ GoodRequest(row) /\ row.status # "free"
      /\ row.kind = d.requests[r].kind /\ row.anchor = d.requests[r].anchor
  <2>1. GoodRequest(d.requests[r]) /\ d.requests[r] \in Request
    BY <1>1 DEF Good, GoodRequest
  <2>2. (IF again THEN d.requests[r].excluded \cup {bk.shift} ELSE d.requests[r].excluded)
            \in SUBSET Shift
    BY <1>1, <2>1 DEF Request
  <2> DEFINE excluded == IF again THEN d.requests[r].excluded \cup {bk.shift}
                         ELSE d.requests[r].excluded
  <2>3. row = [d.requests[r] EXCEPT !.status = next, !.excluded = excluded]
    OBVIOUS
  <2>4. excluded \in SUBSET Shift
    BY <2>2
  <2> HIDE DEF excluded, row, r
  <2> QED BY <1>1, <1>3, <2>1, <2>3, <2>4 DEF GoodRequest, Request
<1> HIDE DEF row, r
<1>6. Keeps(e, PutRequest(e, r, row))
  BY <1>1, <1>4, <1>5, PutRequestKeeps DEF Keeps
<1> QED BY <1>2, <1>4, <1>6, KeepsChain

(* endProposal, both sides.                                                *)
LEMMA EndProposalKeeps ==
    ASSUME NEW d, Good(d), NEW p \in PairingId, d.pairings[p].status = "proposed",
           NEW status \in {"declined", "expired"}, NEW actor, NEW keepLooking, NEW skip
    PROVE  Keeps(d, EndProposal(d, p, status, actor, keepLooking, skip))
<1> DEFINE e == PutStatus(d, p, status)
           f == EndSide(e, p, "a", status, actor, keepLooking, skip)
           g == EndSide(f, p, "b", status, actor, keepLooking, skip)
<1>1. "a" \in Side /\ "b" \in Side
  BY DEF Side
<1>2. Keeps(d, e)
  BY PutStatusKeeps DEF LivePairing
<1>3. EndProposal(d, p, status, actor, keepLooking, skip) = g
  BY DEF EndProposal
<1> HIDE DEF e
<1>4. Good(e) /\ e.pairings[p].status # "free"
  BY <1>2 DEF Keeps
<1>5. Keeps(e, f)
  BY <1>1, <1>4, EndSideKeeps
<1> HIDE DEF f
<1>6. Good(f) /\ f.pairings[p].status # "free"
  BY <1>4, <1>5 DEF Keeps
<1>7. Keeps(f, g)
  BY <1>1, <1>6, EndSideKeeps
<1> QED BY <1>2, <1>3, <1>5, <1>7, KeepsChain

(* The end of cancelBooking: the open proposal, if there is one.           *)
LEMMA EndOpenProposalOfKeeps ==
    ASSUME NEW d, Good(d), NEW b
    PROVE  Keeps(d, EndOpenProposalOf(d, b))
<1> DEFINE open == {p \in PairingId : /\ d.pairings[p].status = "proposed"
                                     /\ \E s \in Side : d.pairings[p].booking[s] = b}
           p == CHOOSE p \in open : TRUE
<1>1. CASE open = {}
  BY <1>1, KeepsSelf DEF EndOpenProposalOf
<1>2. CASE open # {}
  <2>1. p \in open
    BY <1>2
  <2>2. p \in PairingId /\ d.pairings[p].status = "proposed"
    BY <2>1
  <2>3. EndOpenProposalOf(d, b) = EndProposal(d, p, "declined", d.bookings[b].user, FALSE, b)
    BY <1>2 DEF EndOpenProposalOf
  <2> HIDE DEF p
  <2>4. Keeps(d, EndProposal(d, p, "declined", d.bookings[b].user, FALSE, b))
    BY <2>2, EndProposalKeeps, Zenon
  <2> QED BY <2>3, <2>4
<1> QED BY <1>1, <1>2

(* The searches anchored to a cancelled booking are cancelled.             *)
LEMMA CancelAnchoredKeeps ==
    ASSUME NEW d, Good(d), NEW b
    PROVE  Keeps(d, CancelAnchored(d, b))
<1> DEFINE e == CancelAnchored(d, b)
           row(r) == IF d.requests[r].anchor = b /\ d.requests[r].status \in OpenRequest
                     THEN [d.requests[r] EXCEPT !.status = "cancelled"] ELSE d.requests[r]
<1>1. /\ e.requests = [r \in RequestId |-> row(r)]
      /\ e.bookings = d.bookings /\ e.pairings = d.pairings /\ e.booked = d.booked
      /\ e.balance = d.balance /\ e.lost = d.lost
      /\ e = [d EXCEPT !.requests = e.requests]
  BY DEF CancelAnchored, Good, DbType
<1>2. ASSUME NEW r \in RequestId
      PROVE  /\ GoodRequest(row(r)) /\ row(r) \in Request
             /\ row(r).status = "free" <=> d.requests[r].status = "free"
             /\ row(r).kind = d.requests[r].kind /\ row(r).anchor = d.requests[r].anchor
  BY DEF Good, GoodRequest, Request, OpenRequest
<1> HIDE DEF e, row
<1>3. e \in DbType
  BY <1>1, <1>2 DEF Good, DbType
<1>4. \A r \in RequestId : e.requests[r] = row(r)
  BY <1>1
<1>5. Good(e)
  BY <1>1, <1>2, <1>3, <1>4 DEF Good, GoodPairing, Conserved
<1> QED BY <1>1, <1>2, <1>4, <1>5 DEF Keeps, e

(* completePairingIfResolved.                                              *)
LEMMA CompleteIfResolvedKeeps ==
    ASSUME NEW d, Good(d), NEW p \in PairingId \cup {None}
    PROVE  Keeps(d, CompleteIfResolved(d, p))
<1> DEFINE done == /\ p # None /\ d.pairings[p].status = "confirmed"
                   /\ End[ShiftOf(p)] <= now
                   /\ \A s \in Side : Resolved(d.bookings[d.pairings[p].booking[s]], p)
<1>1. CompleteIfResolved(d, p) = IF done THEN PutStatus(d, p, "completed") ELSE d
  BY DEF CompleteIfResolved
<1>2. done => p \in PairingId /\ d.pairings[p].status \in LivePairing
  BY DEF LivePairing
<1> HIDE DEF done
<1>3. done => Keeps(d, PutStatus(d, p, "completed"))
  BY <1>2, PutStatusKeeps
<1> QED BY <1>1, <1>3, KeepsSelf

-----------------------------------------------------------------------------
(* The state, and what Commit makes of a database. *)

IInv ==
    /\ Good(Db)
    /\ now \in 0 .. Horizon
    /\ freeLate \subseteq User
    /\ blocked \subseteq SUBSET User

(* The inductive invariant says every row is well formed.                  *)
LEMMA IInvTypes == IInv /\ written \subseteq PairingId => TypeOK
BY DEF IInv, Good, Db, DbType, TypeOK

(* The inductive invariant says no Deeds are lost or made.                 *)
LEMMA IInvConserves == IInv => DeedsConserved
<1> SUFFICES ASSUME IInv PROVE DeedsConserved
  OBVIOUS
<1>1. \A u \in User : HeldBy(u) = Held(bookings, u)
  BY DEF HeldBy, Held
<1> QED BY <1>1 DEF IInv, Good, Db, Conserved, DeedsConserved

(* What a handler leaves is the next state.                                *)
LEMMA CommitGood ==
    ASSUME NEW d, Good(d), Commit(d)
    PROVE  Good(Db')
<1>1. Db' = d
  BY DEF Commit, Db, Good, DbType
<1> QED BY <1>1

(* A handler that keeps a good database good keeps the invariant.          *)
LEMMA CommitKeeps ==
    ASSUME IInv, NEW d, Keeps(Db, d), Commit(d), UNCHANGED now,
           freeLate' \subseteq User, blocked' \subseteq SUBSET User
    PROVE  IInv'
BY CommitGood DEF IInv, Keeps

(* The columns of the database a handler finds.                            *)
LEMMA Columns ==
    /\ Db.requests = requests /\ Db.bookings = bookings /\ Db.pairings = pairings
    /\ Db.balance = balance /\ Db.lost = lost /\ Db.booked = booked
BY DEF Db

(* The clock is a natural number.                                          *)
LEMMA Times == IInv => now \in Nat /\ now + 1 \in Nat
BY LifecycleAssumption DEF IInv

(* tick, first loop.                                                       *)
LEMMA TickExpireProposalStep ==
    ASSUME IInv, NEW p \in PairingId, TickExpireProposal(p)
    PROVE  IInv'
<1> DEFINE d == EndProposal(Db, p, "expired", NoUser, TRUE, None)
<1>1. Db.pairings[p].status = "proposed"
  BY Columns DEF TickExpireProposal, Expired
<1>2. Good(Db)
  BY DEF IInv
<1>3. Keeps(Db, d)
  BY <1>1, <1>2, EndProposalKeeps
<1>4. Commit(d) /\ UNCHANGED <<now, freeLate, blocked>>
  BY DEF TickExpireProposal
<1> HIDE DEF d
<1> QED BY <1>3, <1>4, CommitKeeps DEF IInv

(* confirm: the hold is only placed where the balance covers it.           *)
LEMMA ConfirmStep ==
    ASSUME IInv, NEW p \in PairingId, NEW s \in Side, Confirm(p, s)
    PROVE  IInv'
<1> DEFINE b == pairings[p].booking[s]
           d == IF AlreadyIn(b) THEN Db ELSE ConfirmRow(PlaceHold(Db, b), b)
           e == FinalizeIfReady(d, p)
<1>1. Good(Db) /\ Db.pairings[p].status = "proposed"
  BY Columns DEF IInv, Confirm
<1>2. b \in BookingId /\ bookings[b].status # "free"
  BY <1>1, Linked, Columns
<1>3. Keeps(Db, d)
  <2>1. CASE AlreadyIn(b)
    BY <1>1, <2>1, KeepsSelf
  <2>2. CASE ~AlreadyIn(b)
    <3>1. balance[bookings[b].user] >= 1
      BY <2>2 DEF Confirm, CanConfirm
    <3>2. bookings[b].hold # "held"
      BY <1>1, <1>2, <2>2, Columns DEF AlreadyIn, Good, GoodBooking
    <3>3. now \in Nat
      BY Times
    <3> HIDE DEF b
    <3>4. Keeps(Db, ConfirmRow(PlaceHold(Db, b), b))
      BY <1>1, <1>2, <3>1, <3>2, <3>3, ConfirmRowKeeps, Columns
    <3> QED BY <2>2, <3>4
  <2> QED BY <2>1, <2>2
<1>4. Commit(e) /\ UNCHANGED <<now, freeLate, blocked>>
  BY DEF Confirm
<1> HIDE DEF d
<1>5. Keeps(d, e)
  <2>1. d.pairings = Db.pairings
    <3> HIDE DEF b
    <3>1. ConfirmRow(PlaceHold(Db, b), b).pairings = Db.pairings
      BY DEF ConfirmRow, PlaceHold, PutBooking, Db
    <3> QED BY <3>1 DEF d
  <2> QED BY <1>1, <1>3, <2>1, FinalizeIfReadyKeeps DEF Keeps
<1> HIDE DEF e
<1>6. Keeps(Db, e)
  BY <1>3, <1>5, KeepsChain
<1> QED BY <1>4, <1>6, CommitKeeps DEF IInv

(* decline.                                                                *)
LEMMA DeclineStep ==
    ASSUME IInv, NEW p \in PairingId, NEW s \in Side, NEW keepLooking \in BOOLEAN,
           Decline(p, s, keepLooking)
    PROVE  IInv'
<1> DEFINE d == EndProposal(Db, p, "declined", UserOn(p, s), keepLooking, None)
<1>1. Good(Db) /\ Db.pairings[p].status = "proposed"
  BY Columns DEF IInv, Decline
<1>2. Keeps(Db, d)
  BY <1>1, EndProposalKeeps
<1>3. Commit(d) /\ UNCHANGED <<now, freeLate, blocked>>
  BY DEF Decline
<1> HIDE DEF d
<1> QED BY <1>2, <1>3, CommitKeeps DEF IInv

(* partnerBackedOut, asking the partner.                                   *)
LEMMA AskedKeeps ==
    ASSUME IInv, NEW d, Keeps(Db, d), NEW p \in PairingId, pairings[p].status # "free", NEW backer
    PROVE  LET s == IF UserOn(p, "a") = backer THEN "b" ELSE "a"
               partner == d.pairings[p].booking[s]
               deadline == Earlier(now + BailDecisionTime, Before(Start[ShiftOf(p)], BailMin))
               late == deadline <= now
               asked == PutPairing(d, p, [d.pairings[p] EXCEPT
                            !.status = "cancelled", !.bailUser = UserOn(p, s),
                            !.bailDeadline = Later(deadline, now),
                            !.choice = IF late THEN "auto_release" ELSE @])
           IN  /\ Keeps(d, asked)
               /\ partner \in BookingId /\ d.bookings[partner].status # "free"
<1> DEFINE s == IF UserOn(p, "a") = backer THEN "b" ELSE "a"
           partner == d.pairings[p].booking[s]
           deadline == Earlier(now + BailDecisionTime, Before(Start[ShiftOf(p)], BailMin))
           late == deadline <= now
           row == [d.pairings[p] EXCEPT
                    !.status = "cancelled", !.bailUser = UserOn(p, s),
                    !.bailDeadline = Later(deadline, now),
                    !.choice = IF late THEN "auto_release" ELSE @]
           asked == PutPairing(d, p, row)
<1>1. Good(Db) /\ Db.pairings[p].status # "free" /\ s \in Side /\ "a" \in Side
  BY Columns DEF IInv, Side
<1>2. Good(d) /\ d.pairings[p].status # "free"
  BY <1>1 DEF Keeps
<1>3. partner \in BookingId /\ d.bookings[partner].status # "free"
  BY <1>1, <1>2, Linked
<1>4. UserOn(p, s) \in User /\ ShiftOf(p) \in Shift
  <2>1. /\ bookings[pairings[p].booking[s]].user \in User
        /\ bookings[pairings[p].booking["a"]].shift \in Shift
    BY <1>1, Linked, Columns
  <2> HIDE DEF s
  <2> QED BY <2>1 DEF UserOn, ShiftOf
<1>5. deadline \in Nat /\ Later(deadline, now) \in Nat
  <2>1. now \in Nat /\ BailDecisionTime \in Nat /\ BailMin \in Nat /\ Start[ShiftOf(p)] \in Nat
    BY <1>4, Times, LifecycleAssumption
  <2> QED BY <2>1 DEF Earlier, Later, Before
<1> HIDE DEF s, deadline, late, partner
<1>6. /\ row \in Pairing /\ row.status # "free"
      /\ row.request = d.pairings[p].request /\ row.booking = d.pairings[p].booking
      /\ row.status = "cancelled"
  <2>1. d.pairings[p] \in Pairing
    BY <1>2 DEF Good, GoodPairing
  <2> DEFINE until == Later(deadline, now)
             choice == IF late THEN "auto_release" ELSE d.pairings[p].choice
             u == UserOn(p, s)
  <2>2. choice \in {"none", "release", "rematch", "auto_release", "no_response_release"}
    BY <2>1 DEF Pairing
  <2>3. row = [d.pairings[p] EXCEPT !.status = "cancelled", !.bailUser = u,
                                    !.bailDeadline = until, !.choice = choice]
    OBVIOUS
  <2>4. u \in User /\ until \in Nat
    BY <1>4, <1>5
  <2> HIDE DEF until, choice, u, row
  <2> QED BY <2>1, <2>2, <2>3, <2>4 DEF Pairing
<1> HIDE DEF row
<1>7. Keeps(d, asked)
  BY <1>2, <1>6, PutPairingKeeps
<1> HIDE DEF asked
<1> QED BY <1>3, <1>7 DEF s, partner, deadline, late, row, asked

(* partnerBackedOut, asking the partner or releasing their Deeds.          *)
LEMMA PartnerBackedOutKeeps ==
    ASSUME IInv, NEW d, Keeps(Db, d), NEW p \in PairingId, pairings[p].status # "free", NEW backer
    PROVE  Keeps(d, PartnerBackedOut(d, p, backer))
<1> DEFINE s == IF UserOn(p, "a") = backer THEN "b" ELSE "a"
           partner == d.pairings[p].booking[s]
           deadline == Earlier(now + BailDecisionTime, Before(Start[ShiftOf(p)], BailMin))
           late == deadline <= now
           asked == PutPairing(d, p, [d.pairings[p] EXCEPT
                        !.status = "cancelled", !.bailUser = UserOn(p, s),
                        !.bailDeadline = Later(deadline, now),
                        !.choice = IF late THEN "auto_release" ELSE @])
<1>1. PartnerBackedOut(d, p, backer) = IF late THEN KeepSpotSoloAfterRelease(asked, partner) ELSE asked
  BY DEF PartnerBackedOut
<1>2. Keeps(d, asked) /\ partner \in BookingId /\ d.bookings[partner].status # "free"
  BY AskedKeeps
<1> HIDE DEF asked, partner, late
<1>3. Good(asked) /\ asked.bookings[partner].status # "free"
  BY <1>2 DEF Keeps
<1>4. Keeps(asked, KeepSpotSoloAfterRelease(asked, partner))
  BY <1>2, <1>3, KeepSpotSoloKeeps
<1> QED BY <1>1, <1>2, <1>4, KeepsChain

(* cancelBooking of one's own accord: forfeited when late, else released.  *)
LEMMA CancelOwnKeeps ==
    ASSUME IInv, NEW b \in BookingId, bookings[b].status # "free", NEW type, NEW keepSpotSolo
    PROVE  Keeps(Db, CancelOwn(b, type, keepSpotSolo))
<1> DEFINE p == bookings[b].pairing
           late == type = "late"
           outcome == IF late THEN "forfeited" ELSE "released"
           settled == ResolveHold(Db, b, outcome)
           solo == SoloRow(settled, b, late)
           cancelled == CancelRow(settled, b, late)
           gone == IF keepSpotSolo /\ CanKeepSpotSolo(b) THEN solo ELSE cancelled
           alone == CancelAnchored(gone, b)
           asked == PartnerBackedOut(alone, p, bookings[b].user)
           told == IF PairingStatusOf(b) = "confirmed" THEN asked ELSE alone
<1>1. Good(Db) /\ Db.bookings[b].status # "free"
  BY Columns DEF IInv
<1>2. outcome \in HoldOutcome /\ late \in BOOLEAN
  BY DEF HoldOutcome
<1>3. CancelOwn(b, type, keepSpotSolo) = EndOpenProposalOf(told, b)
  BY DEF CancelOwn
<1> HIDE DEF outcome, late
<1>4. Keeps(Db, settled) /\ settled.bookings[b].hold # "held"
  BY <1>1, <1>2, ResolveHoldKeeps
<1> HIDE DEF settled
<1>5. Good(settled) /\ settled.bookings[b].status # "free"
  BY <1>1, <1>4 DEF Keeps
<1>6. Keeps(settled, solo) /\ Keeps(settled, cancelled)
  BY <1>2, <1>4, <1>5, SoloRowKeeps, CancelRowKeeps, Zenon
<1> HIDE DEF solo, cancelled
<1>7. Keeps(settled, gone)
  BY <1>6
<1> HIDE DEF gone
<1>8. Keeps(gone, alone)
  BY <1>7, CancelAnchoredKeeps DEF Keeps
<1> HIDE DEF alone
<1>9. Keeps(Db, alone)
  BY <1>4, <1>7, <1>8, KeepsChain
<1>10. Keeps(alone, told)
  <2>1. CASE PairingStatusOf(b) = "confirmed"
    <3>1. p \in PairingId /\ pairings[p].status # "free"
      BY <1>1, <2>1, Columns DEF PairingStatusOf, Good, GoodBooking, Booking
    <3> HIDE DEF p
    <3>2. Keeps(alone, asked)
      BY <1>9, <3>1, PartnerBackedOutKeeps
    <3> QED BY <2>1, <3>2
  <2>2. CASE PairingStatusOf(b) # "confirmed"
    BY <1>9, <2>2, KeepsSelf DEF Keeps
  <2> QED BY <2>1, <2>2
<1> HIDE DEF told
<1>11. Keeps(told, EndOpenProposalOf(told, b))
  BY <1>10, EndOpenProposalOfKeeps DEF Keeps
<1> QED BY <1>3, <1>9, <1>10, <1>11, KeepsChain

(* cancelBooking of somebody the partner backed out on.                    *)
LEMMA CancelBackedOutOnKeeps ==
    ASSUME IInv, NEW b \in BookingId, bookings[b].status # "free", BackedOutOn(b), NEW keepSpotSolo
    PROVE  Keeps(Db, CancelBackedOutOn(b, keepSpotSolo))
<1> DEFINE p == bookings[b].pairing
           gone == IF keepSpotSolo THEN KeepSpotSoloAfterRelease(Db, b) ELSE ReleaseAndCancel(Db, b)
           chosen == IF pairings[p].choice = "none" THEN Choose(gone, p, "release") ELSE gone
           alone == CancelAnchored(chosen, b)
<1>1. Good(Db) /\ Db.bookings[b].status # "free"
  BY Columns DEF IInv
<1>2. p \in PairingId /\ pairings[p].status = "cancelled"
  BY <1>1, Columns DEF BackedOutOn, PairingStatusOf, Good, GoodBooking, Booking
<1>3. CancelBackedOutOn(b, keepSpotSolo) = EndOpenProposalOf(alone, b)
  BY DEF CancelBackedOutOn
<1>4. Keeps(Db, gone)
  BY <1>1, KeepSpotSoloKeeps, ReleaseAndCancelKeeps
<1> HIDE DEF p
<1>4a. gone.pairings[p].status = "cancelled"
  <2> DEFINE settled == ResolveHold(Db, b, "released")
  <2>1. settled.pairings = pairings
    BY DEF ResolveHold, Settle, PutBooking, Db
  <2> HIDE DEF settled
  <2>2. gone.pairings = settled.pairings
    BY DEF ReleaseAndCancel, KeepSpotSoloAfterRelease, CancelRow, SoloRow, ReleaseSpots,
           PutBooking, settled
  <2> QED BY <1>2, <2>1, <2>2
<1> HIDE DEF gone
<1>5. Keeps(gone, Choose(gone, p, "release")) /\ Keeps(gone, gone)
  BY <1>2, <1>4, <1>4a, ChooseKeeps, KeepsSelf DEF Keeps
<1>6. Keeps(gone, chosen)
  BY <1>5
<1> HIDE DEF chosen
<1>7. Keeps(chosen, alone)
  BY <1>6, CancelAnchoredKeeps DEF Keeps
<1> HIDE DEF alone
<1>8. Keeps(alone, EndOpenProposalOf(alone, b))
  BY <1>7, EndOpenProposalOfKeeps DEF Keeps
<1> QED BY <1>3, <1>4, <1>6, <1>7, <1>8, KeepsChain

(* cancelBooking.                                                          *)
LEMMA CancelBookingStep ==
    ASSUME IInv, NEW b \in BookingId, NEW keepSpotSolo \in BOOLEAN, CancelBooking(b, keepSpotSolo)
    PROVE  IInv'
<1> DEFINE type == CancelType(b)
           own == CancelOwn(b, type, keepSpotSolo)
           out == CancelBackedOutOn(b, keepSpotSolo)
           d == IF type = "partner_cancelled" THEN out ELSE own
<1>1. /\ bookings[b].status # "free" /\ Commit(d) /\ UNCHANGED <<now, blocked>>
      /\ freeLate' = IF type = "free_late" THEN freeLate \cup {bookings[b].user} ELSE freeLate
  BY DEF CancelBooking
<1>2. bookings[b].user \in User
  BY <1>1, Columns DEF IInv, Good, GoodBooking
<1>3. type = "partner_cancelled" => BackedOutOn(b)
  BY DEF CancelType
<1>4. Keeps(Db, own)
  BY <1>1, CancelOwnKeeps
<1>5. type = "partner_cancelled" => Keeps(Db, out)
  BY <1>1, <1>3, CancelBackedOutOnKeeps
<1> HIDE DEF type, own, out
<1>6. Keeps(Db, d)
  BY <1>4, <1>5
<1> HIDE DEF d
<1>7. freeLate' \subseteq User /\ blocked' \subseteq SUBSET User
  BY <1>1, <1>2 DEF IInv
<1> QED BY <1>1, <1>6, <1>7, CommitKeeps

(* A report, with or without leaving the pairing.                          *)
LEMMA ReportPartnerStep ==
    ASSUME IInv, NEW p \in PairingId, NEW s \in Side, NEW cancelPairing \in BOOLEAN,
           ReportPartner(p, s, cancelPairing)
    PROVE  IInv'
<1> DEFINE b == pairings[p].booking[s]
           leaves == cancelPairing /\ pairings[p].status \in LivePairing
           out == CancelOwn(b, "safety", FALSE)
           ended == EndProposal(Db, p, "declined", UserOn(p, s), TRUE, None)
           d == IF leaves /\ bookings[b].status = "confirmed" THEN out
                ELSE IF leaves /\ pairings[p].status = "proposed" THEN ended ELSE Db
<1>1. Good(Db) /\ Db.pairings[p].status # "free"
  BY Columns DEF IInv, ReportPartner
<1>2. b \in BookingId /\ bookings[b].status # "free"
  BY <1>1, Linked, Columns
<1>3. UserOn(p, "a") \in User /\ UserOn(p, "b") \in User
  <2>1. "a" \in Side /\ "b" \in Side
    BY DEF Side
  <2> QED BY <1>1, <2>1, Linked, Columns DEF UserOn
<1>4. Commit(d) /\ UNCHANGED <<now, freeLate>>
      /\ blocked' = blocked \cup {{UserOn(p, "a"), UserOn(p, "b")}}
  BY DEF ReportPartner
<1>5. pairings[p].status = "proposed" => Keeps(Db, ended)
  BY <1>1, EndProposalKeeps, Columns, Zenon
<1>6. Keeps(Db, out)
  <2> HIDE DEF b
  <2> QED BY <1>2, CancelOwnKeeps, Zenon
<1>7. Keeps(Db, Db)
  BY <1>1, KeepsSelf
<1> HIDE DEF leaves, out, ended
<1>8. Keeps(Db, d)
  BY <1>5, <1>6, <1>7
<1> HIDE DEF d
<1>9. freeLate' \subseteq User /\ blocked' \subseteq SUBSET User
  BY <1>3, <1>4 DEF IInv
<1> QED BY <1>4, <1>8, <1>9, CommitKeeps

(* The one who decides is on one of the two sides.                         *)
LEMMA BailSideInSide == \A p : BailSide(p) \in Side
BY DEF BailSide, Side

(* bailDecision, the Deeds back.                                           *)
LEMMA BailReleaseStep ==
    ASSUME IInv, NEW p \in PairingId, BailRelease(p)
    PROVE  IInv'
<1> DEFINE s == BailSide(p)
           b == pairings[p].booking[s]
           chosen == Choose(Db, p, "release")
           d == ReleaseAndCancel(chosen, b)
<1>1. Good(Db) /\ Db.pairings[p].status = "cancelled"
  BY Columns DEF IInv, BailRelease, DecisionOpen
<1>2. b \in BookingId /\ Db.bookings[b].status # "free"
  BY <1>1, BailSideInSide, Linked, Columns
<1>3. Commit(d) /\ UNCHANGED <<now, freeLate, blocked>>
  BY DEF BailRelease
<1>4. Keeps(Db, chosen)
  BY <1>1, ChooseKeeps
<1> HIDE DEF b, chosen
<1>5. Keeps(chosen, d)
  BY <1>2, <1>4, ReleaseAndCancelKeeps DEF Keeps
<1> HIDE DEF d
<1>6. Keeps(Db, d)
  BY <1>4, <1>5, KeepsChain
<1> QED BY <1>3, <1>6, CommitKeeps DEF IInv

(* tick, second loop.                                                      *)
LEMMA TickBailNoResponseStep ==
    ASSUME IInv, NEW p \in PairingId, TickBailNoResponse(p)
    PROVE  IInv'
<1> DEFINE s == BailSide(p)
           b == pairings[p].booking[s]
           chosen == Choose(Db, p, "no_response_release")
           gone == ReleaseAndCancel(chosen, b)
           d == IF bookings[b].status = "confirmed" THEN gone ELSE chosen
<1>1. Good(Db) /\ Db.pairings[p].status = "cancelled"
  BY Columns DEF IInv, TickBailNoResponse, Unanswered, DecisionOpen
<1>2. b \in BookingId /\ Db.bookings[b].status # "free"
  BY <1>1, BailSideInSide, Linked, Columns
<1>3. Commit(d) /\ UNCHANGED <<now, freeLate, blocked>>
  BY DEF TickBailNoResponse
<1>4. Keeps(Db, chosen)
  BY <1>1, ChooseKeeps
<1> HIDE DEF b, chosen
<1>5. Keeps(chosen, gone)
  BY <1>2, <1>4, ReleaseAndCancelKeeps DEF Keeps
<1>6. Keeps(Db, gone)
  BY <1>4, <1>5, KeepsChain
<1> HIDE DEF gone
<1>7. Keeps(Db, d)
  BY <1>4, <1>6
<1> HIDE DEF d
<1> QED BY <1>3, <1>7, CommitKeeps DEF IInv

(* A search that ends; with it goes the hold a rematch kept.               *)
LEMMA StopSearchKeeps ==
    ASSUME IInv, NEW r \in RequestId, requests[r].status # "free",
           NEW status \in {"cancelled", "no_match"}
    PROVE  LET ended == PutRequest(Db, r, [requests[r] EXCEPT !.status = status])
               b == requests[r].anchor
           IN  Keeps(Db, IF requests[r].kind = "rematch" /\ bookings[b].status = "confirmed"
                         THEN KeepSpotSoloAfterRelease(ended, b) ELSE ended)
<1> DEFINE row == [requests[r] EXCEPT !.status = status]
           ended == PutRequest(Db, r, row)
           b == requests[r].anchor
           solo == KeepSpotSoloAfterRelease(ended, b)
           open == requests[r].kind = "rematch" /\ bookings[b].status = "confirmed"
<1>1. Good(Db) /\ GoodRequest(requests[r])
  BY Columns DEF IInv, Good
<1>2. /\ GoodRequest(row) /\ row.status # "free"
      /\ row.kind = requests[r].kind /\ row.anchor = requests[r].anchor
  BY <1>1 DEF GoodRequest, Request
<1> HIDE DEF row
<1>3. Keeps(Db, ended)
  BY <1>1, <1>2, PutRequestKeeps, Columns
<1> HIDE DEF ended
<1>4. open => b \in BookingId /\ Db.bookings[b].status # "free"
  BY <1>1, Columns DEF GoodRequest
<1>5. open => Keeps(ended, solo)
  BY <1>3, <1>4, KeepSpotSoloKeeps DEF Keeps
<1> HIDE DEF open, solo
<1>6. open => Keeps(Db, solo)
  BY <1>3, <1>5, KeepsChain
<1> QED BY <1>3, <1>6 DEF open, solo, ended, row

(* cancelRequest.                                                          *)
LEMMA CancelRequestStep ==
    ASSUME IInv, NEW u \in User, CancelRequest(u)
    PROVE  IInv'
<1> PICK r \in RequestId :
        /\ requests[r].status = "searching"
        /\ LET d == PutRequest(Db, r, [requests[r] EXCEPT !.status = "cancelled"])
               b == requests[r].anchor
           IN  Commit(IF requests[r].kind = "rematch" /\ bookings[b].status = "confirmed"
                      THEN KeepSpotSoloAfterRelease(d, b) ELSE d)
        /\ UNCHANGED <<now, freeLate, blocked>>
  BY DEF CancelRequest
<1> DEFINE ended == PutRequest(Db, r, [requests[r] EXCEPT !.status = "cancelled"])
           b == requests[r].anchor
           d == IF requests[r].kind = "rematch" /\ bookings[b].status = "confirmed"
                THEN KeepSpotSoloAfterRelease(ended, b) ELSE ended
<1>1. Keeps(Db, d)
  BY StopSearchKeeps
<1>2. Commit(d)
  OBVIOUS
<1> HIDE DEF d
<1> QED BY <1>1, <1>2, CommitKeeps DEF IInv

(* tick, third loop.                                                       *)
LEMMA TickSearchDeadlineStep ==
    ASSUME IInv, NEW r \in RequestId, TickSearchDeadline(r)
    PROVE  IInv'
<1> DEFINE ended == PutRequest(Db, r, [requests[r] EXCEPT !.status = "no_match"])
           b == requests[r].anchor
           d == IF requests[r].kind = "rematch" /\ bookings[b].status = "confirmed"
                THEN KeepSpotSoloAfterRelease(ended, b) ELSE ended
<1>1. Keeps(Db, d)
  BY StopSearchKeeps DEF TickSearchDeadline, Fruitless
<1>2. Commit(d) /\ UNCHANGED <<now, freeLate, blocked>>
  BY DEF TickSearchDeadline
<1> HIDE DEF d
<1> QED BY <1>1, <1>2, CommitKeeps DEF IInv

(* tick, the pairings whose shift is over.                                 *)
LEMMA TickCompleteStep ==
    ASSUME IInv, NEW p \in PairingId, TickComplete(p)
    PROVE  IInv'
<1> DEFINE d == CompleteIfResolved(Db, p)
<1>1. Keeps(Db, d)
  BY CompleteIfResolvedKeeps DEF IInv
<1>2. Commit(d) /\ UNCHANGED <<now, freeLate, blocked>>
  BY DEF TickComplete
<1> HIDE DEF d
<1> QED BY <1>1, <1>2, CommitKeeps DEF IInv

(* Attendance: the hold is resolved, the row marked, the pairing completed *)
(* when that was the last thing it waited for.                             *)
LEMMA AttendanceStep ==
    ASSUME IInv, NEW b \in BookingId, bookings[b].status # "free",
           NEW outcome \in HoldOutcome, NEW status \in {"attended", "no_show", "unverified"},
           Commit(CompleteIfResolved(Mark(ResolveHold(Db, b, outcome), b, status),
                                     bookings[b].pairing)),
           UNCHANGED <<now, freeLate, blocked>>
    PROVE  IInv'
<1> DEFINE settled == ResolveHold(Db, b, outcome)
           marked == Mark(settled, b, status)
           p == bookings[b].pairing
           d == CompleteIfResolved(marked, p)
<1>1. Good(Db) /\ p \in PairingId \cup {None}
  BY Columns DEF IInv, Good, GoodBooking, Booking
<1>2. Keeps(Db, settled) /\ settled.bookings[b].hold # "held"
  BY <1>1, ResolveHoldKeeps
<1>3. Commit(d)
  OBVIOUS
<1> HIDE DEF settled, p
<1>4. Keeps(settled, marked)
  BY <1>2, MarkKeeps, Columns DEF Keeps
<1> HIDE DEF marked
<1>5. Keeps(marked, d)
  BY <1>1, <1>4, CompleteIfResolvedKeeps DEF Keeps
<1> HIDE DEF d
<1>6. Keeps(Db, d)
  BY <1>2, <1>4, <1>5, KeepsChain
<1> QED BY <1>3, <1>6, CommitKeeps DEF IInv

-----------------------------------------------------------------------------
(* Actions that insert rows. *)

(* The parts of Good, of a state: what an action that writes columns       *)
(* itself has to show.                                                     *)
LEMMA GoodNext ==
    ASSUME booked' \in [Shift -> Nat], requests' \in [RequestId -> Request],
           bookings' \in [BookingId -> Booking], pairings' \in [PairingId -> Pairing],
           UNCHANGED <<balance, lost>>, IInv,
           \A r \in RequestId : GoodRequest(requests'[r]),
           \A b \in BookingId : GoodBooking(bookings'[b]),
           \A p \in PairingId : GoodPairing(pairings'[p]),
           \A p \in PairingId, s \in Side : pairings'[p].status # "free" =>
                /\ requests'[pairings'[p].request[s]].status # "free"
                /\ bookings'[pairings'[p].booking[s]].status # "free",
           \A u \in User : Held(bookings', u) = Held(bookings, u)
    PROVE  Good(Db')
<1>1. /\ Db'.requests = requests' /\ Db'.bookings = bookings' /\ Db'.pairings = pairings'
      /\ Db'.balance = balance /\ Db'.lost = lost /\ Db' \in DbType
  BY Columns DEF Db, IInv, Good, DbType
<1>2. Conserved(Db')
  BY <1>1, Columns DEF IInv, Good, Conserved
<1> QED BY <1>1, <1>2 DEF Good

(* IInv, column by column.                                                 *)
LEMMA GoodNow ==
    ASSUME IInv
    PROVE  /\ booked \in [Shift -> Nat] /\ requests \in [RequestId -> Request]
           /\ bookings \in [BookingId -> Booking] /\ pairings \in [PairingId -> Pairing]
           /\ \A r \in RequestId : GoodRequest(requests[r])
           /\ \A b \in BookingId : GoodBooking(bookings[b])
           /\ \A p \in PairingId : GoodPairing(pairings[p])
           /\ \A p \in PairingId, s \in Side : pairings[p].status # "free" =>
                /\ pairings[p].request[s] \in RequestId /\ pairings[p].booking[s] \in BookingId
                /\ requests[pairings[p].request[s]].status # "free"
                /\ bookings[pairings[p].booking[s]].status # "free"
BY Columns DEF IInv, Good, DbType, GoodPairing

(* A new search is a well-formed row.                                      *)
LEMMA NewRequestGood ==
    ASSUME NEW u \in User, NEW kind \in {"standard", "solo_rsvp", "rematch"},
           NEW deadline \in Nat, NEW anchor \in BookingId \cup {None},
           kind = "rematch" => anchor \in BookingId
    PROVE  /\ GoodRequest(NewRequest(u, kind, deadline, anchor))
           /\ NewRequest(u, kind, deadline, anchor).status # "free"
BY DEF NewRequest, GoodRequest, Request

(* A search deadline is a point in time.                                   *)
LEMMA SearchDeadlineType ==
    ASSUME IInv, NEW w \in WindowEnd
    PROVE  SearchDeadline(w) \in Nat
<1>1. now \in Nat /\ WaitCap \in Nat /\ MinLead \in Nat /\ w \in Nat
  BY Times, LifecycleAssumption
<1> QED BY <1>1 DEF SearchDeadline, Earlier, Before

(* One request row is written, another column perhaps at its choice.       *)
LEMMA WriteRequestStep ==
    ASSUME IInv, NEW r \in RequestId, NEW row, GoodRequest(row), row.status # "free",
           requests' = [requests EXCEPT ![r] = row],
           UNCHANGED <<now, booked, bookings, balance, lost, freeLate, blocked>>,
           pairings' \in [PairingId -> Pairing],
           \A p \in PairingId : /\ pairings'[p].status = pairings[p].status
                                /\ pairings'[p].request = pairings[p].request
                                /\ pairings'[p].booking = pairings[p].booking
                                /\ GoodPairing(pairings'[p])
    PROVE  IInv'
<1>1. \A q \in RequestId : requests'[q] = IF q = r THEN row ELSE requests[q]
  BY GoodNow
<1>2. requests' \in [RequestId -> Request]
  BY GoodNow DEF GoodRequest
<1>3. Good(Db')
  BY <1>1, <1>2, GoodNow, GoodNext
<1> QED BY <1>3 DEF IInv

(* createRequest.                                                          *)
LEMMA CreateRequestStep ==
    ASSUME IInv, NEW u \in User, NEW w \in WindowEnd, CreateRequest(u, w)
    PROVE  IInv'
<1> PICK r \in RequestId :
        /\ requests' = [requests EXCEPT ![r] = NewRequest(u, "standard", SearchDeadline(w), None)]
        /\ UNCHANGED <<now, booked, bookings, pairings, balance, lost, freeLate, blocked>>
  BY DEF CreateRequest
<1> DEFINE deadline == SearchDeadline(w)
           row == NewRequest(u, "standard", deadline, None)
<1>1. deadline \in Nat
  BY SearchDeadlineType
<1> HIDE DEF deadline
<1>2. GoodRequest(row) /\ row.status # "free"
  BY <1>1, NewRequestGood
<1>3. requests' = [requests EXCEPT ![r] = row]
  BY DEF deadline
<1> HIDE DEF row
<1> QED BY <1>2, <1>3, GoodNow, WriteRequestStep

(* adjustRequest.                                                          *)
LEMMA AdjustRequestStep ==
    ASSUME IInv, NEW u \in User, NEW w \in WindowEnd, AdjustRequest(u, w)
    PROVE  IInv'
<1> PICK r \in RequestId :
        /\ IsLatest(r, Adjustable(u))
        /\ requests' = [requests EXCEPT ![r].deadline = SearchDeadline(w),
                                        ![r].status = "searching"]
        /\ UNCHANGED <<now, booked, bookings, pairings, balance, lost, freeLate, blocked>>
  BY DEF AdjustRequest
<1> DEFINE deadline == SearchDeadline(w)
           row == [requests[r] EXCEPT !.deadline = deadline, !.status = "searching"]
<1>1. deadline \in Nat
  BY SearchDeadlineType
<1>2. requests' = [requests EXCEPT ![r] = row]
  BY GoodNow
<1> HIDE DEF deadline
<1>3. requests[r].status # "free"
  BY DEF IsLatest, Adjustable, OpenRequests, OpenRequest
<1>4. GoodRequest(row) /\ row.status # "free"
  <2>1. GoodRequest(requests[r])
    BY GoodNow
  <2> QED BY <1>1, <1>3, <2>1 DEF GoodRequest, Request
<1> HIDE DEF row
<1> QED BY <1>2, <1>4, GoodNow, WriteRequestStep

(* bailDecision, a new partner: the hold stays as it is.                   *)
LEMMA BailRematchStep ==
    ASSUME IInv, NEW p \in PairingId, BailRematch(p)
    PROVE  IInv'
<1> DEFINE s == BailSide(p)
           anchor == pairings[p].booking[s]
           u == pairings[p].bailUser
           deadline == Before(Start[ShiftOf(p)], RematchLast)
           row == NewRequest(u, "rematch", deadline, anchor)
<1> PICK r \in RequestId :
        /\ DecisionOpen(p)
        /\ pairings' = [pairings EXCEPT ![p].choice = "rematch"]
        /\ requests' = [requests EXCEPT ![r] = row]
        /\ UNCHANGED <<now, booked, bookings, balance, lost, freeLate, blocked>>
  BY DEF BailRematch
<1>1. pairings[p].status # "free" /\ pairings[p] \in Pairing
  BY GoodNow DEF DecisionOpen
<1>2. u \in User
  BY <1>1 DEF DecisionOpen, Pairing
<1>3. anchor \in BookingId
  BY <1>1, BailSideInSide, GoodNow
<1>4. deadline \in Nat
  <2>1. "a" \in Side
    BY DEF Side
  <2>2. ShiftOf(p) \in Shift
    BY <1>1, <2>1, GoodNow DEF ShiftOf, GoodBooking
  <2>3. Start[ShiftOf(p)] \in Nat /\ RematchLast \in Nat
    BY <2>2, LifecycleAssumption
  <2> QED BY <2>3 DEF Before
<1> HIDE DEF u, anchor, deadline
<1>5. GoodRequest(row) /\ row.status # "free"
  BY <1>2, <1>3, <1>4, NewRequestGood
<1> HIDE DEF row
<1>6. /\ pairings' \in [PairingId -> Pairing]
      /\ \A q \in PairingId : /\ pairings'[q].status = pairings[q].status
                               /\ pairings'[q].request = pairings[q].request
                               /\ pairings'[q].booking = pairings[q].booking
                               /\ GoodPairing(pairings'[q])
  <2> DEFINE chosen == [pairings[p] EXCEPT !.choice = "rematch"]
  <2>1. /\ chosen \in Pairing /\ chosen.status = pairings[p].status
        /\ chosen.request = pairings[p].request /\ chosen.booking = pairings[p].booking
    BY <1>1 DEF Pairing
  <2>1a. GoodPairing(chosen)
    BY <2>1, GoodNow DEF GoodPairing, DecisionOpen
  <2>2. pairings' = [pairings EXCEPT ![p] = chosen]
    BY GoodNow
  <2> HIDE DEF chosen
  <2> QED BY <2>1, <2>1a, <2>2, GoodNow
<1> QED BY <1>5, <1>6, WriteRequestStep

(* rsvpSolo: a spot, and no hold.                                          *)
LEMMA RsvpSoloStep ==
    ASSUME IInv, NEW u \in User, NEW s \in Shift, RsvpSolo(u, s)
    PROVE  IInv'
<1> DEFINE deadline == Before(Start[s], LastResponse)
           looks == deadline > now /\ ~CapReached(u)
           bk == SoloBooking(u, s)
           rq(b) == NewRequest(u, "solo_rsvp", deadline, b)
           row(q, r, b) ==
                IF IsLatest(q, OpenRequests(u)) THEN [requests[q] EXCEPT !.status = "cancelled"]
                ELSE IF q = r /\ looks THEN rq(b) ELSE requests[q]
<1>1. PICK b \in BookingId, r \in RequestId :
        /\ bookings[b].status = "free"
        /\ booked' = ReserveSpots(Db, s, 1).booked
        /\ bookings' = [bookings EXCEPT ![b] = bk]
        /\ requests' = [q \in RequestId |-> row(q, r, b)]
        /\ UNCHANGED <<now, pairings, balance, lost, freeLate, blocked>>
  BY DEF RsvpSolo, Fresh
<1>2. GoodBooking(bk) /\ bk.status # "free" /\ bk.hold # "held"
  BY Times DEF SoloBooking, NoBooking, GoodBooking, Booking, None
<1>3. deadline \in Nat
  BY LifecycleAssumption DEF Before
<1> HIDE DEF deadline, bk
<1>4. GoodRequest(rq(b)) /\ rq(b).status # "free"
  BY <1>3, NewRequestGood
<1>5. ASSUME NEW q \in RequestId
      PROVE  /\ GoodRequest(row(q, r, b)) /\ row(q, r, b) \in Request
             /\ requests[q].status # "free" => row(q, r, b).status # "free"
  <2>1. CASE IsLatest(q, OpenRequests(u))
    <3>1. GoodRequest(requests[q]) /\ requests[q].status # "free"
      BY <2>1, GoodNow DEF IsLatest, OpenRequests, OpenRequest
    <3> QED BY <2>1, <3>1 DEF GoodRequest, Request
  <2>2. CASE ~IsLatest(q, OpenRequests(u))
    <3> HIDE DEF rq, looks
    <3> QED BY <1>4, <2>2, GoodNow DEF GoodRequest
  <2> QED BY <2>1, <2>2
<1> HIDE DEF rq, row
<1>6. /\ requests' \in [RequestId -> Request]
      /\ \A q \in RequestId : requests'[q] = row(q, r, b)
  BY <1>1, <1>5
<1>7. /\ bookings' \in [BookingId -> Booking]
      /\ \A c \in BookingId : bookings'[c] = IF c = b THEN bk ELSE bookings[c]
  BY <1>1, <1>2, GoodNow DEF GoodBooking
<1>8. booked' \in [Shift -> Nat]
  BY <1>1, GoodNow, Columns DEF ReserveSpots, Db
<1>9. \A v \in User : Held(bookings', v) = Held(bookings, v)
  BY <1>1, <1>2, <1>7, GoodNow DEF Held, GoodBooking
<1>10. /\ \A q \in RequestId : GoodRequest(requests'[q])
       /\ \A c \in BookingId : GoodBooking(bookings'[c])
  BY <1>2, <1>5, <1>6, <1>7, GoodNow
<1>11. ASSUME NEW p \in PairingId, NEW x \in Side, pairings[p].status # "free"
       PROVE  /\ requests'[pairings[p].request[x]].status # "free"
              /\ bookings'[pairings[p].booking[x]].status # "free"
  BY <1>2, <1>5, <1>6, <1>7, <1>11, GoodNow
<1>12. pairings' = pairings /\ UNCHANGED <<balance, lost>>
  BY <1>1
<1>13. Good(Db')
  BY <1>6, <1>7, <1>8, <1>9, <1>10, <1>11, <1>12, GoodNow, GoodNext
<1> QED BY <1>1, <1>13 DEF IInv

(* createProposal: two rows that hold nothing yet.                         *)
LEMMA CreateProposalStep ==
    ASSUME IInv, NEW ra \in RequestId, NEW rb \in RequestId, NEW s \in Shift,
           CreateProposal(ra, rb, s)
    PROVE  IInv'
<1> DEFINE n == SpotsNeeded(ra, rb)
           bk(b, ba, p) == [NoBooking EXCEPT !.status = "proposed", !.shift = s, !.pairing = p,
                        !.user = IF b = ba THEN requests[ra].user ELSE requests[rb].user]
           brow(b, ba, bb, p) == IF b \in {ba, bb} /\ bookings[b].status = "free"
                                 THEN bk(b, ba, p) ELSE bookings[b]
           deadline == ProposalExpires(ra, rb, s)
           prow(ba, bb) ==
                [NoPairing EXCEPT !.status = "proposed",
                    !.request = [x \in Side |-> IF x = "a" THEN ra ELSE rb],
                    !.booking = [x \in Side |-> IF x = "a" THEN ba ELSE bb],
                    !.expires = deadline]
<1>1. PICK ba \in BookingId, bb \in BookingId, p \in PairingId :
        /\ booked' = ReserveSpots(Db, s, n).booked
        /\ bookings' = [b \in BookingId |-> brow(b, ba, bb, p)]
        /\ pairings' = [pairings EXCEPT ![p] = prow(ba, bb)]
        /\ requests' = [requests EXCEPT ![ra].status = "proposed", ![rb].status = "proposed"]
        /\ UNCHANGED <<now, balance, lost, freeLate, blocked>>
  BY DEF CreateProposal
<1>2. requests[ra].user \in User /\ requests[rb].user \in User
  BY GoodNow DEF CreateProposal, Eligible, GoodRequest
<1>3. ASSUME NEW b \in BookingId
      PROVE  /\ GoodBooking(brow(b, ba, bb, p)) /\ brow(b, ba, bb, p) \in Booking
             /\ bookings[b].status # "free" => brow(b, ba, bb, p) = bookings[b]
             /\ bookings[b].status = "free" =>
                    brow(b, ba, bb, p) = bookings[b] \/ brow(b, ba, bb, p).hold = "none"
             /\ b \in {ba, bb} => brow(b, ba, bb, p).status # "free"
  <2>1. /\ GoodBooking(bk(b, ba, p)) /\ bk(b, ba, p).status # "free"
        /\ bk(b, ba, p).hold = "none"
    BY <1>2 DEF NoBooking, GoodBooking, Booking
  <2> HIDE DEF bk
  <2> QED BY <2>1, GoodNow DEF GoodBooking
<1>4. deadline \in Nat
  <2>1. now \in Nat /\ ProposalResponse \in Nat /\ RematchLast \in Nat /\ LastResponse \in Nat
        /\ Start[s] \in Nat
    BY Times, LifecycleAssumption
  <2> QED BY <2>1 DEF ProposalExpires, Earlier, Before
<1> HIDE DEF deadline
<1>5. /\ prow(ba, bb) \in Pairing
      /\ \A x \in Side : /\ prow(ba, bb).request[x] \in {ra, rb}
                         /\ prow(ba, bb).booking[x] \in {ba, bb}
      /\ prow(ba, bb).choice = "none"
  BY <1>4 DEF NoPairing, Pairing, Side
<1>6. n \in Nat
  <2> DEFINE mine == {r \in {ra, rb} : requests[r].anchor = None}
  <2>1. IsFiniteSet({ra, rb})
    <3>1. IsFiniteSet({ra})
      BY FS_Singleton
    <3>2. IsFiniteSet({ra} \cup {rb})
      BY <3>1, FS_AddElement
    <3>3. {ra, rb} = {ra} \cup {rb}
      OBVIOUS
    <3> QED BY <3>2, <3>3
  <2>2. mine \in SUBSET {ra, rb}
    OBVIOUS
  <2> QED BY <2>1, <2>2, FS_Subset, FS_CardinalityType DEF SpotsNeeded
<1> HIDE DEF n, brow, prow
<1>7. booked' \in [Shift -> Nat]
  BY <1>1, <1>6, GoodNow, Columns DEF ReserveSpots, Db
<1>8. /\ bookings' \in [BookingId -> Booking]
      /\ \A b \in BookingId : bookings'[b] = brow(b, ba, bb, p)
  BY <1>1, <1>3
<1>9. /\ requests' \in [RequestId -> Request]
      /\ \A r \in RequestId : GoodRequest(requests'[r])
      /\ \A r \in RequestId : requests[r].status # "free" => requests'[r].status # "free"
      /\ requests'[ra].status # "free" /\ requests'[rb].status # "free"
  <2> DEFINE row(r) == [requests[r] EXCEPT !.status = "proposed"]
  <2>1. /\ requests[ra].status # "free" /\ requests[rb].status # "free"
        /\ GoodRequest(requests[ra]) /\ GoodRequest(requests[rb])
    BY GoodNow DEF CreateProposal, Eligible
  <2>2. /\ GoodRequest(row(ra)) /\ row(ra).status # "free" /\ row(ra) \in Request
        /\ GoodRequest(row(rb)) /\ row(rb).status # "free" /\ row(rb) \in Request
    BY <2>1 DEF GoodRequest, Request
  <2>3. \A r \in RequestId : requests'[r] = IF r \in {ra, rb} THEN row(r) ELSE requests[r]
    BY <1>1, GoodNow
  <2>4. DOMAIN requests' = RequestId /\ requests' = [r \in RequestId |-> requests'[r]]
    BY <1>1, GoodNow
  <2> HIDE DEF row
  <2>5. \A r \in RequestId : requests'[r] \in Request
    BY <2>2, <2>3, GoodNow
  <2> QED BY <2>2, <2>3, <2>4, <2>5, GoodNow
<1>10. /\ pairings' \in [PairingId -> Pairing]
       /\ \A q \in PairingId : pairings'[q] = IF q = p THEN prow(ba, bb) ELSE pairings[q]
  BY <1>1, <1>5, GoodNow
<1>11. \A q \in PairingId : GoodPairing(pairings'[q])
  BY <1>5, <1>10, GoodNow DEF GoodPairing
<1>12. ASSUME NEW q \in PairingId, NEW x \in Side, pairings'[q].status # "free"
       PROVE  /\ requests'[pairings'[q].request[x]].status # "free"
              /\ bookings'[pairings'[q].booking[x]].status # "free"
  <2>1. CASE q = p
    BY <1>3, <1>5, <1>8, <1>9, <1>10, <2>1
  <2>2. CASE q # p
    BY <1>3, <1>8, <1>9, <1>10, <1>12, <2>2, GoodNow
  <2> QED BY <2>1, <2>2
<1>13. \A v \in User : Held(bookings', v) = Held(bookings, v)
  BY <1>3, <1>8, GoodNow DEF Held, GoodBooking
<1>14. \A b \in BookingId : GoodBooking(bookings'[b])
  BY <1>3, <1>8
<1>15. Good(Db')
  BY <1>1, <1>7, <1>8, <1>9, <1>10, <1>11, <1>12, <1>13, <1>14, GoodNext
<1> QED BY <1>1, <1>15 DEF IInv

-----------------------------------------------------------------------------
(* The invariant, and what it says. *)

(* Before anyone does anything.                                            *)
LEMMA InitIInv == Init => IInv
<1> SUFFICES ASSUME Init PROVE IInv
  OBVIOUS
<1>1. Db \in DbType
  BY LifecycleAssumption DEF Init, Db, DbType, NoRequest, NoBooking, NoPairing, Request, Booking,
        Pairing, None, Side
<1>2. /\ \A r \in RequestId : GoodRequest(NoRequest)
      /\ \A b \in BookingId : GoodBooking(NoBooking)
      /\ \A p \in PairingId : GoodPairing(NoPairing)
  BY DEF GoodRequest, GoodBooking, GoodPairing, NoRequest, NoBooking, NoPairing, Request,
        Booking, Pairing, None, Side
<1>3. Conserved(Db)
  <2> SUFFICES ASSUME NEW u \in User
               PROVE  balance[u] + Cardinality(Held(bookings, u)) + lost[u] = StartBalance
    BY Columns DEF Conserved
  <2>1. Held(bookings, u) = {}
    BY DEF Held, Init, NoBooking
  <2>2. Cardinality(Held(bookings, u)) = 0
    BY <2>1, FS_EmptySet
  <2> QED BY <2>2, LifecycleAssumption DEF Init
<1>4. \A p \in PairingId : pairings[p].status = "free"
  BY DEF Init, NoPairing
<1>5. /\ \A r \in RequestId : GoodRequest(requests[r])
      /\ \A b \in BookingId : GoodBooking(bookings[b])
      /\ \A p \in PairingId : GoodPairing(pairings[p])
  BY <1>2 DEF Init
<1>6. Good(Db)
  BY <1>1, <1>3, <1>4, <1>5, Columns DEF Good
<1> QED BY <1>6, LifecycleAssumption DEF IInv, Init

(* Time passes.                                                            *)
LEMMA AdvanceStep == ASSUME IInv, Advance PROVE IInv'
<1>1. Db' = Db
  BY DEF Advance, Db
<1>2. now' \in 0 .. Horizon
  BY LifecycleAssumption DEF Advance, IInv
<1> QED BY <1>1, <1>2 DEF IInv, Advance

(* The induction step: one case per action, and stuttering.                *)
LEMMA StepIInv == IInv /\ [Next]_vars => IInv'
<1> SUFFICES ASSUME IInv, [Next]_vars PROVE IInv'
  OBVIOUS
<1>1. CASE UserStep
  BY <1>1, CreateRequestStep, CancelRequestStep, AdjustRequestStep, RsvpSoloStep, ConfirmStep,
     DeclineStep, CancelBookingStep, ReportPartnerStep, BailReleaseStep, BailRematchStep DEF UserStep
<1>2. CASE OrgStep
  <2>1. ASSUME NEW b \in BookingId, CheckIn(b) PROVE IInv'
    <3>1. bookings[b].status # "free" /\ "returned" \in HoldOutcome
      BY <2>1 DEF CheckIn, HoldOutcome
    <3> QED BY <2>1, <3>1, AttendanceStep DEF CheckIn
  <2>2. ASSUME NEW b \in BookingId, MarkNoShow(b) PROVE IInv'
    <3>1. bookings[b].status # "free" /\ "forfeited" \in HoldOutcome
      BY <2>2 DEF MarkNoShow, HoldOutcome
    <3> QED BY <2>2, <3>1, AttendanceStep DEF MarkNoShow
  <2> QED BY <1>2, <2>1, <2>2 DEF OrgStep
<1>3. CASE Matching
  BY <1>3, CreateProposalStep DEF Matching
<1>4. CASE Tick
  <2>1. ASSUME NEW b \in BookingId, TickAutoResolve(b) PROVE IInv'
    <3>1. bookings[b].status # "free" /\ "released" \in HoldOutcome
      BY <2>1 DEF TickAutoResolve, Unmarked, HoldOutcome
    <3> QED BY <2>1, <3>1, AttendanceStep DEF TickAutoResolve
  <2> QED BY <1>4, <2>1, TickExpireProposalStep, TickBailNoResponseStep, TickSearchDeadlineStep,
          TickCompleteStep DEF Tick
<1>5. CASE Advance
  BY <1>5, AdvanceStep
<1>6. CASE UNCHANGED vars
  <2>1. Db' = Db
    BY <1>6 DEF vars, Db
  <2> QED BY <1>6, <2>1 DEF IInv, vars
<1> QED BY <1>1, <1>2, <1>3, <1>4, <1>5, <1>6 DEF Next

(* A step goes on with the matching run, or there is none after it.        *)
LEMMA RunSteps ==
    ASSUME [Next]_vars
    PROVE  \/ \E ra, rb \in RequestId, s \in Shift : CreateProposal(ra, rb, s)
           \/ written' = {}
           \/ UNCHANGED vars
<1>1. ASSUME NEW d, Commit(d) PROVE written' = {}
  BY <1>1 DEF Commit
<1>2. CASE UserStep
  <2>1. ASSUME NEW u \in User, NEW w \in WindowEnd, CreateRequest(u, w) \/ AdjustRequest(u, w)
        PROVE  written' = {}
    BY <2>1, Zenon DEF CreateRequest, AdjustRequest
  <2>2. ASSUME NEW u \in User, NEW s \in Shift, RsvpSolo(u, s) PROVE written' = {}
    BY <2>2, Zenon DEF RsvpSolo
  <2>3. ASSUME NEW u \in User, CancelRequest(u) PROVE written' = {}
    BY <1>1, <2>3, Zenon DEF CancelRequest
  <2>4. ASSUME NEW p \in PairingId, NEW s \in Side, NEW keep \in BOOLEAN,
               Confirm(p, s) \/ Decline(p, s, keep) \/ ReportPartner(p, s, keep)
        PROVE  written' = {}
    BY <1>1, <2>4, Zenon DEF Confirm, Decline, ReportPartner
  <2>5. ASSUME NEW b \in BookingId, NEW keep \in BOOLEAN, CancelBooking(b, keep) PROVE written' = {}
    BY <1>1, <2>5, Zenon DEF CancelBooking
  <2>6. ASSUME NEW p \in PairingId, BailRelease(p) \/ BailRematch(p) PROVE written' = {}
    BY <1>1, <2>6, Zenon DEF BailRelease, BailRematch
  <2> QED BY <1>2, <2>1, <2>2, <2>3, <2>4, <2>5, <2>6 DEF UserStep
<1>3. CASE OrgStep
  BY <1>1, <1>3, Zenon DEF OrgStep, CheckIn, MarkNoShow
<1>4. CASE Tick
  BY <1>1, <1>4, Zenon DEF Tick, TickExpireProposal, TickBailNoResponse, TickSearchDeadline,
        TickComplete, TickAutoResolve
<1>5. CASE Advance
  BY <1>5 DEF Advance
<1> QED BY <1>2, <1>3, <1>4, <1>5 DEF Next, Matching

(* In every behaviour, for all constants the assumption allows, every handler *)
(* keeps the database good: its rows well formed, its Deeds conserved.     *)
THEOREM Invariance == Spec => []IInv
BY InitIInv, StepIInv, PTL DEF Spec

(* Every handler keeps every row well formed, and no balance is ever       *)
(* overdrawn: a hold is only placed when there is something to hold.       *)
THEOREM TypeCorrect == Spec => []TypeOK
<1>1. Init => written \subseteq PairingId
  BY DEF Init
<1>2. written \subseteq PairingId /\ [Next]_vars => (written \subseteq PairingId)'
  <2> SUFFICES ASSUME written \subseteq PairingId, [Next]_vars PROVE written' \subseteq PairingId
    OBVIOUS
  <2>1. ASSUME NEW ra \in RequestId, NEW rb \in RequestId, NEW s \in Shift, CreateProposal(ra, rb, s)
        PROVE  written' \subseteq PairingId
    <3>1. \E p \in PairingId : written' = written \cup {p}
      BY <2>1, Zenon DEF CreateProposal
    <3> QED BY <3>1
  <2> QED BY <2>1, RunSteps DEF vars
<1> QED BY <1>1, <1>2, IInvTypes, Invariance, PTL DEF Spec

(* Along every interleaving of users, organisers, matching and the tick,   *)
(* each user's Deeds are available, on hold or forfeited, exactly once.    *)
THEOREM DeedsAreConserved == Spec => []DeedsConserved
BY IInvConserves, Invariance, PTL
=============================================================================
