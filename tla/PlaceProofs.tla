----------------------------- MODULE PlaceProofs -----------------------------
(***************************************************************************)
(* Places: the capacity counter is the bookings that take a spot, nobody   *)
(* has two places at once, a reporter who asks to be taken out is out, and *)
(* an anchored booking outlives the proposal it was brought into.  And     *)
(* what the app offers, the server takes.  The hard one is saying no: the  *)
(* app offers it to whoever has no held Deed on a paired spot, the server  *)
(* refuses it once a solo spot that was sought a partner for had a hold.   *)
(* They agree because nobody is sought for a solo spot once held, Solo(d). *)
(*                                                                         *)
(* Two operations give out places, rsvpSolo and createProposal.  All the   *)
(* others give places up or leave them: Yields(d, e) says so of a step     *)
(* from d to e, and carries what the properties need over it.              *)
(***************************************************************************)
EXTENDS AgreementSteps, Offers

Taken(d, b) == d.bookings[b].status \in TakesSpot
Active(d, b) == d.bookings[b].status \in ActiveBooking
Spots(d, s) == {b \in BookingId : d.bookings[b].shift = s /\ Taken(d, b)}

(* The counter of every shift is its spots that are taken.                 *)
Counted(d) ==
    \A s \in Shift : d.booked[s] = Cardinality(Spots(d, s)) /\ d.booked[s] <= Capacity[s]

(* No two places of one person overlap.                                    *)
Separate(d) ==
    \A b, c \in BookingId :
        /\ b # c /\ d.bookings[b].user = d.bookings[c].user
        /\ Active(d, b) /\ Active(d, c)
        => ~Overlap(d.bookings[b].shift, d.bookings[c].shift)

(* Nobody gains a place from d to e, no pairing is made, and the counter   *)
(* follows what is given up.                                               *)
Yields(d, e) ==
    /\ \A c \in BookingId :
        /\ Active(e, c) => Active(d, c)
        /\ e.bookings[c].user = d.bookings[c].user
        /\ e.bookings[c].shift = d.bookings[c].shift
    /\ \A p \in PairingId : d.pairings[p].status = "free" => e.pairings[p].status = "free"
    /\ Counted(d) => Counted(e)

(* Steps that give up places follow one another.                           *)
LEMMA YieldsChain ==
    ASSUME NEW d, NEW e, NEW f, Yields(d, e), Yields(e, f)
    PROVE  Yields(d, f)
BY DEF Yields

(* The spots of a shift can be counted.                                    *)
LEMMA BookingsFinite == IsFiniteSet(BookingId)
BY LifecycleAssumption, FS_Interval DEF BookingId

LEMMA SpotsFinite ==
    ASSUME NEW d, NEW s
    PROVE  IsFiniteSet(Spots(d, s)) /\ Cardinality(Spots(d, s)) \in Nat
<1>1. IsFiniteSet(BookingId)
  BY BookingsFinite
<1>2. Spots(d, s) \in SUBSET BookingId
  BY DEF Spots
<1> QED BY <1>1, <1>2, FS_Subset, FS_CardinalityType

(* The same spots are taken of the same shifts.                            *)
LEMMA SameSpots ==
    ASSUME NEW d, NEW e, Counted(d), e.booked = d.booked,
           \A c \in BookingId : /\ e.bookings[c].shift = d.bookings[c].shift
                                /\ Taken(e, c) <=> Taken(d, c)
    PROVE  Counted(e)
<1>1. \A s \in Shift : Spots(e, s) = Spots(d, s)
  BY DEF Spots
<1> QED BY <1>1 DEF Counted

(* A spot that was taken is given up, and the counter goes down by one.    *)
LEMMA OneSpotLess ==
    ASSUME NEW d, Good(d), Counted(d), NEW e, NEW b \in BookingId, Taken(d, b), ~Taken(e, b),
           e.booked = ReleaseSpots(d, d.bookings[b].shift, 1).booked,
           e.bookings[b].shift = d.bookings[b].shift,
           \A c \in BookingId \ {b} : e.bookings[c] = d.bookings[c]
    PROVE  Counted(e)
<1> DEFINE s == d.bookings[b].shift
           S == Spots(d, s)
<1>1. s \in Shift
  BY DEF Good, GoodBooking, Taken, TakesSpot
<1>2. IsFiniteSet(S) /\ Cardinality(S) \in Nat /\ b \in S
  BY SpotsFinite DEF Spots
<1>3. Spots(e, s) = S \ {b}
  BY DEF Spots, Taken
<1>4. \A t \in Shift \ {s} : Spots(e, t) = Spots(d, t)
  BY DEF Spots, Taken
<1>5. d.booked \in [Shift -> Nat]
  BY DEF Good, DbType
<1>6. ReleaseSpots(d, s, 1).booked =
        [d.booked EXCEPT ![s] = IF @ < 1 THEN 0 ELSE @ - 1]
  BY DEF ReleaseSpots, Good, DbType
<1>7. Cardinality(S \ {b}) = Cardinality(S) - 1
  BY <1>2, FS_RemoveElement
<1>8. d.booked[s] = Cardinality(S) /\ d.booked[s] <= Capacity[s] /\ d.booked[s] \in Nat
  BY <1>1, <1>5 DEF Counted
<1>9. Cardinality(S) # 0
  BY <1>2, FS_EmptySet
<1>10. Capacity[s] \in Nat
  BY <1>1, LifecycleAssumption
<1>11. e.booked[s] = Cardinality(S) - 1
  <2> HIDE DEF s, S
  <2> QED BY <1>1, <1>2, <1>5, <1>6, <1>8, <1>9 DEF s
<1>12. \A t \in Shift \ {s} : e.booked[t] = d.booked[t]
  BY <1>1, <1>5, <1>6
<1>13. e.booked[s] = Cardinality(Spots(e, s)) /\ e.booked[s] <= Capacity[s]
  <2> HIDE DEF s, S
  <2> QED BY <1>2, <1>3, <1>7, <1>8, <1>10, <1>11
<1>14. ASSUME NEW t \in Shift \ {s}
       PROVE  e.booked[t] = Cardinality(Spots(e, t)) /\ e.booked[t] <= Capacity[t]
  BY <1>4, <1>12 DEF Counted
<1> QED BY <1>13, <1>14 DEF Counted

(* One booking is given up, or goes on as a place of the same kind.        *)
LEMMA OneYields ==
    ASSUME NEW d, Good(d), NEW e, NEW b \in BookingId,
           \A c \in BookingId \ {b} : e.bookings[c] = d.bookings[c],
           \A p \in PairingId : d.pairings[p].status = "free" => e.pairings[p].status = "free",
           e.bookings[b].shift = d.bookings[b].shift, e.bookings[b].user = d.bookings[b].user,
           \/ /\ Taken(d, b) /\ e.bookings[b].status = "cancelled"
              /\ e.booked = ReleaseSpots(d, d.bookings[b].shift, 1).booked
           \/ /\ Taken(e, b) <=> Taken(d, b)
              /\ Active(e, b) => Active(d, b)
              /\ e.booked = d.booked
    PROVE  Yields(d, e)
<1>1. \A c \in BookingId : /\ Active(e, c) => Active(d, c)
                           /\ e.bookings[c].user = d.bookings[c].user
                           /\ e.bookings[c].shift = d.bookings[c].shift
  BY DEF Active, ActiveBooking
<1>2. ASSUME Counted(d) PROVE Counted(e)
  <2>1. CASE Taken(d, b) /\ e.bookings[b].status = "cancelled"
             /\ e.booked = ReleaseSpots(d, d.bookings[b].shift, 1).booked
    <3>1. ~Taken(e, b)
      BY <2>1 DEF Taken, TakesSpot
    <3> QED BY <1>2, <2>1, <3>1, OneSpotLess
  <2>2. CASE (Taken(e, b) <=> Taken(d, b)) /\ e.booked = d.booked
    <3>1. \A c \in BookingId : Taken(e, c) <=> Taken(d, c)
      BY <2>2 DEF Taken
    <3> QED BY <1>1, <1>2, <2>2, <3>1, SameSpots
  <2> QED BY <2>1, <2>2
<1> QED BY <1>1, <1>2 DEF Yields

(* The bookings and the counter stay as they are.                          *)
LEMMA NoneYields ==
    ASSUME NEW d, NEW e, e.bookings = d.bookings, e.booked = d.booked,
           \A p \in PairingId : d.pairings[p].status = "free" => e.pairings[p].status = "free"
    PROVE  Yields(d, e)
<1>1. \A c \in BookingId : (Active(e, c) <=> Active(d, c)) /\ (Taken(e, c) <=> Taken(d, c))
  BY DEF Active, Taken
<1>2. Counted(d) => Counted(e)
  BY <1>1, SameSpots
<1> QED BY <1>1, <1>2 DEF Yields

-----------------------------------------------------------------------------
(* A proposal ends. *)

(* endProposal, the booking of one side: what was made for the proposal is *)
(* given up with its spot, anything else keeps its own.                    *)
LEMMA EndSideBookingYields ==
    ASSUME NEW d, Good(d), NEW p \in PairingId, d.pairings[p].status # "free",
           NEW s \in Side, NEW skip,
           LET b == d.pairings[p].booking[s]
           IN  b # skip /\ d.bookings[b].pairing = p => Taken(d, b)
    PROVE  Yields(d, EndSideBooking(d, p, s, skip))
<1> DEFINE b == d.pairings[p].booking[s]
           r == d.pairings[p].request[s]
           row == [d.bookings[b] EXCEPT !.kind = "solo", !.hold = "none", !.cap = FALSE]
           out == ReleaseAndCancel(d, b)
           e == ResolveHold(d, b, "released")
           f == PutBooking(e, b, row)
           g == EndSideBooking(d, p, s, skip)
<1>1. b \in BookingId /\ d.bookings[b].status # "free"
  BY Linked
<1>2. g = IF b = skip THEN d
          ELSE IF d.bookings[b].pairing = p THEN out
          ELSE IF d.requests[r].kind = "solo_rsvp" /\ d.bookings[b].hold # "none" THEN f ELSE d
  BY DEF EndSideBooking
<1>3. ASSUME b # skip, d.bookings[b].pairing = p PROVE Yields(d, out)
  <2> HIDE DEF b
  <2>1. /\ OnlyBookings(d, out, {b}) /\ Left(d.bookings[b], out.bookings[b])
        /\ out.booked = ReleaseSpots(d, d.bookings[b].shift, 1).booked
    BY <1>1, ReleaseAndCancelRows
  <2>2. Taken(d, b)
    BY <1>3 DEF b
  <2> HIDE DEF out
  <2> QED BY <1>1, <2>1, <2>2, OneYields DEF OnlyBookings, Left
<1>4. Yields(d, f)
  <2>1. "released" \in HoldOutcome
    BY DEF HoldOutcome
  <2>2. OnlyBookings(d, e, {b}) /\ e.booked = d.booked /\ e.bookings \in [BookingId -> Booking]
    BY <1>1, <2>1, ResolveHoldRows, Zenon
  <2>3. /\ row.status = d.bookings[b].status /\ row.user = d.bookings[b].user
        /\ row.shift = d.bookings[b].shift
    BY <1>1 DEF Good, GoodBooking, Booking
  <2> HIDE DEF e, row, b
  <2>4. /\ f.bookings = [e.bookings EXCEPT ![b] = row] /\ f.booked = e.booked
        /\ f.pairings = e.pairings
    <3>1. Good(e)
      BY <1>1, <2>1, ResolveHoldKeeps DEF Keeps, e
    <3> QED BY <3>1 DEF PutBooking, Good, DbType
  <2> HIDE DEF f
  <2>5. /\ \A c \in BookingId \ {b} : f.bookings[c] = d.bookings[c]
        /\ f.bookings[b] = row /\ f.booked = d.booked /\ f.pairings = d.pairings
    BY <1>1, <2>2, <2>4 DEF OnlyBookings
  <2>6. (Taken(f, b) <=> Taken(d, b)) /\ (Active(f, b) => Active(d, b))
    BY <2>3, <2>5 DEF Taken, Active
  <2> QED BY <1>1, <2>3, <2>5, <2>6, OneYields
<1>5. Yields(d, d)
  BY DEF Yields
<1> HIDE DEF out, f, b, r
<1> QED BY <1>2, <1>3, <1>4, <1>5

(* endProposal, one side.                                                  *)
LEMMA EndSideYields ==
    ASSUME NEW d, Good(d), NEW p \in PairingId, d.pairings[p].status # "free",
           NEW s \in Side, NEW status, NEW actor, NEW keepLooking, NEW skip,
           LET b == d.pairings[p].booking[s]
           IN  b # skip /\ d.bookings[b].pairing = p => Taken(d, b)
    PROVE  Yields(d, EndSide(d, p, s, status, actor, keepLooking, skip))
<1> DEFINE e == EndSideBooking(d, p, s, skip)
           f == EndSide(d, p, s, status, actor, keepLooking, skip)
<1>1. Yields(d, e)
  BY EndSideBookingYields
<1>2. Good(e)
  BY EndSideBookingKeeps DEF Keeps
<1>3. f.bookings = e.bookings /\ f.booked = e.booked /\ f.pairings = e.pairings
  <2> HIDE DEF e
  <2> QED BY <1>2 DEF EndSide, PutRequest, Good, DbType, e
<1> HIDE DEF e, f
<1>4. Yields(e, f)
  BY <1>3, NoneYields
<1> QED BY <1>1, <1>4, YieldsChain DEF f

(* endProposal: every side that is not skipped and was made for it still   *)
(* has the spot it gives up.                                               *)
LEMMA EndProposalYields ==
    ASSUME NEW d, Good(d), NEW p \in PairingId, d.pairings[p].status = "proposed",
           d.pairings[p].booking["a"] # d.pairings[p].booking["b"],
           NEW status \in {"declined", "expired"}, NEW actor, NEW keepLooking, NEW skip,
           \A s \in Side : LET b == d.pairings[p].booking[s]
                           IN  b # skip /\ d.bookings[b].pairing = p => Taken(d, b)
    PROVE  Yields(d, EndProposal(d, p, status, actor, keepLooking, skip))
<1> DEFINE one == PutStatus(d, p, status)
           two == EndSide(one, p, "a", status, actor, keepLooking, skip)
           e == EndSide(two, p, "b", status, actor, keepLooking, skip)
<1>1. "a" \in Side /\ "b" \in Side
  BY DEF Side
<1>2. EndProposal(d, p, status, actor, keepLooking, skip) = e
  BY DEF EndProposal
<1>3. /\ Keeps(d, one) /\ one.bookings = d.bookings /\ one.booked = d.booked
      /\ one.pairings[p].status = status /\ one.pairings[p].booking = d.pairings[p].booking
  BY PutStatusKeeps, PutStatusRows DEF LivePairing
<1> HIDE DEF one
<1>4. Good(one) /\ one.pairings[p].status # "free"
  BY <1>3 DEF Keeps
<1>5. Yields(d, one)
  BY <1>3, NoneYields DEF Keeps
<1>6. Yields(one, two)
  <2>1. LET b == one.pairings[p].booking["a"]
        IN  b # skip /\ one.bookings[b].pairing = p => Taken(one, b)
    BY <1>1, <1>3 DEF Taken
  <2> QED BY <1>1, <1>4, <2>1, EndSideYields
<1>7. /\ Keeps(one, two) /\ two.pairings = one.pairings
      /\ \A c \in BookingId \ {one.pairings[p].booking["a"]} : two.bookings[c] = one.bookings[c]
  <2>1. SideRows(one, two, p, "a", actor, keepLooking, skip)
    BY <1>1, <1>4, EndSideRows
  <2> QED BY <2>1 DEF SideRows
<1> HIDE DEF two
<1>8. Yields(two, e)
  <2>1. Good(two) /\ two.pairings[p].status # "free"
    BY <1>4, <1>7 DEF Keeps
  <2>2. d.pairings[p].booking["b"] \in BookingId
    BY <1>1, Linked
  <2>3. LET b == two.pairings[p].booking["b"]
        IN  b # skip /\ two.bookings[b].pairing = p => Taken(two, b)
    BY <1>1, <1>3, <1>7, <2>2 DEF Taken
  <2> QED BY <1>1, <2>1, <2>3, EndSideYields
<1> HIDE DEF e
<1> QED BY <1>2, <1>5, <1>6, <1>8, YieldsChain

(* A booking somebody had before a proposal is as taken after it.          *)
AnchorsKept(d, e, p, skip) ==
    \A s \in Side :
        LET b == d.pairings[p].booking[s]
            r == d.pairings[p].request[s]
        IN  d.requests[r].anchor # None =>
                IF b = skip THEN e.requests[r].status = "cancelled"
                ELSE e.bookings[b].status = d.bookings[b].status

(* An anchored booking is in no pairing, or in the one it was left in.     *)
LEMMA AnchoredSide ==
    ASSUME NEW d, Good(d), NEW p \in PairingId, Open(d, p), NEW s \in Side,
           SideOK(d, p, s), \A r \in RequestId : RequestOK(d, r),
           RequestOf(d, p, s).anchor # None
    PROVE  BookingOf(d, p, s).pairing # p
<1> DEFINE b == d.pairings[p].booking[s]
           r == d.pairings[p].request[s]
<1>1. r \in RequestId /\ d.requests[r] \in Request /\ b \in BookingId
  BY Linked DEF Open, Good, DbType
<1>2. d.requests[r].status = "proposed" /\ b = d.requests[r].anchor
  BY DEF SideOK, RequestOf
<1>3. RequestOK(d, r) /\ d.requests[r].anchor # None
  BY <1>1 DEF RequestOf
<1> HIDE DEF b, r
<1>4. d.bookings[b].pairing = None \/ BackedOut(d, b)
  BY <1>1, <1>2, <1>3 DEF RequestOK, Request, OpenRequest
<1>5. None # p
  BY NoneIsNoRow
<1> QED BY <1>4, <1>5 DEF BackedOut, Open, BookingOf, b

(* A solo spot is in no pairing, and once there has been a hold on it      *)
(* nobody is sought for it: a yes that comes back as a spot of one's own   *)
(* is a yes to nothing.                                                    *)
Sought(d, b) ==
    \E r \in RequestId : d.requests[r].anchor = b /\ d.requests[r].status \in OpenRequest
HadHold(bk) == bk.status \in Took /\ bk.hold # "none"
SpotOfOnesOwn(d, b) == d.bookings[b].pairing = None /\ (HadHold(d.bookings[b]) => ~Sought(d, b))
Solo(d) == \A b \in BookingId : d.bookings[b].kind = "solo" => SpotOfOnesOwn(d, b)

(* One open search at most may give somebody a place they do not have yet. *)
OneFree(d) ==
    \A q, r \in RequestId :
        /\ d.requests[q].status \in OpenRequest /\ d.requests[r].status \in OpenRequest
        /\ d.requests[q].anchor = None /\ d.requests[r].anchor = None
        /\ d.requests[q].user = d.requests[r].user
        => q = r

Single(d) == Solo(d) /\ OneFree(d)

(* No search begins.                                                       *)
NoSearchBegins(d, e) ==
    \A r \in RequestId : e.requests[r].status \in OpenRequest =>
        /\ d.requests[r].anchor = e.requests[r].anchor /\ d.requests[r].user = e.requests[r].user
        /\ d.requests[r].status \in OpenRequest

LEMMA SoloStays ==
    ASSUME NEW d, Single(d), NEW e, NoSearchBegins(d, e),
           \A b \in BookingId : e.bookings[b].kind = "solo" =>
              \/ /\ d.bookings[b].kind = "solo" /\ e.bookings[b].pairing = d.bookings[b].pairing
                 /\ HadHold(e.bookings[b]) => HadHold(d.bookings[b])
              \/ SpotOfOnesOwn(e, b)
    PROVE  Single(e)
<1>1. ASSUME NEW b \in BookingId, e.bookings[b].kind = "solo" PROVE SpotOfOnesOwn(e, b)
  <2>1. Sought(e, b) => Sought(d, b)
    BY DEF Sought, NoSearchBegins
  <2> QED BY <1>1, <2>1 DEF Single, Solo, SpotOfOnesOwn
<1>2. OneFree(e)
  BY DEF Single, OneFree, NoSearchBegins
<1> QED BY <1>1, <1>2 DEF Single, Solo

(* An open proposal ends, for whatever reason.                             *)
LEMMA OpenProposalYields ==
    ASSUME NEW d, Good(d), NEW skip, AgreesExcept(d, skip), NEW p \in PairingId, Open(d, p),
           NEW status \in {"declined", "expired"}, NEW actor, NEW keepLooking,
           \A s \in Side : d.pairings[p].booking[s] = skip =>
                BookingOf(d, p, s).user = actor /\ ~keepLooking
    PROVE  LET e == EndProposal(d, p, status, actor, keepLooking, skip)
           IN  /\ Yields(d, e) /\ AnchorsKept(d, e, p, skip)
               /\ \A q \in PairingId \ {p} : e.pairings[q] = d.pairings[q]
               /\ skip \in BookingId => e.bookings[skip] = d.bookings[skip]
               /\ Single(d) => Single(e)
<1> DEFINE e == EndProposal(d, p, status, actor, keepLooking, skip)
<1>1. d.pairings[p].status = "proposed"
  BY DEF Open
<1>2. /\ d.pairings[p].request["a"] # d.pairings[p].request["b"]
      /\ d.pairings[p].booking["a"] # d.pairings[p].booking["b"]
  BY <1>1 DEF AgreesExcept, PairOK
<1>3. \A s \in Side : d.pairings[p].booking[s] # skip =>
        SideOK(d, p, s) /\ Taken(d, d.pairings[p].booking[s])
  BY DEF AgreesExcept, SideOK, BookingOf, Taken
<1>4. Yields(d, e)
  BY <1>1, <1>2, <1>3, EndProposalYields
<1>5. /\ ProposalEnded(d, e, p, skip)
      /\ \A s \in Side : BookingOf(d, p, s).user = actor /\ ~keepLooking
            => e.requests[d.pairings[p].request[s]].status = "cancelled"
  BY <1>1, <1>2, EndProposalRows, SMT, ZenonT(60)
<1> HIDE DEF e
<1>6. ASSUME NEW s \in Side, RequestOf(d, p, s).anchor # None, d.pairings[p].booking[s] # skip
      PROVE  e.bookings[d.pairings[p].booking[s]].status = d.bookings[d.pairings[p].booking[s]].status
  <2>1. SideOK(d, p, s) /\ \A r \in RequestId : RequestOK(d, r)
    BY <1>3, <1>6 DEF AgreesExcept
  <2>2. BookingOf(d, p, s).pairing # p
    BY <1>6, <2>1, AnchoredSide
  <2> QED BY <1>5, <1>6, <2>2 DEF ProposalEnded, SideEnded, BackToSolo, BookingOf
<1>7. AnchorsKept(d, e, p, skip)
  BY <1>5, <1>6 DEF AnchorsKept, RequestOf
<1>8. skip \in BookingId => e.bookings[skip] = d.bookings[skip]
  BY <1>5, Zenon DEF ProposalEnded, SideEnded, Names
<1>9. \A s \in Side : d.pairings[p].booking[s] = skip =>
        e.requests[d.pairings[p].request[s]].status = "cancelled"
  BY <1>5, Zenon
<1>10. NoSearchBegins(d, e)
  <2>1. ASSUME NEW r \in RequestId, e.requests[r].status \in OpenRequest
        PROVE  /\ d.requests[r].anchor = e.requests[r].anchor
               /\ d.requests[r].user = e.requests[r].user
               /\ d.requests[r].status \in OpenRequest
    <3>1. \/ e.requests[r] = d.requests[r]
          \/ /\ Closed(d.requests[r], e.requests[r])
             /\ e.requests[r].status = "searching" => d.requests[r].status = "proposed"
      BY <1>5, <1>9, EndedRequests
    <3> QED BY <2>1, <3>1 DEF Closed, OpenRequest
  <2> QED BY <2>1 DEF NoSearchBegins
<1>11. ASSUME Single(d) PROVE Single(e)
  <2>1. ASSUME NEW c \in BookingId, e.bookings[c].kind = "solo"
        PROVE  \/ /\ d.bookings[c].kind = "solo" /\ e.bookings[c].pairing = d.bookings[c].pairing
                  /\ HadHold(e.bookings[c]) => HadHold(d.bookings[c])
               \/ SpotOfOnesOwn(e, c)
    <3>1. \/ e.bookings[c] = d.bookings[c]
          \/ Left(d.bookings[c], e.bookings[c])
          \/ e.bookings[c].pairing = None /\ e.bookings[c].hold = "none"
      BY <1>5, EndedBookings
    <3> QED BY <2>1, <3>1 DEF Left, HadHold, Took, Over, SpotOfOnesOwn
  <2> QED BY <1>10, <1>11, <2>1, SoloStays
<1> QED BY <1>4, <1>5, <1>7, <1>8, <1>11 DEF ProposalEnded, e

(* The end of cancelBooking: at most one proposal ends, that of the        *)
(* booking that was given up.                                              *)
LEMMA EndOpenProposalOfYields ==
    ASSUME NEW d, Good(d), NEW b \in BookingId, AgreesExcept(d, b)
    PROVE  LET e == EndOpenProposalOf(d, b)
           IN  /\ Yields(d, e)
               /\ \A q \in PairingId : e.pairings[q] = d.pairings[q] \/ AnchorsKept(d, e, q, b)
               /\ e.bookings[b] = d.bookings[b]
               /\ Single(d) => Single(e)
<1> DEFINE open == {p \in PairingId : /\ d.pairings[p].status = "proposed"
                                     /\ \E s \in Side : d.pairings[p].booking[s] = b}
           p == CHOOSE q \in open : TRUE
           actor == d.bookings[b].user
           keepLooking == FALSE
           e == EndProposal(d, p, "declined", actor, keepLooking, b)
<1>1. CASE open = {}
  <2>1. EndOpenProposalOf(d, b) = d
    BY <1>1, Zenon DEF EndOpenProposalOf
  <2> QED BY <2>1 DEF Yields
<1>2. CASE open # {}
  <2>1. p \in open
    BY <1>2, Zenon
  <2>2. p \in PairingId /\ Open(d, p)
    BY <2>1 DEF Open
  <2>3. EndOpenProposalOf(d, b) = e
    BY <1>2, Zenon DEF EndOpenProposalOf
  <2> HIDE DEF p
  <2>4. \A s \in Side : d.pairings[p].booking[s] = b => BookingOf(d, p, s).user = actor /\ ~keepLooking
    BY DEF BookingOf
  <2> HIDE DEF actor, keepLooking
  <2>5. /\ Yields(d, e) /\ AnchorsKept(d, e, p, b)
        /\ \A q \in PairingId \ {p} : e.pairings[q] = d.pairings[q]
        /\ b \in BookingId => e.bookings[b] = d.bookings[b]
        /\ Single(d) => Single(e)
    BY <2>2, <2>4, OpenProposalYields
  <2> HIDE DEF e
  <2> QED BY <2>3, <2>5
<1> QED BY <1>1, <1>2

-----------------------------------------------------------------------------
(* The operations that give no place out. *)

(* A proposal that ends between two calls leaves the anchored bookings of  *)
(* everyone who did not end it.                                            *)
AnchorsStay(d, e) ==
    \A p \in PairingId, s \in Side :
        LET b == d.pairings[p].booking[s]
            r == d.pairings[p].request[s]
        IN  Open(d, p) /\ e.pairings[p].status \in {"declined", "expired"} /\ d.requests[r].anchor # None =>
                e.bookings[b].status = d.bookings[b].status \/ e.requests[r].status = "cancelled"

Leaves(d, e) == Yields(d, e) /\ AnchorsStay(d, e) /\ (Single(d) => Single(e))

(* Whoever gives a booking up leaves, or stays alone.                      *)
LeftOrSolo(x, y, solo) == IF solo THEN WentSolo(x, y) ELSE Left(x, y)

(* No proposal ends where the open ones stay open.                         *)
LEMMA NothingEnds ==
    ASSUME NEW d, NEW e,
           \A p \in PairingId : Open(d, p) => e.pairings[p].status \notin {"declined", "expired"}
    PROVE  AnchorsStay(d, e)
BY DEF AnchorsStay

LEMMA SameSolo ==
    ASSUME NEW d, NEW e, e.bookings = d.bookings, NoSearchBegins(d, e)
    PROVE  Single(d) => Single(e)
BY SoloStays DEF Single, Solo

(* A proposal is answered with no, or not at all.                          *)
LEMMA ProposalLeaves ==
    ASSUME NEW d, Good(d), Agrees(d), NEW p \in PairingId, Open(d, p),
           NEW status \in {"declined", "expired"}, NEW actor, NEW keepLooking
    PROVE  Leaves(d, EndProposal(d, p, status, actor, keepLooking, None))
<1> DEFINE e == EndProposal(d, p, status, actor, keepLooking, None)
<1>1. \A s \in Side : d.pairings[p].booking[s] # None
  BY Linked, NoneIsNoRow DEF Open
<1>2. /\ Yields(d, e) /\ AnchorsKept(d, e, p, None) /\ (Single(d) => Single(e))
      /\ \A q \in PairingId \ {p} : e.pairings[q] = d.pairings[q]
  BY <1>1, AgreesExceptNobody, OpenProposalYields
<1> HIDE DEF e
<1>3. AnchorsStay(d, e)
  BY <1>1, <1>2 DEF AnchorsStay, AnchorsKept, Open
<1> QED BY <1>2, <1>3 DEF Leaves, e

(* Somebody gives up a booking, the searches for it end, and then the      *)
(* proposal it is part of.                                                 *)
LEMMA GivenUpLeaves ==
    ASSUME NEW d, Good(d), NEW b \in BookingId, NEW e, Good(e), GivenUp(d, e, b), AgreesExcept(e, b),
           Yields(d, e)
    PROVE  /\ Leaves(d, EndOpenProposalOf(e, b))
           /\ EndOpenProposalOf(e, b).bookings[b] = e.bookings[b]
<1> DEFINE f == EndOpenProposalOf(e, b)
<1>1. /\ Yields(e, f)
      /\ \A q \in PairingId : f.pairings[q] = e.pairings[q] \/ AnchorsKept(e, f, q, b)
      /\ f.bookings[b] = e.bookings[b] /\ (Single(e) => Single(f))
  BY EndOpenProposalOfYields
<1> HIDE DEF f
<1>2. Yields(d, f)
  BY <1>1, YieldsChain
<1>3. ASSUME NEW p \in PairingId, NEW s \in Side, Open(d, p),
             f.pairings[p].status \in {"declined", "expired"}, RequestOf(d, p, s).anchor # None
      PROVE  LET c == d.pairings[p].booking[s]
             IN  \/ f.bookings[c].status = d.bookings[c].status
                 \/ f.requests[d.pairings[p].request[s]].status = "cancelled"
  <2> DEFINE c == d.pairings[p].booking[s]
             r == d.pairings[p].request[s]
  <2>1. c \in BookingId /\ r \in RequestId
    BY <1>3, Linked DEF Open
  <2>2. /\ e.pairings[p].status = "proposed" /\ e.pairings[p].booking = d.pairings[p].booking
        /\ e.pairings[p].request = d.pairings[p].request
    BY <1>3 DEF GivenUp, Chosen, Open
  <2>3. e.requests[r].anchor = d.requests[r].anchor
    BY <2>1 DEF GivenUp, Closed
  <2>4. c # b => e.bookings[c] = d.bookings[c]
    BY <2>1 DEF GivenUp
  <2>5. AnchorsKept(e, f, p, b)
    BY <1>1, <1>3, <2>2
  <2>6. d.requests[r].anchor # None
    BY <1>3 DEF RequestOf
  <2> HIDE DEF c, r
  <2>7. IF c = b THEN f.requests[r].status = "cancelled" ELSE f.bookings[c].status = e.bookings[c].status
    BY <2>2, <2>3, <2>5, <2>6 DEF AnchorsKept, c, r
  <2> QED BY <2>4, <2>7 DEF c, r
<1>4. AnchorsStay(d, f)
  BY <1>3 DEF AnchorsStay, RequestOf
<1>5. ASSUME Single(d) PROVE Single(e)
  <2>1. NoSearchBegins(d, e)
    BY DEF GivenUp, NoSearchBegins, OpenRequest
  <2>2. ~Sought(e, b)
    BY DEF GivenUp, Sought, OpenRequest
  <2>3. ASSUME NEW c \in BookingId, e.bookings[c].kind = "solo"
        PROVE  \/ /\ d.bookings[c].kind = "solo" /\ e.bookings[c].pairing = d.bookings[c].pairing
                  /\ HadHold(e.bookings[c]) => HadHold(d.bookings[c])
               \/ SpotOfOnesOwn(e, c)
    <3>1. \/ e.bookings[c] = d.bookings[c]
          \/ Left(d.bookings[c], e.bookings[c])
          \/ c = b /\ e.bookings[c].pairing = None
      BY DEF GivenUp, WentSolo
    <3> QED BY <2>2, <2>3, <3>1 DEF Left, HadHold, Took, Over, SpotOfOnesOwn
  <2> QED BY <1>5, <2>1, <2>3, SoloStays
<1> QED BY <1>1, <1>2, <1>4, <1>5 DEF Leaves, f

(* cancelBooking of one's own accord.                                      *)
LEMMA CancelOwnLeaves ==
    ASSUME IInv, Agrees(Db), NEW b \in BookingId, bookings[b].status = "confirmed",
           NEW type, NEW keepSpotSolo,
           BackedOut(Db, b) => pairings[bookings[b].pairing].choice # "none"
    PROVE  LET e == CancelOwn(b, type, keepSpotSolo)
           IN  /\ Leaves(Db, e)
               /\ LeftOrSolo(bookings[b], e.bookings[b], keepSpotSolo /\ CanKeepSpotSolo(b))
<1>1. /\ Good(Db) /\ Db.bookings = bookings /\ Db.pairings = pairings /\ Db.requests = requests
      /\ Db.booked = booked /\ Taken(Db, b) /\ Active(Db, b)
  BY Columns DEF IInv, Taken, TakesSpot, Active, ActiveBooking
<1>2. PICK d :
            /\ Keeps(Db, d) /\ OnlyBookings(Db, d, {b})
            /\ IF keepSpotSolo /\ CanKeepSpotSolo(b)
               THEN WentSolo(bookings[b], d.bookings[b]) /\ d.booked = booked
               ELSE /\ Left(bookings[b], d.bookings[b])
                    /\ d.booked = ReleaseSpots(Db, bookings[b].shift, 1).booked
            /\ CancelOwn(b, type, keepSpotSolo) = EndOpenProposalOf(
                    IF PairingStatusOf(b) = "confirmed"
                    THEN PartnerBackedOut(CancelAnchored(d, b), bookings[b].pairing, bookings[b].user)
                    ELSE CancelAnchored(d, b), b)
  BY CancelOwnRows
<1> DEFINE kept == keepSpotSolo /\ CanKeepSpotSolo(b)
<1>3. Good(d) /\ d.pairings = pairings /\ LeftOrSolo(bookings[b], d.bookings[b], kept)
  BY <1>1, <1>2 DEF Keeps, OnlyBookings, LeftOrSolo
<1> HIDE DEF kept
<1>4. Yields(Db, d)
  <2>1. WentSolo(bookings[b], d.bookings[b]) => (Taken(d, b) <=> Taken(Db, b))
    BY <1>1 DEF WentSolo, Taken
  <2>2. \A c \in BookingId \ {b} : d.bookings[c] = Db.bookings[c]
    BY <1>1, <1>2 DEF OnlyBookings
  <2>3. d.bookings[b].shift = Db.bookings[b].shift /\ d.bookings[b].user = Db.bookings[b].user
    BY <1>1, <1>2 DEF Left, WentSolo
  <2>4. \/ /\ d.bookings[b].status = "cancelled"
           /\ d.booked = ReleaseSpots(Db, Db.bookings[b].shift, 1).booked
        \/ (Taken(d, b) <=> Taken(Db, b)) /\ d.booked = Db.booked
    BY <1>1, <1>2, <2>1 DEF Left
  <2>5. \A p \in PairingId : Db.pairings[p].status = "free" => d.pairings[p].status = "free"
    BY <1>1, <1>3
  <2> QED BY <1>1, <2>2, <2>3, <2>4, <2>5, OneYields
<1>5. CASE PairingStatusOf(b) = "confirmed"
  <2> DEFINE p == bookings[b].pairing
  <2>1. p \in PairingId /\ pairings[p].status = "confirmed"
    BY <1>1, <1>5 DEF PairingStatusOf, Good, GoodBooking, Booking
  <2>2. PICK o \in Side : pairings[p].booking[o] = b
    <3>1. BookingOK(Db, b) /\ p # None
      BY <2>1, NoneIsNoRow DEF Agrees
    <3> QED BY <1>1, <3>1 DEF BookingOK, Names
  <2>3. PICK s \in Side : s # o
    BY DEF Side
  <2> DEFINE e == PartnerBackedOut(d, p, bookings[b].user)
  <2>4. CancelAnchored(d, b) = d
    <3>1. \A r \in RequestId : requests[r].anchor = b => requests[r].status \notin OpenRequest
      BY <1>1, <2>1, <2>2, ConfirmedOnly
    <3> QED BY <1>1, <1>2, <1>3, <3>1, NothingAnchored DEF OnlyBookings
  <2>5. CancelOwn(b, type, keepSpotSolo) = EndOpenProposalOf(e, b)
    BY <1>2, <1>5, <2>4
  <2> HIDE DEF p
  <2>6. Keeps(d, e) /\ Keeps(Db, e)
    <3>1. Keeps(d, e)
      BY <1>2, <2>1, PartnerBackedOutKeeps
    <3> QED BY <1>2, <3>1, KeepsChain
  <2>7. LeftBehind(Db, e, p, s, o) /\ e.booked = d.booked /\ e.bookings[b] = d.bookings[b]
    BY <1>2, <2>1, <2>2, <2>3, PartnerBackedOutRows
  <2> HIDE DEF e
  <2> DEFINE c == pairings[p].booking[s]
  <2>8. c \in BookingId /\ c # b /\ d.bookings[c] = bookings[c]
    <3>1. PairOK(Db, p)
      BY <2>1 DEF Agrees
    <3>2. c \in BookingId
      BY <1>1, <2>1, Linked
    <3> QED BY <1>1, <1>2, <2>1, <2>2, <2>3, <3>1, <3>2 DEF PairOK, Side, OnlyBookings
  <2>9. /\ \A x \in BookingId \ {c} : e.bookings[x] = d.bookings[x]
        /\ e.bookings[c].status = d.bookings[c].status
        /\ e.bookings[c].shift = d.bookings[c].shift /\ e.bookings[c].user = d.bookings[c].user
    <3>1. \A x \in BookingId \ {b, c} : e.bookings[x] = bookings[x] /\ d.bookings[x] = bookings[x]
      BY <1>1, <1>2, <2>2, <2>7 DEF LeftBehind, OnlyBookings
    <3>2. e.bookings[c] = bookings[c] \/ WentSolo(bookings[c], e.bookings[c])
      BY <1>1, <2>7 DEF LeftBehind
    <3> HIDE DEF c
    <3> QED BY <2>7, <2>8, <3>1, <3>2 DEF WentSolo
  <2>10. Yields(Db, e)
    <3>1. (Taken(e, c) <=> Taken(d, c)) /\ (Active(e, c) => Active(d, c))
      BY <2>9 DEF Taken, Active
    <3>2. \A q \in PairingId : d.pairings[q].status = "free" => e.pairings[q].status = "free"
      BY <2>6 DEF Keeps
    <3> HIDE DEF c
    <3>3. Yields(d, e)
      BY <1>3, <2>7, <2>8, <2>9, <3>1, <3>2, OneYields
    <3> QED BY <1>4, <3>3, YieldsChain
  <2>11. AnchorsStay(Db, e)
    <3>1. \A q \in PairingId : Open(Db, q) => e.pairings[q].status \notin {"declined", "expired"}
      BY <1>1, <2>1, <2>7 DEF LeftBehind, Open
    <3> QED BY <3>1, NothingEnds
  <2>12. EndOpenProposalOf(e, b) = e
    <3>1. \A q \in PairingId, t \in Side : Open(e, q) => pairings[q].booking[t] # b
      BY <1>1, <2>1, <2>2, <2>3, <2>6, <2>7, LeftBehindAgrees
    <3> QED BY <1>1, <2>6, <3>1, NoOpenProposalOf DEF Keeps
  <2>13. ASSUME Single(Db) PROVE Single(e)
    <3>1. e.requests = requests
      BY <1>1, <2>7 DEF LeftBehind
    <3>2. NoSearchBegins(Db, e)
      BY <1>1, <3>1 DEF NoSearchBegins
    <3>3. ~Sought(e, b) /\ ~Sought(e, c)
      <4>1. \A x \in Side, r \in RequestId :
                requests[r].anchor = pairings[p].booking[x] => requests[r].status \notin OpenRequest
        BY <1>1, <2>1, ConfirmedOnly
      <4> QED BY <2>2, <3>1, <4>1 DEF Sought
    <3> HIDE DEF c
    <3>4. ASSUME NEW x \in BookingId, e.bookings[x].kind = "solo"
          PROVE  \/ /\ Db.bookings[x].kind = "solo" /\ e.bookings[x].pairing = Db.bookings[x].pairing
                    /\ HadHold(e.bookings[x]) => HadHold(Db.bookings[x])
                 \/ SpotOfOnesOwn(e, x)
      <4>1. \/ e.bookings[x] = Db.bookings[x]
            \/ Left(Db.bookings[x], e.bookings[x])
            \/ x \in {b, c} /\ e.bookings[x].pairing = None
        BY <1>1, <2>2, <2>7 DEF LeftBehind, WentSolo, c
      <4> QED BY <3>3, <3>4, <4>1 DEF Left, HadHold, Took, Over, SpotOfOnesOwn
    <3> QED BY <2>13, <3>2, <3>4, SoloStays
  <2> QED BY <1>3, <2>5, <2>7, <2>10, <2>11, <2>12, <2>13 DEF Leaves, kept
<1>6. CASE PairingStatusOf(b) # "confirmed"
  <2> DEFINE e == CancelAnchored(d, b)
  <2>1. GivenUp(Db, e, b)
    <3>1. \A p \in PairingId : Chosen(pairings[p], d.pairings[p])
      BY <1>3 DEF Chosen
    <3> QED BY <1>1, <1>2, <1>3, <3>1, GivenUpRows
  <2>2. Good(e) /\ e.pairings = pairings /\ e.bookings = d.bookings /\ e.booked = d.booked
    BY <1>1, <1>2, <1>3, CancelAnchoredKeeps, CancelAnchoredRows DEF Keeps, OnlyBookings
  <2>3. CancelOwn(b, type, keepSpotSolo) = EndOpenProposalOf(e, b)
    BY <1>2, <1>6
  <2> HIDE DEF e
  <2>4. AgreesExcept(e, b)
    <3>1. bookings[b].pairing # None => pairings[bookings[b].pairing].status # "confirmed"
      BY <1>6 DEF PairingStatusOf
    <3>2. BackedOut(Db, b) => e.pairings[bookings[b].pairing].choice # "none"
      BY <2>2
    <3> QED BY <1>1, <2>1, <3>1, <3>2, GivenUpAgrees
  <2>5. Yields(Db, e)
    <3>1. Yields(d, e)
      BY <1>3, <2>2, NoneYields
    <3> QED BY <1>4, <3>1, YieldsChain
  <2>6. /\ Leaves(Db, EndOpenProposalOf(e, b))
        /\ EndOpenProposalOf(e, b).bookings[b] = e.bookings[b]
    BY <1>1, <2>1, <2>2, <2>4, <2>5, GivenUpLeaves
  <2> QED BY <1>3, <2>2, <2>3, <2>6 DEF kept
<1> QED BY <1>5, <1>6

(* cancelBooking of somebody who was backed out on.                        *)
LEMMA CancelBackedOutOnLeaves ==
    ASSUME IInv, Agrees(Db), NEW b \in BookingId, bookings[b].status = "confirmed",
           BackedOutOn(b), NEW keepSpotSolo
    PROVE  LET e == CancelBackedOutOn(b, keepSpotSolo)
           IN  Leaves(Db, e) /\ LeftOrSolo(bookings[b], e.bookings[b], keepSpotSolo)
<1> DEFINE p == bookings[b].pairing
           solo == KeepSpotSoloAfterRelease(Db, b)
           out == ReleaseAndCancel(Db, b)
           gone == IF keepSpotSolo THEN solo ELSE out
           chosen == IF pairings[p].choice = "none" THEN Choose(gone, p, "release") ELSE gone
           e == CancelAnchored(chosen, b)
<1>1. /\ Good(Db) /\ Db.bookings = bookings /\ Db.pairings = pairings /\ Db.requests = requests
      /\ Db.booked = booked /\ Taken(Db, b)
  BY Columns DEF IInv, Taken, TakesSpot
<1>2. p \in PairingId /\ pairings[p].status = "cancelled"
  BY <1>1 DEF BackedOutOn, PairingStatusOf, Good, GoodBooking, Booking
<1>3. CancelBackedOutOn(b, keepSpotSolo) = EndOpenProposalOf(e, b)
  BY DEF CancelBackedOutOn
<1>4. /\ Keeps(Db, gone) /\ OnlyBookings(Db, gone, {b})
      /\ LeftOrSolo(bookings[b], gone.bookings[b], keepSpotSolo)
      /\ Yields(Db, gone)
  <2>1. /\ Keeps(Db, out) /\ OnlyBookings(Db, out, {b}) /\ Left(bookings[b], out.bookings[b])
        /\ out.booked = ReleaseSpots(Db, bookings[b].shift, 1).booked
    BY <1>1, ReleaseAndCancelRows
  <2>2. /\ Keeps(Db, solo) /\ OnlyBookings(Db, solo, {b}) /\ WentSolo(bookings[b], solo.bookings[b])
        /\ solo.booked = Db.booked
    BY <1>1, KeepSpotSoloRows
  <2> HIDE DEF out, solo
  <2>3. Yields(Db, out)
    BY <1>1, <2>1, OneYields DEF OnlyBookings, Left
  <2>4. Yields(Db, solo)
    <3>1. (Taken(solo, b) <=> Taken(Db, b)) /\ (Active(solo, b) => Active(Db, b))
      BY <1>1, <2>2 DEF WentSolo, Taken, Active
    <3> QED BY <1>1, <2>2, <3>1, OneYields DEF OnlyBookings, WentSolo
  <2> QED BY <2>1, <2>2, <2>3, <2>4 DEF LeftOrSolo
<1> HIDE DEF gone, p
<1>5. Good(gone) /\ gone.pairings = pairings
  BY <1>1, <1>4 DEF Keeps, OnlyBookings
<1>6. /\ Good(chosen) /\ chosen.bookings = gone.bookings /\ chosen.requests = gone.requests
      /\ chosen.booked = gone.booked
      /\ \A q \in PairingId : Chosen(pairings[q], chosen.pairings[q])
      /\ chosen.pairings[p].choice # "none"
  <2>1. CASE pairings[p].choice = "none"
    <3>1. chosen = Choose(gone, p, "release")
      BY <2>1
    <3>2. Keeps(gone, Choose(gone, p, "release"))
      BY <1>2, <1>5, ChooseKeeps
    <3>3. /\ chosen.bookings = gone.bookings /\ chosen.requests = gone.requests
          /\ chosen.booked = gone.booked
          /\ \A q \in PairingId : Chosen(pairings[q], chosen.pairings[q])
          /\ chosen.pairings[p].choice = "release"
      BY <1>2, <1>5, <2>1, <3>1, ChooseRows
    <3> QED BY <3>1, <3>2, <3>3 DEF Keeps
  <2>2. CASE pairings[p].choice # "none"
    <3>1. chosen = gone
      BY <2>2
    <3> QED BY <1>5, <2>2, <3>1 DEF Chosen
  <2> QED BY <2>1, <2>2
<1> HIDE DEF chosen
<1>7. GivenUp(Db, e, b)
  BY <1>1, <1>4, <1>6, GivenUpRows DEF LeftOrSolo
<1>8. /\ Good(e) /\ e.pairings = chosen.pairings
      /\ e.bookings = gone.bookings /\ e.booked = gone.booked
  BY <1>6, CancelAnchoredKeeps, CancelAnchoredRows DEF Keeps
<1> HIDE DEF e
<1>9. AgreesExcept(e, b)
  BY <1>1, <1>2, <1>6, <1>7, <1>8, GivenUpAgrees DEF p
<1>10. Yields(Db, e)
  <2>1. Yields(gone, e)
    BY <1>5, <1>6, <1>8, NoneYields DEF Chosen
  <2> QED BY <1>4, <2>1, YieldsChain
<1>11. /\ Leaves(Db, EndOpenProposalOf(e, b))
       /\ EndOpenProposalOf(e, b).bookings[b] = e.bookings[b]
  BY <1>1, <1>7, <1>8, <1>9, <1>10, GivenUpLeaves
<1> QED BY <1>3, <1>4, <1>8, <1>11

(* What a handler commits is the next state.                               *)
LEMMA CommitLeaves ==
    ASSUME NEW d, Good(d), Leaves(Db, d), Commit(d)
    PROVE  Leaves(Db, Db')
<1>1. Db' = d
  BY DEF Commit, Db, Good, DbType
<1> DEFINE e == Db'
<1>2. e = d
  BY <1>1
<1> HIDE DEF e
<1>3. Leaves(Db, e)
  BY <1>2
<1> QED BY <1>3 DEF e

(* cancelBooking.                                                          *)
LEMMA CancelBookingLeaves ==
    ASSUME AInv, NEW b \in BookingId, NEW keepSpotSolo \in BOOLEAN, CancelBooking(b, keepSpotSolo)
    PROVE  Leaves(Db, Db')
<1> DEFINE type == CancelType(b)
           own == CancelOwn(b, type, keepSpotSolo)
           out == CancelBackedOutOn(b, keepSpotSolo)
           d == IF type = "partner_cancelled" THEN out ELSE own
<1>1. bookings[b].status = "confirmed" /\ Commit(d)
  BY DEF CancelBooking
<1>2. IInv /\ Agrees(Db) /\ Good(Db) /\ Db.bookings = bookings /\ Db.pairings = pairings
  BY Columns DEF AInv, IInv
<1>3. BackedOut(Db, b) <=> BackedOutOn(b)
  BY <1>2, Columns DEF BackedOut, BackedOutOn, PairingStatusOf, Good, GoodBooking, Booking, PairingId, None
<1>4. type = "partner_cancelled" <=> BackedOutOn(b)
  BY DEF CancelType
<1>5. CASE BackedOutOn(b)
  <2>1. Keeps(Db, out) /\ Leaves(Db, out)
    BY <1>1, <1>2, <1>5, CancelBackedOutOnKeeps, CancelBackedOutOnLeaves
  <2>2. d = out
    BY <1>4, <1>5
  <2> QED BY <1>1, <2>1, <2>2, CommitLeaves DEF Keeps
<1>6. CASE ~BackedOutOn(b)
  <2>1. Keeps(Db, own) /\ Leaves(Db, own)
    BY <1>1, <1>2, <1>3, <1>6, CancelOwnKeeps, CancelOwnLeaves
  <2>2. d = own
    BY <1>4, <1>6
  <2> QED BY <1>1, <2>1, <2>2, CommitLeaves DEF Keeps
<1> QED BY <1>5, <1>6

(* A report: the reporter may leave with it.                               *)
LEMMA ReportPartnerLeaves ==
    ASSUME AInv, NEW p \in PairingId, NEW s \in Side, NEW cancelPairing \in BOOLEAN,
           ReportPartner(p, s, cancelPairing)
    PROVE  Leaves(Db, Db')
<1> DEFINE b == pairings[p].booking[s]
           leaves == cancelPairing /\ pairings[p].status \in LivePairing
           out == CancelOwn(b, "safety", FALSE)
           ended == EndProposal(Db, p, "declined", UserOn(p, s), TRUE, None)
           d == IF leaves /\ bookings[b].status = "confirmed" THEN out
                ELSE IF leaves /\ pairings[p].status = "proposed" THEN ended ELSE Db
<1>1. /\ IInv /\ Agrees(Db) /\ Good(Db) /\ Db.bookings = bookings /\ Db.pairings = pairings
      /\ Db.requests = requests /\ pairings[p].status # "free"
  BY Columns DEF AInv, IInv, ReportPartner
<1>2. Commit(d)
  BY Zenon DEF ReportPartner
<1>3. b \in BookingId
  BY <1>1, Linked
<1>4. CASE leaves /\ bookings[b].status = "confirmed"
  <2>1. BackedOut(Db, b) => pairings[bookings[b].pairing].choice # "none"
    BY <1>1, <1>4, InLivePairing
  <2>2. d = out
    BY <1>4
  <2> HIDE DEF b
  <2>3. Keeps(Db, out) /\ Leaves(Db, out)
    BY <1>1, <1>3, <1>4, <2>1, CancelOwnKeeps, CancelOwnLeaves, Zenon
  <2> HIDE DEF out, d
  <2> QED BY <1>2, <2>2, <2>3, CommitLeaves DEF Keeps
<1>5. CASE ~(leaves /\ bookings[b].status = "confirmed") /\ leaves /\ pairings[p].status = "proposed"
  <2>1. d = ended
    BY <1>5, Zenon
  <2>2. Keeps(Db, ended) /\ Leaves(Db, ended)
    <3>1. Open(Db, p) /\ "declined" \in {"declined", "expired"}
      BY <1>1, <1>5 DEF Open
    <3> QED BY <1>1, <1>5, <3>1, EndProposalKeeps, ProposalLeaves, Zenon
  <2> HIDE DEF ended, d
  <2> QED BY <1>2, <2>1, <2>2, CommitLeaves DEF Keeps
<1>6. CASE ~(leaves /\ bookings[b].status = "confirmed") /\ ~(leaves /\ pairings[p].status = "proposed")
  <2>1. d = Db
    BY <1>6, Zenon
  <2> HIDE DEF d
  <2>2. Leaves(Db, Db)
    BY NoneYields, NothingEnds DEF Leaves, Open
  <2> QED BY <1>1, <1>2, <2>1, <2>2, CommitLeaves
<1> QED BY <1>4, <1>5, <1>6

(* declineProposal, and tick's first loop.                                 *)
LEMMA DeclineLeaves ==
    ASSUME AInv, NEW p \in PairingId, NEW s \in Side, NEW keepLooking \in BOOLEAN,
           Decline(p, s, keepLooking)
    PROVE  Leaves(Db, Db')
<1> DEFINE e == EndProposal(Db, p, "declined", UserOn(p, s), keepLooking, None)
<1>1. Good(Db) /\ Agrees(Db) /\ Open(Db, p) /\ Db.pairings[p].status = "proposed"
  BY Columns DEF AInv, IInv, Decline, Open
<1>2. Keeps(Db, e) /\ Leaves(Db, e)
  BY <1>1, EndProposalKeeps, ProposalLeaves
<1>3. Commit(e)
  BY DEF Decline
<1> HIDE DEF e
<1> QED BY <1>2, <1>3, CommitLeaves DEF Keeps

LEMMA TickExpireProposalLeaves ==
    ASSUME AInv, NEW p \in PairingId, TickExpireProposal(p)
    PROVE  Leaves(Db, Db')
<1> DEFINE e == EndProposal(Db, p, "expired", NoUser, TRUE, None)
<1>1. Good(Db) /\ Agrees(Db) /\ Open(Db, p) /\ Db.pairings[p].status = "proposed"
  BY Columns DEF AInv, IInv, TickExpireProposal, Expired, Open
<1>2. Keeps(Db, e) /\ Leaves(Db, e)
  BY <1>1, EndProposalKeeps, ProposalLeaves, Zenon
<1>3. Commit(e)
  BY Zenon DEF TickExpireProposal
<1> HIDE DEF e
<1> QED BY <1>2, <1>3, CommitLeaves DEF Keeps

(* The decision of somebody who was backed out on: the Deeds back, with    *)
(* the spot given up.                                                      *)
LEMMA ReleasedLeaves ==
    ASSUME IInv, Agrees(Db), NEW p \in PairingId, DecisionOpen(p),
           NEW choice \in {"release", "no_response_release"}
    PROVE  LET chosen == Choose(Db, p, choice)
               e == ReleaseAndCancel(chosen, pairings[p].booking[BailSide(p)])
           IN  /\ Good(e) /\ Leaves(Db, e)
               /\ Good(chosen) /\ Leaves(Db, chosen)
<1> DEFINE b == pairings[p].booking[BailSide(p)]
           chosen == Choose(Db, p, choice)
           e == ReleaseAndCancel(chosen, b)
<1>1. /\ Good(Db) /\ Db.bookings = bookings /\ Db.pairings = pairings /\ Db.booked = booked
      /\ pairings[p].choice = "none" /\ pairings[p].status = "cancelled"
  BY Columns DEF IInv, DecisionOpen
<1>2. b \in BookingId /\ Taken(Db, b) /\ bookings[b].status # "free"
  BY <1>1, Undecided DEF Took, Over, Taken, TakesSpot
<1> HIDE DEF b
<1>3. /\ Keeps(Db, chosen) /\ chosen.bookings = bookings /\ chosen.booked = booked
      /\ \A q \in PairingId : Chosen(pairings[q], chosen.pairings[q])
  BY <1>1, ChooseKeeps, ChooseRows
<1> HIDE DEF chosen
<1>4. /\ Keeps(chosen, e) /\ OnlyBookings(chosen, e, {b})
      /\ Left(chosen.bookings[b], e.bookings[b])
      /\ e.booked = ReleaseSpots(chosen, chosen.bookings[b].shift, 1).booked
  <2>1. Good(chosen) /\ chosen.bookings[b].status # "free"
    BY <1>2, <1>3 DEF Keeps
  <2> QED BY <1>2, <2>1, ReleaseAndCancelRows
<1> HIDE DEF e
<1>5. Good(e) /\ Good(chosen) /\ e.pairings = chosen.pairings
  BY <1>3, <1>4 DEF Keeps, OnlyBookings
<1>6. Yields(Db, chosen)
  BY <1>1, <1>3, NoneYields DEF Chosen
<1>7. Yields(Db, e)
  <2>1. Taken(chosen, b)
    BY <1>1, <1>2, <1>3 DEF Taken
  <2>2. Yields(chosen, e)
    BY <1>2, <1>4, <1>5, <2>1, OneYields DEF OnlyBookings, Left
  <2> QED BY <1>6, <2>2, YieldsChain
<1>8. AnchorsStay(Db, chosen) /\ AnchorsStay(Db, e)
  <2>1. \A q \in PairingId : Open(Db, q) => chosen.pairings[q].status \notin {"declined", "expired"}
    BY <1>1, <1>3 DEF Chosen, Open
  <2> QED BY <1>5, <2>1, NothingEnds
<1>9. ASSUME Single(Db) PROVE Single(chosen) /\ Single(e)
  <2>1. chosen.requests = requests /\ e.requests = requests
    BY <1>1, <1>4, ChooseRows, Columns DEF chosen, OnlyBookings
  <2>2. NoSearchBegins(Db, chosen) /\ NoSearchBegins(Db, e)
    BY <2>1, Columns DEF NoSearchBegins
  <2>3. Single(chosen)
    BY <1>1, <1>3, <1>9, <2>2, SameSolo
  <2>4. ASSUME NEW c \in BookingId, e.bookings[c].kind = "solo"
        PROVE  /\ Db.bookings[c].kind = "solo" /\ e.bookings[c].pairing = Db.bookings[c].pairing
               /\ HadHold(e.bookings[c]) => HadHold(Db.bookings[c])
    BY <1>1, <1>3, <1>4, <2>4 DEF OnlyBookings, Left, HadHold, Took, Over
  <2> QED BY <1>9, <2>2, <2>3, <2>4, SoloStays
<1> QED BY <1>5, <1>6, <1>7, <1>8, <1>9 DEF Leaves, e, chosen, b

LEMMA BailReleaseLeaves ==
    ASSUME AInv, NEW p \in PairingId, BailRelease(p)
    PROVE  Leaves(Db, Db')
<1> DEFINE e == ReleaseAndCancel(Choose(Db, p, "release"), pairings[p].booking[BailSide(p)])
<1>1. DecisionOpen(p) /\ Commit(e)
  BY DEF BailRelease
<1>2. Good(e) /\ Leaves(Db, e)
  BY <1>1, ReleasedLeaves DEF AInv
<1> HIDE DEF e
<1> QED BY <1>1, <1>2, CommitLeaves

LEMMA TickBailNoResponseLeaves ==
    ASSUME AInv, NEW p \in PairingId, TickBailNoResponse(p)
    PROVE  Leaves(Db, Db')
<1> DEFINE b == pairings[p].booking[BailSide(p)]
           chosen == Choose(Db, p, "no_response_release")
           gone == ReleaseAndCancel(chosen, b)
           d == IF bookings[b].status = "confirmed" THEN gone ELSE chosen
<1>1. DecisionOpen(p) /\ Commit(d)
  BY DEF TickBailNoResponse, Unanswered
<1>2. Good(gone) /\ Leaves(Db, gone) /\ Good(chosen) /\ Leaves(Db, chosen)
  BY <1>1, ReleasedLeaves DEF AInv
<1> HIDE DEF gone, chosen
<1>3. Good(d) /\ Leaves(Db, d)
  BY <1>2
<1> HIDE DEF d
<1> QED BY <1>1, <1>3, CommitLeaves

(* A search opens, moves or ends, and no spot with it.                     *)
LEMMA SearchLeaves ==
    ASSUME AInv, UNCHANGED <<booked, bookings>>,
           \A q \in PairingId : pairings'[q].status = pairings[q].status,
           \A r \in RequestId :
              \/ requests'[r] = requests[r] \/ requests'[r].anchor = None
              \/ bookings[requests'[r].anchor].kind = "paired",
           OneFree(Db) => OneFree(Db')
    PROVE  Leaves(Db, Db')
<1> DEFINE e == Db'
<1>1. /\ e.bookings = Db.bookings /\ e.booked = Db.booked
      /\ \A q \in PairingId : e.pairings[q].status = Db.pairings[q].status
      /\ \A r \in RequestId :
            \/ e.requests[r] = Db.requests[r] \/ e.requests[r].anchor = None
            \/ Db.bookings[e.requests[r].anchor].kind = "paired"
      /\ OneFree(Db) => OneFree(e)
  BY DEF Db
<1> HIDE DEF e
<1>2. Yields(Db, e)
  BY <1>1, NoneYields
<1>3. AnchorsStay(Db, e)
  BY <1>1, NothingEnds DEF Open
<1>4. ASSUME Single(Db) PROVE Single(e)
  <2> SUFFICES ASSUME NEW b \in BookingId, e.bookings[b].kind = "solo" PROVE SpotOfOnesOwn(e, b)
    BY <1>1, <1>4 DEF Single, Solo
  <2>1. Sought(e, b) => Sought(Db, b)
    BY <1>1, NoneIsNoRow DEF Sought
  <2> QED BY <1>1, <1>4, <2>1 DEF Single, Solo, SpotOfOnesOwn
<1>5. Leaves(Db, e)
  BY <1>2, <1>3, <1>4 DEF Leaves
<1> QED BY <1>5 DEF e

(* createRequest, adjustRequest, and bailDecision for a new partner.       *)
LEMMA SearchingLeaves ==
    ASSUME AInv
    PROVE  /\ \A u \in User, w \in WindowEnd :
                CreateRequest(u, w) \/ AdjustRequest(u, w) => Leaves(Db, Db')
           /\ \A p \in PairingId : BailRematch(p) => Leaves(Db, Db')
<1>1. ASSUME NEW u \in User, NEW w \in WindowEnd, CreateRequest(u, w) \/ AdjustRequest(u, w)
      PROVE  /\ UNCHANGED <<booked, bookings, pairings>>
             /\ \A r \in RequestId : requests'[r] = requests[r] \/ requests'[r].anchor = None
             /\ OneFree(Db) => OneFree(Db')
  <2>1. requests \in [RequestId -> Request] /\ \A r \in RequestId : RequestOK(Db, r)
    BY Rows
  <2> DEFINE Searches(e) == {r \in RequestId : e.requests[r].user = u /\ e.requests[r].status \in OpenRequest}
  <2>4. ASSUME NEW e, NEW r \in RequestId, Searches(Db) \subseteq {r} \/ r \in Searches(Db),
               e.requests[r].user = u, e.requests[r].anchor = None,
               r \in Searches(Db) => Db.requests[r].anchor = None,
               \A q \in RequestId \ {r} : e.requests[q] = Db.requests[q], OneFree(Db)
        PROVE  OneFree(e)
    BY <2>4 DEF OneFree
  <2>2. CASE CreateRequest(u, w)
    <3>1. PICK r \in RequestId :
            /\ OpenRequests(u) = {}
            /\ requests' = [requests EXCEPT ![r] = NewRequest(u, "standard", SearchDeadline(w), None)]
            /\ UNCHANGED <<booked, bookings, pairings>>
      BY <2>2 DEF CreateRequest
    <3>2. \A q \in RequestId : requests'[q] = requests[q] \/ requests'[q].anchor = None
      BY <2>1, <3>1 DEF NewRequest
    <3> DEFINE e == Db'
    <3>3. /\ e.requests[r].user = u /\ e.requests[r].anchor = None
          /\ \A q \in RequestId \ {r} : e.requests[q] = Db.requests[q]
          /\ Searches(Db) = {}
      BY <2>1, <3>1, Rows DEF Db, NewRequest, OpenRequests
    <3> HIDE DEF e, Searches
    <3>4. OneFree(Db) => OneFree(e)
      BY <2>4, <3>3
    <3> QED BY <3>1, <3>2, <3>4 DEF e
  <2>3. CASE AdjustRequest(u, w)
    <3>1. PICK r \in RequestId :
            /\ IsLatest(r, Adjustable(u)) /\ requests[r].kind = "standard"
            /\ requests' = [requests EXCEPT ![r].deadline = SearchDeadline(w), ![r].status = "searching"]
      BY <2>3 DEF AdjustRequest
    <3>2. requests[r].status # "free"
      BY <3>1 DEF IsLatest, Adjustable, OpenRequests, OpenRequest
    <3>3. requests[r].anchor = None
      BY <2>1, <3>1, <3>2, Rows DEF RequestOK
    <3>4. UNCHANGED <<booked, bookings, pairings>>
      BY <2>3 DEF AdjustRequest
    <3>5. \A q \in RequestId : requests'[q] = requests[q] \/ requests'[q].anchor = None
      BY <2>1, <3>1, <3>3 DEF Request
    <3> DEFINE e == Db'
    <3>6. /\ e.requests[r].user = u /\ e.requests[r].anchor = None /\ Db.requests[r].anchor = None
          /\ \A q \in RequestId \ {r} : e.requests[q] = Db.requests[q]
      BY <2>1, <3>1, <3>3, Rows DEF Db, Request, IsLatest, Adjustable, OpenRequests
    <3>7. Searches(Db) = {} \/ r \in Searches(Db)
      BY <3>1, Rows DEF IsLatest, Adjustable, OpenRequests
    <3> HIDE DEF e, Searches
    <3>8. OneFree(Db) => OneFree(e)
      BY <2>4, <3>6, <3>7
    <3> QED BY <3>4, <3>5, <3>8 DEF e
  <2> QED BY <1>1, <2>2, <2>3
<1>2. ASSUME NEW p \in PairingId, BailRematch(p)
      PROVE  /\ UNCHANGED <<booked, bookings>>
             /\ \A q \in PairingId : pairings'[q].status = pairings[q].status
             /\ \A r \in RequestId : requests'[r] = requests[r] \/ bookings[requests'[r].anchor].kind = "paired"
             /\ OneFree(Db) => OneFree(Db')
  <2>1. /\ UNCHANGED <<booked, bookings>>
        /\ pairings' = [pairings EXCEPT ![p] = [@ EXCEPT !.choice = "rematch"]]
    BY <1>2, Zenon DEF BailRematch
  <2>2. pairings \in [PairingId -> Pairing]
    BY Rows
  <2>3. \A q \in PairingId : pairings'[q].status = pairings[q].status
    BY <2>1, <2>2 DEF Pairing
  <2> DEFINE b == pairings[p].booking[BailSide(p)]
             n == Before(Start[ShiftOf(p)], RematchLast)
  <2>4. PICK r \in RequestId :
            DecisionOpen(p) /\ requests' = [requests EXCEPT ![r] = NewRequest(pairings[p].bailUser, "rematch", n, b)]
    BY <1>2, Zenon DEF BailRematch
  <2>5. bookings[b].kind = "paired" /\ b # None
    BY <2>4, Undecided, Rows, Columns, NoneIsNoRow DEF BackedOut
  <2> HIDE DEF b, n
  <2> DEFINE e == Db'
  <2>7. /\ e.requests[r].anchor # None
        /\ \A q \in RequestId \ {r} : e.requests[q] = Db.requests[q]
    BY <2>4, <2>5, Rows DEF Db, NewRequest
  <2> HIDE DEF e
  <2>8. OneFree(Db) => OneFree(e)
    BY <2>7 DEF OneFree
  <2>6. \A q \in RequestId : requests'[q] = requests[q] \/ bookings[requests'[q].anchor].kind = "paired"
    BY <2>4, <2>5, Rows DEF NewRequest
  <2> QED BY <2>1, <2>3, <2>6, <2>8 DEF e
<1> QED BY <1>1, <1>2, SearchLeaves

(* A search ends, and with it the hold a rematch kept.                     *)
LEMMA StopSearchLeaves ==
    ASSUME AInv, NEW r \in RequestId, requests[r].status = "searching",
           NEW status \in {"cancelled", "no_match"}
    PROVE  LET ended == PutRequest(Db, r, [requests[r] EXCEPT !.status = status])
               b == requests[r].anchor
               d == IF requests[r].kind = "rematch" /\ bookings[b].status = "confirmed"
                    THEN KeepSpotSoloAfterRelease(ended, b) ELSE ended
           IN  Leaves(Db, d)
<1> DEFINE row == [requests[r] EXCEPT !.status = status]
           ended == PutRequest(Db, r, row)
           b == requests[r].anchor
           solo == KeepSpotSoloAfterRelease(ended, b)
           rematch == requests[r].kind = "rematch" /\ bookings[b].status = "confirmed"
<1>1. requests[r] \in Request /\ GoodRequest(requests[r])
  BY Rows DEF Good
<1>2. /\ row.status = status /\ row.kind = requests[r].kind /\ row.anchor = b /\ GoodRequest(row)
  BY <1>1 DEF Request, GoodRequest
<1> HIDE DEF row
<1>3. ended.bookings = Db.bookings /\ ended.pairings = Db.pairings /\ ended.booked = Db.booked
  BY Rows DEF PutRequest, Good, DbType
<1>4. Good(ended)
  BY <1>2, Rows, PutRequestKeeps DEF Keeps
<1>10. /\ ended.requests[r].status = status
       /\ \A q \in RequestId \ {r} : ended.requests[q] = requests[q]
  BY <1>2, Rows DEF PutRequest, Good, DbType
<1>11. NoSearchBegins(Db, ended)
  BY <1>10, Rows DEF NoSearchBegins, OpenRequest
<1> HIDE DEF ended
<1>5. Leaves(Db, ended)
  BY <1>3, <1>11, NoneYields, NothingEnds, SameSolo DEF Leaves, Open
<1>6. ASSUME rematch PROVE Leaves(Db, solo)
  <2>1. b \in BookingId /\ ended.bookings[b].status # "free"
    BY <1>1, <1>3, <1>6, Rows DEF GoodRequest
  <2>2. /\ OnlyBookings(ended, solo, {b}) /\ WentSolo(ended.bookings[b], solo.bookings[b])
        /\ solo.booked = ended.booked
    BY <1>4, <2>1, KeepSpotSoloRows
  <2> HIDE DEF solo
  <2>3. (Taken(solo, b) <=> Taken(ended, b)) /\ (Active(solo, b) => Active(ended, b))
    BY <2>2 DEF WentSolo, Taken, Active
  <2>4. Yields(ended, solo)
    BY <1>4, <2>1, <2>2, <2>3, OneYields DEF OnlyBookings, WentSolo
  <2>5. Yields(Db, solo)
    BY <1>5, <2>4, YieldsChain DEF Leaves
  <2>6. AnchorsStay(Db, solo)
    BY <1>3, <2>2, NothingEnds DEF OnlyBookings, Open
  <2>7. ASSUME Single(Db) PROVE Single(solo)
    <3>1. solo.requests = ended.requests
      BY <2>2 DEF OnlyBookings
    <3>2. NoSearchBegins(ended, solo)
      BY <3>1 DEF NoSearchBegins
    <3>3. ~Sought(solo, b)
      <4>1. \A q \in RequestId : requests[q].anchor = b /\ requests[q].status \in OpenRequest => q = r
        <5>1. OneAnchor(Db) /\ b # None
          BY <2>1, Rows, NoneIsNoRow DEF Agrees
        <5> QED BY <5>1, Rows DEF OneAnchor, OpenRequest
      <4> QED BY <1>10, <3>1, <4>1 DEF Sought, OpenRequest
    <3>4. ASSUME NEW c \in BookingId, solo.bookings[c].kind = "solo"
          PROVE  solo.bookings[c] = ended.bookings[c] \/ SpotOfOnesOwn(solo, c)
      BY <2>2, <3>3 DEF OnlyBookings, WentSolo, SpotOfOnesOwn
    <3> QED BY <1>5, <2>7, <3>2, <3>4, SoloStays DEF Leaves
  <2> QED BY <2>5, <2>6, <2>7 DEF Leaves
<1> HIDE DEF solo
<1> QED BY <1>5, <1>6 DEF ended, row, solo

(* cancelRequest, and tick's third loop.                                   *)
LEMMA CancelRequestLeaves ==
    ASSUME AInv, NEW u \in User, CancelRequest(u)
    PROVE  Leaves(Db, Db')
<1>1. PICK r \in RequestId :
        /\ requests[r].status = "searching"
        /\ LET d == PutRequest(Db, r, [requests[r] EXCEPT !.status = "cancelled"])
               b == requests[r].anchor
           IN  Commit(IF requests[r].kind = "rematch" /\ bookings[b].status = "confirmed"
                      THEN KeepSpotSoloAfterRelease(d, b) ELSE d)
  BY DEF CancelRequest
<1> DEFINE ended == PutRequest(Db, r, [requests[r] EXCEPT !.status = "cancelled"])
           b == requests[r].anchor
           d == IF requests[r].kind = "rematch" /\ bookings[b].status = "confirmed"
                THEN KeepSpotSoloAfterRelease(ended, b) ELSE ended
<1>2. Good(d) /\ Leaves(Db, d)
  BY <1>1, StopSearchAgrees, StopSearchLeaves, Zenon
<1>3. Commit(d)
  BY <1>1
<1> HIDE DEF d
<1> QED BY <1>2, <1>3, CommitLeaves

LEMMA TickSearchDeadlineLeaves ==
    ASSUME AInv, NEW r \in RequestId, TickSearchDeadline(r)
    PROVE  Leaves(Db, Db')
<1> DEFINE ended == PutRequest(Db, r, [requests[r] EXCEPT !.status = "no_match"])
           b == requests[r].anchor
           d == IF requests[r].kind = "rematch" /\ bookings[b].status = "confirmed"
                THEN KeepSpotSoloAfterRelease(ended, b) ELSE ended
<1>1. requests[r].status = "searching" /\ Commit(d)
  BY DEF TickSearchDeadline, Fruitless
<1>2. Good(d) /\ Leaves(Db, d)
  BY <1>1, StopSearchAgrees, StopSearchLeaves, Zenon
<1> HIDE DEF d
<1> QED BY <1>1, <1>2, CommitLeaves

(* completePairingIfResolved.                                              *)
LEMMA CompleteIfResolvedLeaves ==
    ASSUME NEW d, Good(d), NEW e, Good(e), Leaves(d, e), NEW p \in PairingId \cup {None}
    PROVE  Leaves(d, CompleteIfResolved(e, p))
<1> DEFINE f == PutStatus(e, p, "completed")
           done == /\ p # None /\ e.pairings[p].status = "confirmed" /\ End[ShiftOf(p)] <= now
                   /\ \A s \in Side : Resolved(e.bookings[e.pairings[p].booking[s]], p)
<1>1. CompleteIfResolved(e, p) = IF done THEN f ELSE e
  BY DEF CompleteIfResolved
<1>2. ASSUME done PROVE Leaves(d, f)
  <2>1. p \in PairingId /\ e.pairings[p].status = "confirmed"
    BY <1>2
  <2>2. /\ f.requests = e.requests /\ f.bookings = e.bookings /\ f.booked = e.booked
        /\ \A q \in PairingId \ {p} : f.pairings[q] = e.pairings[q]
        /\ f.pairings[p].status = "completed"
    BY <2>1, PutStatusRows
  <2> HIDE DEF f
  <2>3. Yields(e, f)
    BY <2>1, <2>2, NoneYields
  <2>4. Yields(d, f)
    BY <2>3, YieldsChain DEF Leaves
  <2>5. \A q \in PairingId : f.pairings[q].status \in {"declined", "expired"} => f.pairings[q] = e.pairings[q]
    BY <2>2
  <2>6. AnchorsStay(d, f)
    BY <2>2, <2>5, Zenon DEF Leaves, AnchorsStay
  <2>7. Single(e) => Single(f)
    BY <2>2, SameSolo DEF NoSearchBegins
  <2> QED BY <2>4, <2>6, <2>7 DEF Leaves
<1> HIDE DEF done, f
<1> QED BY <1>1, <1>2

(* Attendance.                                                             *)
LEMMA AttendanceLeaves ==
    ASSUME AInv, NEW b \in BookingId, bookings[b].status = "confirmed",
           NEW outcome \in HoldOutcome, NEW status \in Over,
           Commit(CompleteIfResolved(Mark(ResolveHold(Db, b, outcome), b, status),
                                     bookings[b].pairing))
    PROVE  Leaves(Db, Db')
<1> DEFINE marked == Mark(ResolveHold(Db, b, outcome), b, status)
           p == bookings[b].pairing
           d == CompleteIfResolved(marked, p)
<1>1. /\ p \in PairingId \cup {None} /\ Good(Db) /\ Taken(Db, b)
      /\ Db.bookings[b].status # "free"
  BY Rows DEF Booking, Taken, TakesSpot
<1>2. /\ Keeps(Db, marked) /\ OnlyBookings(Db, marked, {b}) /\ marked.booked = Db.booked
      /\ marked.bookings[b].status = status
      /\ marked.bookings[b].user = Db.bookings[b].user
      /\ marked.bookings[b].shift = Db.bookings[b].shift
      /\ marked.bookings[b].kind = Db.bookings[b].kind
      /\ marked.bookings[b].pairing = Db.bookings[b].pairing
  BY <1>1, MarkedRows
<1>3. Commit(d)
  OBVIOUS
<1>8. /\ marked.bookings[b].kind = Db.bookings[b].kind
      /\ marked.bookings[b].pairing = Db.bookings[b].pairing
      /\ Db.bookings[b].kind = "solo" => marked.bookings[b].hold = Db.bookings[b].hold
  <2>1. /\ marked.bookings[b].kind = Db.bookings[b].kind
        /\ marked.bookings[b].pairing = Db.bookings[b].pairing
    BY <1>2
  <2>2. ASSUME Db.bookings[b].kind = "solo" PROVE marked.bookings[b].hold = Db.bookings[b].hold
    <3>1. Db.bookings[b].hold # "held" /\ bookings \in [BookingId -> Booking]
      BY <2>2, Rows DEF Good, GoodBooking
    <3>2. ResolveHold(Db, b, outcome) = Db
      BY <3>1 DEF ResolveHold
    <3>3. marked.bookings = [bookings EXCEPT ![b] = [bookings[b] EXCEPT !.status = status]]
      BY <3>2, Rows DEF Mark, PutBooking, Good, DbType
    <3> QED BY <3>1, <3>3, Rows DEF Booking
  <2> QED BY <2>1, <2>2
<1> HIDE DEF marked, p
<1>4. Taken(marked, b) /\ ~Active(marked, b)
  BY <1>2 DEF Taken, Active, TakesSpot, ActiveBooking, Over
<1>5. Leaves(Db, marked)
  <2>1. Yields(Db, marked)
    BY <1>1, <1>2, <1>4, OneYields DEF OnlyBookings
  <2>2. AnchorsStay(Db, marked)
    BY <1>2, NothingEnds DEF OnlyBookings, Open
  <2>3. Single(Db) => Single(marked)
    <3>1. NoSearchBegins(Db, marked)
      BY <1>2 DEF OnlyBookings, NoSearchBegins
    <3>2. ASSUME NEW c \in BookingId, marked.bookings[c].kind = "solo"
          PROVE  /\ Db.bookings[c].kind = "solo"
                 /\ marked.bookings[c].pairing = Db.bookings[c].pairing
                 /\ HadHold(marked.bookings[c]) => HadHold(Db.bookings[c])
      BY <1>2, <1>8, <3>2, Rows DEF OnlyBookings, HadHold, Took
    <3> QED BY <3>1, <3>2, SoloStays
  <2> QED BY <2>1, <2>2, <2>3 DEF Leaves
<1>6. Good(marked)
  BY <1>2 DEF Keeps
<1>7. Good(d) /\ Leaves(Db, d)
  BY <1>1, <1>5, <1>6, CompleteIfResolvedKeeps, CompleteIfResolvedLeaves DEF Keeps
<1> HIDE DEF d
<1> QED BY <1>3, <1>7, CommitLeaves

(* checkIn, markNoShow and tick's last loop; its fourth.                   *)
LEMMA ShiftDayLeaves ==
    ASSUME AInv, NEW b \in BookingId, CheckIn(b) \/ MarkNoShow(b) \/ TickAutoResolve(b)
    PROVE  Leaves(Db, Db')
<1>1. PICK outcome \in HoldOutcome, status \in Over :
        /\ bookings[b].status = "confirmed"
        /\ Commit(CompleteIfResolved(Mark(ResolveHold(Db, b, outcome), b, status),
                                     bookings[b].pairing))
  BY DEF CheckIn, MarkNoShow, TickAutoResolve, Unmarked, HoldOutcome, Over
<1> QED BY <1>1, AttendanceLeaves

LEMMA TickCompleteLeaves ==
    ASSUME AInv, NEW p \in PairingId, TickComplete(p)
    PROVE  Leaves(Db, Db')
<1> DEFINE d == CompleteIfResolved(Db, p)
<1>1. Commit(d)
  BY DEF TickComplete
<1>2. Good(Db) /\ Leaves(Db, Db)
  BY Rows, NoneYields, NothingEnds, SameSolo DEF Leaves, Open, NoSearchBegins
<1>3. Good(d) /\ Leaves(Db, d)
  BY <1>2, CompleteIfResolvedKeeps, CompleteIfResolvedLeaves DEF Keeps
<1> HIDE DEF d
<1> QED BY <1>1, <1>3, CommitLeaves

(* confirm: who can still answer has the spot already.                     *)
LEMMA ConfirmLeaves ==
    ASSUME AInv, NEW p \in PairingId, NEW s \in Side, Confirm(p, s)
    PROVE  Leaves(Db, Db')
<1> DEFINE b == pairings[p].booking[s]
           row == ConfirmRow(PlaceHold(Db, b), b)
           d == IF AlreadyIn(b) THEN Db ELSE row
           e == FinalizeIfReady(d, p)
<1>1. /\ Good(Db) /\ Agrees(Db) /\ Open(Db, p) /\ Db.pairings[p].status # "free"
      /\ now < Db.pairings[p].expires /\ now \in Nat /\ IInv
  BY Rows, Columns DEF Confirm, Open, Good, DbType, Pairing
<1>2. b \in BookingId /\ Db.bookings[b].status # "free" /\ b = Db.pairings[p].booking[s]
  BY <1>1, Linked, Columns
<1>3. Active(Db, b) /\ Taken(Db, b)
  <2>1. SideOK(Db, p, s)
    BY <1>1 DEF Agrees
  <2> QED BY <1>1, <1>2, <2>1 DEF SideOK, BookingOf, Active, Taken
<1>4. Commit(e)
  BY DEF Confirm
<1>5. AlreadyIn(b) \/ balance[bookings[b].user] >= 1
  BY DEF Confirm, CanConfirm
<1> HIDE DEF b
<1>6. /\ Good(d) /\ Yields(Db, d) /\ d.pairings = Db.pairings /\ d.bookings[b].status # "free"
      /\ Single(Db) => Single(d)
  <2>1. CASE AlreadyIn(b)
    BY <1>1, <1>2, <2>1, NoneYields
  <2>2. ASSUME ~AlreadyIn(b)
        PROVE  /\ Good(row) /\ Yields(Db, row) /\ row.pairings = Db.pairings /\ row.bookings[b].status # "free"
               /\ Single(Db) => Single(row)
    <3>1. ~ /\ Db.bookings[b].status = "confirmed" /\ Db.bookings[b].hold # "none"
            /\ Db.bookings[b].kind = "paired"
      BY <2>2, Columns DEF AlreadyIn
    <3>2. Db.bookings[b].hold # "held"
      BY <1>1, <1>2, <3>1, Zenon DEF Good, GoodBooking
    <3>3. Keeps(Db, row)
      BY <1>1, <1>2, <1>5, <2>2, <3>2, ConfirmRowKeeps, Columns
    <3>4. /\ OnlyBookings(Db, row, {b}) /\ ConfirmedRow(Db.bookings[b], row.bookings[b])
          /\ row.booked = Db.booked
      BY <1>1, <1>2, ConfirmRowRows
    <3> HIDE DEF row
    <3>5. Taken(row, b) /\ row.bookings[b].status # "free"
      BY <3>4 DEF ConfirmedRow, Taken, TakesSpot
    <3>6. /\ \A c \in BookingId \ {b} : row.bookings[c] = Db.bookings[c]
          /\ row.pairings = Db.pairings
          /\ row.bookings[b].shift = Db.bookings[b].shift
          /\ row.bookings[b].user = Db.bookings[b].user
      BY <1>2, <3>4 DEF OnlyBookings, ConfirmedRow
    <3>7. /\ Taken(row, b) <=> Taken(Db, b)
          /\ Active(row, b) => Active(Db, b)
          /\ row.booked = Db.booked
      BY <1>3, <3>4, <3>5
    <3>8. \A q \in PairingId : Db.pairings[q].status = "free" => row.pairings[q].status = "free"
      BY <3>6
    <3>9. \A c \in BookingId :
            /\ row.bookings[c].shift = Db.bookings[c].shift
            /\ row.bookings[c].user = Db.bookings[c].user
            /\ Taken(row, c) <=> Taken(Db, c)
            /\ Active(row, c) => Active(Db, c)
      BY <3>6, <3>7 DEF Taken, Active
    <3>10. Counted(Db) => Counted(row)
      BY <3>7, <3>9, SameSpots
    <3>11. Yields(Db, row)
      BY <3>8, <3>9, <3>10 DEF Yields
    <3>12. Single(Db) => Single(row)
      <4>1. NoSearchBegins(Db, row) /\ row.bookings[b].kind # "solo"
        BY <3>4 DEF OnlyBookings, NoSearchBegins, ConfirmedRow
      <4> QED BY <3>6, <4>1, SoloStays
    <3> QED BY <3>3, <3>5, <3>6, <3>11, <3>12 DEF Keeps
  <2> HIDE DEF row
  <2> QED BY <2>1, <2>2
<1> HIDE DEF d
<1>7. /\ Good(e) /\ Yields(d, e) /\ (Single(d) => Single(e))
      /\ \A q \in PairingId : Open(d, q) => e.pairings[q].status \notin {"declined", "expired"}
  <2>1. CASE Ready(d, p)
    <3>1. PairOK(Db, p)
      BY <1>1 DEF Agrees
    <3>2. Finalized(d, e, p)
      BY <1>1, <1>6, <2>1, <3>1, FinalizeRows DEF PairOK, Open
    <3> HIDE DEF e
    <3>3. \A s_1 \in Side : d.pairings[p].booking[s_1] \in BookingId
      BY <1>1, <1>6, Linked
    <3>4. \A c \in BookingId : e.bookings[c].status = d.bookings[c].status
      <4>1. ASSUME NEW c \in BookingId, NEW x \in Side, d.pairings[p].booking[x] = c
            PROVE  e.bookings[c].status = d.bookings[c].status
        BY <3>2, <4>1 DEF Finalized, Joined, BookingOf
      <4> QED BY <3>2, <4>1 DEF Finalized, Names
    <3>5. e.booked = d.booked /\ Keeps(d, e)
      BY <3>2 DEF Finalized
    <3>6. \A c \in BookingId : (Taken(e, c) <=> Taken(d, c)) /\ (Active(e, c) <=> Active(d, c))
      BY <3>4 DEF Taken, Active
    <3>7. Counted(d) => Counted(e)
      BY <3>5, <3>6, SameSpots DEF Keeps
    <3>8. Yields(d, e)
      BY <3>5, <3>6, <3>7 DEF Yields, Keeps
    <3>9. \A q \in PairingId : Open(d, q) => e.pairings[q].status \notin {"declined", "expired"}
      BY <3>2 DEF Finalized, Open
    <3>10. Single(d) => Single(e)
      <4>1. NoSearchBegins(d, e)
        <5>1. ASSUME NEW q \in RequestId PROVE e.requests[q] = d.requests[q] \/ e.requests[q].status = "matched"
          BY <3>2 DEF Finalized, Carries, Matched, RequestOf
        <5>2. \A q \in RequestId : e.pairings[p].request = d.pairings[p].request
          BY <3>2 DEF Finalized
        <5> QED BY <5>1 DEF NoSearchBegins, OpenRequest
      <4>2. ASSUME NEW c \in BookingId, e.bookings[c].kind = "solo"
            PROVE  e.bookings[c] = d.bookings[c]
        <5>1. ASSUME NEW x \in Side, d.pairings[p].booking[x] = c PROVE FALSE
          <6>1. d.bookings[c].kind = "paired"
            BY <2>1, <5>1 DEF Ready
          <6>2. e.bookings[c].kind = d.bookings[c].kind
            BY <3>2, <5>1 DEF Finalized, Joined, BookingOf
          <6> QED BY <4>2, <6>1, <6>2
        <5> QED BY <3>2, <5>1 DEF Finalized, Names
      <4> QED BY <4>1, <4>2, SoloStays
    <3> QED BY <3>5, <3>8, <3>9, <3>10 DEF Keeps
  <2>2. CASE ~Ready(d, p)
    <3>1. e = d
      BY <2>2 DEF FinalizeIfReady
    <3> QED BY <1>6, <3>1, NoneYields DEF Open
  <2> QED BY <2>1, <2>2
<1> HIDE DEF e
<1>8. Yields(Db, e) /\ AnchorsStay(Db, e) /\ (Single(Db) => Single(e))
  BY <1>6, <1>7, YieldsChain, NothingEnds DEF Open
<1> QED BY <1>4, <1>7, <1>8, CommitLeaves DEF Leaves

-----------------------------------------------------------------------------
(* Places given out: rsvpSolo and createProposal. *)

(* New bookings take spots of one shift, and the counter goes up by them.  *)
LEMMA SpotsTaken ==
    ASSUME NEW d, Good(d), Counted(d), NEW e, NEW s \in Shift, NEW N \in SUBSET BookingId,
           \A c \in N : d.bookings[c].status = "free" /\ Taken(e, c) /\ e.bookings[c].shift = s,
           \A c \in BookingId \ N : e.bookings[c] = d.bookings[c],
           d.booked[s] + Cardinality(N) <= Capacity[s],
           e.booked = [d.booked EXCEPT ![s] = @ + Cardinality(N)]
    PROVE  Counted(e)
<1> DEFINE S == Spots(d, s)
<1>1. d.booked \in [Shift -> Nat] /\ Capacity[s] \in Nat
  BY LifecycleAssumption DEF Good, DbType
<1>2. IsFiniteSet(S) /\ Cardinality(S) \in Nat
  BY SpotsFinite
<1>3. IsFiniteSet(N) /\ Cardinality(N) \in Nat
  <2>1. IsFiniteSet(BookingId)
    BY LifecycleAssumption, FS_Interval DEF BookingId
  <2> QED BY <2>1, FS_Subset, FS_CardinalityType
<1>4. S \cap N = {} /\ Spots(e, s) = S \cup N
  BY DEF Spots, Taken, TakesSpot
<1>5. \A t \in Shift \ {s} : Spots(e, t) = Spots(d, t)
  BY DEF Spots, Taken, TakesSpot
<1>6. d.booked[s] = Cardinality(S)
  BY DEF Counted
<1> HIDE DEF S
<1>7. Cardinality(S \cup N) = Cardinality(S) + Cardinality(N)
  <2>1. Cardinality(S \cap N) = 0
    BY <1>4, FS_EmptySet
  <2>2. Cardinality(S \cup N) = Cardinality(S) + Cardinality(N) - Cardinality(S \cap N)
    BY <1>2, <1>3, FS_Union
  <2> QED BY <1>2, <1>3, <2>1, <2>2
<1>8. e.booked[s] = Cardinality(Spots(e, s)) /\ e.booked[s] <= Capacity[s]
  BY <1>1, <1>4, <1>6, <1>7
<1>9. ASSUME NEW t \in Shift \ {s}
      PROVE  e.booked[t] = Cardinality(Spots(e, t)) /\ e.booked[t] <= Capacity[t]
  BY <1>1, <1>5 DEF Counted
<1> QED BY <1>8, <1>9 DEF Counted

(* New places overlap none of the person's other places.                   *)
NewPlaces(d, e, N, s) ==
    /\ \A c \in N :
        /\ e.bookings[c].shift = s
        /\ \A b \in BookingId :
            b # c /\ Active(e, b) /\ e.bookings[b].user = e.bookings[c].user =>
                ~Overlap(s, e.bookings[b].shift)
    /\ \A c \in BookingId \ N : e.bookings[c] = d.bookings[c]

LEMMA PlacesTaken ==
    ASSUME NEW d, Separate(d), NEW e, NEW s, NEW N \in SUBSET BookingId, NewPlaces(d, e, N, s)
    PROVE  Separate(e)
<1> SUFFICES ASSUME NEW b \in BookingId, NEW c \in BookingId,
                    b # c, e.bookings[b].user = e.bookings[c].user, Active(e, b), Active(e, c)
             PROVE  ~Overlap(e.bookings[b].shift, e.bookings[c].shift)
  BY DEF Separate
<1>1. \A x, y : Overlap(x, y) <=> Overlap(y, x)
  BY DEF Overlap
<1>2. CASE b \in N \/ c \in N
  BY <1>1, <1>2 DEF NewPlaces
<1>3. CASE b \notin N /\ c \notin N
  BY <1>3 DEF Separate, Active, NewPlaces
<1> QED BY <1>2, <1>3

(* rsvpSolo.                                                               *)
LEMMA RsvpSoloPlaces ==
    ASSUME AInv, NEW u \in User, NEW s \in Shift, RsvpSolo(u, s)
    PROVE  /\ Counted(Db) => Counted(Db')
           /\ Separate(Db) => Separate(Db')
           /\ UNCHANGED pairings
<1> DEFINE bk == SoloBooking(u, s)
           e == Db'
<1>1. PICK b \in BookingId : bookings[b].status = "free" /\ bookings' = [bookings EXCEPT ![b] = bk]
  BY Zenon DEF RsvpSolo, Fresh
<1>2. /\ ~Overlaps(s, ActiveBookings(u)) /\ CanReserve(Db, s, 1)
      /\ booked' = ReserveSpots(Db, s, 1).booked /\ UNCHANGED pairings
  BY Zenon DEF RsvpSolo
<1>3. bk.status = "confirmed" /\ bk.user = u /\ bk.shift = s
  BY DEF SoloBooking, NoBooking
<1>4. /\ e.bookings[b] = bk /\ \A c \in BookingId \ {b} : e.bookings[c] = Db.bookings[c]
      /\ Db.bookings[b].status = "free" /\ e.booked = booked'
  BY <1>1, Rows DEF Db
<1>5. /\ Db.booked[s] + 1 <= Capacity[s]
      /\ e.booked = [Db.booked EXCEPT ![s] = @ + 1]
  BY <1>2, <1>4 DEF CanReserve, ReserveSpots, Db
<1>6. Cardinality({b}) = 1
  BY FS_Singleton
<1>7. Db' = e
  OBVIOUS
<1> HIDE DEF e, bk
<1>8. Taken(e, b) /\ e.bookings[b].shift = s /\ e.bookings[b].user = u
  BY <1>3, <1>4 DEF Taken, TakesSpot
<1>9. ASSUME Counted(Db) PROVE Counted(e)
  <2>1. /\ \A c \in {b} : Db.bookings[c].status = "free" /\ Taken(e, c) /\ e.bookings[c].shift = s
        /\ Db.booked[s] + Cardinality({b}) <= Capacity[s]
        /\ e.booked = [Db.booked EXCEPT ![s] = @ + Cardinality({b})]
    BY <1>4, <1>5, <1>6, <1>8
  <2>2. Good(Db) /\ {b} \in SUBSET BookingId
    BY Rows
  <2> QED BY <1>4, <1>9, <2>1, <2>2, SpotsTaken
<1>10. ASSUME Separate(Db) PROVE Separate(e)
  <2>1. ASSUME NEW c \in BookingId, b # c, Active(e, c), e.bookings[c].user = u
        PROVE  ~Overlap(s, e.bookings[c].shift)
    <3>1. e.bookings[c] = bookings[c]
      BY <1>4, <2>1, Columns
    <3> QED BY <1>2, <2>1, <3>1 DEF Overlaps, ActiveBookings, Active
  <2>2. {b} \in SUBSET BookingId /\ NewPlaces(Db, e, {b}, s)
    BY <1>4, <1>8, <2>1 DEF NewPlaces
  <2> QED BY <1>10, <2>2, PlacesTaken
<1> QED BY <1>2, <1>7, <1>9, <1>10

(* Each side's place is of the person whose search it is, and nobody is    *)
(* given two: an anchored search brings what it has.                       *)
LEMMA ProposedPlace ==
    ASSUME AInv, NEW e, NEW p, NEW r \in RequestId, NEW b, NEW s, Proposed(Db, e, p, r, b, s)
    PROVE  /\ e.bookings[b].user = requests[r].user /\ e.bookings[b].shift = s
           /\ IF requests[r].anchor = None
              THEN Db.bookings[b].status = "free" /\ e.bookings[b].status = "proposed"
              ELSE Db.bookings[b].status # "free" /\ e.bookings[b] = Db.bookings[b]
<1>1. RequestOK(Db, r) /\ Db.requests = requests
  BY Rows
<1>2. CASE requests[r].anchor = None
  BY <1>1, <1>2 DEF Proposed
<1>3. CASE requests[r].anchor # None
  <2>1. /\ b = requests[r].anchor /\ e.bookings[b] = Db.bookings[b]
        /\ e.bookings[b].shift = s /\ requests[r].status = "searching"
    BY <1>1, <1>3 DEF Proposed
  <2>2. Db.bookings[b].status # "free" /\ Db.bookings[b].user = requests[r].user
    BY <1>1, <1>3, <2>1 DEF RequestOK
  <2> QED BY <1>3, <2>1, <2>2
<1> QED BY <1>2, <1>3

(* Two things are two.                                                     *)
LEMMA TwoOf ==
    ASSUME NEW x, NEW y, x # y
    PROVE  Cardinality({x, y}) = 2
<1>1. IsFiniteSet({x}) /\ Cardinality({x}) = 1
  BY FS_Singleton
<1>2. Cardinality({x} \cup {y}) = 2
  BY <1>1, FS_AddElement
<1>3. {x} \cup {y} = {x, y}
  OBVIOUS
<1> QED BY <1>2, <1>3

(* The proposals of the run under way are open.                            *)
RunOK == \A p \in written : p \in PairingId /\ pairings[p].status = "proposed"

(* What a run has written holds no place of those it still works for: they *)
(* have no other search that could have given them one.                    *)
LEMMA UnwrittenAll ==
    ASSUME AInv, OneFree(Db), RunOK, NEW r \in RequestId,
           requests[r].status = "searching", requests[r].anchor = None,
           NEW b \in ActiveBookings(requests[r].user)
    PROVE  bookings[b].pairing \notin written
<1> SUFFICES ASSUME bookings[b].pairing \in written PROVE FALSE
  OBVIOUS
<1> DEFINE p == bookings[b].pairing
<1>1. /\ b \in BookingId /\ bookings[b].user = requests[r].user
      /\ bookings[b].status \in ActiveBooking
  BY DEF ActiveBookings
<1>2. /\ p \in PairingId /\ Open(Db, p) /\ Good(Db) /\ p # None
      /\ Db.pairings[p].status # "free"
  BY Rows, NoneIsNoRow DEF RunOK, Open
<1>3. PICK s \in Side : pairings[p].booking[s] = b
  <2>1. BookingOK(Db, b)
    BY <1>1, Rows DEF Agrees
  <2> QED BY <1>1, <1>2, <2>1, Rows DEF BookingOK, Names, ActiveBooking
<1> DEFINE q == pairings[p].request[s]
<1>4. SideOK(Db, p, s) /\ \A k \in RequestId : RequestOK(Db, k)
  BY <1>2, Rows DEF Agrees
<1>5. q \in RequestId
  BY <1>2, Linked, Rows
<1>6. /\ requests[q].status = "proposed" /\ requests[q].user = bookings[b].user
  BY <1>2, <1>3, <1>4, Rows DEF SideOK, RequestOf, BookingOf
<1>7. requests[q].anchor = None
  <2>1. BookingOf(Db, p, s).pairing = p
    BY <1>3, Rows DEF BookingOf
  <2>2. RequestOf(Db, p, s) = requests[q]
    BY Rows DEF RequestOf
  <2> HIDE DEF p, q
  <2> QED BY <1>2, <1>4, <2>1, <2>2, AnchoredSide
<1>8. q = r
  <2> HIDE DEF q
  <2> QED BY <1>1, <1>5, <1>6, <1>7, Rows DEF OneFree, OpenRequest
<1> QED BY <1>6, <1>8

(* createProposal: a side that brings a booking has its place already, the *)
(* other one takes a spot that is left and overlaps none of theirs.        *)
LEMMA CreateProposalPlaces ==
    ASSUME AInv, NEW ra \in RequestId, NEW rb \in RequestId, NEW s \in Shift,
           CreateProposal(ra, rb, s)
    PROVE  /\ Counted(Db) => Counted(Db')
           /\ Separate(Db) /\ OneFree(Db) /\ RunOK => Separate(Db')
<1> DEFINE e == Db'
<1>1. PICK ba \in BookingId, bb \in BookingId, p \in PairingId :
        NewProposal(Db, e, p, ra, rb, ba, bb, s)
  BY CreateProposalRows
<1>2. /\ CanReserve(Db, s, SpotsNeeded(ra, rb)) /\ CanGo(ra, s) /\ CanGo(rb, s)
      /\ booked' = ReserveSpots(Db, s, SpotsNeeded(ra, rb)).booked
  BY Zenon DEF CreateProposal
<1>3. e.booked = booked' /\ Db' = e
  BY DEF Db
<1> HIDE DEF e
<1> DEFINE N == {c \in {ba, bb} : Db.bookings[c].status = "free"}
           R == {r \in {ra, rb} : requests[r].anchor = None}
<1>4. /\ ra # rb /\ ba # bb
      /\ Proposed(Db, e, p, ra, ba, s) /\ Proposed(Db, e, p, rb, bb, s)
      /\ requests[ra].user # requests[rb].user
      /\ \A c \in BookingId \ {ba, bb} : e.bookings[c] = Db.bookings[c]
  BY <1>1, Rows DEF NewProposal
<1>5. ASSUME NEW r \in {ra, rb}, NEW b \in {ba, bb}, b = ba <=> r = ra
      PROVE  /\ b \in N <=> r \in R
             /\ b \notin N => e.bookings[b] = Db.bookings[b]
             /\ b \in N => e.bookings[b].status = "proposed"
             /\ e.bookings[b].shift = s /\ e.bookings[b].user = requests[r].user
             /\ CanGo(r, s)
  <2>1. Proposed(Db, e, p, r, b, s) /\ CanGo(r, s)
    BY <1>2, <1>4, <1>5
  <2> QED BY <1>5, <2>1, ProposedPlace
<1>6. Cardinality(N) = Cardinality(R)
  <2>1. (ba \in N <=> ra \in R) /\ (bb \in N <=> rb \in R)
    BY <1>4, <1>5
  <2>2. N \subseteq {ba, bb} /\ R \subseteq {ra, rb}
    OBVIOUS
  <2> HIDE DEF N, R
  <2>3. Cardinality({ba, bb}) = 2 /\ Cardinality({ra, rb}) = 2
    BY <1>4, TwoOf
  <2>4. CASE ba \in N /\ bb \in N
    <3>1. N = {ba, bb} /\ R = {ra, rb}
      BY <2>1, <2>2, <2>4
    <3> QED BY <2>3, <3>1
  <2>5. CASE ba \in N /\ bb \notin N
    <3>1. N = {ba} /\ R = {ra}
      BY <2>1, <2>2, <2>5
    <3> QED BY <3>1, FS_Singleton
  <2>6. CASE ba \notin N /\ bb \in N
    <3>1. N = {bb} /\ R = {rb}
      BY <2>1, <2>2, <2>6
    <3> QED BY <3>1, FS_Singleton
  <2>7. CASE ba \notin N /\ bb \notin N
    <3>1. N = {} /\ R = {}
      BY <2>1, <2>2, <2>7
    <3> QED BY <3>1
  <2> QED BY <2>4, <2>5, <2>6, <2>7
<1>7. N \in SUBSET BookingId /\ \A c \in BookingId \ N : e.bookings[c] = Db.bookings[c]
  BY <1>4, <1>5
<1>8. \A c \in N : /\ Db.bookings[c].status = "free" /\ e.bookings[c].status = "proposed"
                   /\ e.bookings[c].shift = s
  BY <1>4, <1>5
<1>9. SpotsNeeded(ra, rb) = Cardinality(N)
  BY <1>6 DEF SpotsNeeded
<1>10. ASSUME Counted(Db) PROVE Counted(e)
  <2>1. /\ Db.booked[s] + Cardinality(N) <= Capacity[s]
        /\ e.booked = [Db.booked EXCEPT ![s] = @ + Cardinality(N)]
    BY <1>2, <1>3, <1>9 DEF CanReserve, ReserveSpots, Db
  <2>2. \A c \in N : Db.bookings[c].status = "free" /\ Taken(e, c) /\ e.bookings[c].shift = s
    BY <1>8 DEF Taken, TakesSpot
  <2> HIDE DEF N
  <2> QED BY <1>7, <1>10, <2>1, <2>2, Rows, SpotsTaken
<1>11. ASSUME Separate(Db), OneFree(Db), RunOK PROVE Separate(e)
  <2>1. ASSUME NEW c \in N, NEW b \in BookingId, b # c, Active(e, b),
               e.bookings[b].user = e.bookings[c].user
        PROVE  ~Overlap(s, e.bookings[b].shift)
    <3>1. PICK r \in {ra, rb} : (c = ba <=> r = ra)
      BY <1>4
    <3>2. /\ e.bookings[c].user = requests[r].user /\ requests[r].anchor = None /\ CanGo(r, s)
      BY <1>5, <2>1, <3>1
    <3>3. b \notin {ba, bb}
      BY <1>4, <1>5, <2>1
    <3>4. e.bookings[b] = bookings[b]
      BY <1>4, <3>3, Rows
    <3>5. ~Overlaps(s, Unwritten(ActiveBookings(requests[r].user)))
      BY <3>2 DEF CanGo
    <3>6. b \in Unwritten(ActiveBookings(requests[r].user))
      <4>1. b \in ActiveBookings(requests[r].user)
        BY <2>1, <3>2, <3>4 DEF ActiveBookings, Active
      <4>2. requests[r].status = "searching"
        BY <1>4, Rows DEF Proposed
      <4>3. bookings[b].pairing \notin written
        BY <1>11, <3>2, <4>1, <4>2, UnwrittenAll
      <4> QED BY <4>1, <4>3 DEF Unwritten
    <3> QED BY <3>4, <3>5, <3>6 DEF Overlaps
  <2>2. NewPlaces(Db, e, N, s)
    BY <1>7, <1>8, <2>1 DEF NewPlaces
  <2> HIDE DEF N
  <2> QED BY <1>7, <1>11, <2>2, PlacesTaken
<1> QED BY <1>3, <1>10, <1>11

-----------------------------------------------------------------------------
(* The invariant, and the theorems. *)

(* A step that gives places up keeps them apart.                           *)
(* A new spot of one's own has had no hold; only it is sought for anew.    *)
LEMMA RsvpSoloSolo ==
    ASSUME AInv, NEW u \in User, NEW s \in Shift, RsvpSolo(u, s), Single(Db)
    PROVE  Single(Db')
<1> DEFINE bk == SoloBooking(u, s)
           e == Db'
<1>1. PICK b \in BookingId, r \in RequestId :
        /\ bookings[b].status = "free" /\ bookings' = [bookings EXCEPT ![b] = bk]
        /\ \E row : row.anchor = b /\ \A q \in RequestId :
                \/ requests'[q] = requests[q] \/ requests'[q].status = "cancelled"
                \/ requests'[q] = row
  <2> DEFINE deadline == Before(Start[s], LastResponse)
             looks == deadline > now /\ ~CapReached(u)
  <2>1. PICK b \in BookingId, r \in RequestId :
            /\ bookings[b].status = "free" /\ bookings' = [bookings EXCEPT ![b] = bk]
            /\ requests' = [q \in RequestId |->
                    IF IsLatest(q, OpenRequests(u))
                    THEN [requests[q] EXCEPT !.status = "cancelled"]
                    ELSE IF q = r /\ looks
                    THEN NewRequest(u, "solo_rsvp", deadline, b)
                    ELSE requests[q]]
    BY Zenon DEF RsvpSolo, Fresh
  <2> HIDE DEF deadline, looks
  <2>2. NewRequest(u, "solo_rsvp", deadline, b).anchor = b
    BY DEF NewRequest
  <2>3. \A q \in RequestId : [requests[q] EXCEPT !.status = "cancelled"].status = "cancelled"
    BY Rows DEF Request
  <2>4. \A q \in RequestId :
            \/ requests'[q] = requests[q] \/ requests'[q].status = "cancelled"
            \/ requests'[q] = NewRequest(u, "solo_rsvp", deadline, b)
    BY <2>1, <2>3, Zenon
  <2>5. \E row : row.anchor = b /\ \A q \in RequestId :
            \/ requests'[q] = requests[q] \/ requests'[q].status = "cancelled"
            \/ requests'[q] = row
    BY <2>2, <2>4, Zenon
  <2> QED BY <2>1, <2>5, Zenon
<1>2. bk.hold = "none" /\ bk.pairing = None
  BY DEF SoloBooking, NoBooking
<1>3. /\ e.bookings[b] = bk /\ \A c \in BookingId \ {b} : e.bookings[c] = Db.bookings[c]
      /\ e.requests = requests'
  BY <1>1, Rows DEF Db
<1>4. Db' = e
  OBVIOUS
<1> HIDE DEF e, bk
<1>5. ASSUME NEW c \in BookingId, e.bookings[c].kind = "solo" PROVE SpotOfOnesOwn(e, c)
  <2>1. CASE c = b
    BY <1>2, <1>3, <2>1 DEF SpotOfOnesOwn, HadHold
  <2>2. CASE c # b
    <3>1. e.bookings[c] = Db.bookings[c]
      BY <1>3, <2>2
    <3>2. Sought(e, c) => Sought(Db, c)
      BY <1>1, <1>3, <2>2, Rows DEF Sought, OpenRequest
    <3> QED BY <1>5, <3>1, <3>2 DEF Single, Solo, SpotOfOnesOwn
  <2> QED BY <2>1, <2>2
<1>6. OneFree(e)
  <2>1. \A q \in RequestId : e.requests[q].status \in OpenRequest /\ e.requests[q].anchor = None =>
            e.requests[q] = Db.requests[q]
    BY <1>1, <1>3, Rows, NoneIsNoRow DEF OpenRequest
  <2> QED BY <2>1 DEF OneFree, Single
<1> QED BY <1>4, <1>5, <1>6 DEF Single, Solo

(* What is made for a proposal is made for two, and brings no search.      *)
LEMMA CreateProposalSolo ==
    ASSUME AInv, NEW ra \in RequestId, NEW rb \in RequestId, NEW s \in Shift,
           CreateProposal(ra, rb, s), Single(Db)
    PROVE  Single(Db')
<1> DEFINE e == Db'
<1>1. PICK ba \in BookingId, bb \in BookingId, p \in PairingId :
        NewProposal(Db, e, p, ra, rb, ba, bb, s)
  BY CreateProposalRows
<1>2. Db' = e
  OBVIOUS
<1> HIDE DEF e
<1>3. NoSearchBegins(Db, e)
  <2>1. \A q \in {ra, rb} : /\ e.requests[q].anchor = Db.requests[q].anchor
                            /\ e.requests[q].user = Db.requests[q].user
                            /\ Db.requests[q].status = "searching"
    BY <1>1 DEF NewProposal, Proposed
  <2>2. \A q \in RequestId \ {ra, rb} : e.requests[q] = Db.requests[q]
    BY <1>1 DEF NewProposal
  <2> QED BY <2>1, <2>2 DEF NoSearchBegins, OpenRequest
<1>4. ASSUME NEW c \in BookingId, e.bookings[c].kind = "solo"
      PROVE  e.bookings[c] = Db.bookings[c]
  <2>1. c \in {ba, bb} => e.bookings[c] = Db.bookings[c] \/ e.bookings[c].kind = "paired"
    BY <1>1 DEF NewProposal, Proposed
  <2>2. c \notin {ba, bb} => e.bookings[c] = Db.bookings[c]
    BY <1>1 DEF NewProposal
  <2> QED BY <1>4, <2>1, <2>2
<1>5. Single(e)
  BY <1>3, <1>4, SoloStays
<1> QED BY <1>2, <1>5

LEMMA YieldsSeparate ==
    ASSUME NEW d, NEW e, Yields(d, e), Separate(d)
    PROVE  Separate(e)
BY DEF Yields, Separate

(* Every step leaves places or gives them out.                             *)
LEMMA StepLeaves ==
    ASSUME AInv, [Next]_vars
    PROVE  \/ Leaves(Db, Db')
           \/ \E u \in User, s \in Shift : RsvpSolo(u, s)
           \/ \E ra, rb \in RequestId, s \in Shift : CreateProposal(ra, rb, s)
<1>1. CASE UserStep
  BY <1>1, SearchingLeaves, CancelRequestLeaves, ConfirmLeaves, DeclineLeaves, CancelBookingLeaves,
     ReportPartnerLeaves, BailReleaseLeaves DEF UserStep
<1>2. CASE OrgStep
  BY <1>2, ShiftDayLeaves DEF OrgStep
<1>3. CASE Matching
  BY <1>3 DEF Matching
<1>4. CASE Tick
  BY <1>4, TickExpireProposalLeaves, TickBailNoResponseLeaves, TickSearchDeadlineLeaves,
     TickCompleteLeaves, ShiftDayLeaves DEF Tick
<1>5. CASE Advance \/ UNCHANGED vars
  <2>1. UNCHANGED <<booked, bookings, pairings, requests>>
    BY <1>5 DEF Advance, vars
  <2>2. OneFree(Db) => OneFree(Db')
    BY <2>1 DEF OneFree, Db
  <2> QED BY <2>1, <2>2, SearchLeaves
<1> QED BY <1>1, <1>2, <1>3, <1>4, <1>5 DEF Next

(* The counter is the spots taken, nobody has two places at once, a solo   *)
(* spot is its user's alone, and so is a search for a place.               *)
PInv == AInv /\ Counted(Db) /\ Separate(Db) /\ Single(Db) /\ RunOK

LEMMA InitPlaces == Init => PInv
<1> SUFFICES ASSUME Init PROVE Counted(Db) /\ Separate(Db) /\ Single(Db)
  BY InitAgrees DEF PInv, RunOK, Init
<1>1. /\ \A b \in BookingId : Db.bookings[b].status = "free" /\ Db.bookings[b].kind = "paired"
      /\ \A s \in Shift : Db.booked[s] = 0 /\ Capacity[s] \in Nat
  BY LifecycleAssumption, Columns DEF Init, NoBooking
<1>2. \A s \in Shift : Spots(Db, s) = {}
  BY <1>1 DEF Spots, Taken, TakesSpot
<1>3. Counted(Db)
  BY <1>1, <1>2, FS_EmptySet DEF Counted
<1>4. Separate(Db)
  BY <1>1 DEF Separate, Active, ActiveBooking
<1>5. Single(Db)
  <2>1. \A r \in RequestId : Db.requests[r].status = "free"
    BY Columns DEF Init, NoRequest
  <2> QED BY <1>1, <2>1 DEF Single, Solo, OneFree, OpenRequest
<1> QED BY <1>3, <1>4, <1>5

(* A run goes on with a new proposal, or is over.                          *)
LEMMA StepRunOK == PInv /\ [Next]_vars => RunOK'
<1> SUFFICES ASSUME PInv, [Next]_vars PROVE RunOK'
  OBVIOUS
<1>1. ASSUME NEW ra \in RequestId, NEW rb \in RequestId, NEW s \in Shift, CreateProposal(ra, rb, s)
      PROVE  RunOK'
  <2>1. PICK ba \in BookingId, bb \in BookingId, p \in PairingId :
          NewProposal(Db, Db', p, ra, rb, ba, bb, s) /\ written' = written \cup {p}
    BY <1>1, CreateProposalRows DEF PInv
  <2>2. /\ pairings'[p].status = "proposed"
        /\ \A q \in PairingId \ {p} : pairings'[q] = pairings[q]
    BY <2>1 DEF NewProposal, Db
  <2> QED BY <2>1, <2>2 DEF PInv, RunOK
<1>2. CASE written' = {}
  BY <1>2 DEF RunOK
<1>3. CASE UNCHANGED vars
  BY <1>3 DEF PInv, RunOK, vars
<1> QED BY <1>1, <1>2, <1>3, RunSteps

LEMMA StepPlaces == PInv /\ [Next]_vars => PInv'
<1> SUFFICES ASSUME PInv, [Next]_vars PROVE Counted(Db') /\ Separate(Db') /\ Single(Db')
  BY StepAgrees, StepRunOK DEF PInv, Counted, Separate, Spots, Taken, Active,
                    Single, Solo, OneFree, SpotOfOnesOwn, HadHold, Sought
<1>1. AInv /\ Counted(Db) /\ Separate(Db) /\ Single(Db) /\ OneFree(Db) /\ RunOK
  BY DEF PInv, Single
<1>2. CASE Leaves(Db, Db')
  <2> DEFINE e == Db'
  <2>1. Yields(Db, e) /\ Single(e)
    BY <1>1, <1>2 DEF Leaves
  <2> HIDE DEF e
  <2>2. Counted(e) /\ Separate(e) /\ Single(e)
    BY <1>1, <2>1, YieldsSeparate DEF Yields
  <2> QED BY <2>2 DEF e
<1>3. CASE \E u \in User, s \in Shift : RsvpSolo(u, s)
  BY <1>1, <1>3, RsvpSoloPlaces, RsvpSoloSolo
<1>4. CASE \E ra, rb \in RequestId, s \in Shift : CreateProposal(ra, rb, s)
  BY <1>1, <1>4, CreateProposalPlaces, CreateProposalSolo
<1> QED BY <1>1, <1>2, <1>3, <1>4, StepLeaves

(* The invariant of places holds throughout.                               *)
THEOREM Places == Spec => []PInv
BY InitPlaces, StepPlaces, PTL DEF Spec

(* The capacity counter (lib/shifts.js) is the bookings that take a spot,  *)
(* and never more than there are, through every path that reserves or      *)
(* releases one.                                                           *)
THEOREM CapacityIsCounted == Spec => []CapacityCounts
<1>1. PInv => CapacityCounts
  BY Columns DEF PInv, Counted, Spots, Taken, CapacityCounts
<1> QED BY <1>1, Places, PTL

(* Nobody is wanted in two places: checked against every place when one is *)
(* given out, by rsvpSolo and by the snapshot createProposal acts on.      *)
THEOREM PlacesNeverOverlap == Spec => []NoDoubleBooking
<1>1. PInv => NoDoubleBooking
  <2> SUFFICES ASSUME PInv, NEW b \in BookingId, NEW c \in BookingId,
                      b # c, bookings[b].user = bookings[c].user,
                      bookings[b].status \in ActiveBooking, bookings[c].status \in ActiveBooking
               PROVE  HoursOf(b) \cap HoursOf(c) = {}
    BY DEF NoDoubleBooking
  <2>1. ~Overlap(bookings[b].shift, bookings[c].shift)
    BY Columns DEF PInv, Separate, Active
  <2>2. bookings[b].shift \in Shift /\ bookings[c].shift \in Shift
    <3>1. GoodBooking(bookings[b]) /\ GoodBooking(bookings[c])
      BY GoodNow DEF PInv, AInv
    <3> QED BY <3>1 DEF GoodBooking, ActiveBooking
  <2>3. /\ Start[bookings[b].shift] \in Nat /\ End[bookings[b].shift] \in Nat
        /\ Start[bookings[c].shift] \in Nat /\ End[bookings[c].shift] \in Nat
    BY <2>2, LifecycleAssumption
  <2> QED BY <2>1, <2>3 DEF Overlap, HoursOf
<1> QED BY <1>1, Places, PTL

-----------------------------------------------------------------------------
(* A report. *)

(* From d to e nobody forfeits Deeds, and no booking begins to count       *)
(* toward the cap.                                                         *)
Spares(d, e) ==
    /\ e.lost = d.lost
    /\ \A c \in BookingId : e.bookings[c].cap => d.bookings[c].cap

(* A hold that is released costs nobody anything.                          *)
LEMMA ReleasedSpares ==
    ASSUME NEW d, Good(d), NEW b \in BookingId
    PROVE  LET e == ResolveHold(d, b, "released")
           IN  /\ Spares(d, e) /\ e.bookings \in [BookingId -> Booking]
               /\ d.bookings[b].hold = "held" => e.bookings[b].hold = "released"
<1> DEFINE row == [d.bookings[b] EXCEPT !.hold = "released"]
           x == Settle(d, b, "released")
<1>1. d.bookings \in [BookingId -> Booking] /\ d.bookings[b] \in Booking
  BY DEF Good, DbType
<1>2. row \in Booking /\ row.cap = d.bookings[b].cap /\ row.hold = "released"
  BY <1>1 DEF Booking
<1>3. x.bookings = [d.bookings EXCEPT ![b] = row] /\ x.lost = d.lost
  BY DEF Settle, PutBooking, Good, DbType
<1> HIDE DEF x, row
<1>4. CASE d.bookings[b].hold = "held"
  <2>1. ResolveHold(d, b, "released") = x
    BY <1>4 DEF ResolveHold, x
  <2> QED BY <1>1, <1>2, <1>3, <2>1 DEF Spares
<1>5. CASE d.bookings[b].hold # "held"
  <2>1. ResolveHold(d, b, "released") = d
    BY <1>5 DEF ResolveHold
  <2> QED BY <1>1, <1>5, <2>1 DEF Spares
<1> QED BY <1>4, <1>5

(* releaseAndCancel and keepSpotSoloAfterRelease.                          *)
LEMMA GoneSpares ==
    ASSUME NEW d, Good(d), NEW b \in BookingId
    PROVE  LET out == ReleaseAndCancel(d, b)
               solo == KeepSpotSoloAfterRelease(d, b)
           IN  /\ Spares(d, out) /\ ~out.bookings[b].cap
               /\ Spares(d, solo) /\ ~solo.bookings[b].cap
               /\ d.bookings[b].hold = "held" => solo.bookings[b].hold = "released"
<1> DEFINE e == ResolveHold(d, b, "released")
           x == [e.bookings[b] EXCEPT !.status = "cancelled", !.cap = FALSE /\ @]
           y == [e.bookings[b] EXCEPT !.kind = "solo", !.pairing = None, !.cap = FALSE /\ @]
           out == ReleaseAndCancel(d, b)
           solo == KeepSpotSoloAfterRelease(d, b)
<1>1. /\ Spares(d, e) /\ e.bookings \in [BookingId -> Booking]
      /\ d.bookings[b].hold = "held" => e.bookings[b].hold = "released"
  BY ReleasedSpares
<1>2. e.bookings[b] \in Booking
  BY <1>1
<1>3. /\ out.bookings = [e.bookings EXCEPT ![b] = x] /\ out.lost = e.lost
      /\ solo.bookings = [e.bookings EXCEPT ![b] = y] /\ solo.lost = e.lost
  <2>1. Good(e)
    BY ResolveHoldKeeps DEF Keeps, HoldOutcome
  <2> HIDE DEF e
  <2> QED BY <2>1 DEF ReleaseAndCancel, KeepSpotSoloAfterRelease, CancelRow, SoloRow, ReleaseSpots,
                      PutBooking, Good, DbType, e
<1> HIDE DEF e, out, solo
<1>4. ~x.cap /\ ~y.cap /\ y.hold = e.bookings[b].hold
  BY <1>2 DEF Booking
<1> HIDE DEF x, y
<1> QED BY <1>1, <1>3, <1>4 DEF Spares, out, solo

LEMMA SparesChain ==
    ASSUME NEW d, NEW e, NEW f, Spares(d, e), Spares(e, f)
    PROVE  Spares(d, f)
BY DEF Spares

(* endProposal, the booking of one side: one made for the proposal counts  *)
(* toward the cap no more.                                                 *)
LEMMA EndSideBookingSpares ==
    ASSUME NEW d, Good(d), NEW p \in PairingId, d.pairings[p].status # "free",
           NEW s \in Side, NEW skip
    PROVE  LET b == d.pairings[p].booking[s]
               e == EndSideBooking(d, p, s, skip)
           IN  /\ Spares(d, e)
               /\ b # skip /\ d.bookings[b].pairing = p => ~e.bookings[b].cap
<1> DEFINE b == d.pairings[p].booking[s]
           r == d.pairings[p].request[s]
           row == [d.bookings[b] EXCEPT !.kind = "solo", !.hold = "none", !.cap = FALSE]
           x == ResolveHold(d, b, "released")
           y == PutBooking(x, b, row)
           z == ReleaseAndCancel(d, b)
           e == EndSideBooking(d, p, s, skip)
           solo == d.requests[r].kind = "solo_rsvp" /\ d.bookings[b].hold # "none"
<1>1. b \in BookingId /\ d.bookings[b] \in Booking
  BY Linked, Zenon DEF Good, DbType
<1>2. e = IF b = skip THEN d ELSE IF d.bookings[b].pairing = p THEN z ELSE IF solo THEN y ELSE d
  BY DEF EndSideBooking
<1>3. Spares(d, z) /\ ~z.bookings[b].cap
  <2> HIDE DEF b
  <2> QED BY <1>1, GoneSpares
<1>4. Spares(d, y)
  <2>1. Spares(d, x) /\ x.bookings \in [BookingId -> Booking] /\ Good(x)
    <3> HIDE DEF b
    <3> QED BY <1>1, ReleasedSpares, ResolveHoldKeeps DEF Keeps, HoldOutcome
  <2>2. ~row.cap
    BY <1>1 DEF Booking
  <2> HIDE DEF x, row, b
  <2>3. y.bookings = [x.bookings EXCEPT ![b] = row] /\ y.lost = x.lost
    BY <2>1 DEF PutBooking, Good, DbType
  <2> HIDE DEF y
  <2> QED BY <1>1, <2>1, <2>2, <2>3 DEF Spares
<1>5. Spares(d, d)
  BY DEF Spares
<1> HIDE DEF b, solo, y, z, e
<1> QED BY <1>2, <1>3, <1>4, <1>5 DEF b, e

LEMMA EndSideSpares ==
    ASSUME NEW d, Good(d), NEW p \in PairingId, d.pairings[p].status # "free",
           NEW s \in Side, NEW status, NEW actor, NEW keepLooking, NEW skip
    PROVE  LET b == d.pairings[p].booking[s]
               e == EndSide(d, p, s, status, actor, keepLooking, skip)
           IN  /\ Spares(d, e)
               /\ b # skip /\ d.bookings[b].pairing = p => ~e.bookings[b].cap
<1> DEFINE x == EndSideBooking(d, p, s, skip)
           e == EndSide(d, p, s, status, actor, keepLooking, skip)
<1>1. Good(x)
  BY EndSideBookingKeeps DEF Keeps
<1>2. PICK r, row : e = PutRequest(x, r, row)
  BY DEF EndSide
<1> HIDE DEF x, e
<1>3. e.bookings = x.bookings /\ e.lost = x.lost
  BY <1>1, <1>2 DEF PutRequest, Good, DbType
<1> QED BY <1>3, EndSideBookingSpares DEF Spares, x, e

LEMMA EndProposalSpares ==
    ASSUME NEW d, Good(d), NEW p \in PairingId, d.pairings[p].status = "proposed",
           NEW status \in {"declined", "expired"}, NEW actor, NEW keepLooking, NEW skip
    PROVE  LET e == EndProposal(d, p, status, actor, keepLooking, skip)
           IN  /\ Spares(d, e)
               /\ d.pairings[p].booking["a"] # d.pairings[p].booking["b"] =>
                    \A s \in Side :
                        LET b == d.pairings[p].booking[s]
                        IN  b # skip /\ d.bookings[b].pairing = p => ~e.bookings[b].cap
<1> DEFINE e == PutStatus(d, p, status)
           f == EndSide(e, p, "a", status, actor, keepLooking, skip)
           g == EndSide(f, p, "b", status, actor, keepLooking, skip)
           ba == d.pairings[p].booking["a"]
           bb == d.pairings[p].booking["b"]
<1>1. EndProposal(d, p, status, actor, keepLooking, skip) = g
  BY DEF EndProposal
<1>2. Good(e) /\ e.pairings[p].status # "free" /\ e.pairings[p].booking = d.pairings[p].booking
  BY PutStatusKeeps DEF LivePairing, Keeps
<1>3. e.bookings = d.bookings /\ e.lost = d.lost
  BY DEF PutStatus, PutPairing, Good, DbType
<1>4. "a" \in Side /\ "b" \in Side /\ \A s \in Side : s = "a" \/ s = "b"
  BY DEF Side
<1>5. ba \in BookingId /\ bb \in BookingId
  BY <1>4, Linked
<1> HIDE DEF e
<1>6. /\ Spares(e, f)
      /\ ba # skip /\ e.bookings[ba].pairing = p => ~f.bookings[ba].cap
  BY <1>2, <1>4, EndSideSpares, Zenon
<1>7. /\ Good(f) /\ f.pairings[p].status # "free" /\ f.pairings[p].booking = d.pairings[p].booking
      /\ \A c \in BookingId \ {ba} : f.bookings[c] = e.bookings[c]
  <2>1. SideRows(e, f, p, "a", actor, keepLooking, skip)
    BY <1>2, <1>4, EndSideRows
  <2> HIDE DEF f
  <2> QED BY <1>2, <2>1 DEF SideRows, Keeps
<1> HIDE DEF f
<1>8. /\ Spares(f, g)
      /\ bb # skip /\ f.bookings[bb].pairing = p => ~g.bookings[bb].cap
  <2>1. /\ Spares(f, g)
        /\ f.pairings[p].booking["b"] # skip /\ f.bookings[f.pairings[p].booking["b"]].pairing = p
             => ~g.bookings[f.pairings[p].booking["b"]].cap
    BY <1>4, <1>7, EndSideSpares
  <2> HIDE DEF g
  <2> QED BY <1>7, <2>1
<1> HIDE DEF g, ba, bb
<1>9. Spares(d, g)
  BY <1>3, <1>6, <1>8 DEF Spares
<1>10. ba # skip /\ d.bookings[ba].pairing = p => ~g.bookings[ba].cap
  BY <1>3, <1>5, <1>6, <1>8 DEF Spares
<1>11. ba # bb /\ bb # skip /\ d.bookings[bb].pairing = p => ~g.bookings[bb].cap
  BY <1>3, <1>5, <1>7, <1>8
<1> QED BY <1>1, <1>4, <1>9, <1>10, <1>11 DEF ba, bb

(* The end of cancelBooking.                                               *)
LEMMA EndOpenProposalOfSpares ==
    ASSUME NEW d, Good(d), NEW b
    PROVE  Spares(d, EndOpenProposalOf(d, b))
<1> DEFINE open == {p \in PairingId : /\ d.pairings[p].status = "proposed"
                                     /\ \E s \in Side : d.pairings[p].booking[s] = b}
           p == CHOOSE q \in open : TRUE
           e == EndProposal(d, p, "declined", d.bookings[b].user, FALSE, b)
<1>1. CASE open = {}
  <2>1. EndOpenProposalOf(d, b) = d
    BY <1>1, Zenon DEF EndOpenProposalOf
  <2> QED BY <2>1 DEF Spares
<1>2. CASE open # {}
  <2>1. p \in PairingId /\ d.pairings[p].status = "proposed"
    <3>1. p \in open
      BY <1>2, Zenon
    <3> HIDE DEF p
    <3> QED BY <3>1
  <2>2. EndOpenProposalOf(d, b) = e
    BY <1>2, Zenon DEF EndOpenProposalOf
  <2> HIDE DEF p
  <2>3. Spares(d, e)
    BY <2>1, EndProposalSpares
  <2> QED BY <2>2, <2>3
<1> QED BY <1>1, <1>2

(* The side of the one who stays.                                          *)
SideLeft(p, backer) == IF UserOn(p, "a") = backer THEN "b" ELSE "a"

AskedOrReleased(d, e, p, c) ==
    \/ e.bookings[c] = d.bookings[c] /\ e.pairings[p].choice = d.pairings[p].choice
    \/ /\ ~e.bookings[c].cap
       /\ d.bookings[c].hold = "held" =>
            e.bookings[c].hold = "released" /\ e.bookings[c].kind = "solo"

(* partnerBackedOut: the partner is asked and keeps the booking as it is,  *)
(* or it is too late and the Deeds come back.                              *)
LEMMA PartnerBackedOutSpares ==
    ASSUME IInv, NEW d, Keeps(Db, d), d.pairings = pairings,
           NEW p \in PairingId, pairings[p].status # "free", NEW backer,
           NEW t \in Side, t = SideLeft(p, backer)
    PROVE  Spares(d, PartnerBackedOut(d, p, backer))
           /\ AskedOrReleased(d, PartnerBackedOut(d, p, backer), p, pairings[p].booking[t])
<1> DEFINE deadline == Earlier(now + BailDecisionTime, Before(Start[ShiftOf(p)], BailMin))
           late == deadline <= now
           row == [d.pairings[p] EXCEPT
                    !.status = "cancelled", !.bailUser = UserOn(p, t),
                    !.bailDeadline = Later(deadline, now),
                    !.choice = IF late THEN "auto_release" ELSE @]
           asked == PutPairing(d, p, row)
           c == pairings[p].booking[t]
           solo == KeepSpotSoloAfterRelease(asked, c)
           e == PartnerBackedOut(d, p, backer)
<1>1. e = IF late THEN solo ELSE asked
  BY Zenon DEF PartnerBackedOut, SideLeft
<1>2. Keeps(d, asked) /\ c \in BookingId /\ d.bookings[c].status # "free"
  BY AskedKeeps, Zenon DEF SideLeft
<1>3. ~late => row.choice = pairings[p].choice
  <2>1. d.pairings[p] \in Pairing
    BY DEF Keeps, Good, GoodPairing
  <2> HIDE DEF late
  <2> QED BY <2>1 DEF Pairing
<1> HIDE DEF late, row, c
<1>4. asked.bookings = d.bookings /\ asked.lost = d.lost /\ asked.pairings[p] = row
  BY DEF PutPairing, Keeps, Good, DbType
<1> HIDE DEF asked
<1>5. Good(asked) /\ asked.bookings[c].status # "free"
  BY <1>2, <1>4 DEF Keeps
<1>6. /\ Spares(asked, solo) /\ ~solo.bookings[c].cap
      /\ d.bookings[c].hold = "held" => solo.bookings[c].hold = "released"
      /\ solo.bookings[c].kind = "solo"
  BY <1>2, <1>4, <1>5, GoneSpares, KeepSpotSoloRows DEF WentSolo
<1> HIDE DEF solo, e
<1> QED BY <1>1, <1>3, <1>4, <1>6 DEF Spares, AskedOrReleased, c, e

(* The owner of booking b is out of pairing p, and the partner with        *)
(* booking c is asked, or has the Deeds back.                              *)
IsOut(e, p, b) ==
    /\ e.pairings[p].status \notin LivePairing
    /\ e.bookings[b].status = "cancelled" /\ ~e.bookings[b].cap /\ e.lost = lost
IsKept(e, p, c) == bookings[c].status = "confirmed" =>
    /\ e.pairings[p].status = "cancelled" /\ e.pairings[p].bailUser = bookings[c].user
    /\ e.bookings[c].status = "confirmed"
    /\ \/ e.bookings[c] = bookings[c] /\ e.pairings[p].choice = "none"
       \/ e.bookings[c].kind = "solo" /\ e.bookings[c].hold = "released" /\ ~e.bookings[c].cap

(* A reporter leaves a confirmed pairing: cancelBooking of type safety.    *)
LEMMA OutOfPairing ==
    ASSUME IInv, Agrees(Db), NEW p \in PairingId, pairings[p].status = "confirmed",
           NEW s \in Side, NEW t \in Side, s # t, NEW b, b = pairings[p].booking[s],
           bookings[b].status = "confirmed"
    PROVE  /\ IsOut(CancelOwn(b, "safety", FALSE), p, b)
           /\ IsKept(CancelOwn(b, "safety", FALSE), p, pairings[p].booking[t])
<1> DEFINE d == ReleaseAndCancel(Db, b)
           e == PartnerBackedOut(d, p, bookings[b].user)
           c == pairings[p].booking[t]
<1>1. Good(Db) /\ Db.bookings = bookings /\ Db.pairings = pairings /\ Db.requests = requests /\ Db.lost = lost
  BY Columns DEF IInv, Db
<1>2. /\ b \in BookingId /\ bookings[b].pairing = p
      /\ \A r \in RequestId : requests[r].anchor = b => requests[r].status \notin OpenRequest
  BY <1>1, ConfirmedOnly
<1>3. /\ Keeps(Db, d) /\ OnlyBookings(Db, d, {b}) /\ Left(bookings[b], d.bookings[b])
      /\ Spares(Db, d) /\ ~d.bookings[b].cap
  BY <1>1, <1>2, ReleaseAndCancelRows, GoneSpares
<1>4. CancelOwn(b, "safety", FALSE) = EndOpenProposalOf(
            IF PairingStatusOf(b) = "confirmed"
            THEN PartnerBackedOut(CancelAnchored(d, b), bookings[b].pairing, bookings[b].user)
            ELSE CancelAnchored(d, b), b)
  BY DEF CancelOwn, ReleaseAndCancel
<1> HIDE DEF d
<1>5. CancelAnchored(d, b) = d
  BY <1>1, <1>2, <1>3, NothingAnchored DEF OnlyBookings, Keeps
<1>6. CancelOwn(b, "safety", FALSE) = EndOpenProposalOf(e, b)
  BY <1>2, <1>4, <1>5, NoneIsNoRow DEF PairingStatusOf
<1>7. Keeps(Db, e)
  <2>1. Keeps(d, e)
    BY <1>3, PartnerBackedOutKeeps
  <2> HIDE DEF e
  <2> QED BY <1>3, <2>1, KeepsChain
<1>8. LeftBehind(Db, e, p, t, s) /\ e.bookings[b] = d.bookings[b]
  BY <1>3, PartnerBackedOutRows
<1>9. Spares(d, e) /\ AskedOrReleased(d, e, p, c) /\ d.pairings = pairings
  <2>1. t = SideLeft(p, bookings[b].user)
    <3>1. PairOK(Db, p)
      BY DEF Agrees
    <3> QED BY <1>1, <3>1 DEF PairOK, BookingOf, UserOn, Side, SideLeft
  <2>2. d.pairings = pairings
    BY <1>1, <1>3 DEF OnlyBookings
  <2>3. pairings[p].status # "free"
    OBVIOUS
  <2> QED BY <1>3, <2>1, <2>2, <2>3, PartnerBackedOutSpares
<1> HIDE DEF e
<1>10. EndOpenProposalOf(e, b) = e
  <2>1. \A q \in PairingId, x \in Side : Open(e, q) => pairings[q].booking[x] # b
    BY <1>1, <1>7, <1>8, LeftBehindAgrees
  <2> QED BY <1>1, <1>7, <2>1, NoOpenProposalOf DEF Keeps
<1>11. /\ e.pairings[p].status = "cancelled" /\ e.pairings[p].bailUser = bookings[c].user
       /\ e.bookings[b].status = "cancelled" /\ ~e.bookings[b].cap /\ e.lost = lost
  BY <1>1, <1>3, <1>8, <1>9 DEF LeftBehind, Left, Spares
<1>12. ASSUME bookings[c].status = "confirmed"
       PROVE  /\ e.bookings[c].status = "confirmed"
              /\ \/ e.bookings[c] = bookings[c] /\ e.pairings[p].choice = "none"
                 \/ /\ e.bookings[c].kind = "solo" /\ e.bookings[c].hold = "released"
                    /\ ~e.bookings[c].cap
  <2>1. c \in BookingId /\ c # b /\ bookings[c].kind = "paired"
    <3>1. PairOK(Db, p) /\ ConfirmedOK(Db, p, t)
      BY DEF Agrees
    <3> QED BY <1>1, <3>1, Linked DEF PairOK, ConfirmedOK, BookingOf, Side
  <2>2. bookings[c].hold = "held" /\ d.bookings[c] = bookings[c]
    <3>1. BookingOK(Db, c)
      BY <2>1 DEF Agrees
    <3> HIDE DEF c
    <3> QED BY <1>1, <1>3, <1>12, <2>1, <3>1 DEF BookingOK, OnlyBookings
  <2>3. pairings[p].choice = "none"
    BY <1>1 DEF Good, GoodPairing
  <2>4. e.bookings[c].status = "confirmed"
    BY <1>1, <1>8, <1>12 DEF LeftBehind, WentSolo
  <2> HIDE DEF c
  <2> QED BY <1>9, <2>2, <2>3, <2>4 DEF AskedOrReleased
<1> QED BY <1>6, <1>10, <1>11, <1>12 DEF IsOut, IsKept, LivePairing

(* A reporter who had confirmed leaves an open proposal with it.           *)
LEMMA OutOfProposal ==
    ASSUME IInv, Agrees(Db), NEW p \in PairingId, pairings[p].status = "proposed",
           NEW s \in Side, NEW b, b = pairings[p].booking[s], bookings[b].status = "confirmed"
    PROVE  IsOut(CancelOwn(b, "safety", FALSE), p, b)
<1> DEFINE d == ReleaseAndCancel(Db, b)
           e == CancelAnchored(d, b)
<1>1. Good(Db) /\ Db.bookings = bookings /\ Db.pairings = pairings /\ Db.requests = requests /\ Db.lost = lost
  BY Columns DEF IInv, Db
<1>2. b \in BookingId
  BY <1>1, Linked
<1>3. /\ Keeps(Db, d) /\ OnlyBookings(Db, d, {b}) /\ Left(bookings[b], d.bookings[b])
      /\ Spares(Db, d) /\ ~d.bookings[b].cap
  BY <1>1, <1>2, ReleaseAndCancelRows, GoneSpares
<1>4. PairingStatusOf(b) # "confirmed"
  <2> SUFFICES ASSUME PairingStatusOf(b) = "confirmed" PROVE FALSE
    OBVIOUS
  <2>1. PICK q \in PairingId : q = bookings[b].pairing /\ pairings[q].status = "confirmed"
    BY <1>1, <1>2 DEF PairingStatusOf, Good, GoodBooking, Booking
  <2>2. PICK o \in Side : pairings[q].booking[o] = b
    <3>1. BookingOK(Db, b)
      BY <1>2 DEF Agrees
    <3> QED BY <1>1, <2>1, <3>1, NoneIsNoRow DEF BookingOK, Names
  <2>3. \A x \in PairingId, y \in Side :
            x # q /\ pairings[x].booking[y] = b => pairings[x].status \notin LivePairing
    <3>1. Db.pairings[q].status = "confirmed" /\ Db.pairings[q].booking[o] = b
      BY <1>1, <2>1, <2>2
    <3>2. \A x \in PairingId, y \in Side :
            x # q /\ Db.pairings[x].booking[y] = Db.pairings[q].booking[o]
                => Db.pairings[x].status \notin LivePairing
      BY <1>1, <3>1, ConfirmedOnly
    <3> QED BY <1>1, <3>1, <3>2
  <2>4. p # q /\ pairings[p].booking[s] = b
    BY <2>1
  <2> QED BY <2>3, <2>4 DEF LivePairing
<1>5. CancelOwn(b, "safety", FALSE) = EndOpenProposalOf(e, b)
  BY <1>4 DEF CancelOwn, ReleaseAndCancel
<1> HIDE DEF d
<1>6. Good(d)
  BY <1>3 DEF Keeps
<1>7. /\ Good(e) /\ e.pairings = pairings /\ e.bookings = d.bookings /\ e.lost = d.lost
  <2>1. e.lost = d.lost
    BY <1>6 DEF CancelAnchored, Good, DbType
  <2>2. e.pairings = d.pairings /\ e.bookings = d.bookings /\ Good(e)
    BY <1>6, CancelAnchoredKeeps, CancelAnchoredRows DEF Keeps
  <2> QED BY <1>1, <1>3, <2>1, <2>2 DEF OnlyBookings
<1>8. GivenUp(Db, e, b)
  <2>1. \A q \in PairingId : Chosen(pairings[q], d.pairings[q])
    BY <1>1, <1>3 DEF OnlyBookings, Chosen
  <2> QED BY <1>1, <1>2, <1>3, <1>6, <2>1, GivenUpRows
<1> HIDE DEF e
<1>9. AgreesExcept(e, b)
  <2>1. bookings[b].pairing # None => pairings[bookings[b].pairing].status # "confirmed"
    BY <1>4 DEF PairingStatusOf
  <2>2. BackedOut(Db, b) => e.pairings[bookings[b].pairing].choice # "none"
    BY <1>7, InLivePairing DEF LivePairing
  <2> QED BY <1>1, <1>2, <1>8, <2>1, <2>2, GivenUpAgrees
<1> DEFINE open == {q \in PairingId : /\ e.pairings[q].status = "proposed"
                                     /\ \E x \in Side : e.pairings[q].booking[x] = b}
           f == EndProposal(e, p, "declined", e.bookings[b].user, FALSE, b)
<1>10. open = {p}
  <2>1. p \in open
    BY <1>7
  <2>2. ASSUME NEW q \in open PROVE q = p
    <3>1. Apart(Db)
      BY DEF Agrees
    <3> QED BY <1>1, <1>7, <3>1 DEF Apart, Open
  <2> QED BY <2>1, <2>2
<1>11. EndOpenProposalOf(e, b) = f
  <2>1. (CHOOSE q \in open : TRUE) = p
    BY <1>10
  <2> QED BY <1>10, <2>1 DEF EndOpenProposalOf
<1>12. /\ f.pairings[p].status \in {"declined", "expired"}
       /\ f.bookings[b] = e.bookings[b]
  <2>1. PairOK(e, p)
    BY <1>9 DEF AgreesExcept
  <2>2. ProposalEnded(e, f, p, b)
    BY <1>7, <2>1, EndProposalRows DEF PairOK
  <2> HIDE DEF f
  <2> QED BY <1>7, <2>2 DEF ProposalEnded, SideEnded
<1>13. Spares(e, f)
  BY <1>7, EndProposalSpares
<1> HIDE DEF f
<1> QED BY <1>1, <1>3, <1>5, <1>7, <1>11, <1>12, <1>13 DEF Spares, Left, IsOut, LivePairing

(* One who was only asked leaves an open proposal: declineProposal.        *)
LEMMA OutByDeclining ==
    ASSUME IInv, Agrees(Db), NEW p \in PairingId, pairings[p].status = "proposed",
           NEW s \in Side, NEW b, b = pairings[p].booking[s], bookings[b].status = "proposed",
           NEW actor, NEW keepLooking
    PROVE  IsOut(EndProposal(Db, p, "declined", actor, keepLooking, None), p, b)
<1> DEFINE e == EndProposal(Db, p, "declined", actor, keepLooking, None)
<1>1. Good(Db) /\ Db.bookings = bookings /\ Db.pairings = pairings /\ Db.lost = lost /\ Open(Db, p)
  BY Columns DEF IInv, Db, Open
<1>2. b \in BookingId /\ b # None
  BY <1>1, Linked, NoneIsNoRow
<1>3. bookings[b].pairing = p
  <2>1. TiedTo(Db, p, s)
    BY <1>1, OpenSide DEF Agrees
  <2> QED BY <1>1, <2>1 DEF TiedTo, Took, Over
<1>4. PairOK(Db, p)
  BY DEF Agrees
<1>5. ProposalEnded(Db, e, p, None)
  BY <1>1, <1>4, EndProposalRows DEF PairOK
<1>6. Spares(Db, e) /\ ~e.bookings[b].cap
  BY <1>1, <1>2, <1>3, <1>4, EndProposalSpares DEF PairOK
<1> HIDE DEF e
<1>7. e.pairings[p].status \in {"declined", "expired"} /\ Left(bookings[b], e.bookings[b])
  BY <1>1, <1>2, <1>3, <1>5 DEF ProposalEnded, SideEnded
<1> QED BY <1>1, <1>6, <1>7 DEF Spares, Left, IsOut, LivePairing, e

(* What a report with a way out commits, for each of the three ways.       *)
LEMMA ReporterLeaves ==
    ASSUME AInv, NEW p \in PairingId, NEW s \in Side, NEW t \in Side,
           pairings[p].status \in LivePairing, NEW b, b = pairings[p].booking[s],
           bookings[b].status \in ActiveBooking, ReportPartner(p, s, TRUE)
    PROVE  \E d :
            /\ Commit(d) /\ IsOut(d, p, b)
            /\ pairings[p].status = "confirmed" /\ t # s => IsKept(d, p, pairings[p].booking[t])
<1> DEFINE out == CancelOwn(b, "safety", FALSE)
           ended == EndProposal(Db, p, "declined", UserOn(p, s), TRUE, None)
           d == IF bookings[b].status = "confirmed" THEN out
                ELSE IF pairings[p].status = "proposed" THEN ended ELSE Db
<1>1. IInv /\ Agrees(Db) /\ Db.bookings = bookings /\ Db.pairings = pairings
  BY Columns DEF AInv
<1>2. Commit(d)
  BY Zenon DEF ReportPartner
<1>3. CASE bookings[b].status = "confirmed" /\ pairings[p].status = "confirmed"
  <2>1. IsOut(out, p, b)
    <3>1. PICK x \in Side : s # x
      BY DEF Side
    <3> QED BY <1>1, <1>3, <3>1, OutOfPairing
  <2>2. t # s => IsKept(out, p, pairings[p].booking[t])
    BY <1>1, <1>3, OutOfPairing
  <2>3. d = out
    BY <1>3
  <2> HIDE DEF d, out
  <2> QED BY <1>2, <2>1, <2>2, <2>3
<1>4. CASE bookings[b].status = "confirmed" /\ pairings[p].status = "proposed"
  <2>1. IsOut(out, p, b)
    BY <1>1, <1>4, OutOfProposal
  <2>2. d = out
    BY <1>4
  <2> HIDE DEF d, out
  <2> QED BY <1>2, <1>4, <2>1, <2>2
<1>5. CASE bookings[b].status = "proposed"
  <2>1. pairings[p].status = "proposed"
    <3>1. pairings[p].status = "confirmed" => bookings[b].status \in Took
      BY <1>1 DEF Agrees, ConfirmedOK, BookingOf
    <3> QED BY <1>5, <3>1 DEF Took, Over, LivePairing
  <2>2. IsOut(ended, p, b)
    BY <1>1, <1>5, <2>1, OutByDeclining
  <2>3. d = ended
    BY <1>5, <2>1
  <2> HIDE DEF d, ended
  <2> QED BY <1>2, <2>1, <2>2, <2>3
<1> QED BY <1>3, <1>4, <1>5 DEF LivePairing, ActiveBooking

LEMMA ReporterIsOut ==
    ASSUME AInv, AInv', NEW p \in PairingId, NEW s \in Side, NEW t \in Side,
           pairings[p].status \in LivePairing, NEW b, b = pairings[p].booking[s],
           bookings[b].status \in ActiveBooking, ReportPartner(p, s, TRUE)
    PROVE  /\ ReporterOut(p, b)
           /\ pairings[p].status = "confirmed" /\ t # s
              /\ bookings[pairings[p].booking[t]].status = "confirmed"
                => PartnerKept(p, pairings[p].booking[t])
<1> DEFINE c == pairings[p].booking[t]
<1>1. /\ Good(Db) /\ Agrees(Db) /\ Db.bookings = bookings /\ Db.pairings = pairings
      /\ Good(Db') /\ Agrees(Db)' /\ Db'.bookings = bookings' /\ Db'.pairings = pairings'
      /\ Db'.requests = requests'
  BY Columns DEF AInv, IInv, Db
<1>2. b \in BookingId /\ c \in BookingId /\ b # None
  BY <1>1, Linked, NoneIsNoRow DEF LivePairing
<1>3. /\ pairings'[p].status \notin LivePairing
      /\ bookings'[b].status = "cancelled" /\ ~bookings'[b].cap /\ lost' = lost
      /\ pairings[p].status = "confirmed" /\ t # s /\ bookings[c].status = "confirmed" =>
            /\ pairings'[p].status = "cancelled" /\ pairings'[p].bailUser = bookings[c].user
            /\ bookings'[c].status = "confirmed"
            /\ \/ bookings'[c] = bookings[c] /\ pairings'[p].choice = "none"
               \/ /\ bookings'[c].kind = "solo" /\ bookings'[c].hold = "released"
                  /\ ~bookings'[c].cap
  <2>1. PICK d :
          /\ Commit(d) /\ IsOut(d, p, b)
          /\ pairings[p].status = "confirmed" /\ t # s => IsKept(d, p, c)
    BY ReporterLeaves, Zenon
  <2> HIDE DEF c
  <2> QED BY <2>1 DEF Commit, IsOut, IsKept
<1>4. freeLate' = freeLate
  BY DEF ReportPartner
<1>5. bookings'[b].hold # "held"
  <2>1. BookingOK(Db, b)'
    BY <1>1, <1>2 DEF Agrees
  <2> QED BY <1>1, <1>3, <2>1 DEF BookingOK
<1>6. ASSUME NEW r \in RequestId, requests'[r].anchor = b
      PROVE  requests'[r].status \notin OpenRequest
  <2>1. RequestOK(Db, r)'
    BY <1>1 DEF Agrees
  <2> QED BY <1>1, <1>2, <1>3, <1>6, <2>1 DEF RequestOK, OpenRequest, Took, Over
<1>7. ReporterOut(p, b)
  BY <1>3, <1>4, <1>5, <1>6 DEF ReporterOut
<1>8. ASSUME pairings[p].status = "confirmed", t # s, bookings[c].status = "confirmed"
      PROVE  PartnerKept(p, c)
  <2>1. bookings[c].pairing = p
    BY <1>1, <1>8, ConfirmedOnly
  <2>2. bookings[c].user \in User /\ NoUser \notin User
    BY <1>1, <1>2, <1>8, LifecycleAssumption DEF Good, GoodBooking
  <2>3. bookings[c].hold = "held"
    <3>1. BookingOK(Db, c) /\ bookings[c].kind = "paired"
      BY <1>1, <1>2, <1>8 DEF Agrees, ConfirmedOK, BookingOf
    <3> HIDE DEF c
    <3> QED BY <1>1, <1>8, <3>1 DEF BookingOK
  <2> HIDE DEF c
  <2> QED BY <1>3, <1>8, <2>1, <2>2, <2>3 DEF PartnerKept, DecisionOpen
<1> QED BY <1>7, <1>8

(* Whoever reports their partner and asks to be taken out is out, from an  *)
(* open proposal, from one they had confirmed and from a confirmed         *)
(* pairing, at no cost, and the partner of a confirmed one keeps the spot  *)
(* with the Deeds on hold or back (lib/social.js over cancelBooking and    *)
(* declineProposal).                                                       *)
THEOREM ReportersGetOut == Spec => ReportTakesOut
<1>1. AInv /\ [Next]_vars =>
        [\A p \in PairingId, s, t \in Side :
            LET b == pairings[p].booking[s]
                c == pairings[p].booking[t]
            IN  /\ ReportPartner(p, s, TRUE)
                /\ pairings[p].status \in LivePairing /\ bookings[b].status \in ActiveBooking
                => /\ ReporterOut(p, b)
                   /\ pairings[p].status = "confirmed" /\ t # s /\ bookings[c].status = "confirmed"
                        => PartnerKept(p, c)]_vars
  BY StepAgrees, ReporterIsOut
<1> QED BY <1>1, Agreement, PTL DEF Spec, ReportTakesOut

(* An open proposal that a step ends leaves the anchored bookings.         *)
LEMMA EndsLeaveAnchors ==
    ASSUME AInv, [Next]_vars, NEW p \in PairingId, NEW s \in Side,
           pairings[p].status = "proposed", pairings'[p].status \in {"declined", "expired"},
           requests[pairings[p].request[s]].anchor # None
    PROVE  LET b == pairings[p].booking[s]
           IN  \/ bookings'[b].status = bookings[b].status
               \/ requests'[pairings[p].request[s]].status = "cancelled"
<1>1. /\ Db'.pairings = pairings' /\ Db'.bookings = bookings' /\ Db'.requests = requests'
      /\ Db.pairings = pairings /\ Db.bookings = bookings /\ Db.requests = requests
  BY DEF Db
<1>2. CASE Leaves(Db, Db')
  BY <1>1, <1>2 DEF Leaves, AnchorsStay, Open
<1>3. CASE \E u \in User, x \in Shift : RsvpSolo(u, x)
  BY <1>3, RsvpSoloPlaces
<1>4. ASSUME NEW ra \in RequestId, NEW rb \in RequestId, NEW x \in Shift, CreateProposal(ra, rb, x)
      PROVE  FALSE
  <2> DEFINE e == Db'
  <2>1. PICK ba \in BookingId, bb \in BookingId, q \in PairingId :
          NewProposal(Db, e, q, ra, rb, ba, bb, x)
    BY <1>4, CreateProposalRows
  <2>2. e.pairings = pairings'
    BY <1>1
  <2> HIDE DEF e
  <2> QED BY <1>1, <2>1, <2>2 DEF NewProposal
<1> QED BY <1>2, <1>3, <1>4, StepLeaves

(* A spot somebody had before a proposal is theirs after it, unless they   *)
(* were the one to cancel it: endProposal gives up only what was made for  *)
(* the proposal.                                                           *)
THEOREM AnchorsOutliveProposals == Spec => AnchorStays
<1>1. AInv /\ [Next]_vars =>
        [\A p \in PairingId, s \in Side :
            LET b == pairings[p].booking[s]
            IN  /\ pairings[p].status = "proposed" /\ pairings'[p].status \in {"declined", "expired"}
                /\ requests[pairings[p].request[s]].anchor # None
                => \/ bookings'[b].status = bookings[b].status
                   \/ requests'[pairings[p].request[s]].status = "cancelled"]_vars
  BY EndsLeaveAnchors
<1> QED BY <1>1, Agreement, PTL DEF Spec, AnchorStays
-----------------------------------------------------------------------------
(* What a volunteer is let do, and what the server takes from them. *)

(* Whoever cancels is rid of the place, or has it to themselves.           *)
LEMMA CancelIsTaken ==
    ASSUME PInv, NEW u, NEW b \in BookingId, NEW offer \in CancelOffers(b)
    PROVE  Takes(u, offer)
<1> DEFINE keep == offer.answer = "keep_spot"
           after == AfterCancel(b, keep)
<1>1. bookings[b].status = "confirmed"
  BY DEF CancelOffers
<1>2. /\ offer.id = b /\ offer.answer \in {"cancel", "keep_spot"}
      /\ keep => CanKeepSpotSolo(b)
  BY DEF CancelOffers, Offer
<1>3. AInv /\ IInv /\ Agrees(Db) /\ Db.bookings = bookings /\ Db.pairings = pairings
  BY Rows DEF PInv
<1>4. CancelType(b) = "partner_cancelled" <=> BackedOutOn(b)
  BY DEF CancelType
<1>5. LeftOrSolo(bookings[b], after.bookings[b], keep)
  <2>1. CASE BackedOutOn(b)
    <3>1. after = CancelBackedOutOn(b, keep)
      BY <1>4, <2>1 DEF AfterCancel
    <3> HIDE DEF after, keep
    <3> QED BY <1>1, <1>3, <2>1, <3>1, CancelBackedOutOnLeaves
  <2>2. CASE ~BackedOutOn(b)
    <3>1. after = CancelOwn(b, CancelType(b), keep)
      BY <1>4, <2>2 DEF AfterCancel
    <3>2. ~BackedOut(Db, b)
      BY <1>3, <2>2, Rows DEF BackedOut, BackedOutOn, PairingStatusOf, PairingId, None
    <3> HIDE DEF after, keep
    <3>3. LeftOrSolo(bookings[b], after.bookings[b], keep /\ CanKeepSpotSolo(b))
      BY <1>1, <1>3, <3>1, <3>2, CancelOwnLeaves
    <3> QED BY <1>2, <3>3 DEF LeftOrSolo
  <2> QED BY <2>1, <2>2
<1> HIDE DEF after
<1>6. TakesCancel(offer)
  BY <1>1, <1>2, <1>5 DEF TakesCancel, LeftOrSolo, WentSolo, Left, after
<1> QED BY <1>2, <1>6 DEF Takes

(* Who has not said yes into this very proposal may say no to it.          *)
LEMMA UnconfirmedMayDecline ==
    ASSUME PInv, NEW p \in PairingId, NEW s \in Side, pairings[p].status = "proposed",
           ~MeConfirmed(pairings[p].booking[s])
    PROVE  MayDecline(p, s)
<1> DEFINE b == pairings[p].booking[s]
           r == pairings[p].request[s]
<1>1. /\ Good(Db) /\ Agrees(Db) /\ Open(Db, p)
      /\ Db.bookings = bookings /\ Db.pairings = pairings /\ Db.requests = requests
      /\ \A q \in RequestId : RequestOK(Db, q)
  BY Rows DEF PInv, Open
<1>2. TiedTo(Db, p, s)
  <2>1. SideOK(Db, p, s)
    BY <1>1 DEF Agrees
  <2> QED BY <1>1, <2>1, OpenSide
<1>3. /\ b \in BookingId /\ r \in RequestId /\ requests[r].status = "proposed"
      /\ bookings[b].pairing = p => bookings[b].pairing # None
      /\ requests[r].kind = "solo_rsvp" => requests[r].anchor = b
  BY <1>1, <1>2, NoneIsNoRow DEF TiedTo, RequestOf
<1> SUFFICES ASSUME bookings[b].status = "confirmed",
                    bookings[b].pairing = p \/ (requests[r].kind = "solo_rsvp" /\ bookings[b].hold # "none")
             PROVE  FALSE
  BY DEF MayDecline
<1> HIDE DEF b, r
<1>4. bookings[b].kind = "solo"
  <2>1. bookings[b] \in Booking /\ BookingOK(Db, b)
    BY <1>1, <1>3, Rows DEF PInv
  <2>2. bookings[b].hold = "held" <=> bookings[b].status = "confirmed" /\ bookings[b].kind = "paired"
    BY <1>1, <2>1 DEF BookingOK
  <2> QED BY <2>1, <2>2 DEF MeConfirmed, Booking, b
<1>5. SpotOfOnesOwn(Db, b)
  BY <1>1, <1>3, <1>4 DEF PInv, Single, Solo
<1>6. CASE bookings[b].pairing = p
  BY <1>1, <1>3, <1>5, <1>6 DEF SpotOfOnesOwn
<1>7. CASE requests[r].kind = "solo_rsvp" /\ bookings[b].hold # "none"
  <2>1. HadHold(Db.bookings[b]) /\ Sought(Db, b)
    BY <1>1, <1>3, <1>7 DEF HadHold, Took, Sought, OpenRequest
  <2> QED BY <1>5, <2>1 DEF SpotOfOnesOwn
<1> QED BY <1>6, <1>7

(* Nothing is left for tick() to do.                                       *)
LEMMA UpToDate ==
    ASSUME PInv, ~TickDue
    PROVE  /\ \A p \in PairingId : pairings[p].status = "proposed" => now < pairings[p].expires
           /\ \A r \in RequestId : requests[r].status = "searching" => now < requests[r].deadline
<1>1. /\ now \in Nat
      /\ \A p \in PairingId : pairings[p].expires \in Nat
      /\ \A r \in RequestId : requests[r].deadline \in Nat
  BY Rows DEF PInv, Pairing, Request
<1>2. Expired = {} /\ Fruitless = {}
  BY DEF TickDue
<1>3. \A p \in PairingId : pairings[p].status = "proposed" => ~(pairings[p].expires <= now)
  BY <1>2, Zenon DEF Expired
<1>4. \A r \in RequestId : requests[r].status = "searching" => ~(requests[r].deadline <= now)
  BY <1>2, Zenon DEF Fruitless
<1> QED BY <1>1, <1>3, <1>4

(* PairingScreen, for either side.                                         *)
LEMMA PairingIsTaken ==
    ASSUME PInv, ~TickDue, NEW u, NEW x \in SidesOf(u), NEW offer \in PairingOffers(x[1], x[2])
    PROVE  Takes(u, offer)
<1>1. PICK p \in PairingId, s \in Side : x = <<p, s>> /\ pairings[p].status # "free" /\ UserOn(p, s) = u
  BY DEF SidesOf
<1> DEFINE b == pairings[p].booking[s]
<1>2. /\ b \in BookingId /\ offer \in PairingOffers(p, s)
      /\ bookings[pairings[p].booking["a"]].user # bookings[pairings[p].booking["b"]].user
  <2>1. Good(Db) /\ Db.pairings = pairings /\ Db.bookings = bookings /\ PairOK(Db, p)
    BY Rows DEF PInv, Agrees
  <2>2. b \in BookingId
    BY <1>1, <2>1, Linked
  <2> QED BY <1>1, <2>1, <2>2 DEF PairOK, BookingOf
<1>3. CASE pairings[p].status = "proposed" /\ ~MeConfirmed(b)
  <2>1. offer.id = p /\ offer.answer \in {"confirm", "decline"}
    BY <1>2, <1>3 DEF PairingOffers, Offer
  <2>2. now < pairings[p].expires /\ MayDecline(p, s)
    BY <1>3, UpToDate, UnconfirmedMayDecline
  <2>3. ASSUME NEW y \in SidesOf(u), y[1] = p PROVE y[2] = s
    BY <1>1, <1>2, <2>3 DEF SidesOf, UserOn, Side
  <2>4. CASE offer.answer = "confirm"
    BY <1>3, <2>1, <2>2, <2>4 DEF Takes
  <2>5. CASE offer.answer = "decline"
    BY <2>1, <2>2, <2>3, <2>5 DEF Takes
  <2> QED BY <2>1, <2>4, <2>5
<1>4. CASE ~(pairings[p].status = "proposed" /\ ~MeConfirmed(b)) /\ p \in ToDecide(u)
  <2>1. offer = Offer("decide", p)
    BY <1>1, <1>2, <1>4 DEF PairingOffers
  <2> QED BY <1>4, <2>1 DEF Offer, Takes, ToDecide
<1>5. CASE ~(pairings[p].status = "proposed" /\ ~MeConfirmed(b)) /\ p \notin ToDecide(u)
  <2>1. offer \in CancelOffers(b)
    BY <1>1, <1>2, <1>5 DEF PairingOffers
  <2> QED BY <1>2, <2>1, CancelIsTaken
<1> QED BY <1>3, <1>4, <1>5

(* WaitingScreen: what it suggests for a search is right for that search.  *)
LEMMA SuggestionIsTaken ==
    ASSUME PInv, ~TickDue, NEW u, NEW r \in CurrentRequest(u), NEW offer \in Suggestions(u, r)
    PROVE  Takes(u, offer)
<1>1. /\ r \in RequestId /\ IsLatest(r, Adjustable(u))
      /\ OpenRequests(u) # {} => IsLatest(r, OpenRequests(u))
  BY DEF CurrentRequest, Adjustable
<1>2. requests[r].status # "proposed" /\ requests[r].anchor = None
  BY DEF Suggestions
<1>3. now \in Nat /\ requests[r] \in Request /\ RequestOK(Db, r) /\ Db.requests = requests
  BY <1>1, Rows DEF PInv
<1>4. requests[r].kind = "standard" /\ requests[r].status # "free"
  <2>1. requests[r].status # "free"
    BY <1>1 DEF IsLatest, Adjustable, OpenRequests, OpenRequest
  <2> QED BY <1>2, <1>3, <2>1 DEF RequestOK
<1>5. MinLead \in Nat /\ MinLead > 0 /\ WaitCap \in Nat /\ WaitCap > 0
      /\ \A s \in Shift : Start[s] \in Nat
  BY LifecycleAssumption, OffersAssumption
<1>6. ASSUME NEW s \in Alternatives
      PROVE  /\ s \in Shift /\ Start[s] > now /\ CanReserve(Db, s, 1)
             /\ TimeToFind(s)
  <2>1. s \in Shift /\ Start[s] >= now + MinLead /\ CanReserve(Db, s, 1)
    BY <1>6 DEF Alternatives
  <2>2. Start[s] > now
    BY <1>3, <1>5, <2>1
  <2>3. SearchDeadline(Start[s] + 1) > now
    BY <1>3, <1>5, <2>1 DEF SearchDeadline, Earlier, Before
  <2> QED BY <2>1, <2>2, <2>3 DEF TimeToFind
<1>7. CASE offer.answer = "rsvp" /\ offer.id \in Alternatives
  <2>1. \A q \in RequestId : IsLatest(q, OpenRequests(u)) => requests[q].status # "proposed"
    <3>1. ASSUME NEW q \in RequestId, IsLatest(q, OpenRequests(u)) PROVE q = r
      <4>1. q \in OpenRequests(u) /\ IsLatest(r, OpenRequests(u))
        BY <1>1, <3>1 DEF IsLatest
      <4> QED BY <1>1, <3>1, <4>1 DEF IsLatest, RequestId
    <3> QED BY <1>2, <3>1
  <2>2. TakesSearch(u, offer)
    BY <1>6, <1>7, <2>1 DEF TakesSearch
  <2> QED BY <1>7, <2>2 DEF Takes
<1>8. CASE /\ offer.answer = "adjust" /\ offer.id = r
           /\ Alternatives # {} \/ requests[r].status = "searching"
  <2>1. requests[r].deadline > now \/ \E s \in Alternatives : TimeToFind(s)
    <3>1. CASE Alternatives # {}
      BY <1>6, <3>1
    <3>2. CASE requests[r].status = "searching"
      BY <1>1, <1>3, <3>2, UpToDate DEF Request
    <3> QED BY <1>8, <3>1, <3>2
  <2>2. TakesSearch(u, offer)
    BY <1>1, <1>2, <1>4, <1>8, <2>1 DEF TakesSearch
  <2> QED BY <1>8, <2>2 DEF Takes
<1>9. \/ offer.answer = "rsvp" /\ offer.id \in Alternatives
      \/ /\ offer.answer = "adjust" /\ offer.id = r
         /\ Alternatives # {} \/ requests[r].status = "searching"
  BY DEF Suggestions, Offer
<1> QED BY <1>7, <1>8, <1>9

(* The waiting card: the user's open search, or the last fruitless one.    *)
LEMMA WaitingIsTaken ==
    ASSUME PInv, ~TickDue, NEW u, NEW r \in CurrentRequest(u), NEW offer \in WaitingOffers(u, r)
    PROVE  Takes(u, offer)
<1>1. CASE offer \in Suggestions(u, r)
  BY <1>1, SuggestionIsTaken
<1>2. CASE requests[r].status = "searching" /\ offer = Offer("stop", r)
  <2>1. r \in RequestId /\ IsLatest(r, OpenRequests(u))
    BY <1>2 DEF CurrentRequest, IsLatest, Adjustable
  <2>2. TakesSearch(u, offer)
    BY <1>2, <2>1 DEF TakesSearch, Offer
  <2> QED BY <1>2, <2>2 DEF Takes, Offer
<1>3. CASE requests[r].status = "proposed" /\ \E x \in OpenSides(u) : offer \in PairingOffers(x[1], x[2])
  <2>1. PICK x \in SidesOf(u) : offer \in PairingOffers(x[1], x[2])
    BY <1>3 DEF OpenSides
  <2> QED BY <2>1, PairingIsTaken
<1> QED BY <1>1, <1>2, <1>3 DEF WaitingOffers

(* Home: who searches for nothing has no proposal either, so the month's   *)
(* limit is what it says.                                                  *)
LEMMA FindIsTaken ==
    ASSUME PInv, NEW u \in User, OpenRequests(u) = {}, CapLeft(u), NEW offer \in FindOffers(u)
    PROVE  Takes(u, offer)
<1>1. offer.answer = "find" /\ balance[u] >= 1
  BY DEF FindOffers, Offer
<1> DEFINE pending == {b \in BookingId :
                        /\ bookings[b].user = u /\ bookings[b].status = "proposed"
                        /\ bookings[b].pairing # None
                        /\ pairings[bookings[b].pairing].status = "proposed"}
<1>2. /\ Good(Db) /\ Agrees(Db) /\ \A b \in BookingId : bookings[b] \in Booking
      /\ Db.bookings = bookings /\ Db.pairings = pairings /\ Db.requests = requests
  BY Rows DEF PInv
<1>3. ASSUME NEW b \in pending PROVE FALSE
  <2> DEFINE p == bookings[b].pairing
  <2>1. b \in BookingId /\ p \in PairingId /\ Open(Db, p) /\ bookings[b].user = u
    BY <1>2, <1>3 DEF Booking, Open
  <2>2. PICK s \in Side : pairings[p].booking[s] = b
    <3>1. BookingOK(Db, b)
      BY <1>2, <2>1 DEF Agrees
    <3> QED BY <1>2, <1>3, <3>1 DEF BookingOK, Names
  <2>3. TiedTo(Db, p, s)
    <3>1. SideOK(Db, p, s) /\ \A r \in RequestId : RequestOK(Db, r)
      BY <1>2, <2>1 DEF Agrees
    <3> QED BY <1>2, <2>1, <3>1, OpenSide
  <2> HIDE DEF p, pending
  <2>4. pairings[p].request[s] \in OpenRequests(u)
    BY <1>2, <2>1, <2>2, <2>3 DEF TiedTo, RequestOf, OpenRequests, OpenRequest
  <2> QED BY <2>4
<1>4. Cardinality(CapPending(u)) = 0
  <2>1. pending = {}
    BY <1>3
  <2>2. CapPending(u) = pending
    BY Zenon DEF CapPending
  <2> HIDE DEF pending
  <2> QED BY <2>1, <2>2, FS_EmptySet
<1>5. CapUsed(u) \in Nat /\ MonthlyCap \in Nat
  <2>1. IsFiniteSet(BookingId)
    BY BookingsFinite
  <2>2. IsFiniteSet({b \in BookingId : bookings[b].user = u /\ bookings[b].cap})
    BY <2>1, FS_Subset
  <2>3. CapUsed(u) \in Nat
    BY <2>2, FS_CardinalityType DEF CapUsed
  <2> QED BY <2>3, LifecycleAssumption
<1>6. ~CapReached(u)
  BY <1>4, <1>5 DEF CapReached, CapLeft
<1>7. TakesSearch(u, offer)
  BY <1>1, <1>6 DEF TakesSearch
<1> QED BY <1>1, <1>7 DEF Takes

(* Whatever the screens Home leads to let a user do, the server takes.     *)
LEMMA OfferIsTaken ==
    ASSUME PInv, ~TickDue, NEW u \in User, NEW screen \in FromHome(u),
           NEW offer \in OffersOn(u, screen)
    PROVE  Takes(u, offer)
<1> DEFINE Bail(x) == x.name = "bail"
           Pair(x) == x.name = "pairing"
           Place(x) == x.name = "booking" /\ x.id \in BookingId
           Wait(x) == x.name = "waiting" /\ x.id \in CurrentRequest(u)
           Find(x) == x.name = "startMatching" /\ OpenRequests(u) = {} /\ CapLeft(u)
           Rate(x) == x.name = "rating"
           Known(x) == Bail(x) \/ Pair(x) \/ Place(x) \/ Wait(x) \/ Find(x) \/ Rate(x)
<1>1. ASSUME NEW b \in BookingId, NEW x \in OpenBooking(b)
      PROVE  Known(x)
  BY <1>1 DEF OpenBooking, To
<1>2. \A b \in HomeBookings(u) : b \in BookingId
  BY DEF HomeBookings, BookingsOf
<1>3. ASSUME NEW x \in PrimaryCard(u) PROVE Known(x)
  <2>1. ASSUME NEW b \in TodaysCard(u) PROVE b \in BookingId
    BY <1>2, <2>1 DEF TodaysCard, Today
  <2> HIDE DEF Known
  <2>2. \/ \E p \in ToDecide(u) : x = To("bail", p)
        \/ \E y \in ToConfirm(u) : x = To("pairing", y[1])
        \/ \E b \in TodaysCard(u) : x \in OpenBooking(b)
        \/ \E b \in ToRate(u) : x = To("rating", b)
        \/ \E y \in Awaiting(u) : x = To("pairing", y[1])
        \/ \E r \in CurrentRequest(u) : x = To("waiting", r)
    BY <1>3 DEF PrimaryCard
  <2> QED BY <1>1, <2>1, <2>2 DEF Known, To
<1>4. ASSUME NEW b \in Upcoming(u), NEW x \in OpenBooking(b) PROVE Known(x)
  <2>1. b \in BookingId
    BY <1>2, <1>4 DEF Upcoming
  <2> QED BY <1>1, <1>4, <2>1
<1>5. ASSUME NEW x \in FindAnother(u) PROVE Known(x)
  BY <1>5 DEF FindAnother, To
<1> HIDE DEF Known
<1>6. Known(screen)
  <2>1. \/ screen \in PrimaryCard(u) \/ screen \in FindAnother(u)
        \/ \E b \in Upcoming(u) : screen \in OpenBooking(b)
    BY DEF FromHome
  <2>2. CASE screen \in PrimaryCard(u) \/ screen \in FindAnother(u)
    BY <1>3, <1>5, <2>2
  <2>3. CASE \E b \in Upcoming(u) : screen \in OpenBooking(b)
    BY <1>4, <2>3
  <2> QED BY <2>1, <2>2, <2>3
<1>7. CASE Bail(screen)
  <2>1. PICK p \in ToDecide(u) : offer = Offer("decide", p)
    BY <1>7 DEF OffersOn
  <2> QED BY <2>1 DEF Offer, Takes, ToDecide
<1>8. CASE Pair(screen)
  <2>1. PICK x \in SidesOf(u) : offer \in PairingOffers(x[1], x[2])
    BY <1>8 DEF OffersOn
  <2> QED BY <2>1, PairingIsTaken
<1>9. CASE Place(screen)
  <2>1. offer \in CancelOffers(screen.id)
    BY <1>9 DEF OffersOn, BookingOffers
  <2> QED BY <1>9, <2>1, CancelIsTaken
<1>10. CASE Wait(screen)
  <2>1. offer \in WaitingOffers(u, screen.id)
    BY <1>10 DEF OffersOn
  <2> QED BY <1>10, <2>1, WaitingIsTaken
<1>11. CASE Find(screen)
  <2>1. offer \in FindOffers(u)
    BY <1>11 DEF OffersOn
  <2> QED BY <1>11, <2>1, FindIsTaken
<1>12. CASE Rate(screen)
  BY <1>12 DEF OffersOn
<1> QED BY <1>6, <1>7, <1>8, <1>9, <1>10, <1>11, <1>12 DEF Known

(* A card that says it is the user's turn leads to where they can answer.  *)
LEMMA CardsLeadThere ==
    ASSUME PInv, NEW u \in User
    PROVE  /\ \A x \in ToConfirm(u) : Offer("confirm", x[1]) \in OffersOn(u, To("pairing", x[1]))
           /\ (ToDecide(u) # {} \/ ToConfirm(u) # {}) =>
                \E screen \in PrimaryCard(u) : OffersOn(u, screen) # {}
<1>1. ASSUME NEW x \in ToConfirm(u)
      PROVE  Offer("confirm", x[1]) \in OffersOn(u, To("pairing", x[1]))
  <2>1. x \in SidesOf(u) /\ pairings[x[1]].status = "proposed" /\ ~AlreadyIn(Mine(x))
    BY <1>1 DEF ToConfirm, OpenSides
  <2>2. ~MeConfirmed(pairings[x[1]].booking[x[2]])
    BY <2>1 DEF MeConfirmed, AlreadyIn, Mine
  <2>3. Offer("confirm", x[1]) \in PairingOffers(x[1], x[2])
    BY <2>1, <2>2 DEF PairingOffers
  <2> DEFINE screen == To("pairing", x[1])
  <2>4. screen.name = "pairing" /\ screen.id = x[1]
    BY DEF To
  <2> HIDE DEF screen
  <2>5. OffersOn(u, screen) =
            UNION {PairingOffers(y[1], y[2]) : y \in {z \in SidesOf(u) : z[1] = screen.id}}
    BY <2>4 DEF OffersOn
  <2>6. Offer("confirm", x[1]) \in OffersOn(u, screen)
    BY <2>1, <2>3, <2>4, <2>5
  <2> QED BY <2>6 DEF screen
<1>2. CASE ToDecide(u) # {}
  <2>1. PICK p : p \in ToDecide(u)
    BY <1>2
  <2> DEFINE screen == To("bail", p)
  <2>2. screen.name = "bail" /\ screen.id = p
    BY DEF To
  <2>3. screen \in PrimaryCard(u)
    BY <1>2, <2>1 DEF PrimaryCard
  <2> HIDE DEF screen
  <2>4. Offer("decide", p) \in OffersOn(u, screen)
    BY <2>1, <2>2 DEF OffersOn
  <2> QED BY <1>1, <2>3, <2>4
<1>3. CASE ToDecide(u) = {} /\ ToConfirm(u) # {}
  <2>1. PICK x : x \in ToConfirm(u)
    BY <1>3
  <2>2. To("pairing", x[1]) \in PrimaryCard(u)
    BY <1>3, <2>1 DEF PrimaryCard
  <2> QED BY <1>1, <2>1, <2>2
<1>4. CASE ToDecide(u) = {} /\ ToConfirm(u) = {}
  BY <1>1, <1>4
<1> QED BY <1>2, <1>3, <1>4

(* OffersHonoured: whatever Home and the screens behind it let a volunteer *)
(* do, the handlers of lifecycle.js take, in every state in which the      *)
(* tick() of their requests has nothing left to do.                        *)
THEOREM OffersAreHonoured == Spec => []OffersHonoured
<1>1. PInv => OffersHonoured
  BY OfferIsTaken, CardsLeadThere DEF OffersHonoured
<1> QED BY <1>1, Places, PTL

=============================================================================
