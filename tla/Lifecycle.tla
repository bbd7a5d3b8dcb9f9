------------------------------ MODULE Lifecycle ------------------------------
(***************************************************************************)
(* The pairing lifecycle (backend/lib/lifecycle.js), with the capacity     *)
(* counter it shares (lib/shifts.js) and the proposals matching writes     *)
(* (lib/matchingRunner.js).  Every handler is one SQLite transaction, so   *)
(* each is one action.  A handler calls others inside its transaction:     *)
(* such a helper is an operator from the database it finds to the          *)
(* database it leaves, and Commit makes the last one the next state, in    *)
(* which no matching run is under way.                                     *)
(*                                                                         *)
(* Abstractions: the price of a shift is one unit of balance, and a hold   *)
(* is the column of its booking (module Deeds models the ledger); who fits *)
(* whom is not decided here (any pair the rules do not forbid may be       *)
(* proposed); all of time lies in one calendar month.                      *)
(***************************************************************************)
EXTENDS Integers, FiniteSets

CONSTANTS
    User, NoUser,
    Shift, NoShift,
    Capacity, Start, End,       \* per shift: spots, starts_at, ends_at
    WindowEnd,                  \* the ends of the windows users search in
    Premium,                    \* users with a penalty-free late cancellation
    StartBalance,               \* shifts a user can pay for
    MonthlyCap,
    Grace, BailDecisionTime, BailMin, RematchLast, MinLead,
    ProposalResponse, LastResponse, WaitCap, CheckInLead, AutoResolve,
    Horizon,                    \* bound: time stops here
    SoloUser, Reporter,         \* bounds: who may RSVP solo, who may report a partner
    MaxRequests, MaxBookings, MaxPairings,  \* bounds: rows ever inserted
    PromptTick                  \* tick() is never late: the server stays up

ASSUME LifecycleAssumption ==
    /\ NoUser \notin User /\ NoShift \notin Shift
    /\ Capacity \in [Shift -> Nat \ {0}]
    /\ Start \in [Shift -> Nat] /\ End \in [Shift -> Nat]
    /\ \A s \in Shift : Start[s] < End[s]
    /\ WindowEnd \subseteq Nat
    /\ Premium \subseteq User /\ SoloUser \subseteq User /\ Reporter \subseteq User
    /\ {StartBalance, MonthlyCap, Grace, BailDecisionTime, BailMin, RematchLast,
        MinLead, ProposalResponse, LastResponse, WaitCap, CheckInLead, AutoResolve,
        Horizon, MaxRequests, MaxBookings, MaxPairings} \subseteq Nat
    /\ CheckInLead <= RematchLast /\ RematchLast < BailMin
    /\ BailMin < LastResponse /\ LastResponse < MinLead
    /\ PromptTick \in BOOLEAN

RequestId == 1 .. MaxRequests
BookingId == 1 .. MaxBookings
PairingId == 1 .. MaxPairings
None == 0
Side == {"a", "b"}

OpenRequest == {"searching", "proposed"}
ActiveBooking == {"proposed", "confirmed"}
LivePairing == {"proposed", "confirmed"}

Request == [status : {"free", "searching", "proposed", "matched", "no_match", "cancelled"},
            user : User \cup {NoUser}, kind : {"standard", "solo_rsvp", "rematch"},
            deadline : Nat, anchor : BookingId \cup {None}, excluded : SUBSET Shift]
Booking == [status : {"free", "proposed", "confirmed", "cancelled", "attended",
                      "no_show", "unverified"},
            user : User \cup {NoUser}, shift : Shift \cup {NoShift},
            pairing : PairingId \cup {None}, kind : {"paired", "solo"},
            hold : {"none", "held", "released", "returned", "forfeited"},
            at : Nat, cap : BOOLEAN]
Pairing == [status : {"free", "proposed", "confirmed", "completed", "cancelled",
                      "declined", "expired"},
            request : [Side -> RequestId \cup {None}],
            booking : [Side -> BookingId \cup {None}],
            expires : Nat, bailUser : User \cup {NoUser}, bailDeadline : Nat,
            choice : {"none", "release", "rematch", "auto_release", "no_response_release"}]

VARIABLES
    now,
    booked,    \* shifts.capacity_booked
    requests,  \* availability_requests
    bookings,
    pairings,
    balance,   \* what is available, in shifts
    lost,      \* what the ledger's forfeit rows add up to, in shifts
    freeLate,  \* users whose free late cancellation of this month is used
    blocked,   \* pairs of users one of whom reported the other
    written    \* pairings inserted by the matching run under way

vars == <<now, booked, requests, bookings, pairings, balance, lost, freeLate, blocked, written>>

NoRequest == [status |-> "free", user |-> NoUser, kind |-> "standard", deadline |-> 0,
              anchor |-> None, excluded |-> {}]
NoBooking == [status |-> "free", user |-> NoUser, shift |-> NoShift, pairing |-> None,
              kind |-> "paired", hold |-> "none", at |-> 0, cap |-> FALSE]
NoPairing == [status |-> "free", request |-> [s \in Side |-> None],
              booking |-> [s \in Side |-> None], expires |-> 0, bailUser |-> NoUser,
              bailDeadline |-> 0, choice |-> "none"]

Init ==
    /\ now = 0
    /\ booked = [s \in Shift |-> 0]
    /\ requests = [r \in RequestId |-> NoRequest]
    /\ bookings = [b \in BookingId |-> NoBooking]
    /\ pairings = [p \in PairingId |-> NoPairing]
    /\ balance = [u \in User |-> StartBalance]
    /\ lost = [u \in User |-> 0]
    /\ freeLate = {}
    /\ blocked = {}
    /\ written = {}

Db == [booked |-> booked, requests |-> requests, bookings |-> bookings,
       pairings |-> pairings, balance |-> balance, lost |-> lost]

Commit(d) ==
    /\ booked' = d.booked
    /\ requests' = d.requests
    /\ bookings' = d.bookings
    /\ pairings' = d.pairings
    /\ balance' = d.balance
    /\ lost' = d.lost
    /\ written' = {}

-----------------------------------------------------------------------------
(* Queries. *)

Earlier(t1, t2) == IF t1 < t2 THEN t1 ELSE t2
Later(t1, t2) == IF t1 < t2 THEN t2 ELSE t1
Before(t, n) == IF t < n THEN 0 ELSE t - n

(* The row an INSERT takes: the first unused one. *)
Fresh(table, taken, i) ==
    /\ table[i].status = "free" /\ i \notin taken
    /\ \A j \in DOMAIN table \ taken : j < i => table[j].status # "free"

(* openRequest: the latest one, by created_at. *)
OpenRequests(u) == {r \in RequestId : requests[r].user = u /\ requests[r].status \in OpenRequest}
IsLatest(r, rs) == r \in rs /\ \A q \in rs : q <= r

ActiveBookings(u) ==
    {b \in BookingId : bookings[b].user = u /\ bookings[b].status \in ActiveBooking}

(* Mutant: only the same shift counts as an overlap. *)
OverlapSameShift(s, t) == s = t

Overlap(s, t) == Start[s] < End[t] /\ Start[t] < End[s]
Overlaps(s, bs) == \E b \in bs : Overlap(s, bookings[b].shift)

UserOn(p, s) == bookings[pairings[p].booking[s]].user
ShiftOf(p) == bookings[pairings[p].booking["a"]].shift

CapUsed(u) == Cardinality({b \in BookingId : bookings[b].user = u /\ bookings[b].cap})
CapPending(u) ==
    {b \in BookingId :
        /\ bookings[b].user = u /\ bookings[b].status = "proposed"
        /\ bookings[b].pairing # None
        /\ pairings[bookings[b].pairing].status = "proposed"}

(* eligibilityBlock, for verified users nobody has paused. *)
CapReached(u) == CapUsed(u) + Cardinality(CapPending(u)) >= MonthlyCap

-----------------------------------------------------------------------------
(* Helpers that run inside a handler's transaction. *)

PutRequest(d, r, row) == [d EXCEPT !.requests = [@ EXCEPT ![r] = row]]
PutBooking(d, b, row) == [d EXCEPT !.bookings = [@ EXCEPT ![b] = row]]
PutPairing(d, p, row) == [d EXCEPT !.pairings = [@ EXCEPT ![p] = row]]

CanReserve(d, s, n) == d.booked[s] + n <= Capacity[s]
ReserveSpots(d, s, n) == [d EXCEPT !.booked[s] = @ + n]

(* Mutant: both spots of the pairing are given back, whoever leaves. *)
ReleaseSpotsOfPair(d, s, n) == [d EXCEPT !.booked[s] = @ - 2 * n]

ReleaseSpots(d, s, n) == [d EXCEPT !.booked[s] = IF @ < n THEN 0 ELSE @ - n]

PlaceHold(d, b) ==
    [PutBooking(d, b, [d.bookings[b] EXCEPT !.hold = "held"])
        EXCEPT !.balance[d.bookings[b].user] = @ - 1]

(* What becomes of a hold, and of the unit of balance in it.               *)
Settle(d, b, outcome) ==
    LET u == d.bookings[b].user
        settled == PutBooking(d, b, [d.bookings[b] EXCEPT !.hold = outcome])
    IN  IF outcome = "forfeited" THEN [settled EXCEPT !.lost[u] = @ + 1]
        ELSE [settled EXCEPT !.balance[u] = @ + 1]

(* Mutant: a hold that was settled already is settled again. *)
ResolveHoldAgain(d, b, outcome) ==
    IF d.bookings[b].hold = "none" THEN d ELSE Settle(d, b, outcome)

ResolveHold(d, b, outcome) ==
    IF d.bookings[b].hold # "held" THEN d ELSE Settle(d, b, outcome)

CancelRow(d, b, keepCap) ==
    ReleaseSpots(PutBooking(d, b, [d.bookings[b] EXCEPT !.status = "cancelled",
                                                        !.cap = keepCap /\ @]),
                 d.bookings[b].shift, 1)

SoloRow(d, b, keepCap) ==
    PutBooking(d, b, [d.bookings[b] EXCEPT !.kind = "solo", !.pairing = None,
                                           !.cap = keepCap /\ @])

(* Mutant: the spot is released with the Deeds. *)
KeepSpotSoloReleasingSpot(d, b) ==
    ReleaseSpots(SoloRow(ResolveHold(d, b, "released"), b, FALSE), d.bookings[b].shift, 1)

KeepSpotSoloAfterRelease(d, b) == SoloRow(ResolveHold(d, b, "released"), b, FALSE)
ReleaseAndCancel(d, b) == CancelRow(ResolveHold(d, b, "released"), b, FALSE)

(* finalizeIfReady: both sides confirmed, so the pairing is on. *)
Ready(d, p) ==
    \A s \in Side : LET bk == d.bookings[d.pairings[p].booking[s]]
                    IN  bk.status = "confirmed" /\ bk.kind = "paired" /\ bk.hold # "none"

MatchRequest(d, p, s) ==
    PutRequest(d, d.pairings[p].request[s],
               [d.requests[d.pairings[p].request[s]] EXCEPT !.status = "matched"])

(* Mutant: an anchored booking stays in the pairing it was in before. *)
JoinSideFresh(d, p, s) ==
    LET b == d.pairings[p].booking[s]
    IN  PutBooking(MatchRequest(d, p, s), b,
                   [d.bookings[b] EXCEPT !.pairing = IF @ = None THEN p ELSE @])

JoinSide(d, p, s) ==
    LET b == d.pairings[p].booking[s]
    IN  PutBooking(MatchRequest(d, p, s), b, [d.bookings[b] EXCEPT !.pairing = p])

PutStatus(d, p, status) == PutPairing(d, p, [d.pairings[p] EXCEPT !.status = status])

FinalizeIfReady(d, p) ==
    IF Ready(d, p)
    THEN JoinSide(JoinSide(PutStatus(d, p, "confirmed"), p, "a"), p, "b")
    ELSE d

(* Mutant: a solo spot that was confirmed into the proposal stays paired. *)
EndSideBookingStaysPaired(d, p, s, skip) ==
    LET b == d.pairings[p].booking[s]
    IN  IF b # skip /\ d.bookings[b].pairing = p THEN ReleaseAndCancel(d, b) ELSE d

(* Mutant: the spot somebody had before the proposal is given up with it. *)
EndSideBookingAnchorToo(d, p, s, skip) ==
    LET b == d.pairings[p].booking[s]
    IN  IF b # skip THEN ReleaseAndCancel(d, b) ELSE d

(* endProposal, one side of it at a time.  A booking made for the proposal *)
(* is cancelled; a solo spot goes back to solo; a rematch spot is left as  *)
(* it is.                                                                  *)
EndSideBooking(d, p, s, skip) ==
    LET b == d.pairings[p].booking[s]
        r == d.pairings[p].request[s]
    IN  IF b = skip THEN d
        ELSE IF d.bookings[b].pairing = p THEN ReleaseAndCancel(d, b)
        ELSE IF d.requests[r].kind = "solo_rsvp" /\ d.bookings[b].hold # "none"
        THEN PutBooking(ResolveHold(d, b, "released"), b,
                        [d.bookings[b] EXCEPT !.kind = "solo", !.hold = "none", !.cap = FALSE])
        ELSE d

NextRequestStatus(d, p, s, status, actor, keepLooking) ==
    LET b == d.bookings[d.pairings[p].booking[s]]
        wanted == IF b.user = actor
                  THEN IF keepLooking THEN "searching" ELSE "cancelled"
                  ELSE IF status = "expired" /\ b.status # "confirmed"
                  THEN "cancelled" ELSE "searching"
    IN  IF wanted = "searching" /\ d.requests[d.pairings[p].request[s]].deadline <= now
        THEN "no_match" ELSE wanted

EndSide(d, p, s, status, actor, keepLooking, skip) ==
    LET r == d.pairings[p].request[s]
        bk == d.bookings[d.pairings[p].booking[s]]
        next == NextRequestStatus(d, p, s, status, actor, keepLooking)
        again == bk.user = actor /\ keepLooking /\ d.requests[r].anchor = None
    IN  PutRequest(EndSideBooking(d, p, s, skip), r,
                   [d.requests[r] EXCEPT !.status = next,
                        !.excluded = IF again THEN @ \cup {bk.shift} ELSE @])

EndProposal(d, p, status, actor, keepLooking, skip) ==
    LET one == EndSide(PutStatus(d, p, status), p, "a", status, actor, keepLooking, skip)
    IN  EndSide(one, p, "b", status, actor, keepLooking, skip)

(* Mutant: the proposal a cancelled booking is part of stays open. *)
EndOpenProposalOfNothing(d, b) == d

(* The end of cancelBooking: an open proposal the booking is part of ends. *)
EndOpenProposalOf(d, b) ==
    LET open == {p \in PairingId : /\ d.pairings[p].status = "proposed"
                                   /\ \E s \in Side : d.pairings[p].booking[s] = b}
    IN  IF open = {} THEN d
        ELSE EndProposal(d, CHOOSE p \in open : TRUE, "declined",
                         d.bookings[b].user, FALSE, b)

CancelAnchored(d, b) ==
    [d EXCEPT !.requests = [r \in RequestId |->
        IF d.requests[r].anchor = b /\ d.requests[r].status \in OpenRequest
        THEN [d.requests[r] EXCEPT !.status = "cancelled"] ELSE d.requests[r]]]

(* partnerBackedOut: the partner is asked, or released when it is too late *)
(* to ask.                                                                 *)
PartnerBackedOut(d, p, backer) ==
    LET s == IF UserOn(p, "a") = backer THEN "b" ELSE "a"
        partner == d.pairings[p].booking[s]
        deadline == Earlier(now + BailDecisionTime, Before(Start[ShiftOf(p)], BailMin))
        late == deadline <= now
        asked == PutPairing(d, p, [d.pairings[p] EXCEPT
                    !.status = "cancelled", !.bailUser = UserOn(p, s),
                    !.bailDeadline = Later(deadline, now),
                    !.choice = IF late THEN "auto_release" ELSE @])
    IN  IF late THEN KeepSpotSoloAfterRelease(asked, partner) ELSE asked

Resolved(bk, p) ==
    bk.status \in {"attended", "no_show", "unverified", "cancelled"} \/ bk.pairing # p

(* Mutant: a pairing completes as soon as both have checked in. *)
CompleteIfResolvedEarly(d, p) ==
    IF /\ p # None /\ d.pairings[p].status = "confirmed"
       /\ \A s \in Side : Resolved(d.bookings[d.pairings[p].booking[s]], p)
    THEN PutStatus(d, p, "completed")
    ELSE d

CompleteIfResolved(d, p) ==
    IF /\ p # None /\ d.pairings[p].status = "confirmed"
       /\ End[ShiftOf(p)] <= now
       /\ \A s \in Side : Resolved(d.bookings[d.pairings[p].booking[s]], p)
    THEN PutStatus(d, p, "completed")
    ELSE d

-----------------------------------------------------------------------------
(* Searching. *)

NewRequest(u, kind, deadline, anchor) ==
    [status |-> "searching", user |-> u, kind |-> kind, deadline |-> deadline,
     anchor |-> anchor, excluded |-> {}]

(* validateWindow: a search stops at the waiting cap, or when no shift in  *)
(* its window can still meet the minimum lead time.                        *)
SearchDeadline(windowEnd) == Earlier(now + WaitCap, Before(windowEnd, MinLead))

CreateRequest(u, windowEnd) ==
    \E r \in RequestId :
        /\ OpenRequests(u) = {}
        /\ ~CapReached(u)
        /\ balance[u] >= 1
        /\ SearchDeadline(windowEnd) > now
        /\ Fresh(requests, {}, r)
        /\ requests' = [requests EXCEPT ![r] =
                NewRequest(u, "standard", SearchDeadline(windowEnd), None)]
        /\ written' = {}
        /\ UNCHANGED <<now, booked, bookings, pairings, balance, lost, freeLate, blocked>>

(* Stopping a rematch search is choosing the Deeds back. *)
CancelRequest(u) ==
    \E r \in RequestId :
        /\ IsLatest(r, OpenRequests(u))
        /\ requests[r].status = "searching"
        /\ LET d == PutRequest(Db, r, [requests[r] EXCEPT !.status = "cancelled"])
               b == requests[r].anchor
           IN  Commit(IF requests[r].kind = "rematch" /\ bookings[b].status = "confirmed"
                      THEN KeepSpotSoloAfterRelease(d, b) ELSE d)
        /\ UNCHANGED <<now, freeLate, blocked>>

(* Adjusting moves the deadline of the open search, or opens the latest    *)
(* one that found no match again.                                          *)
Adjustable(u) ==
    IF OpenRequests(u) # {} THEN OpenRequests(u)
    ELSE {r \in RequestId : /\ requests[r].user = u /\ requests[r].kind = "standard"
                            /\ requests[r].status = "no_match"}

AdjustRequest(u, windowEnd) ==
    \E r \in RequestId :
        /\ IsLatest(r, Adjustable(u))
        /\ requests[r].status # "proposed" /\ requests[r].kind = "standard"
        /\ SearchDeadline(windowEnd) > now
        /\ requests' = [requests EXCEPT ![r].deadline = SearchDeadline(windowEnd),
                                        ![r].status = "searching"]
        /\ written' = {}
        /\ UNCHANGED <<now, booked, bookings, pairings, balance, lost, freeLate, blocked>>

(* A solo RSVP takes a spot now, replaces the open search, and keeps       *)
(* looking for a partner for this very shift while there is time.          *)
SoloBooking(u, s) ==
    [NoBooking EXCEPT !.status = "confirmed", !.user = u, !.shift = s, !.kind = "solo", !.at = now]

RsvpSolo(u, s) ==
    /\ u \in SoloUser
    /\ Start[s] > now
    /\ ~Overlaps(s, ActiveBookings(u))
    /\ \A q \in RequestId : IsLatest(q, OpenRequests(u)) => requests[q].status # "proposed"
    /\ CanReserve(Db, s, 1)
    /\ \E b \in BookingId, r \in RequestId :
        /\ Fresh(bookings, {}, b) /\ Fresh(requests, {}, r)
        /\ LET deadline == Before(Start[s], LastResponse)
               looks == deadline > now /\ ~CapReached(u)
           IN  /\ booked' = ReserveSpots(Db, s, 1).booked
               /\ bookings' = [bookings EXCEPT ![b] = SoloBooking(u, s)]
               /\ requests' = [q \in RequestId |->
                    IF IsLatest(q, OpenRequests(u))
                    THEN [requests[q] EXCEPT !.status = "cancelled"]
                    ELSE IF q = r /\ looks
                    THEN NewRequest(u, "solo_rsvp", deadline, b)
                    ELSE requests[q]]
        /\ written' = {}
        /\ UNCHANGED <<now, pairings, balance, lost, freeLate, blocked>>

-----------------------------------------------------------------------------
(* Proposing.  A matching run is one transaction: it reads a snapshot,     *)
(* plans on it and writes proposal after proposal.  CreateProposal is one  *)
(* of them.  It decides on the rows of the snapshot, which are those the   *)
(* run has not written itself; only the capacity is looked at again.       *)

(* buildSnapshot: bookings read before the run wrote any. *)
Unwritten(bs) == {b \in bs : bookings[b].pairing \notin written}

(* eligibilityBlock: a rematch keeps a booking that counts already. *)
Eligible(r) ==
    LET u == requests[r].user
    IN  /\ requests[r].status = "searching"
        /\ \/ requests[r].kind = "rematch"
           \/ CapUsed(u) + Cardinality(Unwritten(CapPending(u))) < MonthlyCap

(* shiftsFor, as buildSnapshot narrows it. *)
CanGo(r, s) ==
    LET mine == Unwritten(ActiveBookings(requests[r].user))
        anchor == requests[r].anchor
    IN  IF anchor # None
        THEN /\ s = bookings[anchor].shift /\ now < Before(Start[s], RematchLast)
             /\ ~Overlaps(s, mine \ {anchor})
        ELSE /\ s \notin requests[r].excluded /\ Start[s] >= now + MinLead
             /\ ~Overlaps(s, mine)

(* pairEligible, with what the profiles say left open, for those who have  *)
(* the given pairings.                                                     *)
MayPair(u, v, ps) ==
    /\ u # v /\ {u, v} \notin blocked
    /\ \A p \in ps : pairings[p].status \in LivePairing =>
            {UserOn(p, "a"), UserOn(p, "b")} # {u, v}

SpotsNeeded(ra, rb) == Cardinality({r \in {ra, rb} : requests[r].anchor = None})

UsesBooking(r, taken, b) ==
    IF requests[r].anchor # None THEN b = requests[r].anchor ELSE Fresh(bookings, taken, b)

ProposalExpires(ra, rb, s) ==
    LET last == IF "rematch" \in {requests[ra].kind, requests[rb].kind}
                THEN RematchLast ELSE LastResponse
    IN  Earlier(now + ProposalResponse, Before(Start[s], last))

(* createProposal, one match of a plan. *)
CreateProposal(ra, rb, s) ==
    /\ ra < rb
    /\ Eligible(ra) /\ Eligible(rb)
    /\ MayPair(requests[ra].user, requests[rb].user, PairingId \ written)
    /\ CanGo(ra, s) /\ CanGo(rb, s)
    /\ CanReserve(Db, s, SpotsNeeded(ra, rb))
    /\ \E ba, bb \in BookingId, p \in PairingId :
        /\ Fresh(pairings, {}, p)
        /\ UsesBooking(ra, {}, ba)
        /\ UsesBooking(rb, {ba}, bb)
        /\ booked' = ReserveSpots(Db, s, SpotsNeeded(ra, rb)).booked
        /\ bookings' = [b \in BookingId |->
                IF b \in {ba, bb} /\ bookings[b].status = "free"
                THEN [NoBooking EXCEPT !.status = "proposed", !.shift = s, !.pairing = p,
                        !.user = IF b = ba THEN requests[ra].user ELSE requests[rb].user]
                ELSE bookings[b]]
        /\ pairings' = [pairings EXCEPT ![p] =
                [NoPairing EXCEPT !.status = "proposed",
                    !.request = [x \in Side |-> IF x = "a" THEN ra ELSE rb],
                    !.booking = [x \in Side |-> IF x = "a" THEN ba ELSE bb],
                    !.expires = ProposalExpires(ra, rb, s)]]
        /\ requests' = [requests EXCEPT ![ra].status = "proposed", ![rb].status = "proposed"]
        /\ written' = written \cup {p}
        /\ UNCHANGED <<now, balance, lost, freeLate, blocked>>

-----------------------------------------------------------------------------
(* Answering a proposal. *)

AlreadyIn(b) ==
    bookings[b].status = "confirmed" /\ bookings[b].hold # "none" /\ bookings[b].kind = "paired"

ConfirmedElsewhere(b) ==
    {c \in ActiveBookings(bookings[b].user) \ {b} : bookings[c].status = "confirmed"}

CanConfirm(b) ==
    /\ CapUsed(bookings[b].user) < MonthlyCap
    /\ ~Overlaps(bookings[b].shift, ConfirmedElsewhere(b))
    /\ balance[bookings[b].user] >= 1

ConfirmRow(d, b) ==
    PutBooking(d, b, [d.bookings[b] EXCEPT !.status = "confirmed", !.kind = "paired",
                                           !.at = now, !.cap = TRUE])

Confirm(p, s) ==
    LET b == pairings[p].booking[s]
    IN  /\ pairings[p].status = "proposed"
        /\ pairings[p].expires > now
        /\ AlreadyIn(b) \/ CanConfirm(b)
        /\ Commit(FinalizeIfReady(
                IF AlreadyIn(b) THEN Db ELSE ConfirmRow(PlaceHold(Db, b), b), p))
        /\ UNCHANGED <<now, freeLate, blocked>>

(* decline: not by a side that confirmed into this proposal. *)
MayDecline(p, s) ==
    LET bk == bookings[pairings[p].booking[s]]
    IN  ~ /\ bk.status = "confirmed"
          /\ \/ bk.pairing = p
             \/ requests[pairings[p].request[s]].kind = "solo_rsvp" /\ bk.hold # "none"

Decline(p, s, keepLooking) ==
    /\ pairings[p].status = "proposed"
    /\ MayDecline(p, s)
    /\ Commit(EndProposal(Db, p, "declined", UserOn(p, s), keepLooking, None))
    /\ UNCHANGED <<now, freeLate, blocked>>

-----------------------------------------------------------------------------
(* Cancelling and backing out. *)

PairingStatusOf(b) ==
    IF bookings[b].pairing = None THEN "free" ELSE pairings[bookings[b].pairing].status

(* cancelPreview: the partner backed out, and nobody took their place. *)
BackedOutOn(b) ==
    /\ PairingStatusOf(b) = "cancelled"
    /\ pairings[bookings[b].pairing].bailUser = bookings[b].user
    /\ bookings[b].kind = "paired" /\ bookings[b].hold # "none"

CancelType(b) ==
    CASE BackedOutOn(b) -> "partner_cancelled"
      [] ~BackedOutOn(b) /\ (bookings[b].kind = "solo" \/ bookings[b].hold = "none") -> "solo"
      [] OTHER -> IF now - bookings[b].at <= Grace THEN "grace"
                  ELSE IF bookings[b].user \in Premium \ freeLate THEN "free_late"
                  ELSE "late"

CanKeepSpotSolo(b) ==
    bookings[b].kind = "paired" /\ (PairingStatusOf(b) \in LivePairing \/ BackedOutOn(b))

(* Mutant: the decision stays open after the partner has left. *)
CancelBackedOutOnUndecided(b, keepSpotSolo) ==
    LET gone == IF keepSpotSolo THEN KeepSpotSoloAfterRelease(Db, b) ELSE ReleaseAndCancel(Db, b)
    IN  EndOpenProposalOf(CancelAnchored(gone, b), b)

Choose(d, p, choice) == PutPairing(d, p, [d.pairings[p] EXCEPT !.choice = choice])

(* cancelBooking of a partner who was backed out on: the Deeds come back. *)
CancelBackedOutOn(b, keepSpotSolo) ==
    LET p == bookings[b].pairing
        gone == IF keepSpotSolo THEN KeepSpotSoloAfterRelease(Db, b) ELSE ReleaseAndCancel(Db, b)
        chosen == IF pairings[p].choice = "none" THEN Choose(gone, p, "release") ELSE gone
    IN  EndOpenProposalOf(CancelAnchored(chosen, b), b)

(* Mutant: leaving for safety costs what cancelling would. *)
CancelOwnAsPreviewed(b, type, keepSpotSolo) ==
    LET p == bookings[b].pairing
        late == CancelType(b) = "late"
        settled == ResolveHold(Db, b, IF late THEN "forfeited" ELSE "released")
        gone == IF keepSpotSolo /\ CanKeepSpotSolo(b)
                THEN SoloRow(settled, b, late) ELSE CancelRow(settled, b, late)
        alone == CancelAnchored(gone, b)
        told == IF PairingStatusOf(b) = "confirmed"
                THEN PartnerBackedOut(alone, p, bookings[b].user) ELSE alone
    IN  EndOpenProposalOf(told, b)

(* cancelBooking of anyone else, for a cancellation of the given type. *)
CancelOwn(b, type, keepSpotSolo) ==
    LET p == bookings[b].pairing
        late == type = "late"
        settled == ResolveHold(Db, b, IF late THEN "forfeited" ELSE "released")
        gone == IF keepSpotSolo /\ CanKeepSpotSolo(b)
                THEN SoloRow(settled, b, late) ELSE CancelRow(settled, b, late)
        alone == CancelAnchored(gone, b)
        told == IF PairingStatusOf(b) = "confirmed"
                THEN PartnerBackedOut(alone, p, bookings[b].user) ELSE alone
    IN  EndOpenProposalOf(told, b)

CancelBooking(b, keepSpotSolo) ==
    /\ bookings[b].status = "confirmed"
    /\ Start[bookings[b].shift] > now
    /\ Commit(IF CancelType(b) = "partner_cancelled"
              THEN CancelBackedOutOn(b, keepSpotSolo)
              ELSE CancelOwn(b, CancelType(b), keepSpotSolo))
    /\ freeLate' = IF CancelType(b) = "free_late" THEN freeLate \cup {bookings[b].user} ELSE freeLate
    /\ UNCHANGED <<now, blocked>>

(* A report about the partner (lib/social.js) blocks the two for good.  It *)
(* may also take the reporter out, even during the shift, at no cost.      *)
ReportPartner(p, s, cancelPairing) ==
    LET b == pairings[p].booking[s]
        leaves == cancelPairing /\ pairings[p].status \in LivePairing
    IN  /\ pairings[p].status # "free" /\ UserOn(p, s) \in Reporter
        /\ blocked' = blocked \cup {{UserOn(p, "a"), UserOn(p, "b")}}
        /\ Commit(IF leaves /\ bookings[b].status = "confirmed"
                  THEN CancelOwn(b, "safety", FALSE)
                  ELSE IF leaves /\ pairings[p].status = "proposed"
                  THEN EndProposal(Db, p, "declined", UserOn(p, s), TRUE, None)
                  ELSE Db)
        /\ UNCHANGED <<now, freeLate>>

DecisionOpen(p) ==
    pairings[p].status = "cancelled" /\ pairings[p].bailUser # NoUser /\ pairings[p].choice = "none"
BailSide(p) == IF UserOn(p, "a") = pairings[p].bailUser THEN "a" ELSE "b"

BailRelease(p) ==
    /\ DecisionOpen(p) /\ pairings[p].bailDeadline > now
    /\ Commit(ReleaseAndCancel(Choose(Db, p, "release"),
                               pairings[p].booking[BailSide(p)]))
    /\ UNCHANGED <<now, freeLate, blocked>>

BailRematch(p) ==
    \E r \in RequestId :
        /\ DecisionOpen(p) /\ pairings[p].bailDeadline > now
        /\ Fresh(requests, {}, r)
        /\ pairings' = [pairings EXCEPT ![p].choice = "rematch"]
        /\ requests' = [requests EXCEPT ![r] =
                NewRequest(pairings[p].bailUser, "rematch",
                           Before(Start[ShiftOf(p)], RematchLast),
                           pairings[p].booking[BailSide(p)])]
        /\ written' = {}
        /\ UNCHANGED <<now, booked, bookings, balance, lost, freeLate, blocked>>

-----------------------------------------------------------------------------
(* Shift day. *)

Mark(d, b, status) == PutBooking(d, b, [d.bookings[b] EXCEPT !.status = status])

CheckIn(b) ==
    /\ bookings[b].status = "confirmed"
    /\ now >= Before(Start[bookings[b].shift], CheckInLead)
    /\ Commit(CompleteIfResolved(Mark(ResolveHold(Db, b, "returned"), b, "attended"),
                                 bookings[b].pairing))
    /\ UNCHANGED <<now, freeLate, blocked>>

MarkNoShow(b) ==
    /\ bookings[b].status = "confirmed"
    /\ now >= Start[bookings[b].shift]
    /\ Commit(CompleteIfResolved(Mark(ResolveHold(Db, b, "forfeited"), b, "no_show"),
                                 bookings[b].pairing))
    /\ UNCHANGED <<now, freeLate, blocked>>

-----------------------------------------------------------------------------
(* tick(): its loops in their order, one transaction per row. *)

(* Mutants, one per loop: rows the loop never sees. *)
FruitlessStandard ==
    {r \in RequestId : requests[r].status = "searching" /\ requests[r].deadline <= now
                        /\ requests[r].kind # "rematch"}
UnmarkedSolo ==
    {b \in BookingId : bookings[b].status = "confirmed" /\ bookings[b].kind = "solo"
                        /\ End[bookings[b].shift] + AutoResolve <= now}

Expired == {p \in PairingId : pairings[p].status = "proposed" /\ pairings[p].expires <= now}
Unanswered == {p \in PairingId : DecisionOpen(p) /\ pairings[p].bailDeadline <= now}
Fruitless == {r \in RequestId : requests[r].status = "searching" /\ requests[r].deadline <= now}
Completable ==
    {p \in PairingId : pairings[p].status = "confirmed" /\ CompleteIfResolved(Db, p) # Db}
Unmarked ==
    {b \in BookingId : bookings[b].status = "confirmed" /\ End[bookings[b].shift] + AutoResolve <= now}

TickExpireProposal(p) ==
    /\ p \in Expired
    /\ Commit(EndProposal(Db, p, "expired", NoUser, TRUE, None))
    /\ UNCHANGED <<now, freeLate, blocked>>

(* Mutant: the spot is released, but nothing says the window has closed. *)
TickBailNoResponseUnrecorded(p) ==
    LET b == pairings[p].booking[BailSide(p)]
    IN  /\ Expired = {} /\ p \in Unanswered
        /\ Commit(IF bookings[b].status = "confirmed" THEN ReleaseAndCancel(Db, b) ELSE Db)
        /\ UNCHANGED <<now, freeLate, blocked>>

TickBailNoResponse(p) ==
    LET b == pairings[p].booking[BailSide(p)]
        chosen == Choose(Db, p, "no_response_release")
    IN  /\ Expired = {} /\ p \in Unanswered
        /\ Commit(IF bookings[b].status = "confirmed" THEN ReleaseAndCancel(chosen, b) ELSE chosen)
        /\ UNCHANGED <<now, freeLate, blocked>>

TickSearchDeadline(r) ==
    LET b == requests[r].anchor
        ended == PutRequest(Db, r, [requests[r] EXCEPT !.status = "no_match"])
    IN  /\ Expired = {} /\ Unanswered = {} /\ r \in Fruitless
        /\ Commit(IF requests[r].kind = "rematch" /\ bookings[b].status = "confirmed"
                  THEN KeepSpotSoloAfterRelease(ended, b) ELSE ended)
        /\ UNCHANGED <<now, freeLate, blocked>>

TickComplete(p) ==
    /\ Expired = {} /\ Unanswered = {} /\ Fruitless = {} /\ p \in Completable
    /\ Commit(CompleteIfResolved(Db, p))
    /\ UNCHANGED <<now, freeLate, blocked>>

TickAutoResolve(b) ==
    /\ Expired = {} /\ Unanswered = {} /\ Fruitless = {} /\ Completable = {}
    /\ b \in Unmarked
    /\ Commit(CompleteIfResolved(Mark(ResolveHold(Db, b, "released"), b, "unverified"),
                                 bookings[b].pairing))
    /\ UNCHANGED <<now, freeLate, blocked>>

TickDue ==
    Expired # {} \/ Unanswered # {} \/ Fruitless # {} \/ Completable # {} \/ Unmarked # {}

Advance ==
    /\ now < Horizon
    /\ PromptTick => ~TickDue
    /\ now' = now + 1
    /\ written' = {}
    /\ UNCHANGED <<booked, requests, bookings, pairings, balance, lost, freeLate, blocked>>

UserStep ==
    \/ \E u \in User, w \in WindowEnd : CreateRequest(u, w)
    \/ \E u \in User : CancelRequest(u)
    \/ \E u \in User, w \in WindowEnd : AdjustRequest(u, w)
    \/ \E u \in User, s \in Shift : RsvpSolo(u, s)
    \/ \E p \in PairingId, s \in Side : Confirm(p, s)
    \/ \E p \in PairingId, s \in Side, keep \in BOOLEAN : Decline(p, s, keep)
    \/ \E b \in BookingId, keep \in BOOLEAN : CancelBooking(b, keep)
    \/ \E p \in PairingId, s \in Side, cancel \in BOOLEAN : ReportPartner(p, s, cancel)
    \/ \E p \in PairingId : BailRelease(p)
    \/ \E p \in PairingId : BailRematch(p)

OrgStep ==
    \/ \E b \in BookingId : CheckIn(b)
    \/ \E b \in BookingId : MarkNoShow(b)

Matching == \E ra, rb \in RequestId, s \in Shift : CreateProposal(ra, rb, s)

Tick ==
    \/ \E p \in PairingId : TickExpireProposal(p)
    \/ \E p \in PairingId : TickBailNoResponse(p)
    \/ \E r \in RequestId : TickSearchDeadline(r)
    \/ \E p \in PairingId : TickComplete(p)
    \/ \E b \in BookingId : TickAutoResolve(b)

Next == UserStep \/ OrgStep \/ Matching \/ Tick \/ Advance

Spec == Init /\ [][Next]_vars

(* The timer calls tick() every TICK_INTERVAL_MS for as long as the server *)
(* runs, and time passes.  Nothing says that users, the org or matching    *)
(* ever act.                                                               *)
FairSpec == Spec /\ WF_vars(Tick) /\ WF_vars(Advance)

-----------------------------------------------------------------------------
(* Types, and a balance is never overdrawn.                                *)
TypeOK ==
    /\ now \in 0 .. Horizon
    /\ booked \in [Shift -> Nat]
    /\ requests \in [RequestId -> Request]
    /\ bookings \in [BookingId -> Booking]
    /\ pairings \in [PairingId -> Pairing]
    /\ balance \in [User -> Nat] /\ lost \in [User -> Nat]
    /\ freeLate \subseteq User
    /\ blocked \subseteq SUBSET User
    /\ written \subseteq PairingId
=============================================================================
