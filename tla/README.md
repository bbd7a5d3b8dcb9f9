# In Good Company: the specification

TLA+ modules for In Good Company, its backend (`src/backend`) and the app that talks to it
(`src/mobile`), with the TLC configurations that check them on small instances and the proofs
TLAPS checks for every instance. This document says what the system is, which module stands for which
code, what each run and each theorem shows, and what is left.

## 1. The system

Two volunteers who do not know each other are matched for a shift at a non-profit. Each
puts *Deeds* (prepaid credits) on hold; the hold comes back when they show up and is
forfeited to the organisation when they do not. The backend is one Node process over one
SQLite database through `better-sqlite3`, which is synchronous: a handler wrapped in
`db.transaction` runs from start to end with nothing in between. What makes the system hard
is therefore not threads. It is

* the **order of handlers**: five parties (two or three users, the organisation, the timer)
  act on the same few rows, and each handler decides by what the others have left there;
* **time**: every state of a row has a deadline, and an answer may come before, at or after
  it, and before or after the timer has noticed it;
* **one fact kept in several places**: the capacity counter and the bookings, the
  balance and the ledger, a request's status and its proposal, a hold and its booking;
* **several ways to one end**: a booking can be ended by eight handlers, a search opened by three;
* the **few gaps** there are: a password hashed between a look and a write, a handler that writes
  several tables without a transaction and may be cut off, memory that a restart loses;
* the **phone**, which shows what it was told last: replies come late, out of order, after their
  screen was left or their session ended, or never.

### Components

| Component | State | Operations | Talks to | Must be true of it |
|---|---|---|---|---|
| Pairing lifecycle, `lib/lifecycle.js`, `lib/shifts.js` | requests, bookings, pairings, `capacity_booked` | 10 user handlers, 2 of the organisation, `tick` | ledger, premium, matching | capacity exact, holds settled, proposals and requests agree, nobody in two places, everything ends |
| Deeds ledger, `lib/deeds.js` | two buckets and a total per user, ledger rows, holds, revenue | credit, purchase, placeHold, resolveHold, auditUser | every handler that takes or returns Deeds | no Deed lost, made or returned to the wrong bucket; a hold settled once; revenue exact |
| Matching runner and planner, `lib/matchingRunner.js`, `matching/assign.js` | a plan in memory; writes proposals and reasons | buildSnapshot, planAssignments, commitPlan, createProposal | reads everything, runs after handlers and ticks | one match per request, best pairs first, no shift over capacity, everybody answered |
| Fit and hard filters, `matching/score.js`, `affinity.js`, `engine.js` | none; rows of attendance and ratings | score, gates | planner | nothing good counts against a pair |
| Premium, `lib/premium.js` | trial, subscription, last grant, `cap_month` | grants, subscribe, cancel, capUsed | lifecycle, ledger | each grant once; paid time never overlaps |
| Social, `lib/social.js`, `lib/blocks.js` | ratings, buddyships, reports | rate, end a buddyship, report | lifecycle, reliability, chat | a report separates; buddies agreed and bounded |
| Reliability, `lib/reliability.js` | pause, review reasons, no-show rows | escalation, expiry, staff clearing | social, admin routes | clearing one reason keeps the others |
| Referrals, `lib/referrals.js` | code, referrer, `referral_credited_at` | link, credit on verification | ledger | once per friend, once per cooldown |
| Resurfacing, `lib/resurface.js` | notification rows; a throttle in memory | one pass per tick | lifecycle, clock | only the quiet are told, once a period |
| Accounts, `index.js`, `lib/auth.js`, `lib/rateLimit.js` | accounts, one session each; windows in memory | sign up, in and out | every route | a session ends for a cause; limits hold |
| Verification, `recryption/badgeStore.js`, `lib/services.js` | badges, reservations of documents | document check, attest, revoke, start-up | profile edits, the device's checks | verified means a valid badge for this profile |
| Chat, `lib/chat.js` | messages, starters | intro, post, poll | tick, the chat screen | no message lost on the screen |
| Organizations, `routes/org.js`, org screens | orgs, shifts, roster | sign-up, listing, check-in, no-show | lifecycle, admin | an old list does no harm |
| Mobile app, `src/mobile` | stack of screens, overlays, onboarding step, cursor | taps, polls, replies | the routes | shows and offers what the server takes; Back leads home |

`PROJECT.json` lists every component with its status and, under `hazards`, the places in the
code that are hard to test, with the properties that cover them. Every hazard listed has one.

## 2. Modules

```
Escrow  <= Deeds <- MCDeeds              the ledger (<- DeedsProofs)
Lifecycle <- Offers                      requests, bookings, pairings, time; what the app offers
     ^ LifecycleProperties               what must be true     <- LifecycleProofs
     |                       <- AgreementProofs <- AgreementSteps <- PlaceProofs
     ^ MCLifecycle (with Offers)         instances
Assignment <= Plan <- MCPlan             one matching run      <- PlanProofs
MCAccounts  the records of accounts and the app, one component at a time:
     Review  Buddies  Chat  Orgs  Resurface (<- SocialProofs)
     Referrals  Sessions  Identity  VerifyId  Onboarding  Navigation (<- AccountProofs)
     RateLimit  Premium (<- DeedsProofs, with the ledger)
     SearchBar (<- PlanProofs, with the run)  Fit
```

`<=` reads "is implemented by", checked by TLC as a property and proved.

**Escrow, Deeds** (`lib/deeds.js`). Escrow is an amount available per user and holds that are placed
once and settled once. In Deeds, `deeds[u][b]` and `balance[u]` are the user's columns, `ledger[u][b]`
the sums over `deeds_ledger` that `auditUser` compares them with, `holds` and `revenue` the tables of
those names. Each operation writes the rows of `writeEntry`.

**Lifecycle** is `lib/lifecycle.js` with the parts of `shifts.js`, `premium.js`, `matchingRunner.js`,
`assign.js` and `social.js` its transactions run. A handler calls helpers inside its transaction, so
helpers are operators from a database (a record of the tables) to a database, and an action ends in
`Commit(d)`:

| Code | Module |
|---|---|
| createRequest, cancelRequest, adjustRequest, rsvpSolo | `CreateRequest`, `CancelRequest`, `AdjustRequest`, `RsvpSolo` |
| createProposal (for each match of a plan) | `CreateProposal`, guards `Eligible`, `CanGo`, `MayPair` on the run's snapshot (`written`, `Unwritten`), `CanReserve` on the rows as they are |
| confirm, finalizeIfReady | `Confirm`, `FinalizeIfReady` |
| decline, endProposal | `Decline`, `EndProposal` |
| cancelPreview, cancelBooking, partnerBackedOut | `CancelBooking`, `CancelType`, `PartnerBackedOut` |
| bailDecision | `BailRelease`, `BailRematch` |
| fileReport, submitReport, cancelSafely | `ReportPartner` |
| checkIn, markNoShow, completePairingIfResolved | `CheckIn`, `MarkNoShow`, `CompleteIfResolved` |
| the loops of tick(), in order, one transaction per row | `TickExpireProposal`, `TickBailNoResponse`, `TickSearchDeadline`, `TickComplete`, `TickAutoResolve` |
| the clock | `Advance` |

What is abstracted there, and why it does not hide a behaviour the properties are about:

* The price of a shift is one unit of balance and a hold is a column of its booking. What the price and
  the buckets do is the subject of Deeds.
* Matching is an action of its own, as `runMatching` runs after a handler's transaction, and which of the
  permitted pairs is proposed is left open, so every plan of every score is among the behaviours. Which
  plans there are is the subject of Plan.
* A run decides all its matches on one snapshot and then writes them one by one, looking again only at the capacity. The
  variable `written` has the pairings the run under way inserted, and what is decided on the snapshot leaves them and
  their bookings out. The run is taken to go on until another handler commits; a second run before that would see
  more rows and could do no more than the first. So with two open searches of one user (finding 1) a run may propose the same two
  people twice, or more places than the cap has room for, as the code may. No property speaks of either. The instances of the
  passing runs have too few requests for that; the proofs cover it.
* fileReport and the leaving that follows it are two calls in one synchronous handler, and one action.
* All users are verified and not paused (see Review, Identity); all of time lies in one calendar month.
* A row of a tick is a step, and other steps may come between two rows. In the code they come only
  between ticks or after a crash in the middle of one, so the model has more behaviours.
  `PromptTick = TRUE` lets time pass only when nothing is due; `FALSE` is a server that was down or slow.

**Offers** is what the app makes of that state: the views `GET /me/home` and `GET /pairings/:id` build, and
the buttons HomeScreen, PairingScreen, BailDecisionScreen, BookingScreen, CancelScreen, WaitingScreen (with what it
suggests while a search waits) and StartMatchingScreen show, as operators on the lifecycle's tables.

**Plan** is one run of matching: `Snapshot` (buildSnapshot, buildEdges), `SkipMatched`, `Accept`, `FallBack`,
`Drop` (the rounds of planAssignments with `compareEdges` and `insertSorted`), `CommitMatch` and
`TellReasons` (commitPlan). The pool it finds is arbitrary within `Pools`; scores and bars are data.
**Assignment** is its promise: a set of allowed pairs that grows one by one, each request at most once,
never more spots than there are.

**SearchBar**: `pressure` and the bar of `assign.js`, with `adjustRequest` moving deadlines. **Fit**: the score with
all its terms, the standing, merit and reliability behind it, the hard filters and the cause gate, while
ratings, attendance, cancellations and profile edits change the rows; numbers in thousandths.

**Review**: no-shows with their 90 days, reports, pauses, review reasons, staff. **Buddies**: contact sharing,
ratings, buddyships, a report that cuts all of it off. **Premium**: trial, plans, the grants caught up on at
each request. **Referrals**: linking and crediting. **Resurface**: the pass inside the tick, a clock that staff
move and reset, a restart that loses the throttle.

**Sessions**: sign-up, sign-in and sign-out of several phones, with the gap of the password hash, late
logouts and 401s. **RateLimit**: the sliding windows, with the gap of the comparison. **Identity**: document
check, attestation, badges and profile edits as sequences of writes that a crash may cut off, and what the
start of the server repairs. **VerifyId**: the same as the phone sees it: photos, on-device checks, and a
server that must take the device's word.

**Onboarding**: the six steps with their saves, late and lost replies, restarts and the settings that reopen
them. **Navigation**: the stack behind it, with overlays, polls and buttons whose replies move it. **Chat**: the
thread and the screen's cursor over overlapping polls and posts. **Orgs**: an organization's sign-up, listing a
shift over a change of the clocks, and the roster's buttons acting on an old list.

These fifteen share no state in the model, so **MCAccounts** composes them by letting a behaviour
move one of them, chosen at the start. Where they do interact in the code, the interaction is in one of them:
what a report does to a pairing is in Lifecycle and Buddies, what it does to an account in Review; a profile
edit that revokes a badge is in Identity.

Definitions marked *Mutant* are plausible bugs of the definition that follows them. They are used by nothing;
each property is checked to fail when its mutant takes the definition's place.

## 3. Runs

Bounds common to the lifecycle runs: one unit of time is a few hours, with the thresholds of `lib/rules.js` in
their order (rematch limit = check-in lead < bail minimum < last response < lead time = response time). A shift
starts at 4 or 5 and lasts one or two units; time stops at `Horizon`. Ids are inserted in order, up to
`MaxRequests`, `MaxBookings`, `MaxPairings`. `SoloUser` and `Reporter` bound who RSVPs solo and who reports (in `solo`, one RSVPs and both report).
`CHECK_DEADLOCK` is off everywhere because time, rows, tokens and messages are bounded (and a plan ends): every
behaviour stops.

| Run | Instance | Question |
|---|---|---|
| `deeds` | 2 users, 3 holds, packs of 5, credits of 2, prices 3 and 5 | do columns, ledger, holds and revenue agree in every order, with price changes while holds are open, and is it an escrow account? |
| `solo` | 2 users, one Premium, solo RSVPs by that one, reports by both; 1 shift with 2 spots; 3 requests, 3 bookings, 2 pairings; late ticks | are capacity, Deeds, holds and proposals in step, is whoever reports and asks to leave out at once, does a spot someone had survive a proposal, and does the app offer what the server takes? |
| `rematch` | 3 users (symmetric), 3 spots; 4 requests, 3 bookings, 2 pairings; cap of 1; late ticks | what do a confirmed, an undecided and a completed pairing promise? |
| `shifts` | 2 overlapping shifts, 2 users, solo RSVPs, two windows; 3 requests, 3 bookings, 1 pairing | is nobody wanted in two places? |
| `live` | 2 users, 3 requests, 3 bookings, 2 pairings; fair timer | does every hold, place, search and decision end? |
| `plan` | 4 searches of 3 or 4 people (standard, rematch, solo), 2 shifts, rooms from none to enough for two pairs, mutual and one-sided buddies, urgent, demoted and blocked searches | is the plan legal, best pairs first, written as made, everybody answered, the run finite? |
| `accounts` | per component: 3 people and 3 reports or no-shows; 2 pairings; 16 steps of Premium; 3 members over 4 days; a search of 10 days; 2 subjects, 1 document; 2 saves in flight; 4 messages; 2 phones, 3 tokens; limits of 2 in windows of 3; a verification over 3 days; 3 rating or attendance events; 3 shifts to be told about; a stack of 3 | the types and the sixteen properties below |
| `open_search` | 2 users, 4 requests | finding 1 |
| `rematch_release` | 2 users, 4 requests | finding 2 |
| `late_cap` | 2 users, 4 requests | finding 3 |
| `on_hold` | 3 users, 3 pairings, one instant; the constraint `Persistent` follows behaviours in which no request is given up and no proposal refused | finding 4 |
| `checked_in` | 2 users | finding 5 |

Why the bounds are enough. An interaction of the lifecycle concerns one proposal, its two bookings and the two
searches behind it, plus one thing that happened before: a solo spot, a former partner or another place. Two
pairings and three bookings hold each of these. The horizon lets each deadline pass before and after each answer. A
plan needs four searches for two pairs to compete and for the losers to meet, and two shifts for a pair to fall
back. Among the accounts, what matters is one event before, during and after another: two calls in flight, two
phones of one account, two reports after a cleared one, a limit of two reached by two comparisons at once. The
mutants confirm that the cases happen: each property has one that breaks it in its own run.

### What holds

* `CapacityCounts`: `capacity_booked` is exactly the bookings not cancelled. `releaseSpots` clamps at zero, so a
  double release would go unnoticed by the code.
* `DeedsConserved`, `HoldBacked`: available, held and forfeited add up; Deeds are on hold exactly for confirmed
  paired bookings, each with something that can still settle it.
* `ProposalsAgree`, `ConfirmedIsMutual`, `DecisionStands`, `CompletedIsOver`, `NoDoubleBooking`: see
  `LifecycleProperties`.
* `ReportTakesOut`: whoever reports the partner of an open proposal or a confirmed pairing and asks to leave is out in that very
  step, whatever became of the two spots before: the pairing is over, the reporter's booking is cancelled with no
  Deed on hold and no cap mark, no search of theirs for it stays open, nobody forfeits a Deed, and the partner in a
  confirmed pairing keeps the spot, to decide about it or as a solo spot with the Deeds back. It says nothing of a report
  without asking to leave: the code then leaves an open proposal open, and `confirm` (lifecycle.js:340) does not
  look at blocks, so the two may still confirm each other.
* `AnchorStays`: the other action property, a spot had before a proposal outlives it.
* `OffersHonoured`: whatever button a screen shows, the server takes the call behind it.
* `EverythingSettles`: liveness, the conjunction of `HoldsSettle`, `SearchesEnd` and `DecisionsEnd`.
* `DeedsAddUp` (audit and conservation), `RevenueExact`, `ImplementsEscrow`: the ledger.
* `SeatsCounted`, `BestFirst`, `EveryoneAnswered`, `ImplementsAssignment`, `RunEnds`: the planner's own counter and the
  live one agree; a pair left out lost a person to a better pair; the run ends although pairs go back in the queue.
* `accounts`: `HoldsStand` (a review stands until its own reason is cleared), `ReportedApart`, `BuddiesAgreed`,
  `WeeklyGrants`, `ReferralsEarnOnce`, `BarNeverRises` (an adjusted search never gets pickier), `VerifiedIsBacked`
  (through crashes), `VerifiedAsChecked`, `StepsSaved`, `NothingSkipped`, `RosterTapsSafe`, `SessionsEndForCause`,
  `LimitsKept`, `MeritCounts`, `NudgedWhenQuiet`, `BackLeadsHome`.

Some properties name the case in which the code does otherwise:

* `MeritCounts` excepts one more late cancellation on a record that already weighs more than one: the risk is a
  share of weights that grow on both sides of a fraction (`score.js:117`), so it then falls.
* `BackLeadsHome` excepts a reply that comes after its screen was left while only Home is on the stack, which
  replaces Home, and one that reaches the next account's session. A late 401 of a former session signs out the new one
  (`client.js`); `SessionsEndForCause` says so: the refusal was true of *a* session the phone had.
* `StepsSaved` excepts Continue followed at once by "Choose causes instead", whose late reply skips the causes.
* `VerifiedAsChecked` excepts a profile changed elsewhere that the app had not loaded again.
* `NudgedWhenQuiet`: a volunteer who is checked in to a shift that has not ended may be nudged, as the query looks for
  confirmed and upcoming places only (`resurface.js:22-27`).
* `LimitsKept`: failed sign-ins may exceed their limit by those compared at the same time.

### Fairness

`FairSpec` of the lifecycle assumes weak fairness of `Tick` and `Advance` only: `index.js` calls `lifecycle.tick()` from
`setInterval` for as long as the server runs, and every loop of it handles every row. Nothing is assumed of users, of the
organisation or of matching, so the liveness property says that the timer alone resolves everything. `Plan` assumes weak
fairness of its next step, as a run is one synchronous function. The other modules assume none: what a user or a phone
does not do must do no harm, and their properties are safety properties.

### Findings

1. **Two open searches** (`open_search`). README.md:138 and `schema.sql:271` say that a user has at most one. Two users
   are matched; one of them starts another search, which `createRequest` allows as the first is no longer open; the
   partner backs out; the user chooses a rematch, and `bailDecision` inserts a second open search. `openRequest` shows
   only the later one.
2. **Deeds kept without a search** (`rematch_release`). `BailDecisionScreen.js:42` promises the Deeds back if no new
   partner is found in time. A rematch search that is proposed to somebody and then declined without looking further (or
   whose proposal ends after its deadline) ends inside `endProposal`, which leaves the anchored booking alone. Its Deeds
   stay on hold until the user cancels or the shift is marked; a no-show then forfeits them.
3. **A forgotten late cancellation** (`late_cap`). `test-deeds.js:110` and `schema.sql:300-302` say that a late back-out
   counts toward the monthly cap. A user who backs out late and keeps the spot solo forfeits the Deeds; cancelling the
   solo spot later has type `solo`, and clears `cap_month`.
4. **A proposal nobody can answer** (`on_hold`). Two people who both chose a rematch of the same shift are proposed to each
   other. Both bookings count as confirmed, so both apps say they wait for the other and show no Confirm button, whose call
   alone would finalise (`lifecycle.js:349`, `PairingScreen.js:61`). `HomeScreen.js:9-11` promises "there's never a dead end".
5. **Checked in, and off the screen** (`checked_in`). From check-in to the end of the shift the booking is neither the card
   of today nor on a list of Home (`HomeScreen.js:36`, `128`), although the server sends it and the chat gets its
   conversation starters just then.

## 4. Proofs

Assumed are only the named assumptions on constants, each evaluated by TLC in the runs: `DeedsAssumption` (amounts are
naturals, prices positive, holds finitely many), `PremiumAssumption` and `RateLimitAssumption` (lengths, intervals and limits
are naturals, those that are divided by or begin a window positive), `LifecycleAssumption` (starts before ends, thresholds in the order of `rules.js`, among them that
check-in opens no earlier before a shift than the last rematch proposal expires: both are two hours),
`OffersAssumption` (a search waits for some time: `WAIT_CAP_MS`, `rules.js:29`),
`BuddiesAssumption` (finitely many people; a meeting has two), `ReferralsAssumption`, `SessionsAssumption` (the values that
stand for "none" are no member or address), `ReviewAssumption` (finitely many volunteers), `ChatAssumption` (the bound is a
natural), `IdentityAssumption` (finitely many people, documents and claims; "no document" is none of them),
`PlanAssumption` (requests and shifts are numbers up to a bound, starts are naturals, every pool is well formed),
`SearchBarAssumption` (days are naturals, the lead of no interest before that of full interest), `ResurfaceAssumption` (a finite
calendar, a shift ends after it starts, cadences are positive) and `VerifyIdAssumption` (names are sequences of tokens, days and
ages are integers, and "is a prefix of" behaves as prefixes do).

**DeedsProofs.** `TypeOK` is not inductive: that `balance` never becomes negative follows only from its being the sum of
two buckets that do not. The invariant is `IInv == TypeOK /\ ColumnsAgree /\ RevenueExact`, where `ColumnsAgree` ties the
columns to the sums of the rows. `WriteEntryAgrees` shows once what every operation needs: rows that overdraw nothing and
neither make nor lose Deeds keep them together. From it come `NeverOverdrawn`, `RevenueIsExact`, and
`LedgerImplementsEscrow`, where every step maps to a step of Escrow or to a stutter (`SetShiftPrice`). `EverythingAddsUp`
(`DeedsAddUp`) compares the rows with sums over all holds. Such a sum is a fold, whose recursion takes the elements of the set
in an order that is chosen: `SumsExist` and `SumsAnyOrder` show that the recursion defines one function whatever the order,
by the least counterexample on the size of the set, and `SumOfOneMore` that one element more adds its term. `HeldAgree` then
adds to `IInv` that the held and forfeited columns are these sums; every operation changes one hold.

**DeedsProofs: RateLimit.** `LimitsHold`. The count of a window is such a sum over its ages, so that sliding it drops the oldest age
and an attempt adds one to the youngest (`CountAged`, `CountNow`). Inductive is `WindowsOK` with it: at every age no more
attempts were let through than were counted, since the limit looks at those counted.

**DeedsProofs: Premium.** `GrantsAreWeekly`. That a grant passed over was outside Premium could become false later, as a period
booked now begins now. `GapOK` says where the next grant would have been due when the last one lapsed, and that it still is
outside Premium; a booking leaves only `GapOrNow`, that it is outside or due at this very moment, and the request that books
catches up before it ends (`ApplyGrantsSettles`).

**LifecycleProofs.** `TypeOK` needs to know whom a row belongs to before Deeds are returned to them, and `DeedsConserved`
needs that no booking about to be confirmed holds Deeds already. `Good(d)` says this of a database; `Keeps(d, e)` says that a
helper makes a good database from a good one in which no row has appeared, disappeared or changed hands. There is a lemma for
each helper, chained as the handler chains them, and one for each action; the counting is done by adding a booking to the
finite set `Held`, or removing it. The theorems are `TypeCorrect` and `DeedsAreConserved`.

**AgreementProofs, AgreementSteps.** Five properties, `ProposalsAgree`, `HoldBacked`, `ConfirmedIsMutual`, `DecisionStands` and
`CompletedIsOver`, follow from one invariant, `Agrees(Db)`, which says how requests, bookings and pairings fit together: none
of the five is inductive alone, since each handler decides by rows that another one left. Its parts are needed as follows.
`SideOK` ties an open proposal to the request and the booking of each side, and `Apart` says that no two proposals share one, so
that ending a proposal leaves the others as they were. `RequestOK` and `OneAnchor` say which booking a search was made from and
that it is still what the search needs, so that a proposal made for it changes a booking of the right kind; a proposed request
has its proposal. `BookingOK` gives each booking that names a pairing its way out, which is what can settle its hold.
`ConfirmedOK` and `DecisionOK` are what a confirmed pairing and an open decision rest on. `PairOK` holds the times: a proposal
expires before its shift can be checked in for, which is where the assumption on the two thresholds is used, so that `CheckIn`
and `MarkNoShow` meet no booking an open proposal is about. A helper breaks parts of `Agrees` that the next one restores (a
booking is cancelled before its proposal is ended), so AgreementProofs first says what each helper does to the rows
(`EndProposalRows`, `GivenUpRows`, `LeftBehind`), with `AgreesExcept(d, skip)` for the state in between, and then that the
rows a whole handler leaves agree again. AgreementSteps has one lemma for each action.

**PlaceProofs.** `CapacityCounts`, `NoDoubleBooking`, `ReportTakesOut` and `AnchorStays`. The invariant `PInv` adds `Counted(Db)`,
the counter of every shift, `Separate(Db)`, no two places of one person overlap, `Single(Db)` and `RunOK` to `AInv`. Only rsvpSolo and createProposal
give places out. rsvpSolo looks at every place of the user, createProposal only at those its run did not write. These do no harm
because a user has at most one open search that would give a new place (`OneFree`, in `Single`): a search whose place
the run has written is proposed (`RunOK`), so it is not the one that gives the next place. Every other handler and tick gives places up or leaves them:
`Yields(d, e)` says so of a helper's step and `Leaves(d, e)` adds that anchored bookings stay, and a lemma for each helper chains
them. That `releaseSpots` never meets its clamp comes from `AInv`: a booking whose spot is given back held one until then,
because its proposal or its decision was still open. The two action properties look at each step with `AInv` of the state it
starts from. `ReportersGetOut` takes the three ways out: withdrawing from a confirmed pairing (`OutOfPairing`),
withdrawing a confirmation from an open proposal (`OutOfProposal`), declining (`OutByDeclining`). Which one the handler takes depends
on the reporter's booking; that one applies, and that each reaches a row it may settle, is what `AInv` gives. `Spares` says of
each helper that nobody forfeits a Deed or gets a cap mark by it.

**PlaceProofs: Offers.** `OffersAreHonoured`. Offers adds no state, so `OffersHonoured` follows from `PInv`, one lemma for each kind of
button. The app decides by the rows it was sent, the server by others, and the invariant says they agree: a place cancelled is
the solo spot or the cancelled row its button announced (`CancelIsTaken`, from what CancelOwn does to the row), a search that
may be stopped is the one the server finds (`WaitingIsTaken`), and a search started, found or adjusted is not refused
(`FindIsTaken`, `SuggestionIsTaken`). Saying no needed the new part (`UnconfirmedMayDecline`): the app hides it from whoever has
a held Deed on a paired spot, the server refuses it to whoever brought a spot of their own into the search and ever had a hold
on it. They could disagree about a spot kept as a solo spot after a backed-out pairing, whose hold was resolved; `Solo(d)` says
that nobody is sought for it any more. The theorem speaks, as the property does, of states in which `tick()` has nothing due.

**SocialProofs: Buddies.** `ReportsSeparate` and `BuddyshipsAreAgreed`. A report is made of one pairing and reaches every other one of
the two because a pair has no third member (`SamePair`): a pair that becomes blocked is the pair of the report. Agreement is
inductive only with `AnswersEarned`: who has answered was there, and that never changes.

**AccountProofs: Referrals.** `OneCreditPerFriend`. Credits are told apart by `CreditsTraced`: each is for a friend who has been
evaluated, and belongs to the one referrer the friend was linked to. A profile is linked before it can be evaluated, so no link
of a credited friend ever moves; the cooldown is that of the last credit, and days only grow.

**AccountProofs: Sessions.** `SessionsEndOnlyForCause`, an action property with the invariant `SessionsTraced`. The key is `Handed`:
the tokens given out are 1 to n, so the next one was never anybody's. A token that was refused is then refused for good, so a
phone that hears of a 401, however late, hears the truth; and a session replaced was replaced by a later one of its own account.

**SocialProofs: Review.** `HoldsStandForCause`. That matching is blocked is not inductive: another reason, or a pause, may be what
blocks it and may end. `CauseListed` says that the very reason is on the account, and the flag follows from the reasons.

**SocialProofs: Chat.** `ChatHasNoHoles`. Replies come in any order and may move the cursor back, so nothing is said of their order.
`CaughtUp(n)` says that the list has every message up to `n`; it holds of the cursor, of each message shown and of the cursor
each poll left with, and the thread only grows. The last message of a reply exists as `<` on the naturals is well-founded.

**AccountProofs: Identity.** `VerifiedMeansBacked`. Within a handler the badges and the flag disagree, so `SubjectOK` states for each
point of it what is true there, and for a request that was cut off almost nothing. An attestation restores the property
since it supersedes every badge that was valid when it began, however many there were.

**AccountProofs: Onboarding.** `AnswersAreSaved` (`StepsSaved`, with `OnboardingTypeOK`). The invariant `OnbIInv` says of each save in
flight whose it is: of the step shown, of one that was left, or of an app that is gone; what it carries; and, once served, that
it is stored. Only a reply to the step shown moves the app on, so what it moves past is stored.

**AccountProofs: Navigation.** `BackAlwaysLeadsHome`. The property speaks of the stack, but replies push and replace entries, so
`NavIInv` says of every call in flight what its reply may do: a call of the screen on top belongs to this session and leaves Home
at the bottom; any other can only stray.

**AccountProofs: VerifyId.** `VerifiedWasChecked` (`VerifiedAsChecked`, with `VerifyTypeOK`). What a badge was issued on was shown in
a review that compared it with the app's copy of the profile, and both the day and the row may be others when the server writes
the badge. `ReviewOK` says what still holds of a review then (days that pass only make an adult older, `AgesGrow`; the copy
is the row unless a change was missed), `BadgeOK` says the same of the badge. `nameMatches` is a recursion that takes tokens away
one by one; the property wants a place for each token and no place twice. `LeftExists` shows that the recursion defines a
function, `TakesPlace` that a choice among what is left is a place not yet taken, and `MatchesAreNamed` puts the choices together,
by the least number of tokens for which they would fail to.

**SocialProofs: Resurface.** `NudgesAreQuiet` (`NudgedWhenQuiet`, with `NudgeTypeOK`), an action property that needs little more of
the state than types, as the pass reads everything from the tables. The work is in the maximum: `LatestExists` shows that a finite
set of times has a latest, and `ActivityIsLatest` that no nudge and no shift behind the volunteer is later than it.

**SocialProofs: Orgs.** `TapsAreSafe`, an action property. A tap is judged by the list on the screen, which is older than the table:
`OrgIInv` says what an old list can be of (`RowOK`, `PlaceKnown`, `RatedOK`), what the sign-up form stands for (`FormOK`) and
what a call that was sent may still do (`OrgCallOK`).

**PlanProofs.** `PlanTyped`, `SeatsAreCounted`, `PlanIsBestFirst`, `EveryoneIsAnswered`, and the refinement
`PlanImplementsAssignment`. The invariant is `PlanIInv`: the types, what each phase has done (`Phases`), that a match keeps its shift
and no two share a person (`Placed`), that options, shifts and matches are such as the rules allow (`Legal`), the two counters
(`Counted`), the order (`Ranked`) and the reasons (`Answered`). The code sorts by a comparison whose last term is an id, so
`LexLess` is a strict total order on the keys, and a best shift of a finite set exists: the set of indices at which some key is
least is narrowed term by term, with the least element of a set of naturals (`LeastNatural`). `Ranked` carries the argument
that lazy falling back is sound: every shift before the one a pair is at is full, so a pair that is put back has skipped
nothing; when the head of the queue is accepted, all that lose a person to it come after it, and since a pair that has lost a
person never moves again, they stay after it. Both counters are the room found less the people placed, the live one for
the matches written so far, so `CommitMatch` never finds a shift full.

**PlanProofs: SearchBar.** `BarOnlyFalls` (`BarNeverRises`, with `SearchTypeOK`). Fractions are compared by products, so the
lemmas are about that order: it is total and transitive (`AtMostChains`), the lower of two falls and the higher grows with each of
them, and what is left of a whole shrinks as the share grows. `PressureGrows` in every step, also when the dates are moved, since
the floor becomes the pressure there was; invariant is that the floor is a share, at most one.

**Only model-checked.** The types of the records together (`RecordsTypeOK`; the theorems above prove those of each component
they are about); `MeritCounts`, a comparison of scores made of square roots and rounded divisions. All
liveness (`EverythingSettles`, `RunEnds`), as the proof system does not handle `ENABLED`. The library's induction theorems have an
operator as parameter and cannot be used, so induction over data is done by the least counterexample, as in `LeastNatural`.

## 5. What is not modelled, and the plan

Left, most important first:

1. In the lifecycle: inviting a named buddy; `dismissNoMatch`, which only hides a card.
2. Proofs: `MeritCounts`, which needs the monotonicity of the integer root; `RecordsTypeOK` for Fit.
3. Key rotation of the vendored recryption library, as far as `keyStore.js` uses it.

Not planned: metrics and serialisation (read-only), formatting of days and texts, the patterns that find contact details, the
contents of the recryption library (external: known from its use), routing and input parsing, migrations, seeds and tests,
layout of screens and the screens that only show or submit a form.
