-------------------------------- MODULE Deeds --------------------------------
(***************************************************************************)
(* The Deeds ledger (backend/lib/deeds.js): two buckets per user, holds    *)
(* that remember which bucket each Deed came from, an append-only ledger   *)
(* and the revenue a forfeiture realises.  Every operation is one SQLite   *)
(* transaction, so it is one action here.                                  *)
(*                                                                         *)
(* The ledger is kept as the sums auditUser takes over its rows: per user  *)
(* and bucket, the sum of available_delta and of held_delta, and beside    *)
(* them the sums over the credit rows and over the forfeit rows.           *)
(***************************************************************************)
EXTENDS Integers, FiniteSetsExt

CONSTANTS
    User,
    NoUser,        \* the owner of a hold row that does not exist yet
    HoldId,        \* pool of hold rows: bounds how many holds a behaviour places
    Packs,         \* PURCHASE_PACKS
    FreeCredits,   \* PREMIUM_WEEKLY_GRANT and REFERRAL_DEEDS
    Prices,        \* the shift prices an admin may set
    DefaultPrice,  \* DEFAULT_SHIFT_PRICE_DEEDS
    MaxCredited    \* bound: what one bucket of one user is ever credited

ASSUME DeedsAssumption ==
    /\ NoUser \notin User /\ IsFiniteSet(HoldId)
    /\ Packs \subseteq Nat /\ FreeCredits \subseteq Nat
    /\ Prices \subseteq Nat \ {0} /\ DefaultPrice \in Prices
    /\ MaxCredited \in Nat

Bucket == {"purchased", "free"}
Outcome == {"released", "returned", "forfeited"}
HoldStatus == {"unused", "held"} \cup Outcome

CentsPerDeed == 100
OrgShareOfPurchasedPct == 80
OrgShareOfFreePct == 100

VARIABLES
    price,     \* platform_settings.shift_price_deeds
    deeds,     \* deeds[u][b]: the columns users.deeds_purchased, users.deeds_free
    balance,   \* users.deeds_balance
    ledger,    \* ledger[u][b]: the sums over deeds_ledger
    holds,     \* deeds_holds
    revenue    \* revenue[h]: the forfeiture_revenue rows of hold h, in cents

vars == <<price, deeds, balance, ledger, holds, revenue>>

Nothing == [b \in Bucket |-> 0]
NoHoldRow == [user |-> NoUser, amount |-> Nothing, status |-> "unused"]
NoRows == [available |-> 0, held |-> 0, credited |-> 0, forfeited |-> 0]

Init ==
    /\ price = DefaultPrice
    /\ deeds = [u \in User |-> Nothing]
    /\ balance = [u \in User |-> 0]
    /\ ledger = [u \in User |-> [b \in Bucket |-> NoRows]]
    /\ holds = [h \in HoldId |-> NoHoldRow]
    /\ revenue = [h \in HoldId |-> [org |-> 0, platform |-> 0]]

-----------------------------------------------------------------------------
(* Mutant: the running total is forgotten when Deeds leave the account.    *)
WriteEntryKeepsTotal(u, rows) ==
    /\ ledger' = [ledger EXCEPT ![u] = [b \in Bucket |->
                    [k \in DOMAIN NoRows |-> ledger[u][b][k] + rows[b][k]]]]
    /\ deeds' = [deeds EXCEPT ![u] = [b \in Bucket |-> deeds[u][b] + rows[b].available]]
    /\ balance' = [balance EXCEPT ![u] =
                    IF rows["free"].available < 0 THEN @
                    ELSE @ + rows["purchased"].available + rows["free"].available]

(* writeEntry, for at most one row per bucket: the rows, the bucket column *)
(* and the running total move together.                                    *)
WriteEntry(u, rows) ==
    /\ ledger' = [ledger EXCEPT ![u] = [b \in Bucket |->
                    [k \in DOMAIN NoRows |-> ledger[u][b][k] + rows[b][k]]]]
    /\ deeds' = [deeds EXCEPT ![u] = [b \in Bucket |-> deeds[u][b] + rows[b].available]]
    /\ balance' = [balance EXCEPT ![u] =
                    @ + rows["purchased"].available + rows["free"].available]

CreditRow(n) == [available |-> n, held |-> 0, credited |-> n, forfeited |-> 0]
HoldRow(n) == [available |-> -n, held |-> n, credited |-> 0, forfeited |-> 0]

(* Mutant: whatever becomes of a hold, its Deeds return to the account. *)
ResolveRowAlwaysBack(n, outcome) ==
    [available |-> n, held |-> -n, credited |-> 0, forfeited |-> 0]

(* The row a resolved hold writes: back to available unless forfeited. *)
ResolveRow(n, outcome) ==
    IF outcome = "forfeited"
    THEN [available |-> 0, held |-> -n, credited |-> 0, forfeited |-> n]
    ELSE [available |-> n, held |-> -n, credited |-> 0, forfeited |-> 0]

Credit(u, bucket, n) ==
    /\ ledger[u][bucket].credited + n <= MaxCredited
    /\ WriteEntry(u, [b \in Bucket |-> IF b = bucket THEN CreditRow(n) ELSE NoRows])
    /\ UNCHANGED <<price, holds, revenue>>

Purchase(u, pack) == Credit(u, "purchased", pack)

Grant(u, n) == Credit(u, "free", n)

SetShiftPrice(p) ==
    /\ p # price
    /\ price' = p
    /\ UNCHANGED <<deeds, balance, ledger, holds, revenue>>

(* Mutant: only purchased Deeds are put on hold, however few there are. *)
SplitPurchased(u, amount) == [b \in Bucket |-> IF b = "free" THEN 0 ELSE amount]

(* Holds draw free Deeds before purchased ones. *)
Split(u, amount) ==
    LET fromFree == IF deeds[u]["free"] < amount THEN deeds[u]["free"] ELSE amount
    IN  [b \in Bucket |-> IF b = "free" THEN fromFree ELSE amount - fromFree]

PlaceHold(u, h) ==
    /\ holds[h].status = "unused"
    /\ deeds[u]["purchased"] + deeds[u]["free"] >= price
    /\ holds' = [holds EXCEPT ![h] =
                    [user |-> u, amount |-> Split(u, price), status |-> "held"]]
    /\ WriteEntry(u, [b \in Bucket |-> HoldRow(Split(u, price)[b])])
    /\ UNCHANGED <<price, revenue>>

(* Math.round of a percentage of a whole number of cents. *)
PercentOf(cents, pct) == (cents * pct + 50) \div 100

(* Mutant: the platform also takes its share of free Deeds. *)
RevenueOfAllAlike(amount) ==
    LET cents == (amount["purchased"] + amount["free"]) * CentsPerDeed
    IN  [org |-> PercentOf(cents, OrgShareOfPurchasedPct),
         platform |-> cents - PercentOf(cents, OrgShareOfPurchasedPct)]

RevenueOf(amount) ==
    LET purchasedCents == amount["purchased"] * CentsPerDeed
        freeCents == amount["free"] * CentsPerDeed
        toOrg == PercentOf(purchasedCents, OrgShareOfPurchasedPct)
                 + PercentOf(freeCents, OrgShareOfFreePct)
    IN  [org |-> toOrg, platform |-> purchasedCents + freeCents - toOrg]

(* Mutant: a hold that was already resolved can be resolved again. *)
ResolvableTwice(h) == holds[h].status # "unused"

(* resolveHold does nothing to a hold that is not open any more. *)
Resolvable(h) == holds[h].status = "held"

(* Mutant: every resolved Deed comes back as a purchased one. *)
ResolveRowsAsPurchased(h, outcome) ==
    [b \in Bucket |->
        IF b = "free" THEN NoRows
        ELSE ResolveRow(holds[h].amount["purchased"] + holds[h].amount["free"], outcome)]

ResolveRows(h, outcome) == [b \in Bucket |-> ResolveRow(holds[h].amount[b], outcome)]

ResolveHold(h, outcome) ==
    /\ Resolvable(h)
    /\ holds' = [holds EXCEPT ![h].status = outcome]
    /\ WriteEntry(holds[h].user, ResolveRows(h, outcome))
    /\ revenue' = [revenue EXCEPT ![h] =
                    IF outcome = "forfeited" THEN RevenueOf(holds[h].amount) ELSE @]
    /\ UNCHANGED price

Next ==
    \/ \E u \in User, n \in Packs : Purchase(u, n)
    \/ \E u \in User, n \in FreeCredits : Grant(u, n)
    \/ \E p \in Prices : SetShiftPrice(p)
    \/ \E u \in User, h \in HoldId : PlaceHold(u, h)
    \/ \E h \in HoldId, outcome \in Outcome : ResolveHold(h, outcome)

Spec == Init /\ [][Next]_vars

-----------------------------------------------------------------------------
(* Types; neither bucket nor the running total is ever overdrawn, however  *)
(* holds and prices interleave (auditUser: no negative buckets).           *)
TypeOK ==
    /\ price \in Prices
    /\ deeds \in [User -> [Bucket -> Nat]]
    /\ balance \in [User -> Nat]
    /\ ledger \in [User -> [Bucket -> [available : Int, held : Int,
                                        credited : Nat, forfeited : Nat]]]
    /\ holds \in [HoldId -> [user : User \cup {NoUser}, amount : [Bucket -> Nat],
                             status : HoldStatus]]
    /\ \A h \in HoldId : holds[h].status # "unused" => holds[h].user \in User
    /\ revenue \in [HoldId -> [org : Nat, platform : Nat]]

SumOver(u, b, status) ==
    MapThenSumSet(LAMBDA h : holds[h].amount[b],
                  {h \in HoldId : holds[h].user = u /\ holds[h].status = status})

(* auditUser: in every reachable state the ledger sums agree with both     *)
(* bucket columns, the running total is the sum of the buckets, and the    *)
(* held sums over both buckets are the open holds.                         *)
AuditOk ==
    \A u \in User :
        /\ \A b \in Bucket : ledger[u][b].available = deeds[u][b]
        /\ balance[u] = deeds[u]["purchased"] + deeds[u]["free"]
        /\ ledger[u]["purchased"].held + ledger[u]["free"].held
            = SumOver(u, "purchased", "held") + SumOver(u, "free", "held")

(* The audit adds the two buckets' holds together, so it cannot see a Deed *)
(* come back in the wrong bucket.  This can: per bucket, what the ledger   *)
(* holds is what the open holds took from that bucket, what it lost is     *)
(* what forfeited holds took from it, and every Deed ever credited is      *)
(* available, held or forfeited, exactly once.                             *)
EveryDeedAccountedFor ==
    \A u \in User, b \in Bucket :
        /\ ledger[u][b].held = SumOver(u, b, "held")
        /\ ledger[u][b].forfeited = SumOver(u, b, "forfeited")
        /\ ledger[u][b].credited = deeds[u][b] + ledger[u][b].held + ledger[u][b].forfeited

(* The audit the code makes, and what it cannot see.                       *)
DeedsAddUp == AuditOk /\ EveryDeedAccountedFor

(* Revenue is realised once, only by a forfeiture, to the cent: the org    *)
(* and the platform together get the value of the hold, and the platform   *)
(* gets a fifth of the purchased Deeds and nothing of the free ones.       *)
RevenueExact ==
    \A h \in HoldId :
        IF holds[h].status = "forfeited"
        THEN LET paid == holds[h].amount["purchased"]
                 free == holds[h].amount["free"]
             IN  /\ revenue[h].org + revenue[h].platform = CentsPerDeed * (paid + free)
                 /\ 5 * revenue[h].platform = CentsPerDeed * paid
        ELSE revenue[h] = [org |-> 0, platform |-> 0]

(* The ledger implements the escrow account the app relies on: each hold   *)
(* is settled at most once, in full, to its owner or away for good,        *)
(* whatever the price was changed to in between.                           *)
EscrowStatus(status) ==
    CASE status \in {"released", "returned"} -> "back"
      [] status = "forfeited" -> "gone"
      [] OTHER -> status

Account == INSTANCE Escrow WITH
    Amount <- Packs \cup FreeCredits \cup Prices,
    available <- [u \in User |-> deeds[u]["purchased"] + deeds[u]["free"]],
    escrow <- [h \in HoldId |->
                [owner |-> holds[h].user,
                 amount |-> holds[h].amount["purchased"] + holds[h].amount["free"],
                 status |-> EscrowStatus(holds[h].status)]]

ImplementsEscrow == Account!Spec
=============================================================================
