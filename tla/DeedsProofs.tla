---------------------------- MODULE DeedsProofs ----------------------------
(***************************************************************************)
(* What is proved of what is counted: of the ledger for every set of       *)
(* users, holds, packs, credits and prices, of the weekly grants for every *)
(* trial, interval and plan, and of the windows of the rate limiter for    *)
(* every limit.                                                            *)
(*                                                                         *)
(* Ledger: neither TypeOK nor RevenueExact needs more than the inductive   *)
(* invariant below, which ties the columns of a user to the sums of the    *)
(* ledger rows: a balance is a sum of buckets that are not negative only   *)
(* because every row moves all three together.  DeedsAddUp also ties the   *)
(* rows to the sums the audit takes over the holds.  Such a sum is a fold, *)
(* whose order is a choice: what the proof needs of it (that adding,       *)
(* changing or dropping one row changes the sum by that row) holds of      *)
(* every order, by the least counterexample.                               *)
(*                                                                         *)
(* Windows: their counts are such sums as well.  What was let through is   *)
(* among the attempts, age by age, or a slide could drop the one and leave *)
(* the other.                                                              *)
(*                                                                         *)
(* Grants: what WeeklyGrants says of the past, a booking could undo, as a  *)
(* period begins at the very moment at which a grant lapsed.  So the       *)
(* invariant says where a lapse is (GapOK), and between a booking and the  *)
(* catching up that follows it only GapOrNow holds.                        *)
(***************************************************************************)
EXTENDS Deeds, RateLimit, Premium, FiniteSetTheorems, SequenceTheorems, WellFoundedInduction,
        TLAPS

(* Every credited Deed is available, held or forfeited; the columns and    *)
(* the running total are what the rows say.                                *)
ColumnsAgree ==
    \A u \in User :
        /\ balance[u] = deeds[u]["purchased"] + deeds[u]["free"]
        /\ \A b \in Bucket :
            /\ ledger[u][b].available = deeds[u][b]
            /\ ledger[u][b].credited
                = deeds[u][b] + ledger[u][b].held + ledger[u][b].forfeited

IInv == TypeOK /\ ColumnsAgree /\ RevenueExact

Row == [available : Int, held : Int, credited : Nat, forfeited : Nat]

(* A split never takes more from a bucket than it has, and adds up.        *)
LEMMA SplitFits ==
    ASSUME TypeOK, NEW u \in User, NEW amount \in Nat,
           deeds[u]["purchased"] + deeds[u]["free"] >= amount
    PROVE  /\ Split(u, amount) \in [Bucket -> Nat]
           /\ \A b \in Bucket : Split(u, amount)[b] <= deeds[u][b]
           /\ Split(u, amount)["purchased"] + Split(u, amount)["free"] = amount
BY DEF Split, TypeOK, Bucket

(* Nothing is lost to rounding when the percentage is a whole number.      *)
LEMMA Rounding == \A n \in Nat : (100 * n + 50) \div 100 = n
OBVIOUS

(* The org's share and the platform's are whole cents and add up.          *)
LEMMA RevenueOfExact ==
    ASSUME NEW amount \in [Bucket -> Nat]
    PROVE  /\ RevenueOf(amount) \in [org : Nat, platform : Nat]
           /\ RevenueOf(amount).org + RevenueOf(amount).platform
                = CentsPerDeed * (amount["purchased"] + amount["free"])
           /\ 5 * RevenueOf(amount).platform = CentsPerDeed * amount["purchased"]
<1> DEFINE bought == amount["purchased"]
           free == amount["free"]
<1>1. bought \in Nat /\ free \in Nat
  BY DEF Bucket
<1>2. PercentOf(bought * 100, 80) = 80 * bought
  <2>1. 80 * bought \in Nat /\ bought * 100 * 80 + 50 = 100 * (80 * bought) + 50
    BY <1>1
  <2> QED BY <2>1, Rounding DEF PercentOf
<1>3. PercentOf(free * 100, 100) = 100 * free
  <2>1. 100 * free \in Nat /\ free * 100 * 100 + 50 = 100 * (100 * free) + 50
    BY <1>1
  <2> QED BY <2>1, Rounding DEF PercentOf
<1>4. RevenueOf(amount) = [org |-> 80 * bought + 100 * free,
                           platform |-> bought * 100 + free * 100 - (80 * bought + 100 * free)]
  BY <1>2, <1>3 DEF RevenueOf, CentsPerDeed, OrgShareOfPurchasedPct, OrgShareOfFreePct
<1> QED BY <1>1, <1>4 DEF CentsPerDeed

(* A write of rows that overdraw no bucket and neither make nor lose Deeds *)
(* keeps the columns and the ledger together.                              *)
LEMMA WriteEntryAgrees ==
    ASSUME TypeOK, ColumnsAgree, NEW u \in User, NEW rows \in [Bucket -> Row],
           \A b \in Bucket : deeds[u][b] + rows[b].available >= 0,
           \A b \in Bucket : rows[b].credited
                = rows[b].available + rows[b].held + rows[b].forfeited,
           WriteEntry(u, rows)
    PROVE  /\ deeds' \in [User -> [Bucket -> Nat]]
           /\ balance' \in [User -> Nat]
           /\ ledger' \in [User -> [Bucket -> Row]]
           /\ ColumnsAgree'
<1>1. deeds' \in [User -> [Bucket -> Nat]]
  BY DEF WriteEntry, TypeOK, Row
<1>2. ledger' \in [User -> [Bucket -> Row]]
  <2>1. [b \in Bucket |-> [k \in DOMAIN NoRows |-> ledger[u][b][k] + rows[b][k]]]
            \in [Bucket -> Row]
    <3> SUFFICES ASSUME NEW b \in Bucket
                 PROVE  [k \in DOMAIN NoRows |-> ledger[u][b][k] + rows[b][k]] \in Row
      OBVIOUS
    <3>1. ledger[u][b] \in Row /\ rows[b] \in Row
      BY DEF TypeOK, Row
    <3> QED BY <3>1 DEF Row, NoRows
  <2> QED BY <2>1 DEF WriteEntry, TypeOK, Row
<1>3. ASSUME NEW v \in User
      PROVE  /\ balance'[v] = deeds'[v]["purchased"] + deeds'[v]["free"]
             /\ \A b \in Bucket :
                /\ ledger'[v][b].available = deeds'[v][b]
                /\ ledger'[v][b].credited
                    = deeds'[v][b] + ledger'[v][b].held + ledger'[v][b].forfeited
  <2>1. CASE v # u
    BY <2>1 DEF WriteEntry, TypeOK, ColumnsAgree
  <2>2. CASE v = u
    <3>1. ASSUME NEW b \in Bucket
          PROVE  /\ deeds'[u][b] = deeds[u][b] + rows[b].available
                 /\ ledger'[u][b].available = ledger[u][b].available + rows[b].available
                 /\ ledger'[u][b].held = ledger[u][b].held + rows[b].held
                 /\ ledger'[u][b].credited = ledger[u][b].credited + rows[b].credited
                 /\ ledger'[u][b].forfeited = ledger[u][b].forfeited + rows[b].forfeited
      BY DEF WriteEntry, TypeOK, NoRows
    <3>2. balance'[u] = balance[u] + rows["purchased"].available + rows["free"].available
      BY DEF WriteEntry, TypeOK
    <3>3. ASSUME NEW b \in Bucket
          PROVE  /\ deeds[u][b] \in Nat /\ ledger[u][b] \in Row /\ rows[b] \in Row
      BY DEF TypeOK, Row
    <3>4. "purchased" \in Bucket /\ "free" \in Bucket
      BY DEF Bucket
    <3>5. balance'[u] = deeds'[u]["purchased"] + deeds'[u]["free"]
      BY <3>1, <3>2, <3>3, <3>4 DEF ColumnsAgree, Row
    <3>6. ASSUME NEW b \in Bucket
          PROVE  /\ ledger'[u][b].available = deeds'[u][b]
                 /\ ledger'[u][b].credited
                    = deeds'[u][b] + ledger'[u][b].held + ledger'[u][b].forfeited
      BY <3>1, <3>3 DEF ColumnsAgree, Row
    <3> QED BY <2>2, <3>5, <3>6
  <2> QED BY <2>1, <2>2
<1>4. ColumnsAgree'
  BY <1>3 DEF ColumnsAgree
<1>5. balance' \in [User -> Nat]
  <2>1. \A v \in User : balance'[v] \in Nat
    BY <1>1, <1>3 DEF Bucket
  <2>2. DOMAIN balance' = User /\ balance' = [v \in User |-> balance'[v]]
    BY DEF WriteEntry, TypeOK
  <2> QED BY <2>1, <2>2
<1> QED BY <1>1, <1>2, <1>4, <1>5

-----------------------------------------------------------------------------
(* An empty ledger is in order.                                            *)
LEMMA InitIInv == Init => IInv
<1> SUFFICES ASSUME Init PROVE IInv
  OBVIOUS
<1>1. TypeOK
  BY DeedsAssumption DEF Init, TypeOK, Nothing, NoHoldRow, NoRows, HoldStatus, Bucket
<1>2. ColumnsAgree
  BY DEF Init, ColumnsAgree, Nothing, NoRows, Bucket
<1>3. RevenueExact
  BY DEF Init, RevenueExact, NoHoldRow
<1> QED BY <1>1, <1>2, <1>3 DEF IInv

(* A purchase or a grant: one bucket, its row and the total grow together. *)
LEMMA CreditKeepsIInv ==
    ASSUME IInv, NEW u \in User, NEW bucket \in Bucket, NEW n \in Nat, Credit(u, bucket, n)
    PROVE  IInv'
<1> DEFINE rows == [b \in Bucket |-> IF b = bucket THEN CreditRow(n) ELSE NoRows]
<1>1. rows \in [Bucket -> Row]
  BY DEF Row, CreditRow, NoRows
<1>2. \A b \in Bucket : /\ deeds[u][b] + rows[b].available >= 0
                        /\ rows[b].credited
                            = rows[b].available + rows[b].held + rows[b].forfeited
  BY DEF IInv, TypeOK, CreditRow, NoRows
<1>3. WriteEntry(u, rows) /\ UNCHANGED <<price, holds, revenue>>
  BY DEF Credit
<1>4. /\ deeds' \in [User -> [Bucket -> Nat]]
      /\ balance' \in [User -> Nat]
      /\ ledger' \in [User -> [Bucket -> Row]]
      /\ ColumnsAgree'
  <2> HIDE DEF rows
  <2> QED BY <1>1, <1>2, <1>3, WriteEntryAgrees DEF IInv
<1>5. TypeOK'
  BY <1>3, <1>4 DEF IInv, TypeOK, Row
<1>6. RevenueExact'
  BY <1>3 DEF IInv, RevenueExact
<1> QED BY <1>4, <1>5, <1>6 DEF IInv

(* A hold is placed: the split fits, so no bucket is overdrawn.            *)
LEMMA PlaceHoldKeepsIInv ==
    ASSUME IInv, NEW u \in User, NEW h \in HoldId, PlaceHold(u, h)
    PROVE  IInv'
<1> DEFINE split == Split(u, price)
           rows == [b \in Bucket |-> HoldRow(split[b])]
<1>1. /\ split \in [Bucket -> Nat]
      /\ \A b \in Bucket : split[b] <= deeds[u][b]
  <2>1. price \in Nat /\ deeds[u]["purchased"] + deeds[u]["free"] >= price
    BY DeedsAssumption DEF IInv, TypeOK, PlaceHold
  <2> QED BY <2>1, SplitFits DEF IInv
<1> HIDE DEF split
<1>2. rows \in [Bucket -> Row]
  BY <1>1 DEF Row, HoldRow
<1>3. \A b \in Bucket : /\ deeds[u][b] + rows[b].available >= 0
                        /\ rows[b].credited
                            = rows[b].available + rows[b].held + rows[b].forfeited
  BY <1>1 DEF IInv, TypeOK, HoldRow
<1>4. /\ WriteEntry(u, rows)
      /\ holds' = [holds EXCEPT ![h] = [user |-> u, amount |-> split, status |-> "held"]]
      /\ UNCHANGED <<price, revenue>>
      /\ holds[h].status = "unused"
  BY DEF PlaceHold, split
<1>5. /\ deeds' \in [User -> [Bucket -> Nat]]
      /\ balance' \in [User -> Nat]
      /\ ledger' \in [User -> [Bucket -> Row]]
      /\ ColumnsAgree'
  <2> HIDE DEF rows
  <2> QED BY <1>2, <1>3, <1>4, WriteEntryAgrees DEF IInv
<1>6. TypeOK'
  BY <1>1, <1>4, <1>5 DEF IInv, TypeOK, Row, HoldStatus
<1>7. RevenueExact'
  BY <1>4 DEF IInv, TypeOK, RevenueExact
<1> QED BY <1>5, <1>6, <1>7 DEF IInv

(* An open hold is resolved: back in full, or into revenue to the cent.    *)
LEMMA ResolveHoldKeepsIInv ==
    ASSUME IInv, NEW h \in HoldId, NEW outcome \in Outcome, ResolveHold(h, outcome)
    PROVE  IInv'
<1> DEFINE u == holds[h].user
           amount == holds[h].amount
           rows == ResolveRows(h, outcome)
<1>1. u \in User /\ amount \in [Bucket -> Nat]
  BY DEF IInv, TypeOK, ResolveHold, Resolvable
<1>2. rows \in [Bucket -> Row]
  BY <1>1 DEF Row, ResolveRows, ResolveRow
<1>3. \A b \in Bucket : /\ deeds[u][b] + rows[b].available >= 0
                        /\ rows[b].credited
                            = rows[b].available + rows[b].held + rows[b].forfeited
  <2>1. \A b \in Bucket : deeds[u][b] \in Nat /\ amount[b] \in Nat
    BY <1>1 DEF IInv, TypeOK
  <2> QED BY <2>1 DEF ResolveRows, ResolveRow
<1>4. /\ WriteEntry(u, rows)
      /\ holds' = [holds EXCEPT ![h].status = outcome]
      /\ revenue' = [revenue EXCEPT ![h] =
                        IF outcome = "forfeited" THEN RevenueOf(amount) ELSE @]
      /\ price' = price
      /\ holds[h].status = "held"
  BY DEF ResolveHold, Resolvable
<1> HIDE DEF rows, u
<1>5. /\ deeds' \in [User -> [Bucket -> Nat]]
      /\ balance' \in [User -> Nat]
      /\ ledger' \in [User -> [Bucket -> Row]]
      /\ ColumnsAgree'
  BY <1>1, <1>2, <1>3, <1>4, WriteEntryAgrees DEF IInv
<1>6. TypeOK'
  <2>1. holds' \in [HoldId -> [user : User \cup {NoUser}, amount : [Bucket -> Nat],
                              status : HoldStatus]]
    BY <1>4 DEF IInv, TypeOK, HoldStatus, Outcome
  <2>2. \A g \in HoldId : holds'[g].user = holds[g].user
                          /\ (holds'[g].status # "unused" => holds[g].status # "unused")
    BY <1>4 DEF IInv, TypeOK
  <2>3. revenue' \in [HoldId -> [org : Nat, platform : Nat]]
    BY <1>1, <1>4, RevenueOfExact DEF IInv, TypeOK
  <2> QED BY <1>4, <1>5, <2>1, <2>2, <2>3 DEF IInv, TypeOK, Row
<1>7. RevenueExact'
  <2> SUFFICES ASSUME NEW g \in HoldId
               PROVE  IF holds'[g].status = "forfeited"
                      THEN LET bought == holds'[g].amount["purchased"]
                               free == holds'[g].amount["free"]
                           IN  /\ revenue'[g].org + revenue'[g].platform
                                    = CentsPerDeed * (bought + free)
                               /\ 5 * revenue'[g].platform = CentsPerDeed * bought
                      ELSE revenue'[g] = [org |-> 0, platform |-> 0]
    BY DEF RevenueExact
  <2>1. CASE g # h
    BY <1>4, <2>1 DEF IInv, TypeOK, RevenueExact
  <2>2. CASE g = h /\ outcome = "forfeited"
    <3>1. holds'[h].status = "forfeited" /\ holds'[h].amount = amount
      BY <1>4, <2>2 DEF IInv, TypeOK
    <3>2. revenue'[h] = RevenueOf(amount)
      BY <1>4, <2>2 DEF IInv, TypeOK
    <3> QED BY <1>1, <2>2, <3>1, <3>2, RevenueOfExact
  <2>3. CASE g = h /\ outcome # "forfeited"
    BY <1>4, <2>3 DEF IInv, TypeOK, RevenueExact
  <2> QED BY <2>1, <2>2, <2>3
<1> QED BY <1>5, <1>6, <1>7 DEF IInv

(* The induction step: one case per operation, and stuttering.             *)
LEMMA StepIInv == IInv /\ [Next]_vars => IInv'
<1> SUFFICES ASSUME IInv, [Next]_vars PROVE IInv'
  OBVIOUS
<1>1. ASSUME NEW u \in User, NEW n \in Packs, Purchase(u, n) PROVE IInv'
  BY <1>1, CreditKeepsIInv, DeedsAssumption DEF Purchase, Bucket
<1>2. ASSUME NEW u \in User, NEW n \in FreeCredits, Grant(u, n) PROVE IInv'
  BY <1>2, CreditKeepsIInv, DeedsAssumption DEF Grant, Bucket
<1>3. ASSUME NEW p \in Prices, SetShiftPrice(p) PROVE IInv'
  BY <1>3 DEF SetShiftPrice, IInv, TypeOK, ColumnsAgree, RevenueExact
<1>4. ASSUME NEW u \in User, NEW h \in HoldId, PlaceHold(u, h) PROVE IInv'
  BY <1>4, PlaceHoldKeepsIInv
<1>5. ASSUME NEW h \in HoldId, NEW outcome \in Outcome, ResolveHold(h, outcome) PROVE IInv'
  BY <1>5, ResolveHoldKeepsIInv
<1>6. CASE UNCHANGED vars
  BY <1>6 DEF vars, IInv, TypeOK, ColumnsAgree, RevenueExact
<1> QED BY <1>1, <1>2, <1>3, <1>4, <1>5, <1>6 DEF Next

(* In every behaviour of deeds.js the columns, the ledger sums, the types and *)
(* the revenue rows stay in order: what the theorems below are read off.   *)
THEOREM Invariance == Spec => []IInv
BY InitIInv, StepIInv, PTL DEF Spec

(* No bucket and no running total is ever overdrawn, for every price and   *)
(* every order of purchases, grants, holds and resolutions.                *)
THEOREM NeverOverdrawn == Spec => []TypeOK
<1>1. IInv => TypeOK
  BY DEF IInv
<1> QED BY <1>1, Invariance, PTL

(* The forfeiture revenue of every hold is exact, to the cent.             *)
THEOREM RevenueIsExact == Spec => []RevenueExact
<1>1. IInv => RevenueExact
  BY DEF IInv
<1> QED BY <1>1, Invariance, PTL

-----------------------------------------------------------------------------
(* The ledger implements Escrow.  The refinement mapping forgets buckets,  *)
(* prices and revenue; only what a step does to the sum of the buckets and *)
(* to one hold is left.                                                    *)
Total(amount) == amount["purchased"] + amount["free"]

AvailableMap == [u \in User |-> deeds[u]["purchased"] + deeds[u]["free"]]
EscrowMap == [h \in HoldId |->
                [owner |-> holds[h].user,
                 amount |-> holds[h].amount["purchased"] + holds[h].amount["free"],
                 status |-> EscrowStatus(holds[h].status)]]

(* What one write does to the sums.                                        *)
LEMMA WriteEntryMaps ==
    ASSUME TypeOK, NEW u \in User, NEW rows \in [Bucket -> Row], WriteEntry(u, rows)
    PROVE  AvailableMap' = [AvailableMap EXCEPT ![u] =
                @ + (rows["purchased"].available + rows["free"].available)]
<1>1. \A v \in User : /\ deeds[v]["purchased"] \in Int
                      /\ deeds[v]["free"] \in Int
  BY DEF TypeOK, Bucket
<1>2. rows["purchased"].available \in Int /\ rows["free"].available \in Int
  BY DEF Row, Bucket
<1>3. \A v \in User, b \in Bucket : deeds'[v][b] =
            IF v = u THEN deeds[u][b] + rows[b].available ELSE deeds[v][b]
  BY DEF WriteEntry, TypeOK
<1>4. \A v \in User : AvailableMap'[v] =
        IF v = u THEN AvailableMap[u] + (rows["purchased"].available + rows["free"].available)
        ELSE AvailableMap[v]
  BY <1>1, <1>2, <1>3 DEF AvailableMap, Bucket
<1> QED BY <1>4 DEF AvailableMap

(* An empty ledger is an account nobody credited.                          *)
LEMMA InitMaps == Init => Account!Init
<1> SUFFICES ASSUME Init PROVE Account!Init
  OBVIOUS
<1>1. AvailableMap = [u \in User |-> 0]
  BY DEF AvailableMap, Init, Nothing, Bucket
<1>2. EscrowMap = [h \in HoldId |-> Account!Unused]
  BY DEF EscrowMap, Init, NoHoldRow, Nothing, Bucket, EscrowStatus, Account!Unused
<1> QED BY <1>1, <1>2 DEF AvailableMap, EscrowMap, Account!Init

(* A purchase or a grant is a credit of the account.                       *)
LEMMA CreditMaps ==
    ASSUME IInv, NEW u \in User, NEW bucket \in Bucket, NEW n \in Nat, Credit(u, bucket, n)
    PROVE  Account!Credit(u, n)
<1> DEFINE rows == [b \in Bucket |-> IF b = bucket THEN CreditRow(n) ELSE NoRows]
<1>1. rows \in [Bucket -> Row]
  BY DEF Row, CreditRow, NoRows
<1>2. rows["purchased"].available + rows["free"].available = n
  BY DEF CreditRow, NoRows, Bucket
<1>3. WriteEntry(u, rows) /\ holds' = holds
  BY DEF Credit
<1> HIDE DEF rows
<1>4. AvailableMap' = [AvailableMap EXCEPT ![u] = @ + n]
  BY <1>1, <1>2, <1>3, WriteEntryMaps DEF IInv
<1>5. EscrowMap' = EscrowMap
  BY <1>3 DEF EscrowMap
<1> QED BY <1>4, <1>5 DEF AvailableMap, EscrowMap, Account!Credit

(* A hold, however it is split, takes the price from the account.          *)
LEMMA PlaceHoldMaps ==
    ASSUME IInv, NEW u \in User, NEW h \in HoldId, PlaceHold(u, h),
           NEW n \in Prices, n = price
    PROVE  Account!Place(u, h, n)
<1> DEFINE split == Split(u, price)
           rows == [b \in Bucket |-> HoldRow(split[b])]
<1>1. price \in Nat /\ deeds[u]["purchased"] + deeds[u]["free"] >= price
  BY DeedsAssumption DEF IInv, TypeOK, PlaceHold
<1>2. /\ split \in [Bucket -> Nat]
      /\ split["purchased"] + split["free"] = price
  BY <1>1, SplitFits DEF IInv
<1> HIDE DEF split
<1>3. rows \in [Bucket -> Row]
  BY <1>2 DEF Row, HoldRow
<1>4. rows["purchased"].available + rows["free"].available = -price
  BY <1>1, <1>2 DEF HoldRow, Bucket
<1>5. /\ WriteEntry(u, rows)
      /\ holds' = [holds EXCEPT ![h] = [user |-> u, amount |-> split, status |-> "held"]]
      /\ holds[h].status = "unused"
  BY DEF PlaceHold, split
<1> HIDE DEF rows
<1>6. AvailableMap' = [AvailableMap EXCEPT ![u] = @ - n]
  <2>1. AvailableMap' = [AvailableMap EXCEPT ![u] = @ + (-price)]
    BY <1>3, <1>4, <1>5, WriteEntryMaps DEF IInv
  <2>2. AvailableMap[u] \in Int
    BY DEF AvailableMap, IInv, TypeOK, Bucket
  <2> QED BY <1>1, <2>1, <2>2
<1>7. EscrowMap' = [EscrowMap EXCEPT ![h] = [owner |-> u, amount |-> n, status |-> "held"]]
  BY <1>2, <1>5 DEF EscrowMap, EscrowStatus, IInv, TypeOK
<1>8. EscrowMap[h].status = "unused" /\ AvailableMap[u] >= n
  BY <1>1, <1>5 DEF EscrowMap, AvailableMap, EscrowStatus
<1> QED BY <1>6, <1>7, <1>8 DEF AvailableMap, EscrowMap, Account!Place

(* Released and returned go back to the owner; forfeited does not.         *)
LEMMA ResolveHoldMaps ==
    ASSUME IInv, NEW h \in HoldId, NEW outcome \in Outcome, ResolveHold(h, outcome)
    PROVE  Account!Back(h) \/ Account!Forfeit(h)
<1> DEFINE u == holds[h].user
           amount == holds[h].amount
           rows == ResolveRows(h, outcome)
           status == EscrowStatus(outcome)
<1>1. u \in User /\ amount \in [Bucket -> Nat]
  BY DEF IInv, TypeOK, ResolveHold, Resolvable
<1>2. rows \in [Bucket -> Row]
  BY <1>1 DEF Row, ResolveRows, ResolveRow
<1>3. WriteEntry(u, rows) /\ holds' = [holds EXCEPT ![h].status = outcome]
  BY DEF ResolveHold
<1>4. EscrowMap[h].status = "held" /\ EscrowMap[h].owner = u /\ EscrowMap[h].amount = Total(amount)
  BY DEF EscrowMap, EscrowStatus, Total, ResolveHold, Resolvable
<1>5. EscrowMap' = [EscrowMap EXCEPT ![h].status = status]
  BY <1>3 DEF EscrowMap, IInv, TypeOK
<1>6. rows["purchased"].available + rows["free"].available =
        IF outcome = "forfeited" THEN 0 ELSE Total(amount)
  BY <1>1 DEF ResolveRows, ResolveRow, Bucket, Total
<1>7. AvailableMap' = [AvailableMap EXCEPT ![u] =
            @ + (IF outcome = "forfeited" THEN 0 ELSE Total(amount))]
  <2> HIDE DEF u, rows, amount
  <2> QED BY <1>1, <1>2, <1>3, <1>6, WriteEntryMaps DEF IInv
<1>8. AvailableMap \in [User -> Int]
  BY DEF AvailableMap, IInv, TypeOK, Bucket
<1>9. CASE outcome = "forfeited"
  <2>1. status = "gone" /\ AvailableMap' = AvailableMap
    BY <1>1, <1>7, <1>8, <1>9 DEF EscrowStatus
  <2> QED BY <1>4, <1>5, <2>1 DEF AvailableMap, EscrowMap, Account!Forfeit
<1>10. CASE outcome # "forfeited"
  <2>1. status = "back" /\ AvailableMap' = [AvailableMap EXCEPT ![u] = @ + Total(amount)]
    BY <1>7, <1>10 DEF EscrowStatus, Outcome
  <2>2. AvailableMap' = [AvailableMap EXCEPT ![EscrowMap[h].owner] = @ + EscrowMap[h].amount]
    BY <1>4, <2>1
  <2> QED BY <1>4, <1>5, <2>1, <2>2 DEF AvailableMap, EscrowMap, Account!Back
<1> QED BY <1>9, <1>10

(* Every step of the ledger is a step of the account, or leaves it alone.  *)
LEMMA StepMaps == IInv /\ [Next]_vars => [Account!Next]_(Account!vars)
<1> SUFFICES ASSUME IInv, [Next]_vars PROVE [Account!Next]_(Account!vars)
  OBVIOUS
<1> USE DeedsAssumption
<1>1. ASSUME NEW u \in User, NEW n \in Packs, Purchase(u, n) PROVE Account!Next
  BY <1>1, CreditMaps DEF Purchase, Bucket, Account!Next
<1>2. ASSUME NEW u \in User, NEW n \in FreeCredits, Grant(u, n) PROVE Account!Next
  BY <1>2, CreditMaps DEF Grant, Bucket, Account!Next
<1>3. ASSUME NEW p \in Prices, SetShiftPrice(p) PROVE UNCHANGED Account!vars
  BY <1>3 DEF SetShiftPrice, Account!vars
<1>4. ASSUME NEW u \in User, NEW h \in HoldId, PlaceHold(u, h) PROVE Account!Next
  <2>1. PICK n \in Prices : n = price
    BY DEF IInv, TypeOK
  <2>2. Account!Place(u, h, n)
    BY <1>4, <2>1, PlaceHoldMaps
  <2> QED BY <2>2 DEF Account!Next
<1>5. ASSUME NEW h \in HoldId, NEW outcome \in Outcome, ResolveHold(h, outcome)
      PROVE  Account!Next
  BY <1>5, ResolveHoldMaps DEF Account!Next
<1>6. CASE UNCHANGED vars
  BY <1>6 DEF vars, Account!vars
<1> QED BY <1>1, <1>2, <1>3, <1>4, <1>5, <1>6 DEF Next

(* Whatever the prices were and whoever holds what, the ledger is an       *)
(* escrow account: a hold takes what its owner has, and is settled once,   *)
(* in full, back to its owner or away for good.                            *)
THEOREM LedgerImplementsEscrow == Spec => ImplementsEscrow
BY InitMaps, StepMaps, Invariance, PTL DEF Spec, ImplementsEscrow, Account!Spec
-----------------------------------------------------------------------------
(* The sums the audit makes over the holds.  A sum over a finite set is a  *)
(* recursive function of its subsets; that there is one, and that it does  *)
(* not depend on the order of the elements, is shown by the smallest set   *)
(* of which it would not be true.                                          *)

(* A set of naturals that is not empty has a least one.                    *)
LEMMA LeastNatural ==
    ASSUME NEW T, T \subseteq Nat, T # {}
    PROVE  \E x \in T : \A y \in T : x <= y
<1> DEFINE R == OpToRel(<, Nat)
<1>1. IsWellFoundedOn(R, Nat) BY NatLessThanWellFounded
<1>2. \A x, y \in Nat : x < y => <<x, y>> \in R BY DEF OpToRel
<1> HIDE DEF R
<1>3. \E x \in T : \A y \in T : ~(<<y, x>> \in R) BY <1>1, WFMin
<1>4. PICK x \in T : \A y \in T : ~(<<y, x>> \in R) BY <1>3
<1>5. ASSUME NEW y \in T PROVE x <= y
  <2>1. x \in Nat /\ y \in Nat OBVIOUS
  <2>2. ~(y < x) BY <1>2, <1>4, <2>1
  <2> QED BY <2>1, <2>2
<1> QED BY <1>5

(* The sum of f over a finite set, as the module of finite sets makes it:  *)
(* a function g of all subsets, by the choice of an element of each.       *)
SumOf(f, S) == MapThenSumSet(LAMBDA x : f[x], S)
SumStep(f, s, g) ==
    IF s = {} THEN 0 ELSE LET x == CHOOSE x \in s : TRUE IN f[x] + g[s \ {x}]
Sums(g, f, S) == g = [s \in SUBSET S |-> SumStep(f, s, g)]

LEMMA SumOfIsChosen ==
    ASSUME NEW f, NEW S
    PROVE  SumOf(f, S) = (CHOOSE g : Sums(g, f, S))[S]
BY DEF SumOf, MapThenSumSet, MapThenFoldSet, SumStep, Sums

(* An element less makes a finite set smaller.                             *)
LEMMA Smaller ==
    ASSUME NEW S, IsFiniteSet(S), NEW s \in SUBSET S, NEW x \in s
    PROVE  /\ Cardinality(s) \in Nat /\ Cardinality(s \ {x}) \in Nat
           /\ Cardinality(s \ {x}) = Cardinality(s) - 1
           /\ s \ {x} \in SUBSET S
<1>1. IsFiniteSet(s) BY FS_Subset
<1>2. Cardinality(s) \in Nat BY <1>1, FS_CardinalityType
<1>3. Cardinality(s \ {x}) = Cardinality(s) - 1 BY <1>1, FS_RemoveElement
<1>4. Cardinality(s \ {x}) \in Nat
  BY <1>1, FS_Subset, FS_CardinalityType
<1> QED BY <1>2, <1>3, <1>4

(* There is such a function.                                               *)
LEMMA SumsExist ==
    ASSUME NEW f, NEW S, IsFiniteSet(S)
    PROVE  \E g : Sums(g, f, S)
<1> DEFINE Upto(n, g) ==
        \A s \in SUBSET S : Cardinality(s) <= n => g[s] = SumStep(f, s, g)
           T == {n \in Nat : ~\E g : Upto(n, g)}
<1>1. \A s \in SUBSET S : Cardinality(s) \in Nat /\ Cardinality(s) <= Cardinality(S)
  BY FS_Subset, FS_CardinalityType
<1>2. ASSUME T # {} PROVE FALSE
  <2>1. PICK n \in T : \A m \in T : n <= m
    <3>1. T \subseteq Nat OBVIOUS
    <3> HIDE DEF T
    <3> QED BY <1>2, <3>1, LeastNatural
  <2>2. n \in Nat OBVIOUS
  <2>3. n # 0
    <3> DEFINE g == [s \in SUBSET S |-> 0]
    <3>1. \A s \in SUBSET S : Cardinality(s) <= 0 => s = {}
      <4> TAKE s \in SUBSET S
      <4>1. IsFiniteSet(s) BY FS_Subset
      <4>2. Cardinality(s) = 0 <=> s = {} BY <4>1, FS_EmptySet
      <4> QED BY <4>2, <1>1
    <3>2. Upto(0, g) BY <3>1 DEF SumStep
    <3> QED BY <3>2
  <2>4. n - 1 \in Nat /\ ~(n <= n - 1) BY <2>2, <2>3
  <2>5. n - 1 \notin T BY <2>1, <2>4
  <2>6. PICK g : Upto(n - 1, g) BY <2>4, <2>5
  <2> DEFINE h == [s \in SUBSET S |-> SumStep(f, s, g)]
  <2>7. ASSUME NEW s \in SUBSET S, Cardinality(s) <= n PROVE h[s] = SumStep(f, s, h)
    <3>1. CASE s = {} BY <3>1 DEF SumStep
    <3>2. CASE s # {}
      <4> DEFINE x == CHOOSE x \in s : TRUE
      <4>1. x \in s BY <3>2
      <4>2. Cardinality(s \ {x}) <= n - 1 /\ s \ {x} \in SUBSET S
        <5> HIDE DEF x
        <5>1. Cardinality(s) \in Nat /\ Cardinality(s \ {x}) = Cardinality(s) - 1 /\ s \ {x} \in SUBSET S
          BY <4>1, Smaller
        <5> QED BY <5>1, <2>2, <2>7
      <4>3. h[s \ {x}] = g[s \ {x}] BY <2>6, <4>2
      <4>4. h[s] = f[x] + g[s \ {x}] BY <3>2 DEF SumStep
      <4>5. SumStep(f, s, h) = f[x] + h[s \ {x}] 
        <5> HIDE DEF h
        <5> QED BY <3>2 DEF SumStep
      <4> QED BY <4>3, <4>4, <4>5
    <3> QED BY <3>1, <3>2
  <2>8. Upto(n, h) BY <2>7
  <2> QED BY <2>8
<1>3. Cardinality(S) \in Nat BY <1>1
<1>4. PICK g : Upto(Cardinality(S), g) BY <1>2, <1>3
<1> DEFINE h == [s \in SUBSET S |-> g[s]]
<1>5. ASSUME NEW s \in SUBSET S PROVE h[s] = SumStep(f, s, h)
  <2>1. g[s] = SumStep(f, s, g) BY <1>1, <1>4
  <2>2. SumStep(f, s, g) = SumStep(f, s, h)
    <3>1. CASE s = {} BY <3>1 DEF SumStep
    <3>2. CASE s # {}
      <4>1. s \ {CHOOSE x \in s : TRUE} \in SUBSET S OBVIOUS
      <4> QED BY <3>2, <4>1 DEF SumStep
    <3> QED BY <3>1, <3>2
  <2> QED BY <2>1, <2>2
<1>6. h = [s \in SUBSET S |-> SumStep(f, s, h)] BY <1>5
<1> QED BY <1>6 DEF Sums

(* Two of them agree wherever what they sum agrees.                        *)
LEMMA SumsAgree ==
    ASSUME NEW f, NEW e, NEW S, IsFiniteSet(S), NEW T \in SUBSET S, NEW g, NEW h,
           Sums(g, f, S), Sums(h, e, T), \A x \in T : f[x] = e[x]
    PROVE  \A s \in SUBSET T : g[s] = h[s]
<1> DEFINE Bad == {n \in Nat : \E s \in SUBSET T : Cardinality(s) = n /\ g[s] # h[s]}
<1>0. IsFiniteSet(T) BY FS_Subset
<1>1. \A s \in SUBSET T : Cardinality(s) \in Nat
  BY <1>0, FS_Subset, FS_CardinalityType
<1>2. ASSUME Bad # {} PROVE FALSE
  <2>1. PICK n \in Bad : \A m \in Bad : n <= m
    <3>1. Bad \subseteq Nat OBVIOUS
    <3> HIDE DEF Bad
    <3> QED BY <1>2, <3>1, LeastNatural
  <2>2. PICK s \in SUBSET T : Cardinality(s) = n /\ g[s] # h[s] OBVIOUS
  <2>3. g[s] = SumStep(f, s, g) /\ h[s] = SumStep(e, s, h) BY DEF Sums
  <2>4. s # {} BY <2>2, <2>3 DEF SumStep
  <2> DEFINE x == CHOOSE x \in s : TRUE
  <2>5. x \in s BY <2>4
  <2>6. SumStep(f, s, g) = f[x] + g[s \ {x}] /\ SumStep(e, s, h) = e[x] + h[s \ {x}]
    BY <2>4 DEF SumStep
  <2> HIDE DEF x
  <2>7. /\ Cardinality(s) \in Nat /\ Cardinality(s \ {x}) \in Nat
        /\ Cardinality(s \ {x}) = Cardinality(s) - 1 /\ s \ {x} \in SUBSET T
    BY <1>0, <2>5, Smaller
  <2>8. ~(n <= Cardinality(s \ {x})) BY <2>2, <2>7
  <2>9. g[s \ {x}] = h[s \ {x}] BY <2>1, <2>7, <2>8
  <2>10. f[x] = e[x] BY <2>5
  <2> QED BY <2>2, <2>3, <2>6, <2>9, <2>10
<1> QED BY <1>1, <1>2

(* The order in which elements are chosen does not matter.                 *)
LEMMA SumsAnyOrder ==
    ASSUME NEW f, NEW S, IsFiniteSet(S), \A x \in S : f[x] \in Nat, NEW g, Sums(g, f, S)
    PROVE  \A s \in SUBSET S :
               g[s] \in Nat /\ \A y \in s : g[s] = f[y] + g[s \ {y}]
<1> DEFINE Fine(s) == g[s] \in Nat /\ \A y \in s : g[s] = f[y] + g[s \ {y}]
           Bad == {n \in Nat : \E s \in SUBSET S : Cardinality(s) = n /\ ~Fine(s)}
<1>1. \A s \in SUBSET S : Cardinality(s) \in Nat
  BY FS_Subset, FS_CardinalityType
<1>2. ASSUME Bad # {} PROVE FALSE
  <2>1. PICK n \in Bad : \A m \in Bad : n <= m
    <3>1. Bad \subseteq Nat OBVIOUS
    <3> HIDE DEF Bad
    <3> QED BY <1>2, <3>1, LeastNatural
  <2>2. PICK s \in SUBSET S : Cardinality(s) = n /\ ~Fine(s) OBVIOUS
  <2>a. \A t \in SUBSET S : Cardinality(t) \in Nat /\ ~(n <= Cardinality(t)) => Fine(t)
    BY <2>1
  <2>3. g[s] = SumStep(f, s, g) BY DEF Sums
  <2>4. s # {} BY <2>2, <2>3 DEF SumStep
  <2> DEFINE x == CHOOSE x \in s : TRUE
  <2>5. x \in s BY <2>4
  <2>6. g[s] = f[x] + g[s \ {x}] BY <2>3, <2>4 DEF SumStep
  <2> HIDE DEF x
  <2> HIDE DEF Bad, Fine
  <2>7. ASSUME NEW y \in s PROVE Fine(s \ {y}) /\ s \ {y} \in SUBSET S
    <3>1. /\ Cardinality(s) \in Nat /\ Cardinality(s \ {y}) \in Nat
          /\ Cardinality(s \ {y}) = Cardinality(s) - 1 /\ s \ {y} \in SUBSET S
      BY Smaller
    <3>2. ~(n <= Cardinality(s \ {y})) BY <2>2, <3>1
    <3> QED BY <2>a, <3>1, <3>2
  <2>8. \A y \in s : f[y] \in Nat OBVIOUS
  <2>9. g[s \ {x}] \in Nat BY <2>5, <2>7 DEF Fine
  <2>10. g[s] \in Nat BY <2>5, <2>6, <2>8, <2>9
  <2>11. ASSUME NEW y \in s PROVE g[s] = f[y] + g[s \ {y}]
    <3>1. CASE y = x BY <2>6, <3>1
    <3>2. CASE y # x
      <4>1. y \in s \ {x} /\ x \in s \ {y} BY <2>5, <3>2
      <4>2. g[s \ {x}] = f[y] + g[(s \ {x}) \ {y}] BY <2>5, <2>7, <4>1 DEF Fine
      <4>3. g[s \ {y}] = f[x] + g[(s \ {y}) \ {x}] BY <2>7, <4>1 DEF Fine
      <4>4. (s \ {x}) \ {y} = (s \ {y}) \ {x} OBVIOUS
      <4> DEFINE r == g[(s \ {y}) \ {x}]
      <4>5. r \in Nat
        <5>1. (s \ {y}) \ {x} \in SUBSET S OBVIOUS
        <5>2. /\ Cardinality(s) \in Nat /\ Cardinality(s \ {y}) \in Nat
              /\ Cardinality(s \ {y}) = Cardinality(s) - 1
          BY Smaller
        <5>3. /\ Cardinality((s \ {y}) \ {x}) \in Nat
              /\ Cardinality((s \ {y}) \ {x}) = Cardinality(s \ {y}) - 1
          <6>1. PICK w \in SUBSET S : w = s \ {y} BY <2>7
          <6>2. x \in w BY <4>1, <6>1
          <6>3. Cardinality(w \ {x}) \in Nat /\ Cardinality(w \ {x}) = Cardinality(w) - 1
            BY <6>2, Smaller
          <6> QED BY <6>1, <6>3
        <5>4. ~(n <= Cardinality((s \ {y}) \ {x})) BY <2>2, <5>2, <5>3
        <5> QED BY <2>a, <5>1, <5>3, <5>4 DEF Fine
      <4>6. f[x] \in Nat /\ f[y] \in Nat BY <2>5, <2>8
      <4>7. g[s] = f[x] + (f[y] + r) BY <2>6, <4>2, <4>4
      <4>8. g[s \ {y}] = f[x] + r BY <4>3
      <4> HIDE DEF r
      <4> QED BY <4>5, <4>6, <4>7, <4>8
    <3> QED BY <3>1, <3>2
  <2> QED BY <2>2, <2>10, <2>11 DEF Fine
<1> QED BY <1>1, <1>2

(* What a sum over a finite set is: nothing over the empty set, one number *)
(* more with one element more, and the same for the same numbers.          *)
LEMMA SumOfEmpty ==
    ASSUME NEW f
    PROVE  SumOf(f, {}) = 0
<1>1. IsFiniteSet({}) BY FS_EmptySet
<1>2. \E g : Sums(g, f, {}) BY <1>1, SumsExist
<1> DEFINE g == CHOOSE g : Sums(g, f, {})
<1>3. Sums(g, f, {}) BY <1>2
<1>4. SumOf(f, {}) = g[{}] BY SumOfIsChosen
<1> HIDE DEF g
<1> QED BY <1>3, <1>4 DEF Sums, SumStep

LEMMA SumOfSame ==
    ASSUME NEW f, NEW e, NEW S, IsFiniteSet(S), \A x \in S : f[x] = e[x]
    PROVE  SumOf(f, S) = SumOf(e, S)
<1>1. (\E g : Sums(g, f, S)) /\ (\E h : Sums(h, e, S)) BY SumsExist
<1> DEFINE g == CHOOSE g : Sums(g, f, S)
           h == CHOOSE h : Sums(h, e, S)
<1>2. Sums(g, f, S) /\ Sums(h, e, S) BY <1>1
<1>3. SumOf(f, S) = g[S] /\ SumOf(e, S) = h[S] BY SumOfIsChosen
<1> HIDE DEF g, h
<1>4. \A s \in SUBSET S : g[s] = h[s] BY <1>2, SumsAgree
<1> QED BY <1>3, <1>4

LEMMA SumOfOneMore ==
    ASSUME NEW f, NEW S, IsFiniteSet(S), NEW x, x \notin S, \A y \in S \cup {x} : f[y] \in Nat
    PROVE  /\ SumOf(f, S) \in Nat
           /\ SumOf(f, S \cup {x}) = SumOf(f, S) + f[x]
<1> DEFINE U == S \cup {x}
<1>0. IsFiniteSet(U) /\ S \in SUBSET U BY FS_AddElement
<1>1. (\E g : Sums(g, f, U)) /\ (\E h : Sums(h, f, S)) BY <1>0, SumsExist
<1> DEFINE g == CHOOSE g : Sums(g, f, U)
           h == CHOOSE h : Sums(h, f, S)
<1>2. Sums(g, f, U) /\ Sums(h, f, S) BY <1>1
<1>3. SumOf(f, U) = g[U] /\ SumOf(f, S) = h[S] BY SumOfIsChosen
<1> HIDE DEF g, h
<1>4. \A s \in SUBSET S : g[s] = h[s]
  <2>1. PICK e : e = f OBVIOUS
  <2>2. Sums(h, e, S) /\ \A y \in S : f[y] = e[y] BY <1>2, <2>1
  <2> HIDE DEF U
  <2> QED BY <1>0, <1>2, <2>2, SumsAgree
<1>5. \A s \in SUBSET U : g[s] \in Nat /\ \A y \in s : g[s] = f[y] + g[s \ {y}]
  BY <1>0, <1>2, SumsAnyOrder
<1>6. g[U] = f[x] + g[U \ {x}] /\ U \ {x} = S BY <1>5
<1>7. g[S] = h[S] /\ g[S] \in Nat /\ f[x] \in Nat BY <1>4, <1>5
<1>8. S \in SUBSET U BY <1>0
<1>9. g[S] = h[S] BY <1>4
<1>10. SumOf(f, U) = f[x] + h[S] /\ h[S] \in Nat BY <1>3, <1>6, <1>7, <1>9
<1> HIDE DEF U
<1>11. SumOf(f, S) \in Nat /\ SumOf(f, U) = SumOf(f, S) + f[x] BY <1>3, <1>7, <1>10
<1> QED BY <1>11 DEF U

-----------------------------------------------------------------------------
(* The holds of a user in one state of theirs, and what they took.         *)
RowsOf(H, u, status) == {h \in HoldId : H[h].user = u /\ H[h].status = status}
TakenBy(H, b) == [h \in HoldId |-> H[h].amount[b]]
SumIn(H, u, b, status) == SumOf(TakenBy(H, b), RowsOf(H, u, status))
HoldRows == [HoldId -> [user : User \cup {NoUser}, amount : [Bucket -> Nat], status : HoldStatus]]

LEMMA SumOverIsSumIn ==
    \A u \in User, b \in Bucket, status \in HoldStatus :
        SumOver(u, b, status) = SumIn(holds, u, b, status)
<1> TAKE u \in User, b \in Bucket, status \in HoldStatus
<1> QED BY DEF SumIn, RowsOf, TakenBy, SumOf, SumOver, MapThenSumSet, MapThenFoldSet

(* One row changes: what that does to the sum it was in and to the one it  *)
(* is in now.                                                              *)
LEMMA RowsFinite ==
    ASSUME NEW H, NEW u, NEW status
    PROVE  IsFiniteSet(RowsOf(H, u, status))
<1>1. RowsOf(H, u, status) \in SUBSET HoldId BY DEF RowsOf
<1> QED BY <1>1, FS_Subset, DeedsAssumption

LEMMA SameRows ==
    ASSUME NEW H, NEW G, NEW u, NEW b, NEW status,
           RowsOf(G, u, status) = RowsOf(H, u, status),
           \A h \in RowsOf(H, u, status) : G[h].amount = H[h].amount
    PROVE  SumIn(G, u, b, status) = SumIn(H, u, b, status)
<1> DEFINE R == RowsOf(H, u, status)
<1>1. IsFiniteSet(R) /\ R \subseteq HoldId
  <2>1. IsFiniteSet(R) BY RowsFinite
  <2> QED BY <2>1 DEF RowsOf
<1>2. \A h \in R : TakenBy(G, b)[h] = TakenBy(H, b)[h] BY <1>1 DEF TakenBy
<1> HIDE DEF R
<1>3. SumOf(TakenBy(G, b), R) = SumOf(TakenBy(H, b), R) BY <1>1, <1>2, SumOfSame
<1> QED BY <1>3 DEF SumIn, R

LEMMA OneRowMore ==
    ASSUME NEW H \in HoldRows, NEW G \in HoldRows, NEW u, NEW b \in Bucket, NEW status, NEW h \in HoldId,
           h \notin RowsOf(H, u, status), h \in RowsOf(G, u, status),
           \A g \in HoldId \ {h} : G[g] = H[g]
    PROVE  /\ SumIn(G, u, b, status) = SumIn(H, u, b, status) + G[h].amount[b]
           /\ SumIn(H, u, b, status) \in Nat
<1> DEFINE R == RowsOf(H, u, status)
           f == TakenBy(G, b)
<1>1. IsFiniteSet(R) /\ R \subseteq HoldId
  <2>1. IsFiniteSet(R) BY RowsFinite
  <2> QED BY <2>1 DEF RowsOf
<1>2. RowsOf(G, u, status) = R \cup {h} BY DEF RowsOf
<1>3. \A g \in R : f[g] = TakenBy(H, b)[g] BY <1>1 DEF TakenBy, RowsOf
<1>4. \A g \in R \cup {h} : f[g] \in Nat BY <1>1 DEF TakenBy, HoldRows
<1>5. f[h] = G[h].amount[b] BY DEF TakenBy
<1>6. h \notin R OBVIOUS
<1> HIDE DEF R, f
<1>7. SumOf(f, R) \in Nat /\ SumOf(f, R \cup {h}) = SumOf(f, R) + f[h] BY <1>1, <1>4, <1>6, SumOfOneMore
<1>8. SumOf(f, R) = SumOf(TakenBy(H, b), R) BY <1>1, <1>3, SumOfSame
<1> QED BY <1>2, <1>5, <1>7, <1>8 DEF SumIn, R, f

(* The rows of the ledger say what the holds say, bucket by bucket.        *)
HeldAgree ==
    \A u \in User, b \in Bucket :
        /\ ledger[u][b].held = SumIn(holds, u, b, "held")
        /\ ledger[u][b].forfeited = SumIn(holds, u, b, "forfeited")

LEMMA InitHeldAgree == Init => HeldAgree
<1> SUFFICES ASSUME Init, NEW u \in User, NEW b \in Bucket, NEW status \in HoldStatus \ {"unused"}
             PROVE  /\ SumIn(holds, u, b, status) = 0
                    /\ ledger[u][b].held = 0 /\ ledger[u][b].forfeited = 0
  BY DEF HeldAgree, HoldStatus, Outcome
<1>1. RowsOf(holds, u, status) = {} BY DEF RowsOf, Init, NoHoldRow
<1>2. SumIn(holds, u, b, status) = 0 BY <1>1, SumOfEmpty DEF SumIn
<1> QED BY <1>2 DEF Init, NoRows

(* What one write does to the two sums.                                    *)
LEMMA WriteEntrySums ==
    ASSUME TypeOK, NEW u \in User, NEW rows \in [Bucket -> Row], WriteEntry(u, rows)
    PROVE  \A v \in User, b \in Bucket :
            /\ ledger'[v][b].held = IF v = u THEN ledger[v][b].held + rows[b].held ELSE ledger[v][b].held
            /\ ledger'[v][b].forfeited =
                    IF v = u THEN ledger[v][b].forfeited + rows[b].forfeited ELSE ledger[v][b].forfeited
BY DEF WriteEntry, TypeOK, NoRows

LEMMA CreditKeepsHeld ==
    ASSUME IInv, HeldAgree, NEW u \in User, NEW bucket \in Bucket, NEW n \in Nat, Credit(u, bucket, n)
    PROVE  HeldAgree'
<1> DEFINE rows == [b \in Bucket |-> IF b = bucket THEN CreditRow(n) ELSE NoRows]
<1>1. rows \in [Bucket -> Row] BY DEF Row, CreditRow, NoRows
<1>2. \A b \in Bucket : rows[b].held = 0 /\ rows[b].forfeited = 0 BY DEF CreditRow, NoRows
<1>3. WriteEntry(u, rows) /\ holds' = holds BY DEF Credit
<1> HIDE DEF rows
<1>4. \A v \in User, b \in Bucket :
        /\ ledger'[v][b].held = IF v = u THEN ledger[v][b].held + rows[b].held ELSE ledger[v][b].held
        /\ ledger'[v][b].forfeited =
                IF v = u THEN ledger[v][b].forfeited + rows[b].forfeited ELSE ledger[v][b].forfeited
  BY <1>1, <1>3, WriteEntrySums DEF IInv
<1>5. \A v \in User, b \in Bucket : ledger[v][b].held \in Int /\ ledger[v][b].forfeited \in Int
  BY DEF IInv, TypeOK
<1>6. \A v \in User, b \in Bucket :
        ledger'[v][b].held = ledger[v][b].held /\ ledger'[v][b].forfeited = ledger[v][b].forfeited
  BY <1>2, <1>4, <1>5
<1> QED BY <1>3, <1>6 DEF HeldAgree

LEMMA PlaceHoldKeepsHeld ==
    ASSUME IInv, IInv', HeldAgree, NEW u \in User, NEW h \in HoldId, PlaceHold(u, h)
    PROVE  HeldAgree'
<1> DEFINE split == Split(u, price)
           rows == [b \in Bucket |-> HoldRow(split[b])]
<1>1. split \in [Bucket -> Nat]
  <2>1. price \in Nat /\ deeds[u]["purchased"] + deeds[u]["free"] >= price
    BY DeedsAssumption DEF IInv, TypeOK, PlaceHold
  <2> QED BY <2>1, SplitFits DEF IInv
<1>2. /\ WriteEntry(u, rows)
      /\ holds' = [holds EXCEPT ![h] = [user |-> u, amount |-> split, status |-> "held"]]
      /\ holds[h].status = "unused"
  BY DEF PlaceHold
<1> HIDE DEF split
<1>3. rows \in [Bucket -> Row] /\ \A b \in Bucket : rows[b].held = split[b] /\ rows[b].forfeited = 0
  BY <1>1 DEF Row, HoldRow
<1> HIDE DEF rows
<1>4. \A v \in User, b \in Bucket :
        /\ ledger'[v][b].held = IF v = u THEN ledger[v][b].held + rows[b].held ELSE ledger[v][b].held
        /\ ledger'[v][b].forfeited =
                IF v = u THEN ledger[v][b].forfeited + rows[b].forfeited ELSE ledger[v][b].forfeited
  BY <1>2, <1>3, WriteEntrySums DEF IInv
<1>5. \A v \in User, b \in Bucket : ledger[v][b].held \in Int /\ ledger[v][b].forfeited \in Int
  BY DEF IInv, TypeOK
<1>6. holds \in HoldRows /\ holds' \in HoldRows BY DEF IInv, TypeOK, HoldRows
<1>7. /\ holds'[h] = [user |-> u, amount |-> split, status |-> "held"]
      /\ \A g \in HoldId \ {h} : holds'[g] = holds[g]
  BY <1>2, <1>6 DEF HoldRows
<1>8. ASSUME NEW v \in User, NEW b \in Bucket
      PROVE  /\ ledger'[v][b].held = SumIn(holds', v, b, "held")
             /\ ledger'[v][b].forfeited = SumIn(holds', v, b, "forfeited")
  <2>1. RowsOf(holds', v, "forfeited") = RowsOf(holds, v, "forfeited")
    BY <1>2, <1>7 DEF RowsOf
  <2>2. h \notin RowsOf(holds, v, "forfeited") /\ RowsOf(holds, v, "forfeited") \subseteq HoldId
    BY <1>2 DEF RowsOf
  <2>3. SumIn(holds', v, b, "forfeited") = SumIn(holds, v, b, "forfeited")
    BY <1>7, <2>1, <2>2, SameRows
  <2>4. ledger'[v][b].forfeited = ledger[v][b].forfeited BY <1>3, <1>4, <1>5
  <2>5. CASE v = u
    <3>1. h \notin RowsOf(holds, u, "held") /\ h \in RowsOf(holds', u, "held")
      BY <1>2, <1>7 DEF RowsOf
    <3>2. SumIn(holds', u, b, "held") = SumIn(holds, u, b, "held") + holds'[h].amount[b]
      BY <1>6, <1>7, <3>1, OneRowMore
    <3>3. ledger'[u][b].held = ledger[u][b].held + split[b] BY <1>3, <1>4
    <3>4. holds'[h].amount[b] = split[b] BY <1>7
    <3> QED BY <2>3, <2>4, <2>5, <3>2, <3>3, <3>4 DEF HeldAgree
  <2>6. CASE v # u
    <3>1. RowsOf(holds', v, "held") = RowsOf(holds, v, "held") /\ h \notin RowsOf(holds, v, "held")
          /\ RowsOf(holds, v, "held") \subseteq HoldId
      BY <1>2, <1>7, <2>6 DEF RowsOf
    <3>2. SumIn(holds', v, b, "held") = SumIn(holds, v, b, "held")
      BY <1>7, <3>1, SameRows
    <3> QED BY <1>4, <2>3, <2>4, <2>6, <3>2 DEF HeldAgree
  <2> QED BY <2>5, <2>6
<1> QED BY <1>8 DEF HeldAgree

LEMMA ResolveHoldKeepsHeld ==
    ASSUME IInv, IInv', HeldAgree, NEW h \in HoldId, NEW outcome \in Outcome, ResolveHold(h, outcome)
    PROVE  HeldAgree'
<1> DEFINE u == holds[h].user
           amount == holds[h].amount
           rows == ResolveRows(h, outcome)
<1>1. u \in User /\ amount \in [Bucket -> Nat]
  BY DEF IInv, TypeOK, ResolveHold, Resolvable
<1>2. /\ rows \in [Bucket -> Row]
      /\ \A b \in Bucket : /\ rows[b].held = -amount[b]
                           /\ rows[b].forfeited = IF outcome = "forfeited" THEN amount[b] ELSE 0
  BY <1>1 DEF Row, ResolveRows, ResolveRow
<1>3. /\ WriteEntry(u, rows)
      /\ holds' = [holds EXCEPT ![h].status = outcome]
      /\ holds[h].status = "held"
  BY DEF ResolveHold, Resolvable
<1>4. holds \in HoldRows /\ holds' \in HoldRows BY DEF IInv, TypeOK, HoldRows
<1>5. /\ holds'[h].user = u /\ holds'[h].amount = amount /\ holds'[h].status = outcome
      /\ \A g \in HoldId \ {h} : holds'[g] = holds[g]
  BY <1>3, <1>4 DEF HoldRows
<1>6. \A v \in User, b \in Bucket : ledger[v][b].held \in Int /\ ledger[v][b].forfeited \in Int
  BY DEF IInv, TypeOK
<1>7. holds[h].user = u /\ holds[h].amount = amount OBVIOUS
<1> HIDE DEF rows, u, amount
<1>8. \A v \in User, b \in Bucket :
        /\ ledger'[v][b].held = IF v = u THEN ledger[v][b].held + rows[b].held ELSE ledger[v][b].held
        /\ ledger'[v][b].forfeited =
                IF v = u THEN ledger[v][b].forfeited + rows[b].forfeited ELSE ledger[v][b].forfeited
  BY <1>1, <1>2, <1>3, WriteEntrySums DEF IInv
<1>9. outcome # "held" BY DEF Outcome
<1>10. ASSUME NEW v \in User, NEW b \in Bucket
      PROVE  /\ ledger'[v][b].held = SumIn(holds', v, b, "held")
             /\ ledger'[v][b].forfeited = SumIn(holds', v, b, "forfeited")
  <2>1. CASE v # u
    <3>1. ASSUME NEW status
          PROVE  SumIn(holds', v, b, status) = SumIn(holds, v, b, status)
      <4>1. /\ RowsOf(holds', v, status) = RowsOf(holds, v, status)
            /\ RowsOf(holds, v, status) \subseteq HoldId \ {h}
        BY <1>5, <1>7, <2>1 DEF RowsOf
      <4> QED BY <1>5, <4>1, SameRows
    <3>2. ledger'[v][b].held = ledger[v][b].held /\ ledger'[v][b].forfeited = ledger[v][b].forfeited
      BY <1>8, <2>1
    <3> QED BY <3>1, <3>2 DEF HeldAgree
  <2>2. CASE v = u
    <3>1. amount[b] \in Nat BY <1>1
    <3>2. h \in RowsOf(holds, u, "held") /\ h \notin RowsOf(holds', u, "held")
      BY <1>3, <1>5, <1>7, <1>9 DEF RowsOf
    <3>3. /\ SumIn(holds, u, b, "held") = SumIn(holds', u, b, "held") + amount[b]
          /\ SumIn(holds', u, b, "held") \in Nat
      BY <1>4, <1>5, <1>7, <3>2, OneRowMore
    <3>4. ledger'[u][b].held = ledger[u][b].held + (-amount[b]) BY <1>1, <1>2, <1>8
    <3>5. ledger'[u][b].held = SumIn(holds', u, b, "held")
      BY <1>1, <3>1, <3>3, <3>4 DEF HeldAgree
    <3>6. h \notin RowsOf(holds, u, "forfeited") BY <1>3 DEF RowsOf
    <3>7. ASSUME outcome = "forfeited"
          PROVE  ledger'[u][b].forfeited = SumIn(holds', u, b, "forfeited")
      <4>1. h \in RowsOf(holds', u, "forfeited") BY <1>5, <3>7 DEF RowsOf
      <4>2. SumIn(holds', u, b, "forfeited") = SumIn(holds, u, b, "forfeited") + amount[b]
        BY <1>4, <1>5, <3>6, <4>1, OneRowMore
      <4>3. ledger'[u][b].forfeited = ledger[u][b].forfeited + amount[b] BY <1>1, <1>2, <1>8, <3>7
      <4> QED BY <1>1, <4>2, <4>3 DEF HeldAgree
    <3>8. ASSUME outcome # "forfeited"
          PROVE  ledger'[u][b].forfeited = SumIn(holds', u, b, "forfeited")
      <4>1. /\ RowsOf(holds', u, "forfeited") = RowsOf(holds, u, "forfeited")
            /\ RowsOf(holds, u, "forfeited") \subseteq HoldId \ {h}
        BY <1>5, <3>6, <3>8 DEF RowsOf
      <4>2. SumIn(holds', u, b, "forfeited") = SumIn(holds, u, b, "forfeited")
        BY <1>5, <4>1, SameRows
      <4>3. ledger'[u][b].forfeited = ledger[u][b].forfeited BY <1>1, <1>2, <1>6, <1>8, <3>8
      <4> QED BY <1>1, <4>2, <4>3 DEF HeldAgree
    <3> QED BY <2>2, <3>5, <3>7, <3>8
  <2> QED BY <2>1, <2>2
<1> QED BY <1>10 DEF HeldAgree

LEMMA StepHeldAgree == IInv /\ IInv' /\ HeldAgree /\ [Next]_vars => HeldAgree'
<1> SUFFICES ASSUME IInv, IInv', HeldAgree, [Next]_vars PROVE HeldAgree'
  OBVIOUS
<1>1. ASSUME NEW u \in User, NEW n \in Packs, Purchase(u, n) PROVE HeldAgree'
  BY <1>1, CreditKeepsHeld, DeedsAssumption DEF Purchase, Bucket
<1>2. ASSUME NEW u \in User, NEW n \in FreeCredits, Grant(u, n) PROVE HeldAgree'
  BY <1>2, CreditKeepsHeld, DeedsAssumption DEF Grant, Bucket
<1>3. ASSUME NEW p \in Prices, SetShiftPrice(p) PROVE HeldAgree'
  BY <1>3 DEF SetShiftPrice, HeldAgree
<1>4. ASSUME NEW u \in User, NEW h \in HoldId, PlaceHold(u, h) PROVE HeldAgree'
  BY <1>4, PlaceHoldKeepsHeld
<1>5. ASSUME NEW h \in HoldId, NEW outcome \in Outcome, ResolveHold(h, outcome) PROVE HeldAgree'
  BY <1>5, ResolveHoldKeepsHeld
<1>6. CASE UNCHANGED vars
  BY <1>6 DEF vars, HeldAgree
<1> QED BY <1>1, <1>2, <1>3, <1>4, <1>5, <1>6 DEF Next

(* The audit of deeds.js never finds a difference, and neither would one   *)
(* that looked at each bucket: whatever was placed, returned and forfeited *)
(* in whatever order, the ledger, the columns and the holds add up.        *)
THEOREM EverythingAddsUp == Spec => []DeedsAddUp
<1>1. IInv /\ HeldAgree => DeedsAddUp
  <2> SUFFICES ASSUME IInv, HeldAgree PROVE DeedsAddUp
    OBVIOUS
  <2>1. "purchased" \in Bucket /\ "free" \in Bucket /\ "held" \in HoldStatus /\ "forfeited" \in HoldStatus
    BY DEF Bucket, HoldStatus, Outcome
  <2>2. AuditOk BY <2>1, SumOverIsSumIn DEF AuditOk, IInv, ColumnsAgree, HeldAgree
  <2>3. EveryDeedAccountedFor
    BY <2>1, SumOverIsSumIn DEF EveryDeedAccountedFor, IInv, ColumnsAgree, HeldAgree
  <2> QED BY <2>2, <2>3 DEF DeedsAddUp
<1> QED BY <1>1, InitIInv, StepIInv, InitHeldAgree, StepHeldAgree, PTL DEF Spec

-----------------------------------------------------------------------------
(* The windows of the rate limiter.                                        *)

LEMMA CountIsSum ==
    ASSUME NEW f
    PROVE  Count(f) = SumOf(f, Age)
BY DEF Count, SumOf

(* The first ages, one by one.                                             *)
LEMMA OneAgeMore ==
    ASSUME NEW k \in Nat, NEW f, \A g \in 0 .. k : f[g] \in Nat
    PROVE  /\ SumOf(f, 0 .. k - 1) \in Nat
           /\ SumOf(f, 0 .. k) = SumOf(f, 0 .. k - 1) + f[k]
<1>1. 0 .. k = (0 .. k - 1) \cup {k} /\ k \notin 0 .. k - 1 OBVIOUS
<1>2. IsFiniteSet(0 .. k - 1) BY FS_Interval
<1> QED BY <1>1, <1>2, SumOfOneMore

(* Smaller entries make smaller sums, none makes none, and entries an age  *)
(* older make the sum without the last.                                    *)
LEMMA SumsOfAges ==
    ASSUME NEW n \in Nat, NEW f, NEW e, \A g \in 0 .. n : f[g] \in Nat /\ e[g] \in Nat
    PROVE  /\ SumOf(f, 0 .. n) \in Nat
           /\ (\A g \in 0 .. n : f[g] <= e[g]) => SumOf(f, 0 .. n) <= SumOf(e, 0 .. n)
           /\ (\A g \in 0 .. n : f[g] = 0) => SumOf(f, 0 .. n) = 0
           /\ (\A g \in 0 .. n : f[g] = IF g = 0 THEN 0 ELSE e[g - 1])
                => SumOf(f, 0 .. n) = SumOf(e, 0 .. n - 1)
<1> DEFINE Leq == \A g \in 0 .. n : f[g] <= e[g]
           Zero == \A g \in 0 .. n : f[g] = 0
           Older == \A g \in 0 .. n : f[g] = IF g = 0 THEN 0 ELSE e[g - 1]
           Fine(k) == /\ SumOf(f, 0 .. k) \in Nat /\ SumOf(e, 0 .. k) \in Nat
                      /\ Leq => SumOf(f, 0 .. k) <= SumOf(e, 0 .. k)
                      /\ Zero => SumOf(f, 0 .. k) = 0
                      /\ Older => SumOf(f, 0 .. k) = SumOf(e, 0 .. k - 1)
           Bad == {k \in 0 .. n : ~Fine(k)}
<1>1. ASSUME NEW k \in 0 .. n
      PROVE  /\ SumOf(f, 0 .. k - 1) \in Nat /\ SumOf(f, 0 .. k) = SumOf(f, 0 .. k - 1) + f[k]
             /\ SumOf(e, 0 .. k - 1) \in Nat /\ SumOf(e, 0 .. k) = SumOf(e, 0 .. k - 1) + e[k]
  <2>1. k \in Nat /\ \A g \in 0 .. k : f[g] \in Nat /\ e[g] \in Nat OBVIOUS
  <2> QED BY <2>1, OneAgeMore
<1>2. SumOf(f, {}) = 0 /\ SumOf(e, {}) = 0 BY SumOfEmpty
<1>3. ASSUME NEW k \in 0 .. n, k = 0 \/ Fine(k - 1) PROVE Fine(k)
  <2>1. /\ SumOf(f, 0 .. k - 1) \in Nat /\ SumOf(f, 0 .. k) = SumOf(f, 0 .. k - 1) + f[k]
        /\ SumOf(e, 0 .. k - 1) \in Nat /\ SumOf(e, 0 .. k) = SumOf(e, 0 .. k - 1) + e[k]
    BY <1>1
  <2>2. f[k] \in Nat /\ e[k] \in Nat OBVIOUS
  <2>3. CASE k = 0
    <3>1. 0 .. k - 1 = {} BY <2>3
    <3>2. SumOf(f, 0 .. k - 1) = 0 /\ SumOf(e, 0 .. k - 1) = 0 BY <1>2, <3>1
    <3>3. Leq => f[k] <= e[k] OBVIOUS
    <3>4. (Zero => f[k] = 0) /\ (Older => f[k] = 0) BY <2>3
    <3> HIDE DEF Leq, Zero, Older
    <3> QED BY <2>1, <2>2, <3>2, <3>3, <3>4
  <2>4. CASE k # 0
    <3>1. Fine(k - 1) BY <1>3, <2>4
    <3>2. Leq => f[k] <= e[k] OBVIOUS
    <3>3. Zero => f[k] = 0 OBVIOUS
    <3>4. Older => f[k] = e[k - 1] BY <2>4
    <3>5. /\ SumOf(e, 0 .. (k - 1) - 1) \in Nat
          /\ SumOf(e, 0 .. k - 1) = SumOf(e, 0 .. (k - 1) - 1) + e[k - 1]
          /\ e[k - 1] \in Nat
      <4>1. k - 1 \in 0 .. n BY <2>4
      <4> QED BY <1>1, <4>1
    <3> HIDE DEF Leq, Zero, Older
    <3> QED BY <2>1, <2>2, <3>1, <3>2, <3>3, <3>4, <3>5
  <2> QED BY <2>3, <2>4
<1>4. ASSUME Bad # {} PROVE FALSE
  <2>1. PICK k \in Bad : \A m \in Bad : k <= m
    <3>1. Bad \subseteq Nat OBVIOUS
    <3> HIDE DEF Bad
    <3> QED BY <1>4, <3>1, LeastNatural
  <2>2. k \in 0 .. n /\ ~Fine(k) OBVIOUS
  <2> HIDE DEF Fine
  <2>3. k # 0 => Fine(k - 1)
    <3> SUFFICES ASSUME k # 0 PROVE Fine(k - 1) OBVIOUS
    <3>1. k - 1 \in 0 .. n /\ ~(k <= k - 1) BY <2>2
    <3> QED BY <2>1, <3>1
  <2> QED BY <1>3, <2>2, <2>3
<1>5. n \in 0 .. n OBVIOUS
<1> HIDE DEF Fine
<1>6. Fine(n) BY <1>4, <1>5
<1> QED BY <1>6 DEF Fine

(* What a slide, another attempt and a restart make of the counts.         *)
LEMMA AgesUp == \A g \in Age : g - 1 \in Age \/ g = 0
BY RateLimitAssumption DEF Age

LEMMA CountOfNone ==
    /\ None \in [Age -> Nat] /\ Count(None) = 0
<1>1. None \in [Age -> Nat] BY DEF None
<1>2. PICK n \in Nat : n = Window - 1 BY RateLimitAssumption
<1>3. Age = 0 .. n BY <1>2 DEF Age
<1>4. PICK f : f = None OBVIOUS
<1>5. \A g \in 0 .. n : f[g] = 0 BY <1>3, <1>4 DEF None
<1>6. \A g \in 0 .. n : f[g] \in Nat BY <1>5
<1>7. SumOf(f, 0 .. n) = 0 BY <1>5, <1>6, SumsOfAges
<1> QED BY <1>1, <1>3, <1>4, <1>7, CountIsSum

LEMMA CountInOrder ==
    ASSUME NEW f \in [Age -> Nat], NEW e \in [Age -> Nat], \A g \in Age : f[g] <= e[g]
    PROVE  Count(f) \in Nat /\ Count(e) \in Nat /\ Count(f) <= Count(e)
<1>1. PICK n \in Nat : n = Window - 1 BY RateLimitAssumption
<1>2. Age = 0 .. n BY <1>1 DEF Age
<1>3. \A g \in 0 .. n : f[g] \in Nat /\ e[g] \in Nat BY <1>2
<1>4. \A g \in 0 .. n : f[g] <= e[g] BY <1>2
<1>5. SumOf(f, 0 .. n) \in Nat /\ SumOf(f, 0 .. n) <= SumOf(e, 0 .. n) BY <1>3, <1>4, SumsOfAges
<1>6. SumOf(e, 0 .. n) \in Nat BY <1>3, SumsOfAges
<1> QED BY <1>2, <1>5, <1>6, CountIsSum

LEMMA CountAged ==
    ASSUME NEW e \in [Age -> Nat]
    PROVE  /\ Aged(e) \in [Age -> Nat]
           /\ Count(e) \in Nat /\ Count(Aged(e)) \in Nat
           /\ Count(Aged(e)) <= Count(e)
<1>1. PICK n \in Nat : n = Window - 1 BY RateLimitAssumption
<1>2. Age = 0 .. n BY <1>1 DEF Age
<1>3. Aged(e) \in [Age -> Nat]
  <2>1. \A g \in Age : (IF g = 0 THEN 0 ELSE e[g - 1]) \in Nat BY AgesUp
  <2> QED BY <2>1 DEF Aged
<1>4. PICK f : f = Aged(e) OBVIOUS
<1>5. \A g \in 0 .. n : f[g] \in Nat /\ e[g] \in Nat BY <1>2, <1>3, <1>4
<1>6. \A g \in 0 .. n : f[g] = IF g = 0 THEN 0 ELSE e[g - 1] BY <1>2, <1>4 DEF Aged
<1>7. SumOf(f, 0 .. n) = SumOf(e, 0 .. n - 1) BY <1>5, <1>6, SumsOfAges
<1>8. /\ SumOf(e, 0 .. n - 1) \in Nat
      /\ SumOf(e, 0 .. n) = SumOf(e, 0 .. n - 1) + e[n]
  <2>1. \A g \in 0 .. n : e[g] \in Nat BY <1>5
  <2> QED BY <2>1, OneAgeMore
<1>9. e[n] \in Nat BY <1>5
<1>10. /\ SumOf(e, 0 .. n) \in Nat /\ SumOf(f, 0 .. n) \in Nat
       /\ SumOf(f, 0 .. n) <= SumOf(e, 0 .. n)
  <2> DEFINE s == SumOf(e, 0 .. n - 1)
  <2>1. s \in Nat /\ SumOf(e, 0 .. n) = s + e[n] /\ SumOf(f, 0 .. n) = s BY <1>7, <1>8
  <2> HIDE DEF s
  <2> QED BY <2>1, <1>9
<1> QED BY <1>2, <1>3, <1>4, <1>10, CountIsSum

LEMMA CountNow ==
    ASSUME NEW e \in [Age -> Nat]
    PROVE  /\ Now(e) \in [Age -> Nat]
           /\ \A g \in Age : Now(e)[g] = IF g = 0 THEN e[g] + 1 ELSE e[g]
           /\ Count(e) \in Nat /\ Count(Now(e)) = Count(e) + 1
<1>1. PICK n \in Nat : n = Window - 1 BY RateLimitAssumption
<1>2. Age = 0 .. n BY <1>1 DEF Age
<1>3. 0 \in Age BY <1>2
<1>4. \A g \in Age : Now(e)[g] = IF g = 0 THEN e[g] + 1 ELSE e[g] BY <1>3 DEF Now
<1>5. Now(e) \in [Age -> Nat]
  <2>1. Now(e) = [g \in Age |-> Now(e)[g]] BY DEF Now
  <2>2. \A g \in Age : Now(e)[g] \in Nat BY <1>4
  <2> QED BY <2>1, <2>2
<1>6. PICK f : f = Now(e) OBVIOUS
<1>7. PICK S : S = 1 .. n OBVIOUS
<1>8. IsFiniteSet(S) /\ 0 \notin S /\ Age = S \cup {0}
  <2>1. IsFiniteSet(1 .. n) BY FS_Interval
  <2> QED BY <1>2, <1>7, <2>1
<1>9. \A g \in S \cup {0} : f[g] \in Nat /\ e[g] \in Nat BY <1>5, <1>6, <1>8
<1>10. \A g \in S : f[g] = e[g] BY <1>4, <1>6, <1>8
<1>11. SumOf(f, S) = SumOf(e, S) BY <1>8, <1>10, SumOfSame
<1>12. SumOf(f, S \cup {0}) = SumOf(f, S) + f[0]
  <2>1. \A g \in S \cup {0} : f[g] \in Nat BY <1>9
  <2> QED BY <1>8, <2>1, SumOfOneMore
<1>13. SumOf(e, S) \in Nat /\ SumOf(e, S \cup {0}) = SumOf(e, S) + e[0]
  <2>1. \A g \in S \cup {0} : e[g] \in Nat BY <1>9
  <2> QED BY <1>8, <2>1, SumOfOneMore
<1>14. f[0] = e[0] + 1 /\ e[0] \in Nat BY <1>3, <1>4, <1>6
<1>15. SumOf(e, Age) \in Nat /\ SumOf(f, Age) = SumOf(e, Age) + 1
  <2> DEFINE s == SumOf(e, S)
  <2>1. s \in Nat /\ SumOf(e, Age) = s + e[0] /\ SumOf(f, Age) = s + f[0]
    BY <1>8, <1>11, <1>12, <1>13
  <2> HIDE DEF s
  <2> QED BY <1>14, <2>1
<1> QED BY <1>4, <1>5, <1>6, <1>15, CountIsSum

---------------------------------------------------------------------------
(* An attempt that was let through is counted as an attempt, at the same   *)
(* age; without that, a restart or a slide that dropped the one and not    *)
(* the other would let more through than the limit.                        *)
WindowsOK ==
    /\ attempts \in [Age -> Nat] /\ failures \in [Age -> Nat] /\ passed \in [Age -> Nat]
    /\ comparing \in 0 .. Comparing
    /\ \A g \in Age : passed[g] <= attempts[g]

LimitIInv == WindowsOK /\ LimitsKept

LEMMA InitLimits == LimitInit => LimitIInv
<1> SUFFICES ASSUME LimitInit PROVE LimitIInv OBVIOUS
<1>1. None \in [Age -> Nat] /\ Count(None) = 0 BY CountOfNone
<1>2. comparing \in 0 .. Comparing /\ comparing = 0 BY RateLimitAssumption DEF LimitInit
<1>3. \A g \in Age : None[g] <= None[g] BY <1>1
<1>4. WindowsOK BY <1>1, <1>2, <1>3 DEF WindowsOK, LimitInit
<1>5. LimitsKept
  <2>1. locked = FALSE /\ Count(passed) = 0 /\ Count(failures) = 0 BY <1>1 DEF LimitInit
  <2> QED BY <1>2, <2>1, RateLimitAssumption DEF LimitsKept
<1> QED BY <1>4, <1>5 DEF LimitIInv

LEMMA StepLimits == LimitIInv /\ [LimitNext]_limitVars => LimitIInv'
<1> SUFFICES ASSUME LimitIInv, [LimitNext]_limitVars PROVE LimitIInv' OBVIOUS
<1> USE RateLimitAssumption
<1>0. WindowsOK /\ LimitsKept BY DEF LimitIInv
<1>1. /\ Count(passed) \in Nat /\ Count(attempts) \in Nat /\ Count(failures) \in Nat
      /\ comparing \in Nat /\ comparing <= Comparing
  <2>1. /\ attempts \in [Age -> Nat] /\ failures \in [Age -> Nat] /\ passed \in [Age -> Nat]
        /\ comparing \in 0 .. Comparing
    BY <1>0 DEF WindowsOK
  <2> QED BY <2>1, CountNow
<1>2. CASE WindowSlides
  <2>1. /\ Aged(attempts) \in [Age -> Nat] /\ Aged(failures) \in [Age -> Nat]
        /\ Aged(passed) \in [Age -> Nat]
        /\ Count(Aged(passed)) \in Nat /\ Count(Aged(passed)) <= Count(passed)
        /\ Count(Aged(failures)) \in Nat /\ Count(Aged(failures)) <= Count(failures)
    BY <1>0, CountAged DEF WindowsOK
  <2>2. \A g \in Age : Aged(passed)[g] <= Aged(attempts)[g]
    BY <1>0, AgesUp DEF Aged, WindowsOK
  <2>3. WindowsOK' BY <1>0, <1>2, <2>1, <2>2 DEF WindowSlides, WindowsOK
  <2>4. /\ Count(passed)' = Count(Aged(passed)) /\ Count(failures)' = Count(Aged(failures))
        /\ comparing' = comparing /\ locked' = FALSE
    BY <1>2 DEF WindowSlides
  <2>5. LimitsKept' BY <1>0, <1>1, <2>1, <2>4 DEF LimitsKept
  <2> QED BY <2>3, <2>5 DEF LimitIInv
<1>3. CASE hit
  <2>1. /\ Now(attempts) \in [Age -> Nat] /\ Now(passed) \in [Age -> Nat]
        /\ \A g \in Age : Now(attempts)[g] = IF g = 0 THEN attempts[g] + 1 ELSE attempts[g]
        /\ \A g \in Age : Now(passed)[g] = IF g = 0 THEN passed[g] + 1 ELSE passed[g]
    BY <1>0, CountNow DEF WindowsOK
  <2>2. \A g \in Age : attempts[g] \in Nat /\ passed[g] \in Nat /\ passed[g] <= attempts[g]
    BY <1>0 DEF WindowsOK
  <2>3. \A g \in Age : /\ Now(passed)[g] <= Now(attempts)[g]
                       /\ passed[g] <= Now(attempts)[g]
    BY <2>1, <2>2
  <2>4. /\ attempts' = Now(attempts) /\ failures' = failures /\ comparing' = comparing
        /\ locked' = FALSE
        /\ passed' = IF LetThrough(attempts') THEN Now(passed) ELSE passed
    BY <1>3 DEF hit
  <2>5. WindowsOK' BY <1>0, <2>1, <2>3, <2>4 DEF WindowsOK
  <2>6. CASE LetThrough(attempts')
    <3>1. Count(Now(attempts)) <= Limit BY <2>4, <2>6 DEF LetThrough
    <3>2. Count(Now(passed)) \in Nat /\ Count(Now(attempts)) \in Nat
            /\ Count(Now(passed)) <= Count(Now(attempts))
      BY <2>1, <2>3, CountInOrder
    <3>3. Count(passed)' = Count(Now(passed)) /\ Count(failures)' = Count(failures)
      BY <2>4, <2>6
    <3>4. LimitsKept' BY <1>0, <1>1, <2>4, <3>1, <3>2, <3>3 DEF LimitsKept
    <3> QED BY <2>5, <3>4 DEF LimitIInv
  <2>7. CASE ~LetThrough(attempts')
    <3>1. Count(passed)' = Count(passed) /\ Count(failures)' = Count(failures)
      BY <2>4, <2>7
    <3>2. LimitsKept' BY <1>0, <1>1, <2>4, <3>1 DEF LimitsKept
    <3> QED BY <2>5, <3>2 DEF LimitIInv
  <2> QED BY <2>6, <2>7
<1>4. CASE LookAtLimit
  <2>1. /\ attempts' = attempts /\ failures' = failures /\ passed' = passed
        /\ comparing < Comparing /\ locked' = Exceeded
        /\ comparing' = IF Exceeded THEN comparing ELSE comparing + 1
    BY <1>4 DEF LookAtLimit
  <2>2. Count(passed)' = Count(passed) /\ Count(failures)' = Count(failures)
    BY <2>1
  <2>3. WindowsOK' BY <1>0, <1>1, <2>1 DEF WindowsOK
  <2>4. Count(failures)' + comparing' <= FailLimit - 1 + Comparing
    <3>1. CASE Exceeded
      <4>1. comparing' = comparing BY <2>1, <3>1
      <4> QED BY <1>0, <2>2, <4>1 DEF LimitsKept
    <3>2. CASE ~Exceeded
      <4>1. comparing' = comparing + 1 BY <2>1, <3>2
      <4>2. Count(failures) < FailLimit BY <1>1, <3>2 DEF Exceeded
      <4> QED BY <1>1, <2>1, <2>2, <4>1, <4>2
    <3> QED BY <3>1, <3>2
  <2>5. locked' => Count(failures)' >= FailLimit
    <3>1. Exceeded => Count(failures) >= FailLimit BY DEF Exceeded
    <3>2. locked' => Exceeded BY <2>1
    <3> QED BY <2>2, <3>1, <3>2
  <2>6. Count(passed)' <= Limit BY <1>0, <2>2 DEF LimitsKept
  <2>7. LimitsKept' BY <2>4, <2>5, <2>6 DEF LimitsKept
  <2> QED BY <2>3, <2>7 DEF LimitIInv
<1>5. CASE record
  <2>1. /\ attempts' = attempts /\ failures' = Now(failures) /\ passed' = passed
        /\ comparing > 0 /\ comparing' = comparing - 1 /\ locked' = FALSE
    BY <1>5 DEF record
  <2>2. Now(failures) \in [Age -> Nat] /\ Count(Now(failures)) = Count(failures) + 1
    BY <1>0, CountNow DEF WindowsOK
  <2>3. Count(passed)' = Count(passed) /\ Count(failures)' = Count(failures) + 1
    BY <2>1, <2>2
  <2>4. WindowsOK' BY <1>0, <1>1, <2>1, <2>2 DEF WindowsOK
  <2>5. LimitsKept' BY <1>0, <1>1, <2>1, <2>3 DEF LimitsKept
  <2> QED BY <2>4, <2>5 DEF LimitIInv
<1>6. CASE SignInPasses
  <2>1. /\ attempts' = attempts /\ failures' = failures /\ passed' = passed
        /\ comparing > 0 /\ comparing' = comparing - 1 /\ locked' = FALSE
    BY <1>6 DEF SignInPasses
  <2>2. Count(passed)' = Count(passed) /\ Count(failures)' = Count(failures)
    BY <2>1
  <2>3. WindowsOK' BY <1>0, <1>1, <2>1 DEF WindowsOK
  <2>4. LimitsKept' BY <1>0, <1>1, <2>1, <2>2 DEF LimitsKept
  <2> QED BY <2>3, <2>4 DEF LimitIInv
<1>7. CASE RestartServer
  <2>1. /\ attempts' = None /\ failures' = None /\ passed' = None
        /\ comparing' = 0 /\ locked' = FALSE
    BY <1>7 DEF RestartServer
  <2>2. None \in [Age -> Nat] /\ Count(None) = 0 BY CountOfNone
  <2>3. Count(passed)' = 0 /\ Count(failures)' = 0 BY <2>1, <2>2
  <2>4. \A g \in Age : None[g] <= None[g] BY <2>2
  <2>5. WindowsOK' BY <2>1, <2>2, <2>4 DEF WindowsOK
  <2>6. LimitsKept' BY <2>1, <2>3 DEF LimitsKept
  <2> QED BY <2>5, <2>6 DEF LimitIInv
<1>8. CASE UNCHANGED limitVars
  BY <1>0, <1>8 DEF limitVars, LimitIInv, WindowsOK, LimitsKept
<1> QED BY <1>2, <1>3, <1>4, <1>5, <1>6, <1>7, <1>8 DEF LimitNext

(* Whatever the limits, the window and the number of sign-ins compared at  *)
(* once: no window lets more attempts through than its limit, failed       *)
(* sign-ins exceed theirs only by those under way, and nobody is locked    *)
(* out with fewer failures than the limit.                                 *)
THEOREM LimitsHold == LimitSpec => []LimitsKept
<1>1. LimitInit => LimitIInv BY InitLimits
<1>2. LimitIInv /\ [LimitNext]_limitVars => LimitIInv' BY StepLimits
<1>3. LimitIInv => LimitsKept BY DEF LimitIInv
<1> QED BY <1>1, <1>2, <1>3, PTL DEF LimitSpec

-----------------------------------------------------------------------------
(* The weekly grants of Premium.                                           *)

(* Whole intervals, counted and multiplied.                                *)
LEMMA Weeks ==
    ASSUME NEW q \in Nat, NEW w \in Nat \ {0}
    PROVE  /\ q \div w \in Nat
           /\ w * (q \div w) <= q
OBVIOUS

LEMMA TimesOrder ==
    ASSUME NEW w \in Nat, NEW a \in Nat, NEW b \in Nat, a <= b
    PROVE  w * a \in Nat /\ w * b \in Nat /\ w * a <= w * b
OBVIOUS

LEMMA TimesNext ==
    ASSUME NEW w \in Nat, NEW a \in Nat
    PROVE  w * (a + 1) = w * a + w
OBVIOUS

(* The dues from t on follow one another in intervals, up to now.          *)
LEMMA DuesFollow ==
    ASSUME time \in Nat, NEW t \in Nat, NEW i \in Nat \ {0}
    PROVE  /\ GrantDue(t, 1) = t /\ GrantDue(t, i) \in Nat /\ t <= GrantDue(t, i)
           /\ GrantDue(t, i + 1) = GrantDue(t, i) + Interval
           /\ t <= time => DuesFrom(t) \in Nat \ {0}
           /\ t > time => DuesFrom(t) = 0
           /\ i <= DuesFrom(t) => GrantDue(t, i) <= time
<1> USE PremiumAssumption
<1>1. PICK a \in Nat : a = i - 1 OBVIOUS
<1>2. Interval * a \in Nat /\ Interval * 0 = 0 /\ Interval * (a + 1) = Interval * a + Interval
  BY TimesOrder, TimesNext
<1>3. GrantDue(t, i) = t + Interval * a /\ GrantDue(t, i + 1) = t + Interval * (a + 1) /\ GrantDue(t, 1) = t
  <2>1. (i + 1) - 1 = a + 1 /\ 1 - 1 = 0 BY <1>1
  <2>2. GrantDue(t, i) = t + Interval * a BY <1>1 DEF GrantDue
  <2>3. GrantDue(t, i + 1) = t + Interval * (a + 1) BY <2>1 DEF GrantDue
  <2>4. GrantDue(t, 1) = t + Interval * 0 BY <2>1 DEF GrantDue
  <2> QED BY <1>2, <2>2, <2>3, <2>4
<1>4. CASE t <= time
  <2>1. PICK q \in Nat : q = time - t BY <1>4
  <2>2. PICK n \in Nat : n = q \div Interval /\ Interval * n <= q BY Weeks
  <2>3. DuesFrom(t) = n + 1 BY <1>4, <2>1, <2>2 DEF DuesFrom, NoTime
  <2>4. i <= n + 1 => Interval * a <= Interval * n BY <1>1, TimesOrder
  <2>5. Interval * n \in Nat BY TimesOrder
  <2>6. i <= n + 1 => t + Interval * a <= time BY <1>2, <2>1, <2>2, <2>4, <2>5
  <2>7. t <= t + Interval * a BY <1>2
  <2>8. t + Interval * (a + 1) = (t + Interval * a) + Interval BY <1>2
  <2>9. t + Interval * a \in Nat BY <1>2
  <2> QED BY <1>3, <1>4, <2>3, <2>6, <2>7, <2>8, <2>9
<1>5. CASE t > time
  <2>1. DuesFrom(t) = 0 BY <1>5 DEF DuesFrom
  <2>2. t <= t + Interval * a BY <1>2
  <2>3. t + Interval * (a + 1) = (t + Interval * a) + Interval BY <1>2
  <2>4. t + Interval * a \in Nat BY <1>2
  <2> QED BY <1>3, <1>5, <2>1, <2>2, <2>3, <2>4
<1> QED BY <1>4, <1>5

(* The grants of a request are the first dues, all of them or those before *)
(* the first that fell outside Premium.                                    *)
LEMMA CreditedDues ==
    ASSUME time \in Nat, NEW t \in Nat, NEW ps
    PROVE  /\ Credited(ps, t) \in Nat /\ Credited(ps, t) <= DuesFrom(t)
           /\ \A i \in 1 .. Credited(ps, t) : PremiumActiveAt(ps, GrantDue(t, i))
           /\ Lapses(ps, t) = {} => Credited(ps, t) = DuesFrom(t)
           /\ Lapses(ps, t) # {} =>
                /\ Credited(ps, t) + 1 <= DuesFrom(t)
                /\ ~PremiumActiveAt(ps, GrantDue(t, Credited(ps, t) + 1))
<1>0. DuesFrom(t) \in Nat
  <2>1. t <= time \/ t > time OBVIOUS
  <2> QED BY <2>1, DuesFollow
<1>1. CASE Lapses(ps, t) = {}
  <2>1. Credited(ps, t) = DuesFrom(t) BY <1>1 DEF Credited
  <2>2. \A i \in 1 .. DuesFrom(t) : PremiumActiveAt(ps, GrantDue(t, i)) BY <1>1 DEF Lapses
  <2> QED BY <1>0, <1>1, <2>1, <2>2
<1>2. CASE Lapses(ps, t) # {}
  <2> DEFINE L == Lapses(ps, t)
  <2>1. L \subseteq 1 .. DuesFrom(t) /\ \A i \in 1 .. DuesFrom(t) :
            i \in L <=> ~PremiumActiveAt(ps, GrantDue(t, i))
    BY DEF Lapses
  <2>2. Credited(ps, t) = Min(L) - 1 BY <1>2 DEF Credited
  <2> HIDE DEF L
  <2>3. L # {} BY <1>2 DEF L
  <2>4. L \subseteq Nat BY <1>0, <2>1
  <2>5. \E x \in L : \A y \in L : x <= y BY <2>3, <2>4, LeastNatural
  <2>6. PICK m : m = Min(L) OBVIOUS
  <2>7. m \in L /\ \A y \in L : m <= y BY <2>5, <2>6 DEF Min
  <2>8. m \in 1 .. DuesFrom(t) /\ ~PremiumActiveAt(ps, GrantDue(t, m)) BY <2>1, <2>7
  <2>9. PICK c \in Nat : c = m - 1 BY <1>0, <2>8
  <2>10. Credited(ps, t) = c BY <2>2, <2>6, <2>9
  <2>11. m = c + 1 BY <1>0, <2>8, <2>9
  <2>12. ASSUME NEW i \in 1 .. c PROVE PremiumActiveAt(ps, GrantDue(t, i))
    <3>1. i \in 1 .. DuesFrom(t) /\ ~(m <= i) BY <1>0, <2>8, <2>11
    <3> QED BY <2>1, <2>7, <3>1
  <2>13. c <= DuesFrom(t) /\ c + 1 <= DuesFrom(t) BY <1>0, <2>8, <2>11
  <2> QED BY <1>2, <2>8, <2>10, <2>11, <2>12, <2>13
<1> QED BY <1>1, <1>2

---------------------------------------------------------------------------
Period == [start : Nat, end : Nat]

(* Paid periods follow the trial and one another, and have begun by now or *)
(* follow the trial.                                                       *)
PeriodsOK(ps) ==
    \A i \in 1 .. Len(ps) :
        /\ ps[i].start >= Trial /\ ps[i].start < ps[i].end
        /\ \A j \in 1 .. Len(ps) : i < j => ps[i].end <= ps[j].start

GrantsOK(ps, gs) ==
    /\ \A i \in 1 .. Len(gs) : gs[i] <= time /\ PremiumActiveAt(ps, gs[i])
    /\ \A i \in 1 .. Len(gs) : i # 1 =>
        \/ gs[i] = gs[i - 1] + Interval
        \/ gs[i] > gs[i - 1] + Interval /\ ~PremiumActiveAt(ps, gs[i - 1] + Interval)

NextDue(gs) == gs[Len(gs)] + Interval

CursorOK(next, gs) == next # NoTime => gs # <<>> /\ next = NextDue(gs)

(* Without a cursor, what would have been due lapsed; but a period booked  *)
(* at that very time may make up for it.                                   *)
GapOK(ps, next, gs) ==
    next = NoTime /\ gs # <<>> => NextDue(gs) <= time /\ ~PremiumActiveAt(ps, NextDue(gs))
GapOrNow(ps, next, gs) ==
    next = NoTime /\ gs # <<>> =>
        /\ Trial <= NextDue(gs) /\ NextDue(gs) <= time
        /\ NextDue(gs) = time \/ ~PremiumActiveAt(ps, NextDue(gs))

Typed(ps, next, gs) ==
    /\ time \in Nat /\ ps \in Seq(Period) /\ gs \in Seq(Nat) /\ next \in Nat \cup {NoTime}

Settled(ps, next, gs) ==
    Typed(ps, next, gs) /\ GrantsOK(ps, gs) /\ CursorOK(next, gs) /\ GapOK(ps, next, gs)
Unsettled(ps, next, gs) ==
    Typed(ps, next, gs) /\ GrantsOK(ps, gs) /\ CursorOK(next, gs) /\ GapOrNow(ps, next, gs)

PremiumIInv == PeriodsOK(paid) /\ Settled(paid, nextGrant, grants)

LEMMA LastGrant ==
    ASSUME NEW gs \in Seq(Nat), gs # <<>>
    PROVE  Len(gs) \in Nat \ {0} /\ gs[Len(gs)] \in Nat /\ NextDue(gs) \in Nat
<1>1. PICK n \in Nat : n = Len(gs) OBVIOUS
<1>2. n # 0 BY <1>1
<1>3. gs[n] \in Nat BY <1>1, <1>2
<1> QED BY <1>1, <1>2, <1>3, PremiumAssumption DEF NextDue

LEMMA SettledIsUnsettled ==
    ASSUME NEW ps, NEW next, NEW gs, Settled(ps, next, gs)
    PROVE  Unsettled(ps, next, gs)
<1>1. ASSUME next = NoTime, gs # <<>> PROVE Trial <= NextDue(gs)
  <2>1. NextDue(gs) \in Nat BY <1>1, LastGrant DEF Settled, Typed
  <2>2. ~PremiumActiveAt(ps, NextDue(gs)) BY <1>1 DEF Settled, GapOK
  <2> QED BY <2>1, <2>2, PremiumAssumption DEF PremiumActiveAt, InTrial
<1> QED BY <1>1 DEF Settled, Unsettled, GapOK, GapOrNow

(* A request settles what is due, wherever the account stands.             *)
LEMMA ApplyGrantsSettles ==
    ASSUME NEW ps, NEW next, NEW gs, Unsettled(ps, next, gs)
    PROVE  LET g == ApplyGrants(ps, next, gs) IN Settled(ps, g.next, g.grants)
<1> DEFINE t == FirstDue(ps, next)
           c == Credited(ps, t)
           D == [i \in 1 .. c |-> GrantDue(t, i)]
           n == IF t = NoTime \/ Lapses(ps, t) # {} THEN NoTime ELSE GrantDue(t, DuesFrom(t) + 1)
           hs == gs \o D
<1> USE PremiumAssumption
<1>0. /\ time \in Nat /\ ps \in Seq(Period) /\ gs \in Seq(Nat) /\ next \in Nat \cup {NoTime}
      /\ GrantsOK(ps, gs) /\ CursorOK(next, gs) /\ GapOrNow(ps, next, gs)
  BY DEF Unsettled, Typed
<1>1. ApplyGrants(ps, next, gs) = [next |-> n, grants |-> hs] BY DEF ApplyGrants
<1>2. SUFFICES Settled(ps, n, hs) BY <1>1
<1>3. t \in Nat \/ t = NoTime
  BY <1>0 DEF FirstDue
<1>4. CASE t = NoTime
  <2>1. n = NoTime BY <1>4
  <2>2. next = NoTime /\ ~InTrial(time) /\ ~Subscribed(ps, time) BY <1>0, <1>4 DEF FirstDue, NoTime
  <2>3. c = 0
    <3>1. DuesFrom(t) = 0 BY <1>4 DEF DuesFrom
    <3>2. Lapses(ps, t) = {} BY <3>1 DEF Lapses
    <3> QED BY <3>1, <3>2 DEF Credited
  <2>4. hs = gs
    <3>1. D = <<>> BY <2>3
    <3> QED BY <1>0, <3>1, ConcatEmptySeq
  <2>5. GapOK(ps, next, gs) BY <1>0, <2>2 DEF GapOrNow, GapOK, PremiumActiveAt
  <2> HIDE DEF n, hs
  <2> QED BY <1>0, <2>1, <2>2, <2>4, <2>5 DEF Settled, Typed
<1>5. CASE t \in Nat
  <2>1. t # NoTime BY <1>5 DEF NoTime
  <2>2. \* the first due follows the last grant
        gs # <<>> => \/ t = NextDue(gs)
                     \/ NextDue(gs) <= time /\ NextDue(gs) < t /\ ~PremiumActiveAt(ps, NextDue(gs))
    <3> SUFFICES ASSUME gs # <<>>
                 PROVE  \/ t = NextDue(gs)
                        \/ NextDue(gs) <= time /\ NextDue(gs) < t /\ ~PremiumActiveAt(ps, NextDue(gs))
      OBVIOUS
    <3>1. NextDue(gs) \in Nat BY <1>0, LastGrant
    <3>2. CASE next # NoTime
      BY <1>0, <3>2 DEF FirstDue, CursorOK
    <3>3. CASE next = NoTime
      <4>1. ~InTrial(time) BY <1>0, <3>1, <3>3 DEF GapOrNow, InTrial
      <4>2. t = time BY <2>1, <3>3, <4>1 DEF FirstDue
      <4> QED BY <1>0, <3>1, <3>3, <4>2 DEF GapOrNow
    <3> QED BY <3>2, <3>3
  <2>3. next = NoTime => t <= time
    BY <1>0, <2>1 DEF FirstDue
  <2> HIDE DEF t
  <2>4. /\ c \in Nat /\ c <= DuesFrom(t)
        /\ \A i \in 1 .. c : PremiumActiveAt(ps, GrantDue(t, i))
        /\ Lapses(ps, t) = {} => c = DuesFrom(t)
        /\ Lapses(ps, t) # {} => c + 1 <= DuesFrom(t) /\ ~PremiumActiveAt(ps, GrantDue(t, c + 1))
    BY <1>0, <1>5, CreditedDues
  <2> HIDE DEF c
  <2>5. /\ GrantDue(t, 1) = t
        /\ \A i \in Nat \ {0} :
            /\ GrantDue(t, i) \in Nat /\ GrantDue(t, i + 1) = GrantDue(t, i) + Interval
            /\ i <= DuesFrom(t) => GrantDue(t, i) <= time
        /\ DuesFrom(t) \in Nat
    <3>1. 1 \in Nat \ {0} OBVIOUS
    <3>2. /\ GrantDue(t, 1) = t
          /\ t <= time => DuesFrom(t) \in Nat \ {0}
          /\ t > time => DuesFrom(t) = 0
      BY <1>0, <1>5, <3>1, DuesFollow
    <3>4. t <= time \/ t > time BY <1>0, <1>5
    <3>3. \A i \in Nat \ {0} :
            /\ GrantDue(t, i) \in Nat /\ GrantDue(t, i + 1) = GrantDue(t, i) + Interval
            /\ i <= DuesFrom(t) => GrantDue(t, i) <= time
      BY <1>0, <1>5, DuesFollow
    <3> QED BY <3>2, <3>3, <3>4
  <2>6. D \in Seq(Nat) /\ Len(D) = c /\ \A i \in 1 .. c : D[i] = GrantDue(t, i)
    <3>1. \A i \in 1 .. c : GrantDue(t, i) \in Nat BY <2>4, <2>5
    <3> QED BY <2>4, <3>1
  <2> HIDE DEF D
  <2>7. PICK l \in Nat : l = Len(gs) BY <1>0
  <2>8. /\ hs \in Seq(Nat) /\ Len(hs) = l + c
        /\ \A i \in 1 .. l : hs[i] = gs[i]
        /\ \A i \in 1 .. c : hs[l + i] = GrantDue(t, i)
    <3>1. hs \in Seq(Nat) /\ Len(hs) = l + c BY <1>0, <2>6, <2>7, ConcatProperties
    <3>2. \A i \in 1 .. l : hs[i] = gs[i] BY <1>0, <2>4, <2>6, <2>7
    <3>3. ASSUME NEW i \in 1 .. c PROVE hs[l + i] = GrantDue(t, i)
      <4>1. l + i \in 1 .. Len(gs) + Len(D) /\ ~(l + i <= Len(gs)) /\ (l + i) - Len(gs) = i
        BY <2>4, <2>6, <2>7
      <4>2. hs[l + i] = D[i] BY <1>0, <2>6, <4>1
      <4> QED BY <2>6, <4>2
    <3> QED BY <3>1, <3>2, <3>3
  <2> HIDE DEF hs
  <2>9. \A i \in 1 .. Len(hs) : i \in 1 .. l \/ \E k \in 1 .. c : i = l + k
    <3> TAKE i \in 1 .. Len(hs)
    <3>1. i \in 1 .. l + c BY <2>8
    <3>2. CASE i <= l BY <2>4, <3>1, <3>2
    <3>3. CASE ~(i <= l)
      <4>1. i - l \in 1 .. c /\ i = l + (i - l) BY <2>4, <3>1, <3>3
      <4> QED BY <4>1
    <3> QED BY <3>2, <3>3
  <2>10. GrantsOK(ps, hs)
    <3>1. ASSUME NEW i \in 1 .. Len(hs) PROVE hs[i] <= time /\ PremiumActiveAt(ps, hs[i])
      <4>1. CASE i \in 1 .. l BY <1>0, <2>7, <2>8, <4>1 DEF GrantsOK
      <4>2. CASE \E k \in 1 .. c : i = l + k
        <5>1. PICK k \in 1 .. c : i = l + k BY <4>2
        <5>2. k \in Nat \ {0} /\ k <= DuesFrom(t)
          <6>1. k \in Nat \ {0} /\ k <= c BY <2>4
          <6>2. PICK e \in Nat : e = DuesFrom(t) BY <2>5
          <6> QED BY <2>4, <6>1, <6>2
        <5> QED BY <2>4, <2>5, <2>8, <5>1, <5>2
      <4> QED BY <2>9, <4>1, <4>2
    <3>2. ASSUME NEW i \in 1 .. Len(hs), i # 1
          PROVE  \/ hs[i] = hs[i - 1] + Interval
                 \/ hs[i] > hs[i - 1] + Interval /\ ~PremiumActiveAt(ps, hs[i - 1] + Interval)
      <4>1. CASE i \in 1 .. l
        <5>1. i - 1 \in 1 .. l BY <2>7, <3>2, <4>1
        <5> QED BY <1>0, <2>7, <2>8, <3>2, <4>1, <5>1 DEF GrantsOK
      <4>2. ASSUME NEW k \in 1 .. c, i = l + k, k = 1
            PROVE  \/ hs[i] = hs[i - 1] + Interval
                   \/ hs[i] > hs[i - 1] + Interval /\ ~PremiumActiveAt(ps, hs[i - 1] + Interval)
        <5>1. hs[i] = t BY <2>4, <2>5, <2>8, <4>2
        <5>2. gs # <<>> /\ l # 0 BY <1>0, <2>7, <3>2, <4>2
        <5>3. hs[i - 1] = gs[l]
          <6>1. i - 1 = l /\ l \in 1 .. l BY <2>7, <4>2, <5>2
          <6> QED BY <2>8, <6>1
        <5>4. hs[i - 1] + Interval = NextDue(gs) BY <2>7, <5>3 DEF NextDue
        <5>5. NextDue(gs) \in Nat BY <1>0, <5>2, LastGrant
        <5> QED BY <1>5, <2>2, <5>1, <5>2, <5>4, <5>5
      <4>3. ASSUME NEW k \in 1 .. c, i = l + k, k # 1
            PROVE  hs[i] = hs[i - 1] + Interval
        <5>1. PICK j \in 1 .. c : k = j + 1
          <6>1. k - 1 \in 1 .. c /\ k = (k - 1) + 1 BY <2>4, <4>3
          <6> QED BY <6>1
        <5>2. i - 1 = l + j /\ j \in Nat \ {0} BY <2>4, <2>7, <4>3, <5>1
        <5>3. hs[i] = GrantDue(t, j + 1) BY <2>8, <4>3, <5>1
        <5>4. hs[i - 1] = GrantDue(t, j) BY <2>8, <5>1, <5>2
        <5> QED BY <2>5, <5>2, <5>3, <5>4
      <4> QED BY <2>9, <4>1, <4>2, <4>3
    <3> QED BY <3>1, <3>2 DEF GrantsOK
  <2>11. c # 0 => hs # <<>> /\ hs[Len(hs)] = GrantDue(t, c) /\ NextDue(hs) = GrantDue(t, c + 1)
    <3> SUFFICES ASSUME c # 0 PROVE hs # <<>> /\ hs[Len(hs)] = GrantDue(t, c) /\ NextDue(hs) = GrantDue(t, c + 1)
      OBVIOUS
    <3>1. c \in 1 .. c /\ c \in Nat \ {0} BY <2>4
    <3>2. hs[l + c] = GrantDue(t, c) BY <2>8, <3>1
    <3>3. Len(hs) # 0 BY <2>4, <2>7, <2>8
    <3>4. hs[Len(hs)] = GrantDue(t, c) BY <2>8, <3>2
    <3>5. GrantDue(t, c + 1) = GrantDue(t, c) + Interval BY <2>5, <3>1
    <3>6. hs # <<>> BY <3>3
    <3> QED BY <3>4, <3>5, <3>6 DEF NextDue
  <2>12. c = 0 => hs = gs
    <3> SUFFICES ASSUME c = 0 PROVE hs = gs OBVIOUS
    <3>1. D = <<>> BY <2>6
    <3> QED BY <1>0, <3>1, ConcatEmptySeq DEF hs
  <2>13. CASE Lapses(ps, t) = {}
    <3>1. c = DuesFrom(t) BY <2>4, <2>13
    <3>2. n = GrantDue(t, c + 1) BY <2>1, <2>13, <3>1
    <3> HIDE DEF n
    <3>3. n \in Nat /\ n # NoTime
      <4>1. c + 1 \in Nat \ {0} BY <2>4
      <4> QED BY <2>5, <3>2, <4>1 DEF NoTime
    <3>4. CursorOK(n, hs)
      <4>1. CASE c # 0 BY <2>11, <3>2, <4>1 DEF CursorOK
      <4>2. CASE c = 0
        <5>1. t > time
          <6>1. t <= time \/ t > time BY <1>0, <1>5
          <6>2. 1 \in Nat \ {0} OBVIOUS
          <6>3. ~(t <= time) BY <1>0, <1>5, <3>1, <4>2, <6>2, DuesFollow
          <6> QED BY <6>1, <6>3
        <5>2. next # NoTime BY <1>0, <1>5, <2>3, <5>1
        <5>3. t = next BY <5>2 DEF t, FirstDue
        <5>4. n = t BY <2>5, <3>2, <4>2
        <5> QED BY <1>0, <2>12, <4>2, <5>2, <5>3, <5>4 DEF CursorOK
      <4> QED BY <4>1, <4>2
    <3>5. GapOK(ps, n, hs) BY <3>3 DEF GapOK
    <3> QED BY <1>0, <2>8, <2>10, <3>3, <3>4, <3>5 DEF Settled, Typed
  <2>14. CASE Lapses(ps, t) # {}
    <3>1. n = NoTime BY <2>14
    <3> HIDE DEF n
    <3>2. CursorOK(n, hs) BY <3>1 DEF CursorOK
    <3>3. c + 1 \in Nat \ {0} /\ GrantDue(t, c + 1) <= time /\ ~PremiumActiveAt(ps, GrantDue(t, c + 1))
      BY <2>4, <2>5, <2>14
    <3>4. GapOK(ps, n, hs)
      <4>1. CASE c # 0 BY <2>11, <3>3, <4>1 DEF GapOK
      <4>2. CASE c = 0
        <5>1. GrantDue(t, c + 1) = t BY <2>5, <4>2
        <5> QED BY <2>2, <2>12, <3>3, <4>2, <5>1 DEF GapOK
      <4> QED BY <4>1, <4>2
    <3> QED BY <1>0, <2>8, <2>10, <3>1, <3>2, <3>4 DEF Settled, Typed
  <2> QED BY <2>13, <2>14
<1> QED BY <1>3, <1>4, <1>5

---------------------------------------------------------------------------
(* A period booked from now on changes nothing of the past.                *)
LEMMA BookedLater ==
    ASSUME NEW ps \in Seq(Period), NEW p \in Period, NEW u \in Nat
    PROVE  /\ PremiumActiveAt(ps, u) => PremiumActiveAt(Append(ps, p), u)
           /\ u < p.start => (PremiumActiveAt(Append(ps, p), u) => PremiumActiveAt(ps, u))
<1> DEFINE qs == Append(ps, p)
<1>1. PICK n \in Nat : n = Len(ps) OBVIOUS
<1>2. Len(qs) = n + 1 /\ qs[n + 1] = p /\ \A i \in 1 .. n : qs[i] = ps[i] BY <1>1
<1>3. DOMAIN qs = 1 .. n + 1 /\ DOMAIN ps = 1 .. n BY <1>1, <1>2
<1> HIDE DEF qs
<1>4. Subscribed(ps, u) => Subscribed(qs, u) BY <1>1, <1>2, <1>3 DEF Subscribed
<1>5. u < p.start => (Subscribed(qs, u) => Subscribed(ps, u))
  <2> SUFFICES ASSUME u < p.start, NEW i \in DOMAIN qs, qs[i].start <= u, u < qs[i].end
               PROVE  Subscribed(ps, u)
    BY DEF Subscribed
  <2>1. i # n + 1 BY <1>2 DEF Period
  <2>2. i \in 1 .. n BY <1>1, <1>3, <2>1
  <2> QED BY <1>2, <1>3, <2>2 DEF Subscribed
<1>6. qs = Append(ps, p) BY DEF qs
<1> QED BY <1>4, <1>5, <1>6 DEF PremiumActiveAt

LEMMA BookingUnsettles ==
    ASSUME NEW ps, NEW next, NEW gs, Settled(ps, next, gs), NEW p \in Period, time <= p.start
    PROVE  Unsettled(Append(ps, p), next, gs)
<1> DEFINE qs == Append(ps, p)
<1> USE PremiumAssumption
<1>0. /\ time \in Nat /\ ps \in Seq(Period) /\ gs \in Seq(Nat) /\ next \in Nat \cup {NoTime}
      /\ GrantsOK(ps, gs) /\ CursorOK(next, gs) /\ GapOK(ps, next, gs)
  BY DEF Settled, Typed
<1>1. qs \in Seq(Period) BY <1>0
<1>2. \A u \in Nat : /\ PremiumActiveAt(ps, u) => PremiumActiveAt(qs, u)
                     /\ u < time => (PremiumActiveAt(qs, u) => PremiumActiveAt(ps, u))
  <2> SUFFICES ASSUME NEW u \in Nat
               PROVE  /\ PremiumActiveAt(ps, u) => PremiumActiveAt(qs, u)
                      /\ u < time => (PremiumActiveAt(qs, u) => PremiumActiveAt(ps, u))
    OBVIOUS
  <2>1. p.start \in Nat BY DEF Period
  <2>2. u < time => u < p.start BY <1>0, <2>1
  <2> QED BY <1>0, <2>2, BookedLater
<1> HIDE DEF qs
<1>3. GrantsOK(qs, gs)
  <2>1. PICK n \in Nat : n = Len(gs) BY <1>0
  <2>2. \A i \in 1 .. n : gs[i] \in Nat BY <1>0, <2>1
  <2>3. \A i \in 1 .. n : gs[i] <= time /\ PremiumActiveAt(qs, gs[i])
    BY <1>0, <1>2, <2>1, <2>2 DEF GrantsOK
  <2>4. ASSUME NEW i \in 1 .. n, i # 1
        PROVE  \/ gs[i] = gs[i - 1] + Interval
               \/ gs[i] > gs[i - 1] + Interval /\ ~PremiumActiveAt(qs, gs[i - 1] + Interval)
    <3>1. i - 1 \in 1 .. n BY <2>1, <2>4
    <3>2. gs[i - 1] \in Nat /\ gs[i] \in Nat /\ gs[i] <= time BY <2>2, <2>3, <3>1
    <3>3. PICK d \in Nat : d = gs[i - 1] + Interval BY <3>2
    <3>4. gs[i] = d \/ (gs[i] > d /\ ~PremiumActiveAt(ps, d)) BY <1>0, <2>1, <2>4, <3>3 DEF GrantsOK
    <3>5. gs[i] > d => d < time BY <1>0, <3>2
    <3> QED BY <1>2, <3>3, <3>4, <3>5
  <2> QED BY <2>1, <2>3, <2>4 DEF GrantsOK
<1>4. GapOrNow(qs, next, gs)
  <2> SUFFICES ASSUME next = NoTime, gs # <<>>
               PROVE  /\ Trial <= NextDue(gs) /\ NextDue(gs) <= time
                      /\ NextDue(gs) = time \/ ~PremiumActiveAt(qs, NextDue(gs))
    BY DEF GapOrNow
  <2>1. PICK d \in Nat : d = NextDue(gs) BY <1>0, LastGrant
  <2>2. d <= time /\ ~PremiumActiveAt(ps, d) BY <1>0, <2>1 DEF GapOK
  <2>3. Trial <= d BY <2>2 DEF PremiumActiveAt, InTrial
  <2>4. d = time \/ d < time BY <1>0, <2>2
  <2> QED BY <1>2, <2>1, <2>2, <2>3, <2>4
<1> QED BY <1>0, <1>1, <1>3, <1>4 DEF Unsettled, Typed, qs

(* A period is booked from the latest of now, the end of the trial and the *)
(* end of what was paid.                                                   *)
LEMMA StartIsLatest ==
    ASSUME time \in Nat, NEW ps \in Seq(Period)
    PROVE  /\ PeriodStart(ps) \in Nat
           /\ PeriodStart(ps) >= time /\ PeriodStart(ps) >= Trial /\ PeriodStart(ps) >= LastEnd(ps)
<1> DEFINE T == {time, Trial, LastEnd(ps)}
<1>1. LastEnd(ps) \in Int
  <2>1. CASE ps = <<>> BY <2>1 DEF LastEnd, NoTime
  <2>2. CASE ps # <<>>
    <3>1. PICK n \in Nat : n = Len(ps) OBVIOUS
    <3>2. n # 0 BY <2>2, <3>1
    <3>3. ps[n] \in Period BY <3>1, <3>2
    <3> QED BY <2>2, <3>1, <3>3 DEF LastEnd, Last, Period
  <2> QED BY <2>1, <2>2
<1>2. Trial \in Nat BY PremiumAssumption
<1>3. \E t \in T : \A u \in T : t >= u
  <2>1. \A a, b, c \in Int : \E t \in {a, b, c} : \A u \in {a, b, c} : t >= u OBVIOUS
  <2> QED BY <1>1, <1>2, <2>1
<1>4. PICK t : t = PeriodStart(ps) OBVIOUS
<1>5. t \in T /\ \A u \in T : t >= u BY <1>3, <1>4 DEF PeriodStart
<1> QED BY <1>1, <1>2, <1>4, <1>5

LEMMA BookingKeepsPeriods ==
    ASSUME NEW ps \in Seq(Period), PeriodsOK(ps), NEW p \in Period,
           p.start >= Trial, p.start < p.end, p.start >= LastEnd(ps)
    PROVE  PeriodsOK(Append(ps, p))
<1> DEFINE qs == Append(ps, p)
<1> USE PremiumAssumption
<1>1. PICK n \in Nat : n = Len(ps) OBVIOUS
<1>2. Len(qs) = n + 1 /\ qs[n + 1] = p /\ \A i \in 1 .. n : qs[i] = ps[i] BY <1>1
<1>3. \A i \in 1 .. n : ps[i] \in Period /\ ps[i].start \in Nat /\ ps[i].end \in Nat
  <2>1. \A q \in Period : q.start \in Nat /\ q.end \in Nat BY DEF Period
  <2>2. \A i \in 1 .. n : ps[i] \in Period BY <1>1
  <2> QED BY <2>1, <2>2
<1>4. ASSUME NEW i \in 1 .. n PROVE ps[i].end <= p.start
  <2>1. n # 0 /\ ps # <<>> /\ n \in 1 .. n BY <1>1
  <2>2. LastEnd(ps) = ps[n].end BY <1>1, <2>1 DEF LastEnd, Last
  <2>3. ps[n].end <= p.start /\ p.start \in Nat BY <2>2, <1>3, <2>1 DEF Period
  <2>4. CASE i = n BY <2>3, <2>4
  <2>5. CASE i # n
    <3>1. i < n BY <1>1, <2>5
    <3>2. ps[i].end <= ps[n].start /\ ps[n].start < ps[n].end
      BY <1>1, <2>1, <3>1 DEF PeriodsOK
    <3> QED BY <1>3, <2>1, <2>3, <3>2
  <2> QED BY <2>4, <2>5
<1> HIDE DEF qs
<1>5. ASSUME NEW i \in 1 .. Len(qs)
      PROVE  /\ qs[i].start >= Trial /\ qs[i].start < qs[i].end
             /\ \A j \in 1 .. Len(qs) : i < j => qs[i].end <= qs[j].start
  <2>1. CASE i = n + 1
    <3>1. \A j \in 1 .. Len(qs) : ~(i < j) BY <1>1, <1>2, <2>1
    <3> QED BY <1>2, <2>1, <3>1
  <2>2. CASE i # n + 1
    <3>1. i \in 1 .. n BY <1>1, <1>2, <2>2
    <3>2. ASSUME NEW j \in 1 .. Len(qs), i < j PROVE qs[i].end <= qs[j].start
      <4>1. CASE j = n + 1 BY <1>2, <1>4, <3>1, <4>1
      <4>2. CASE j # n + 1
        <5>1. j \in 1 .. n BY <1>1, <1>2, <4>2
        <5> QED BY <1>1, <1>2, <3>1, <3>2, <5>1 DEF PeriodsOK
      <4> QED BY <4>1, <4>2
    <3> QED BY <1>1, <1>2, <3>1, <3>2 DEF PeriodsOK
  <2> QED BY <2>1, <2>2
<1> QED BY <1>5 DEF PeriodsOK, qs

---------------------------------------------------------------------------
LEMMA InitPremium == PremiumInit => PremiumIInv
<1> SUFFICES ASSUME PremiumInit PROVE PremiumIInv OBVIOUS
<1>1. time = 0 /\ paid = <<>> /\ nextGrant = NoTime /\ grants = <<>> BY DEF PremiumInit
<1>2. paid \in Seq(Period) /\ grants \in Seq(Nat) /\ Len(paid) = 0 /\ Len(grants) = 0 BY <1>1
<1> QED BY <1>1, <1>2
    DEF PremiumIInv, PeriodsOK, Settled, Typed, GrantsOK, CursorOK, GapOK

LEMMA StepPremium == PremiumIInv /\ [PremiumNext]_premiumVars => PremiumIInv'
<1> SUFFICES ASSUME PremiumIInv, [PremiumNext]_premiumVars PROVE PremiumIInv' OBVIOUS
<1>0. PeriodsOK(paid) /\ Settled(paid, nextGrant, grants) BY DEF PremiumIInv
<1>00. /\ time \in Nat /\ paid \in Seq(Period) /\ grants \in Seq(Nat)
       /\ nextGrant \in Nat \cup {NoTime}
  BY <1>0 DEF Settled, Typed
<1>1. \* a request at an unchanged time
      ASSUME time' = time, PeriodsOK(paid'), Settled(paid', nextGrant', grants')
      PROVE  PremiumIInv'
  BY <1>1 DEF PremiumIInv, Settled, Typed, GrantsOK, CursorOK, GapOK, PeriodsOK
<1>2. CASE TimePasses
  <2>1. time' = time + 1 /\ paid' = paid /\ nextGrant' = nextGrant /\ grants' = grants
    BY <1>2 DEF TimePasses
  <2>2. Typed(paid, nextGrant, grants)' BY <1>00, <2>1 DEF Typed
  <2>3. GrantsOK(paid, grants)'
    <3>1. PICK n \in Nat : n = Len(grants) BY <1>00
    <3>2. \A i \in 1 .. n : grants[i] \in Nat BY <1>00, <3>1
    <3>3. GrantsOK(paid, grants) BY <1>0 DEF Settled
    <3>4. \A i \in 1 .. n : grants[i] <= time + 1 BY <1>00, <3>1, <3>2, <3>3 DEF GrantsOK
    <3> QED BY <2>1, <3>1, <3>3, <3>4 DEF GrantsOK
  <2>4. CursorOK(nextGrant, grants)' BY <1>0, <2>1 DEF Settled, CursorOK
  <2>5. GapOK(paid, nextGrant, grants)'
    <3> SUFFICES ASSUME nextGrant = NoTime, grants # <<>>
                 PROVE  NextDue(grants) <= time + 1 /\ ~PremiumActiveAt(paid, NextDue(grants))
      BY <2>1 DEF GapOK
    <3>1. NextDue(grants) \in Nat BY <1>00, LastGrant
    <3> QED BY <1>0, <1>00, <3>1 DEF Settled, GapOK
  <2>6. PeriodsOK(paid)' BY <1>0, <2>1 DEF PeriodsOK
  <2> QED BY <2>2, <2>3, <2>4, <2>5, <2>6 DEF PremiumIInv, Settled
<1>3. CASE RequestArrives
  <2> DEFINE g == ApplyGrants(paid, nextGrant, grants)
  <2>1. time' = time /\ paid' = paid /\ nextGrant' = g.next /\ grants' = g.grants
    BY <1>3 DEF RequestArrives
  <2>2. Settled(paid, g.next, g.grants) BY <1>0, SettledIsUnsettled, ApplyGrantsSettles
  <2> HIDE DEF g
  <2> QED BY <1>0, <1>1, <2>1, <2>2
<1>4. ASSUME NEW length \in PlanLength, Subscribe(length) PROVE PremiumIInv'
  <2> DEFINE g == ApplyGrants(paid, nextGrant, grants)
             p == [start |-> PeriodStart(paid), end |-> PeriodStart(paid) + length]
             ps == Append(paid, p)
             h == ApplyGrants(ps, g.next, g.grants)
  <2>1. /\ time' = time
        /\ IF LastEnd(paid) > time
           THEN nextGrant' = g.next /\ grants' = g.grants /\ paid' = paid
           ELSE nextGrant' = h.next /\ grants' = h.grants /\ paid' = ps
    BY <1>4 DEF Subscribe
  <2>2. Settled(paid, g.next, g.grants) BY <1>0, SettledIsUnsettled, ApplyGrantsSettles
  <2>3. /\ PeriodStart(paid) \in Nat /\ PeriodStart(paid) >= time
        /\ PeriodStart(paid) >= Trial /\ PeriodStart(paid) >= LastEnd(paid)
    BY <1>00, StartIsLatest
  <2>4. length \in Nat \ {0} BY PremiumAssumption
  <2>5. /\ p \in Period /\ p.start = PeriodStart(paid) /\ time <= p.start /\ p.start >= Trial
        /\ p.start < p.end /\ p.start >= LastEnd(paid)
    BY <1>00, <2>3, <2>4 DEF Period
  <2> HIDE DEF p
  <2>6. PeriodsOK(ps) BY <1>0, <1>00, <2>5, BookingKeepsPeriods
  <2>7. Settled(ps, h.next, h.grants)
    <3>1. Unsettled(ps, g.next, g.grants) BY <2>2, <2>5, BookingUnsettles
    <3> QED BY <3>1, ApplyGrantsSettles
  <2> HIDE DEF g, ps, h
  <2>8. CASE LastEnd(paid) > time BY <1>0, <1>1, <2>1, <2>2, <2>8
  <2>9. CASE ~(LastEnd(paid) > time) BY <1>1, <2>1, <2>6, <2>7, <2>9
  <2> QED BY <2>8, <2>9
<1>5. CASE UNCHANGED premiumVars
  <2>1. time' = time /\ paid' = paid /\ nextGrant' = nextGrant /\ grants' = grants
    BY <1>5 DEF premiumVars
  <2> QED BY <1>0, <1>1, <2>1
<1> QED BY <1>2, <1>3, <1>4, <1>5 DEF PremiumNext

LEMMA PremiumIInvGrants == PremiumIInv => WeeklyGrants
<1> SUFFICES ASSUME PremiumIInv PROVE WeeklyGrants OBVIOUS
<1>1. /\ PeriodsOK(paid) /\ GrantsOK(paid, grants) /\ CursorOK(nextGrant, grants)
      /\ paid \in Seq(Period) /\ grants \in Seq(Nat)
  BY DEF PremiumIInv, Settled, Typed
<1>2. DOMAIN grants = 1 .. Len(grants) /\ DOMAIN paid = 1 .. Len(paid) BY <1>1
<1>3. nextGrant # NoTime => grants # <<>> /\ nextGrant = Last(grants) + Interval
  BY <1>1 DEF CursorOK, NextDue, Last
<1>4. \A i \in DOMAIN grants : grants[i] <= time /\ PremiumActiveAt(paid, grants[i])
  BY <1>1, <1>2 DEF GrantsOK
<1>5. \A i \in DOMAIN grants \ {1} :
        LET due == grants[i - 1] + Interval
        IN  grants[i] = due \/ (grants[i] > due /\ ~PremiumActiveAt(paid, due))
  BY <1>1, <1>2 DEF GrantsOK
<1>6. \A i \in DOMAIN paid :
        paid[i].start >= Trial /\ \A j \in DOMAIN paid : i < j => paid[i].end <= paid[j].start
  BY <1>1, <1>2 DEF PeriodsOK
<1> QED BY <1>3, <1>4, <1>5, <1>6 DEF WeeklyGrants

(* However rarely a user comes and however trial, gaps and paid periods    *)
(* follow each other, whatever their lengths, the grants are those that    *)
(* fell due during Premium, each once.                                     *)
THEOREM GrantsAreWeekly == PremiumSpec => []WeeklyGrants
BY InitPremium, StepPremium, PremiumIInvGrants, PTL DEF PremiumSpec
=============================================================================
