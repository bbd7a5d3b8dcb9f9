-------------------------------- MODULE Fit --------------------------------
(***************************************************************************)
(* Who may be paired on a shift and how well they fit: the hard filters    *)
(* and the cause gate (matching/engine.js), the score (score.js, config.js *)
(* with the weights, affinity.js) and the rows it is computed from         *)
(* (person.js, poolStats of matchingRunner.js), as ratings, attendance,    *)
(* cancellations and profile edits change them.                            *)
(*                                                                         *)
(* Abstractions: a number of the ranker is in thousandths, rounded down by *)
(* each operation.  There is one shift, so that one rating by a volunteer  *)
(* is about its org and its causes; a distance is data.  Bob's record      *)
(* changes by reports only, Ann's by everything.  A shift that is rated    *)
(* was attended; mutual buddies, who escape the repeat factor, are left    *)
(* out.                                                                    *)
(***************************************************************************)
EXTENDS Integers, Sequences, FiniteSets

CONSTANTS
    Ann, Bob,
    Interest,
    Adjacent,           \* ADJACENCY_TABLE: pairs of causes
    ShiftCauses, Mission,
    Distance, Radius,   \* miles
    FirstRows,          \* what the two have done before
    MaxEvents           \* bound

Unit == 1000
Unknown == -1

(* The numbers of the ranker; those of the bar and of the order of service *)
(* are Plan's and SearchBar's.                                             *)
MATCHING_CONFIG ==
    [pair |-> [interests |-> 360, age |-> 270, experience |-> 190, standing |-> 180],
     shiftFit |-> [cause |-> 520, travel |-> 340, org |-> 140],
     blend |-> [pair |-> 550, shift |-> 450],
     interestsUnknown |-> 350, ageHalfGapYears |-> 9, experienceSpanLog2 |-> 4,
     mentorMinShiftsInCause |-> 3, mentorValue |-> 950, closeCredit |-> 650,
     orgNoneFactor |-> 850, travelSlope |-> 750, travelUnknown |-> 550,
     standingNeutral |-> 620, standingPrior |-> 3, orgQualityNeutral |-> 620, orgQualityPrior |-> 4,
     affinityPriorOrg |-> 2, affinityPriorCause |-> 3, affinityOrgShare |-> 550,
     affinityMaxBoost |-> 120, affinityMaxPenalty |-> 220,
     lateCancelWeight |-> 450, noShowWeight |-> 1000, riskPrior |-> 2, riskWeight |-> 350,
     newcomerProtection |-> 650, repeatFactor |-> 920]
cfg == MATCHING_CONFIG

(* What validateConfig asks, which a test asks of the numbers.             *)
ValidConfig ==
    /\ cfg.pair.interests + cfg.pair.age + cfg.pair.experience + cfg.pair.standing = Unit
    /\ cfg.shiftFit.cause + cfg.shiftFit.travel + cfg.shiftFit.org = Unit
    /\ cfg.blend.pair + cfg.blend.shift = Unit
    /\ \A share \in {"standingNeutral", "orgQualityNeutral", "interestsUnknown", "mentorValue", "closeCredit",
                      "orgNoneFactor", "travelSlope", "travelUnknown", "affinityOrgShare", "affinityMaxBoost",
                      "affinityMaxPenalty", "riskWeight", "newcomerProtection", "repeatFactor"} :
            cfg[share] \in 0 .. Unit
    /\ \A positive \in {"standingPrior", "orgQualityPrior", "ageHalfGapYears", "experienceSpanLog2",
                         "mentorMinShiftsInCause", "affinityPriorOrg", "affinityPriorCause",
                         "lateCancelWeight", "noShowWeight", "riskPrior"} :
            cfg[positive] > 0
ASSUME FitAssumption == ValidConfig

VARIABLES
    user,       \* per person: the row and its statistics
    orgStats,   \* volunteers' operational ratings of the org: sum and number
    repeat,     \* the two have been paired before
    events      \* counts events, up to the bound

fitVars == <<user, orgStats, repeat, events>>

-----------------------------------------------------------------------------
(* Arithmetic in thousandths.                                              *)
Times(x, y) == (x * y) \div Unit
Clamp01(x) == IF x < 0 THEN 0 ELSE IF x > Unit THEN Unit ELSE x
Root[n \in Nat] ==      \* Math.sqrt, bit by bit
    LET upTo[i \in 0 .. 11] ==
            IF i = 0 THEN 0
            ELSE LET high == upTo[i - 1]
                     r == high + 2 ^ (11 - i)
                 IN  IF r * r <= n THEN r ELSE high
    IN  upTo[11]
Log2 == <<0, 1000, 1585, 2000, 2322, 2585, 2807, 3000>>     \* Math.log2
Gap(x, y) == IF x < y THEN y - x ELSE x - y
Shrunk(r, prior, neutral) == (r.sum + prior * neutral) \div (r.n + prior)

(* Person to person.                                                       *)
interestOverlap(s, t) ==
    IF s = {} \/ t = {} THEN cfg.interestsUnknown
    ELSE LET shared == Cardinality(s \cap t)
         IN  Root[(shared * shared * Unit * Unit) \div (Cardinality(s) * Cardinality(t))]
ageCloseness(x, y) ==
    LET half == cfg.ageHalfGapYears * cfg.ageHalfGapYears
    IN  (Unit * half) \div (half + Gap(x, y) * Gap(x, y))
mentorMix(p, q) == p.inCause = 0 /\ q.inCause >= cfg.mentorMinShiftsInCause
experienceFit(p, q) ==
    IF mentorMix(p, q) \/ mentorMix(q, p) THEN cfg.mentorValue
    ELSE Clamp01(Unit - Gap(Log2[p.attended + 1], Log2[q.attended + 1]) \div cfg.experienceSpanLog2)
(* Mutant: who has not been rated counts as low. *)
orgStandingFromZero(r) == Shrunk(r, cfg.standingPrior, 0)
orgStanding(r) == Shrunk(r, cfg.standingPrior, cfg.standingNeutral)
PairFit(p, q) ==
    Times(cfg.pair.interests, interestOverlap(p.interests, q.interests))
    + Times(cfg.pair.age, ageCloseness(p.age, q.age)) + Times(cfg.pair.experience, experienceFit(p, q))
    + Times(cfg.pair.standing, Root[orgStanding(p.standing) * orgStanding(q.standing)])

(* A person and the shift.                                                 *)
CloseTo(mine, tags) == {t \in tags : \E c \in mine : <<c, t>> \in Adjacent}
tagMatchLevel(mine, tags) ==
    IF mine \cap tags # {} THEN "exact" ELSE IF CloseTo(mine, tags) # {} THEN "close" ELSE "none"
causeFit(p) ==
    LET close == CloseTo(p.causes, ShiftCauses) \ p.causes
        credit == Unit * Cardinality(p.causes \cap ShiftCauses) + cfg.closeCredit * Cardinality(close)
        value == Clamp01(credit \div Cardinality(ShiftCauses))
    IN  IF tagMatchLevel(p.causes, Mission) = "none" THEN Times(cfg.orgNoneFactor, value) ELSE value
travelFit(p) ==
    IF p.miles = Unknown THEN cfg.travelUnknown ELSE Clamp01(Unit - (cfg.travelSlope * p.miles) \div Radius)
shiftAffinity(p) ==
    LET raw == Times(cfg.affinityOrgShare, p.likes.sum \div (p.likes.n + cfg.affinityPriorOrg))
               + Times(Unit - cfg.affinityOrgShare, p.likes.sum \div (p.likes.n + cfg.affinityPriorCause))
    IN  Times(IF raw > 0 THEN cfg.affinityMaxBoost ELSE cfg.affinityMaxPenalty, raw)
orgQuality == Shrunk(orgStats, cfg.orgQualityPrior, cfg.orgQualityNeutral)
ShiftFit(p) ==
    LET fit == Times(cfg.shiftFit.cause, causeFit(p)) + Times(cfg.shiftFit.travel, travelFit(p))
               + Times(cfg.shiftFit.org, orgQuality)
    IN  Clamp01(Times(Unit - cfg.affinityMaxBoost, fit) + shiftAffinity(p))

(* Mutant: a late cancellation counts as an event but weighs nothing. *)
RiskWithoutLate(p) == (cfg.noShowWeight * p.noShow) \div (p.attended + p.late + p.noShow + cfg.riskPrior)
reliabilityRisk(p) ==
    (cfg.lateCancelWeight * p.late + cfg.noShowWeight * p.noShow)
        \div (p.attended + p.late + p.noShow + cfg.riskPrior)
Reliability(p, q) ==
    LET worse == IF reliabilityRisk(p) > reliabilityRisk(q) THEN reliabilityRisk(p) ELSE reliabilityRisk(q)
    IN  Unit - Times(cfg.riskWeight, worse)
NewcomerRisk(p, q) == p.attended = 0 /\ q.habitualLate

scoreTriple ==
    LET p == user[Ann]
        q == user[Bob]
        base == Times(cfg.blend.pair, PairFit(p, q)) + Times(cfg.blend.shift, Root[ShiftFit(p) * ShiftFit(q)])
        newcomer == IF NewcomerRisk(p, q) \/ NewcomerRisk(q, p) THEN cfg.newcomerProtection ELSE Unit
    IN  Clamp01(Times(Times(Times(base, Reliability(p, q)), newcomer), IF repeat THEN cfg.repeatFactor ELSE Unit))

-----------------------------------------------------------------------------
(* What no score can outweigh.                                             *)
CAUSE_GATE ==
    [exact |-> {"exact", "close", "none"}, close |-> {"exact", "close"}, none |-> {}]
(* Mutant: support is asked of an exact match, a close one needs none. *)
GateTheOtherWay(p) ==
    LET levels == [CAUSE_GATE EXCEPT !.exact = {"exact", "close"}, !.close = CAUSE_GATE.exact]
    IN  tagMatchLevel(p.causes, Mission) \in levels[tagMatchLevel(p.causes, ShiftCauses)]
causeGatePasses(p) ==
    tagMatchLevel(p.causes, Mission) \in CAUSE_GATE[tagMatchLevel(p.causes, ShiftCauses)]
passesShiftGate(p) == causeGatePasses(p) /\ (p.miles # Unknown => p.miles <= Radius)

Suits(p, q) == p.genderPref # "same_gender_only" \/ p.gender = q.gender
hardFiltersPass(u, v) ==
    LET p == user[u]
        q == user[v]
    IN  /\ u # v /\ p.age >= 18 /\ q.age >= 18 /\ p.verified /\ q.verified
        /\ Suits(p, q) /\ Suits(q, p)
        /\ v \notin p.flagged /\ u \notin q.flagged
Ranked == hardFiltersPass(Ann, Bob) /\ passesShiftGate(user[Ann]) /\ passesShiftGate(user[Bob])

-----------------------------------------------------------------------------
(* The events.                                                             *)
FitInit ==
    /\ user \in FirstRows
    /\ orgStats = [sum |-> 0, n |-> 0] /\ repeat = FALSE /\ events = 0

Counted == events < MaxEvents /\ events' = events + 1
Rated(r, value) == [sum |-> r.sum + value, n |-> r.n + 1]
AnnBecomes(p) == user' = [user EXCEPT ![Ann] = p]

(* An org rates attendance and contribution, with the mean of 1..5, and a  *)
(* volunteer the org, in private and in public; one rating per shift, and  *)
(* the org may change its rating (bound: the latest one).                  *)
OrgRates(stars) ==
    /\ user[Ann].standing.n < user[Ann].attended + user[Ann].noShow
    /\ AnnBecomes([user[Ann] EXCEPT !.standing = Rated(@, 250 * (stars - 1)), !.latest = 250 * (stars - 1)])
    /\ UNCHANGED <<orgStats, repeat>>
OrgRatesAgain(stars) ==
    /\ user[Ann].standing.n > 0
    /\ AnnBecomes([user[Ann] EXCEPT !.standing.sum = @ - user[Ann].latest + 250 * (stars - 1),
                                    !.latest = 250 * (stars - 1)])
    /\ UNCHANGED <<orgStats, repeat>>
RatesOrg(personalFit, operational) ==
    /\ user[Ann].likes.n < user[Ann].attended
    /\ AnnBecomes([user[Ann] EXCEPT !.likes = Rated(@, 500 * (personalFit - 3))])
    /\ orgStats' = Rated(orgStats, 250 * (operational - 1))
    /\ UNCHANGED repeat
OthersRate(operational) ==
    /\ orgStats' = Rated(orgStats, 250 * (operational - 1))
    /\ UNCHANGED <<user, repeat>>
Attends(inCause) ==
    /\ AnnBecomes([user[Ann] EXCEPT !.attended = @ + 1, !.inCause = @ + (IF inCause THEN 1 ELSE 0),
                                    !.habitualLate = user[Ann].recentLate >= 2])
    /\ UNCHANGED <<orgStats, repeat>>
CancelsLate ==
    /\ AnnBecomes([user[Ann] EXCEPT !.late = @ + 1, !.recentLate = @ + 1,
                                    !.habitualLate = user[Ann].recentLate + 1 >= 2])
    /\ UNCHANGED <<orgStats, repeat>>
NoShow ==
    /\ AnnBecomes([user[Ann] EXCEPT !.noShow = @ + 1, !.habitualLate = user[Ann].recentLate >= 2])
    /\ UNCHANGED <<orgStats, repeat>>
(* The late cancellations leave the window; the flag waits for an event.   *)
WindowPasses == AnnBecomes([user[Ann] EXCEPT !.recentLate = 0]) /\ UNCHANGED <<orgStats, repeat>>
PickCause(c) == AnnBecomes([user[Ann] EXCEPT !.causes = @ \cup {c}]) /\ UNCHANGED <<orgStats, repeat>>
PickInterest(i) == AnnBecomes([user[Ann] EXCEPT !.interests = @ \cup {i}]) /\ UNCHANGED <<orgStats, repeat>>
Moves(miles) == AnnBecomes([user[Ann] EXCEPT !.miles = miles]) /\ UNCHANGED <<orgStats, repeat>>
Verifies(yes) == AnnBecomes([user[Ann] EXCEPT !.verified = yes]) /\ UNCHANGED <<orgStats, repeat>>
PrefersGender(pref) == AnnBecomes([user[Ann] EXCEPT !.genderPref = pref]) /\ UNCHANGED <<orgStats, repeat>>
ReportsOther(u) ==
    /\ user' = [user EXCEPT ![u].flagged = {Ann, Bob} \ {u}]
    /\ UNCHANGED <<orgStats, repeat>>
ArePaired == Ranked /\ repeat' = TRUE /\ UNCHANGED <<user, orgStats>>

Causes == ShiftCauses \cup Mission \cup {pair[1] : pair \in Adjacent}
FitNext ==
    /\ Counted
    /\ \/ \E stars \in {1, 3, 5} : OrgRates(stars) \/ OrgRatesAgain(stars) \/ OthersRate(stars)
                                  \/ \E fit \in {1, 5} : RatesOrg(fit, stars)
       \/ \E yes \in BOOLEAN : Attends(yes) \/ Verifies(yes)
       \/ \E c \in Causes : PickCause(c)
       \/ \E i \in Interest : PickInterest(i)
       \/ \E d \in Distance \cup {Unknown} : Moves(d)
       \/ \E pref \in {"any", "same_gender_only"} : PrefersGender(pref)
       \/ \E u \in {Ann, Bob} : ReportsOther(u)
       \/ CancelsLate \/ NoShow \/ WindowPasses \/ ArePaired

FitSpec == FitInit /\ [][FitNext]_fitVars

-----------------------------------------------------------------------------
FitTypeOK ==
    /\ DOMAIN user = {Ann, Bob} /\ repeat \in BOOLEAN /\ events \in 0 .. MaxEvents
    /\ \A u \in {Ann, Bob} :
        /\ user[u].causes \subseteq Causes /\ user[u].interests \subseteq Interest
        /\ user[u].inCause \in 0 .. user[u].attended /\ user[u].attended \in 0 .. Len(Log2) - 1
        /\ user[u].standing.sum \in 0 .. Unit * user[u].standing.n /\ user[u].late \in Nat

Nearer == \E d \in Distance : user[Ann].miles > d /\ Moves(d)
Merit ==
    /\ Counted
    /\ \/ OrgRates(5) \/ OrgRatesAgain(5) \/ RatesOrg(5, 5) \/ OthersRate(5) \/ Nearer
       \/ \E c \in Causes \ user[Ann].causes : PickCause(c)
Fault ==
    /\ Counted
    /\ \/ OrgRates(1) \/ OrgRatesAgain(1) \/ RatesOrg(1, 1) \/ OthersRate(1) \/ NoShow
       \/ CancelsLate /\ reliabilityRisk(user[Ann]) < cfg.lateCancelWeight
       \/ user[Ann].standing.n = 0 /\ OrgRates(3)
       \/ orgStats.n = 0 /\ OthersRate(3)
       \/ ~repeat /\ ArePaired

(* Nothing good counts against a pair and nothing bad for it: the best     *)
(* rating an org or the volunteer can give, one more cause or a shorter    *)
(* way never lower the score, lift it past a full one or close the gate;   *)
(* the worst rating, a middling one of somebody not rated before, who does *)
(* not count as low, a no-show, or a late cancellation unless the record   *)
(* already weighs more than one, never raise the score.  And a report ends *)
(* the ranking of the two for good.                                        *)
MeritCounts ==
    [][ /\ Merit => /\ scoreTriple' \in scoreTriple .. Unit
                    /\ passesShiftGate(user[Ann]) => passesShiftGate(user'[Ann])
        /\ Fault => scoreTriple' \in 0 .. scoreTriple
        /\ (\E u \in {Ann, Bob} : user[u].flagged # {}) => ~Ranked' ]_fitVars
=============================================================================
