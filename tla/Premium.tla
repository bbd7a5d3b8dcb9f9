------------------------------ MODULE Premium ------------------------------
(***************************************************************************)
(* Premium of one user (backend/lib/premium.js): the trial that starts     *)
(* with the account, the subscriptions that follow it, and the weekly      *)
(* grant of Deeds, which no timer pays: every request of the user first    *)
(* catches up on the grants that fell due since the last one               *)
(* (backend/routes/volunteer.js).  A request runs to its end in one go.    *)
(*                                                                         *)
(* Abstractions: time is counted from the signup in steps shorter than a   *)
(* week, and a plan is the length of its period.  The other limits the     *)
(* tier sets (the monthly cap, the free late cancellation, buddy slots)    *)
(* are in the modules Lifecycle and Buddies.                               *)
(***************************************************************************)
EXTENDS Integers, Sequences, FiniteSets, SequencesExt

CONSTANTS
    Trial,                  \* TRIAL_MS
    Interval,               \* PREMIUM_GRANT_INTERVAL_MS
    PlanLength,             \* months of the plans on offer
    MaxTime, MaxPeriods     \* bounds

NoTime == -1

ASSUME PremiumAssumption ==
    /\ Trial \in Nat \ {0} /\ Interval \in Nat \ {0}
    /\ PlanLength \subseteq Nat \ {0} /\ MaxTime \in Nat /\ MaxPeriods \in Nat

VARIABLES
    time,       \* clock.nowMs()
    paid,       \* premium_subscriptions: periods, in the order booked
    nextGrant,  \* premium_grant_next_at
    grants      \* premium_grant entries of the ledger: when each fell due

premiumVars == <<time, paid, nextGrant, grants>>

InTrial(t) == t < Trial
Subscribed(ps, t) == \E i \in DOMAIN ps : ps[i].start <= t /\ t < ps[i].end
PremiumActiveAt(ps, t) == InTrial(t) \/ Subscribed(ps, t)
LastEnd(ps) == IF ps = <<>> THEN NoTime ELSE Last(ps).end

-----------------------------------------------------------------------------
PremiumInit == time = 0 /\ paid = <<>> /\ nextGrant = NoTime /\ grants = <<>>

(* applyGrants: the dues from the cursor up to now, cut off at the first   *)
(* that fell outside Premium; without a cursor the first is due when this  *)
(* stretch of Premium began.                                               *)
FirstDue(ps, next) ==
    CASE next # NoTime -> next
      [] next = NoTime /\ InTrial(time) -> 0
      [] next = NoTime /\ ~InTrial(time) /\ Subscribed(ps, time) -> time
      [] OTHER -> NoTime
DuesFrom(t) == IF t = NoTime \/ t > time THEN 0 ELSE (time - t) \div Interval + 1
GrantDue(t, i) == t + Interval * (i - 1)
(* Mutant: a due outside Premium is only passed over. *)
LapsesNever(ps, t) == {}
Lapses(ps, t) == {i \in 1 .. DuesFrom(t) : ~PremiumActiveAt(ps, GrantDue(t, i))}
Credited(ps, t) == IF Lapses(ps, t) = {} THEN DuesFrom(t) ELSE Min(Lapses(ps, t)) - 1
ApplyGrants(ps, next, gs) ==
    LET t == FirstDue(ps, next)
    IN  [next   |-> IF t = NoTime \/ Lapses(ps, t) # {} THEN NoTime
                    ELSE GrantDue(t, DuesFrom(t) + 1),
         grants |-> gs \o [i \in 1 .. Credited(ps, t) |-> GrantDue(t, i)]]

TimePasses == time < MaxTime /\ time' = time + 1 /\ UNCHANGED <<paid, nextGrant, grants>>

(* The middleware of every volunteer route.                                *)
RequestArrives ==
    LET g == ApplyGrants(paid, nextGrant, grants)
    IN  nextGrant' = g.next /\ grants' = g.grants /\ UNCHANGED <<time, paid>>

(* POST /premium/subscribe: not while a paid period is running or booked.  *)
PeriodStart(ps) == CHOOSE t \in {time, Trial, LastEnd(ps)} :
                        \A u \in {time, Trial, LastEnd(ps)} : t >= u
Subscribe(length) ==
    LET g == ApplyGrants(paid, nextGrant, grants)
        ps == Append(paid, [start |-> PeriodStart(paid), end |-> PeriodStart(paid) + length])
        h == ApplyGrants(ps, g.next, g.grants)
    IN  /\ Len(paid) < MaxPeriods
        /\ IF LastEnd(paid) > time
           THEN nextGrant' = g.next /\ grants' = g.grants /\ paid' = paid
           ELSE nextGrant' = h.next /\ grants' = h.grants /\ paid' = ps
        /\ UNCHANGED time

PremiumNext == TimePasses \/ RequestArrives \/ \E n \in PlanLength : Subscribe(n)
PremiumSpec == PremiumInit /\ [][PremiumNext]_premiumVars
-----------------------------------------------------------------------------
PremiumTypeOK ==
    /\ time \in 0 .. MaxTime /\ nextGrant \in Nat \cup {NoTime}
    /\ paid \in Seq([start : Nat, end : Nat]) /\ grants \in Seq(0 .. MaxTime)

(* However rarely the user comes and however trial, gaps and subscriptions *)
(* follow each other, no grant is paid twice or early, none for a time     *)
(* outside Premium, and none is passed over while Premium goes on; and     *)
(* paid time never runs during the trial or another paid period.           *)
WeeklyGrants ==
    /\ \A i \in DOMAIN grants : grants[i] <= time /\ PremiumActiveAt(paid, grants[i])
    /\ \A i \in DOMAIN grants \ {1} :
        LET due == grants[i - 1] + Interval
        IN  grants[i] = due \/ (grants[i] > due /\ ~PremiumActiveAt(paid, due))
    /\ nextGrant # NoTime => grants # <<>> /\ nextGrant = Last(grants) + Interval
    /\ \A i \in DOMAIN paid :
        paid[i].start >= Trial /\ \A j \in DOMAIN paid : i < j => paid[i].end <= paid[j].start
=============================================================================
