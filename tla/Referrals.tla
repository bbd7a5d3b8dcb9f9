----------------------------- MODULE Referrals -----------------------------
(***************************************************************************)
(* Referral codes and what they earn (backend/lib/referrals.js): the code  *)
(* an account signed up with is looked up when its profile is created, and *)
(* the referrer is credited when the new user completes a verification,    *)
(* which users may do again and again.  Each handler runs in one go.       *)
(*                                                                         *)
(* Abstractions: a code is its owner, and time is counted in days.         *)
(***************************************************************************)
EXTENDS Integers, Sequences

CONSTANTS
    Member,             \* accounts
    Cooldown,           \* REFERRAL_COOLDOWN_MS
    MaxDay              \* bound

Nobody == "nobody"
ASSUME ReferralsAssumption ==
    Nobody \notin Member /\ Cooldown \in Nat \ {0} /\ MaxDay \in Nat

VARIABLES
    today,
    codeUsed,       \* accounts.referral_code_used
    profile,        \* accounts that have a profile
    coded,          \* profiles that have a referral code
    referredBy,     \* referred_by_user_id
    evaluated,      \* referral_credited_at is set
    earned          \* referral entries of the ledger, per referrer

referralVars == <<today, codeUsed, profile, coded, referredBy, evaluated, earned>>

-----------------------------------------------------------------------------
ReferralsInit ==
    /\ today = 0 /\ codeUsed \in [Member -> Member \cup {Nobody}]
    /\ profile = {} /\ coded = {} /\ evaluated = {}
    /\ referredBy = [u \in Member |-> Nobody] /\ earned = [u \in Member |-> <<>>]

NewDay ==
    /\ today < MaxDay /\ today' = today + 1
    /\ UNCHANGED <<codeUsed, profile, coded, referredBy, evaluated, earned>>

(* POST /users creates the profile, then linkReferrer.                     *)
ReferrerOf(u) == IF codeUsed[u] \in coded \ {u} THEN codeUsed[u] ELSE Nobody
CreateProfile(u) ==
    /\ u \notin profile
    /\ profile' = profile \cup {u}
    /\ referredBy' = [referredBy EXCEPT ![u] = ReferrerOf(u)]
    /\ UNCHANGED <<today, codeUsed, coded, evaluated, earned>>

(* GET /referral makes the code, once.                                     *)
EnsureCode(u) ==
    /\ u \in profile /\ coded' = coded \cup {u}
    /\ UNCHANGED <<today, codeUsed, profile, referredBy, evaluated, earned>>

(* creditOnVerification.                                                   *)
CoolingDown(r) == earned[r] # <<>> /\ today - earned[r][Len(earned[r])].day < Cooldown
(* Mutant: a referral that earned nothing may try again. *)
DueAgain(u) == referredBy[u] # Nobody
FirstVerification(u) == referredBy[u] # Nobody /\ u \notin evaluated
Verified(u) ==
    LET r == referredBy[u]
    IN  /\ u \in profile
        /\ IF FirstVerification(u)
           THEN /\ evaluated' = evaluated \cup {u}
                /\ earned' = IF CoolingDown(r) THEN earned
                             ELSE [earned EXCEPT ![r] = Append(@, [friend |-> u, day |-> today])]
           ELSE UNCHANGED <<evaluated, earned>>
        /\ UNCHANGED <<today, codeUsed, profile, coded, referredBy>>

ReferralsNext ==
    NewDay \/ \E u \in Member : CreateProfile(u) \/ EnsureCode(u) \/ Verified(u)
ReferralsSpec == ReferralsInit /\ [][ReferralsNext]_referralVars
-----------------------------------------------------------------------------
ReferralsTypeOK ==
    /\ today \in 0 .. MaxDay /\ codeUsed \in [Member -> Member \cup {Nobody}]
    /\ profile \subseteq Member /\ coded \subseteq profile /\ evaluated \subseteq profile
    /\ referredBy \in [Member -> Member \cup {Nobody}]
    /\ earned \in [Member -> Seq([friend : Member, day : 0 .. MaxDay])]

(* A new user is worth at most one credit ever, to one referrer who is     *)
(* somebody else, however often they verify; and a referrer earns at most  *)
(* one credit per cooldown.                                                *)
ReferralsEarnOnce ==
    /\ \A r, s \in Member : \A i \in DOMAIN earned[r], j \in DOMAIN earned[s] :
        earned[r][i].friend = earned[s][j].friend => r = s /\ i = j
    /\ \A r \in Member : \A i \in DOMAIN earned[r] :
        /\ earned[r][i].friend # r
        /\ i > 1 => earned[r][i].day >= earned[r][i - 1].day + Cooldown
=============================================================================
