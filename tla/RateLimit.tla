----------------------------- MODULE RateLimit -----------------------------
(***************************************************************************)
(* The sliding windows of lib/rateLimit.js, for one key of each kind: one  *)
(* that counts every attempt (hit: sign-ups, messages, purchases, reports) *)
(* and one that counts failed sign-ins only (exceeded, then record), whose *)
(* password is compared between the look and the count, so that several    *)
(* sign-ins may have looked before the first of them is counted.           *)
(*                                                                         *)
(* A list of times is the number of entries of each age below the window,  *)
(* as every look drops the older ones before it counts.                    *)
(***************************************************************************)
EXTENDS Integers, FiniteSetsExt

CONSTANTS
    Limit, Window,      \* { limit, windowMs } of the key that counts every attempt
    FailLimit,          \* the limit of failed sign-ins in such a window
    Comparing,          \* bound: sign-ins whose password is compared at once
    MaxHits             \* bound: attempts in a window

ASSUME RateLimitAssumption ==
    /\ Window \in Nat \ {0} /\ Limit \in Nat /\ FailLimit \in Nat \ {0} /\ Comparing \in Nat

VARIABLES
    attempts,       \* windows: the key that counts every attempt, by age
    failures,       \* windows: the failed sign-ins, by age
    comparing,      \* sign-ins past the look at the limit
    passed,         \* history: attempts that were let through, by age
    locked          \* history: a sign-in was refused since the last step

limitVars == <<attempts, failures, comparing, passed, locked>>

Age == 0 .. Window - 1
None == [g \in Age |-> 0]
Count(times) == MapThenSumSet(LAMBDA g : times[g], Age)
Aged(times) == [g \in Age |-> IF g = 0 THEN 0 ELSE times[g - 1]]
Now(times) == [times EXCEPT ![0] = @ + 1]

LimitInit == attempts = None /\ failures = None /\ comparing = 0 /\ passed = None /\ locked = FALSE

WindowSlides ==
    /\ attempts' = Aged(attempts) /\ failures' = Aged(failures) /\ passed' = Aged(passed)
    /\ locked' = FALSE /\ UNCHANGED comparing

(* hit counts the attempt first, a refused one as well.                    *)
(* Mutant: the limit is looked at before the attempt is counted. *)
LetThroughBefore(times) == Count(times) - 1 <= Limit
LetThrough(times) == Count(times) <= Limit
hit ==
    /\ Count(attempts) < MaxHits /\ attempts' = Now(attempts)
    /\ passed' = IF LetThrough(attempts') THEN Now(passed) ELSE passed
    /\ locked' = FALSE /\ UNCHANGED <<failures, comparing>>

(* exceeded only looks.                                                    *)
Exceeded == Count(failures) >= FailLimit
LookAtLimit ==
    /\ comparing < Comparing
    /\ comparing' = IF Exceeded THEN comparing ELSE comparing + 1
    /\ locked' = Exceeded /\ UNCHANGED <<attempts, failures, passed>>

(* The password was wrong, or there is no such account; or all is well.    *)
record ==
    /\ comparing > 0 /\ comparing' = comparing - 1 /\ failures' = Now(failures)
    /\ locked' = FALSE /\ UNCHANGED <<attempts, passed>>
SignInPasses ==
    /\ comparing > 0 /\ comparing' = comparing - 1
    /\ locked' = FALSE /\ UNCHANGED <<attempts, failures, passed>>

(* The windows live in the memory of the process.                          *)
RestartServer ==
    /\ attempts' = None /\ failures' = None /\ passed' = None /\ comparing' = 0 /\ locked' = FALSE

LimitNext == WindowSlides \/ hit \/ LookAtLimit \/ record \/ SignInPasses \/ RestartServer
LimitSpec == LimitInit /\ [][LimitNext]_limitVars

LimitTypeOK ==
    /\ attempts \in [Age -> 0 .. MaxHits] /\ passed \in [Age -> 0 .. MaxHits]
    /\ failures \in [Age -> 0 .. FailLimit + Comparing] /\ comparing \in 0 .. Comparing

(* In no window of one run of the server, wherever it begins, more         *)
(* attempts are let through than the limit, although refused ones count;   *)
(* failed sign-ins exceed their limit by no more than the sign-ins that    *)
(* are compared at once, and those under way are part of that; and nobody  *)
(* is locked out with fewer failures than the limit.                       *)
LimitsKept ==
    /\ Count(passed) <= Limit
    /\ Count(failures) + comparing <= FailLimit - 1 + Comparing
    /\ locked => Count(failures) >= FailLimit
=============================================================================
