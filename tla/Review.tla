------------------------------- MODULE Review -------------------------------
(***************************************************************************)
(* Who may be matched at all: no-shows and what they escalate to           *)
(* (backend/lib/reliability.js), safety reports and the automatic hold of  *)
(* the reported person (lib/social.js), and what staff do about both       *)
(* (routes/admin.js).  Each handler runs to its end in one go.             *)
(*                                                                         *)
(* Abstractions: what a report does to the two people's pairing is in the  *)
(* modules Lifecycle and Buddies; the 90 days of a no-show and the days of *)
(* a pause end at some step.                                               *)
(***************************************************************************)
EXTENDS Integers, Sequences, FiniteSets

CONSTANTS
    Volunteer,
    Met,                        \* <<u, v>>: u has been paired with v
    Watched,                    \* bound: people who miss shifts and whom staff look at
    MaxReports, MaxNoShows      \* bounds

PauseAt == 2                \* NO_SHOW_PAUSE_AT
ReviewAt == 3               \* NO_SHOW_REVIEW_AT
DistinctReporters == 2      \* SAFETY_PAUSE_DISTINCT_REPORTERS

ReviewReason == {"no_shows", "safety_reports", "staff"}
SafetyReport == [by : Volunteer, about : Volunteer, open : BOOLEAN]

ASSUME ReviewAssumption ==
    /\ IsFiniteSet(Volunteer) /\ Met \subseteq Volunteer \X Volunteer /\ Watched \subseteq Volunteer
    /\ MaxReports \in Nat /\ MaxNoShows \in Nat

VARIABLES
    reports,    \* safety_reports, in the order filed
    noShows,    \* no-shows of the last 90 days
    paused,     \* matching_paused_until lies ahead
    reasons,    \* review_reason
    review,     \* account_review
    waived      \* history: reasons staff cleared since they last arose

reviewVars == <<reports, noShows, paused, reasons, review, waived>>

OpenReports(rs, v) == {i \in DOMAIN rs : rs[i].about = v /\ rs[i].open}
OpenReporters(rs, v) == {rs[i].by : i \in OpenReports(rs, v)}

-----------------------------------------------------------------------------
ReviewInit ==
    /\ reports = <<>>
    /\ noShows = [u \in Volunteer |-> 0] /\ paused = [u \in Volunteer |-> FALSE]
    /\ reasons = [u \in Volunteer |-> {}] /\ review = [u \in Volunteer |-> FALSE]
    /\ waived = [u \in Volunteer |-> {}]

(* The review is on while there is a reason.                               *)
PutReasons(u, rs) ==
    /\ reasons' = [reasons EXCEPT ![u] = rs]
    /\ review' = [review EXCEPT ![u] = rs # {}]
AddReviewReason(u, r) ==
    /\ PutReasons(u, reasons[u] \cup {r})
    /\ waived' = [waived EXCEPT ![u] = @ \ {r}]

(* Mutant: clearing one reason ends the review. *)
WithoutAny(u, r) == {}
WithoutReason(u, r) == reasons[u] \ {r}

(* A no-show is recorded and escalates: a reminder, a pause, a review.     *)
RecordNoShow(u) ==
    /\ noShows[u] < MaxNoShows
    /\ noShows' = [noShows EXCEPT ![u] = @ + 1]
    /\ IF noShows[u] + 1 >= ReviewAt
       THEN AddReviewReason(u, "no_shows") /\ UNCHANGED paused
       ELSE /\ paused' = [paused EXCEPT ![u] = @ \/ noShows[u] + 1 >= PauseAt]
            /\ UNCHANGED <<reasons, review, waived>>
    /\ UNCHANGED reports

NoShowAges(u) ==
    /\ noShows[u] > 0
    /\ noShows' = [noShows EXCEPT ![u] = @ - 1]
    /\ UNCHANGED <<reports, paused, reasons, review, waived>>

PauseEnds(u) ==
    /\ paused[u]
    /\ paused' = [paused EXCEPT ![u] = FALSE]
    /\ UNCHANGED <<reports, noShows, reasons, review, waived>>

(* fileReport: open reports from several people hold the reported person;  *)
(* one who is held for that reason already is left alone.                  *)
(* Mutant: only a report of somebody not under review counts. *)
HoldDueUnlessReviewed(rs, v) == Cardinality(OpenReporters(rs, v)) >= DistinctReporters /\ ~review[v]
HoldDue(rs, v) == Cardinality(OpenReporters(rs, v)) >= DistinctReporters
FileReport(u, v) ==
    LET rs == Append(reports, [by |-> u, about |-> v, open |-> TRUE])
    IN  /\ <<u, v>> \in Met /\ Len(reports) < MaxReports
        /\ reports' = rs
        /\ IF HoldDue(rs, v) THEN AddReviewReason(v, "safety_reports")
           ELSE UNCHANGED <<reasons, review, waived>>
        /\ UNCHANGED <<noShows, paused>>

(* Staff review a report; the automatic hold ends with the last open one.  *)
ReviewReport(i) ==
    LET rs == [reports EXCEPT ![i].open = FALSE]
        v == reports[i].about
    IN  /\ reports' = rs
        /\ IF OpenReports(rs, v) = {} THEN PutReasons(v, WithoutReason(v, "safety_reports"))
           ELSE UNCHANGED <<reasons, review>>
        /\ UNCHANGED <<noShows, paused, waived>>

ClearReview(u, r) ==
    /\ PutReasons(u, WithoutReason(u, r))
    /\ paused' = IF r = "no_shows" THEN [paused EXCEPT ![u] = FALSE] ELSE paused
    /\ waived' = [waived EXCEPT ![u] = @ \cup {r}]
    /\ UNCHANGED <<reports, noShows>>

ClearAllReasons(u) ==
    /\ PutReasons(u, {})
    /\ paused' = [paused EXCEPT ![u] = FALSE]
    /\ waived' = [waived EXCEPT ![u] = ReviewReason]
    /\ UNCHANGED <<reports, noShows>>

Suspend(u) ==
    /\ AddReviewReason(u, "staff")
    /\ UNCHANGED <<reports, noShows, paused>>

MatchingBlocked(u) == review[u] \/ paused[u]

ReviewNext ==
    \/ \E i \in DOMAIN reports : ReviewReport(i)
    \/ \E u, v \in Volunteer : FileReport(u, v)
    \/ \E u \in Watched :
        \/ RecordNoShow(u) \/ NoShowAges(u) \/ PauseEnds(u)
        \/ ClearAllReasons(u) \/ Suspend(u)
        \/ \E r \in ReviewReason : ClearReview(u, r)

ReviewSpec == ReviewInit /\ [][ReviewNext]_reviewVars
-----------------------------------------------------------------------------
ReviewTypeOK ==
    /\ reports \in Seq(SafetyReport)
    /\ noShows \in [Volunteer -> 0 .. MaxNoShows] /\ paused \in [Volunteer -> BOOLEAN]
    /\ reasons \in [Volunteer -> SUBSET ReviewReason] /\ review \in [Volunteer -> BOOLEAN]
    /\ waived \in [Volunteer -> SUBSET ReviewReason]

(* Whoever gave cause is held: open reports from several people keep the   *)
(* reported person from being matched, and so does the third no-show of 90 *)
(* days, whatever else staff or time took away, until staff clear that     *)
(* very reason; and nobody is held for reports of which none is open.  A   *)
(* reason once given keeps the account under review, whatever happens to   *)
(* the others, until staff clear it or, for reports, none is open.         *)
HoldsByCause ==
    \A u \in Volunteer :
        /\ HoldDue(reports, u) /\ "safety_reports" \notin waived[u] => MatchingBlocked(u)
        /\ noShows[u] >= ReviewAt /\ "no_shows" \notin waived[u] => MatchingBlocked(u)
        /\ "safety_reports" \in reasons[u] => OpenReports(reports, u) # {}

HoldsStand ==
    /\ HoldsByCause
    /\ [][HoldsByCause' /\ \A u \in Volunteer : \A r \in reasons[u] :
            \/ r \in reasons'[u] /\ MatchingBlocked(u)'
            \/ r \in waived'[u]
            \/ r = "safety_reports" /\ OpenReports(reports', u) = {}]_reviewVars
=============================================================================
