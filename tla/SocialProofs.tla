---------------------------- MODULE SocialProofs ----------------------------
(***************************************************************************)
(* What is proved of what people do about each other: the review of        *)
(* accounts, reports and buddyships, and the chat.                         *)
(*                                                                         *)
(* Review, for every set of volunteers and every number of reports and     *)
(* no-shows: who gave cause is held, and stays held until staff clear that *)
(* cause.  HoldsByCause says only that matching is blocked; what a step    *)
(* keeps is more: that the very reason is among the reasons of the account *)
(* (CauseListed), since any other reason, or a pause, can end while the    *)
(* cause is still there.                                                   *)
(*                                                                         *)
(* Buddies, for every set of people, every number of pairings between them *)
(* and every meeting they start from.  A report is made of one pairing and *)
(* must reach every other one the two have had: a pair has no third member *)
(* (SamePair), so that whoever it blocks is the same two people again.     *)
(* Agreement needs to know that only those who were there answer, and the  *)
(* bound on buddies that the buddyships of a person are finitely many.     *)
(*                                                                         *)
(* Chat, for any number of calls in flight and any length of the thread:   *)
(* the list on the screen has no hole.  The cursor may go back when an     *)
(* older reply comes last, so no order of the replies is needed; what      *)
(* every step keeps is that a cursor, the screen's own or the one a call   *)
(* left with, never names a place the list has not caught up to, and that  *)
(* the thread only grows behind all of them.                               *)
(*                                                                         *)
(* Rosters, for every set of hours and waivers: what a tap does was in     *)
(* reach of the screen it is tapped on.  The screen may be older than the  *)
(* table, so the invariant says what a reply in flight, a form and a row   *)
(* on the screen still have in common with what is stored.                 *)
(*                                                                         *)
(* Nudges, for every finite calendar and every cadence: whoever is nudged  *)
(* is not busy, and has been quiet for a whole cadence since the latest of *)
(* what they did.  The code takes a maximum; the proof needs that there is *)
(* one, and that nothing is later (LatestExists, ActivityIsLatest).        *)
(***************************************************************************)
EXTENDS Review, Buddies, Chat, Orgs, Resurface, FiniteSetTheorems, WellFoundedInduction, TLAPS

(* The review of accounts. *)

(* A cause that staff have not cleared since is a reason of the review.    *)
ListedFor(u) ==
    /\ HoldDue(reports, u) /\ "safety_reports" \notin waived[u] => "safety_reports" \in reasons[u]
    /\ noShows[u] >= ReviewAt /\ "no_shows" \notin waived[u] => "no_shows" \in reasons[u]
    /\ "safety_reports" \in reasons[u] => OpenReports(reports, u) # {}
CauseListed == \A u \in Volunteer : ListedFor(u)
ReviewFollows == \A u \in Volunteer : review[u] = (reasons[u] # {})
ReviewInv == ReviewTypeOK /\ ReviewFollows /\ CauseListed

(* What a step may do to the reasons of an account.                        *)
StandsFor(u) ==
    \A r \in reasons[u] :
        \/ r \in reasons'[u]
        \/ r \in waived'[u]
        \/ r = "safety_reports" /\ OpenReports(reports', u) = {}
ReasonsStand == \A u \in Volunteer : StandsFor(u)

-----------------------------------------------------------------------------
(* The open reports about a person are finitely many, and so are those who *)
(* made them.                                                              *)
LEMMA ReportersFinite ==
    ASSUME NEW rs \in Seq(SafetyReport), NEW v \in Volunteer
    PROVE  /\ IsFiniteSet(OpenReporters(rs, v))
           /\ Cardinality(OpenReporters(rs, v)) \in Nat
<1>1. OpenReporters(rs, v) \subseteq Volunteer
  <2>1. \A i \in DOMAIN rs : rs[i] \in SafetyReport
    OBVIOUS
  <2>2. \A i \in OpenReports(rs, v) : rs[i].by \in Volunteer
    BY <2>1 DEF OpenReports, SafetyReport
  <2> QED BY <2>2 DEF OpenReporters
<1> QED BY <1>1, ReviewAssumption, FS_Subset, FS_CardinalityType

(* Two reporters are reporters of something open.                          *)
LEMMA DueHasOpen ==
    ASSUME NEW rs \in Seq(SafetyReport), NEW v \in Volunteer, HoldDue(rs, v)
    PROVE  OpenReports(rs, v) # {}
<1>1. OpenReporters(rs, v) # {}
  <2>1. SUFFICES ASSUME OpenReporters(rs, v) = {} PROVE FALSE
    OBVIOUS
  <2>2. Cardinality(OpenReporters(rs, v)) = 0
    BY <2>1, FS_EmptySet, Zenon
  <2> QED BY <2>2 DEF HoldDue, DistinctReporters
<1> QED BY <1>1 DEF OpenReporters

(* With fewer people who reported, a hold that is due was due before.      *)
LEMMA FewerReporters ==
    ASSUME NEW rs \in Seq(SafetyReport), NEW qs \in Seq(SafetyReport), NEW v \in Volunteer,
           OpenReporters(rs, v) \subseteq OpenReporters(qs, v), HoldDue(rs, v)
    PROVE  HoldDue(qs, v)
<1>1. Cardinality(OpenReporters(rs, v)) <= Cardinality(OpenReporters(qs, v))
  BY ReportersFinite, FS_Subset
<1> QED BY <1>1, ReportersFinite DEF HoldDue, DistinctReporters

(* A new report changes what is open about the one it is about, and about  *)
(* nobody else.                                                            *)
LEMMA AppendOpen ==
    ASSUME NEW u \in Volunteer, NEW v \in Volunteer, NEW w \in Volunteer, reports \in Seq(SafetyReport),
           NEW rs, rs = Append(reports, [by |-> u, about |-> v, open |-> TRUE])
    PROVE  /\ rs \in Seq(SafetyReport)
           /\ OpenReports(reports, w) \subseteq OpenReports(rs, w)
           /\ w # v => OpenReporters(rs, w) = OpenReporters(reports, w)
<1>1. [by |-> u, about |-> v, open |-> TRUE] \in SafetyReport
  BY DEF SafetyReport
<1>2. /\ rs \in Seq(SafetyReport)
      /\ DOMAIN rs = 1 .. Len(reports) + 1 /\ DOMAIN reports = 1 .. Len(reports)
      /\ \A i \in 1 .. Len(reports) : rs[i] = reports[i]
      /\ rs[Len(reports) + 1] = [by |-> u, about |-> v, open |-> TRUE]
  BY <1>1
<1>3. OpenReports(reports, w) \subseteq OpenReports(rs, w)
  BY <1>2 DEF OpenReports
<1>4. ASSUME w # v PROVE OpenReports(rs, w) = OpenReports(reports, w)
  BY <1>2, <1>4 DEF OpenReports
<1>5. ASSUME w # v PROVE OpenReporters(rs, w) = OpenReporters(reports, w)
  <2>1. \A i \in OpenReports(reports, w) : rs[i] = reports[i]
    BY <1>2 DEF OpenReports
  <2> QED BY <1>4, <1>5, <2>1 DEF OpenReporters
<1> QED BY <1>2, <1>3, <1>5

(* A report that staff have reviewed is no longer open; the others are as  *)
(* they were.                                                              *)
LEMMA ReviewedOpen ==
    ASSUME reports \in Seq(SafetyReport), NEW i \in DOMAIN reports, NEW w \in Volunteer,
           NEW rs, rs = [reports EXCEPT ![i].open = FALSE]
    PROVE  /\ rs \in Seq(SafetyReport)
           /\ OpenReporters(rs, w) \subseteq OpenReporters(reports, w)
           /\ w # reports[i].about => OpenReports(rs, w) = OpenReports(reports, w)
<1>1. /\ DOMAIN rs = DOMAIN reports /\ DOMAIN reports = 1 .. Len(reports) /\ Len(reports) \in Nat
      /\ \A j \in DOMAIN reports : reports[j] \in SafetyReport
      /\ \A j \in DOMAIN reports \ {i} : rs[j] = reports[j]
      /\ rs[i] = [reports[i] EXCEPT !.open = FALSE]
  OBVIOUS
<1>2. \A j \in DOMAIN rs : rs[j] \in SafetyReport
  BY <1>1 DEF SafetyReport
<1>3. rs \in Seq(SafetyReport)
  <2>1. rs \in [1 .. Len(reports) -> SafetyReport]
    BY <1>1, <1>2
  <2> QED BY <1>1, <2>1
<1>4. rs[i].open = FALSE /\ rs[i].about = reports[i].about
  BY <1>1 DEF SafetyReport
<1>5. OpenReports(rs, w) = OpenReports(reports, w) \ {i}
  BY <1>1, <1>4 DEF OpenReports
<1>6. OpenReporters(rs, w) \subseteq OpenReporters(reports, w)
  BY <1>1, <1>5 DEF OpenReporters, OpenReports
<1>7. w # reports[i].about => OpenReports(rs, w) = OpenReports(reports, w)
  BY <1>5 DEF OpenReports
<1> QED BY <1>3, <1>6, <1>7

-----------------------------------------------------------------------------
(* The review follows the reasons, and those of others stay.               *)
LEMMA PutReasonsKeeps ==
    ASSUME ReviewTypeOK, ReviewFollows, NEW u \in Volunteer, NEW rs \in SUBSET ReviewReason,
           PutReasons(u, rs)
    PROVE  /\ reasons' \in [Volunteer -> SUBSET ReviewReason]
           /\ review' \in [Volunteer -> BOOLEAN]
           /\ reasons'[u] = rs
           /\ \A w \in Volunteer \ {u} : reasons'[w] = reasons[w]
           /\ ReviewFollows'
<1>1. /\ reasons' = [reasons EXCEPT ![u] = rs] /\ review' = [review EXCEPT ![u] = (rs # {})]
      /\ reasons \in [Volunteer -> SUBSET ReviewReason] /\ review \in [Volunteer -> BOOLEAN]
  BY DEF PutReasons, ReviewTypeOK
<1>2. /\ reasons' \in [Volunteer -> SUBSET ReviewReason] /\ reasons'[u] = rs
      /\ \A w \in Volunteer \ {u} : reasons'[w] = reasons[w]
  BY <1>1
<1>3. /\ review' \in [Volunteer -> BOOLEAN] /\ review'[u] = (rs # {})
      /\ \A w \in Volunteer \ {u} : review'[w] = review[w]
  BY <1>1
<1>4. ASSUME NEW w \in Volunteer PROVE review'[w] = (reasons'[w] # {})
  <2>1. CASE w = u
    BY <1>2, <1>3, <2>1
  <2>2. CASE w # u
    BY <1>2, <1>3, <2>2 DEF ReviewFollows
  <2> QED BY <2>1, <2>2
<1> QED BY <1>2, <1>3, <1>4 DEF ReviewFollows

(* A reason that arises is listed and no longer waived.                    *)
LEMMA AddReviewReasonKeeps ==
    ASSUME ReviewTypeOK, ReviewFollows, NEW u \in Volunteer, NEW r \in ReviewReason,
           AddReviewReason(u, r)
    PROVE  /\ reasons' \in [Volunteer -> SUBSET ReviewReason]
           /\ review' \in [Volunteer -> BOOLEAN]
           /\ waived' \in [Volunteer -> SUBSET ReviewReason]
           /\ reasons'[u] = reasons[u] \cup {r} /\ waived'[u] = waived[u] \ {r}
           /\ \A w \in Volunteer \ {u} : reasons'[w] = reasons[w] /\ waived'[w] = waived[w]
           /\ ReviewFollows'
<1>1. /\ PutReasons(u, reasons[u] \cup {r}) /\ waived' = [waived EXCEPT ![u] = @ \ {r}]
      /\ waived \in [Volunteer -> SUBSET ReviewReason] /\ reasons[u] \cup {r} \in SUBSET ReviewReason
  BY DEF AddReviewReason, ReviewTypeOK
<1>2. /\ waived' \in [Volunteer -> SUBSET ReviewReason] /\ waived'[u] = waived[u] \ {r}
      /\ \A w \in Volunteer \ {u} : waived'[w] = waived[w]
  BY <1>1
<1> QED BY <1>1, <1>2, PutReasonsKeeps

(* Every step keeps the invariant, and takes no reason away but for cause. *)
LEMMA RecordNoShowKeeps ==
    ASSUME ReviewInv, NEW u \in Volunteer, RecordNoShow(u)
    PROVE  ReviewInv' /\ ReasonsStand
<1>1. /\ noShows' = [noShows EXCEPT ![u] = @ + 1] /\ reports' = reports
      /\ noShows \in [Volunteer -> 0 .. MaxNoShows] /\ noShows[u] < MaxNoShows /\ MaxNoShows \in Nat
      /\ paused \in [Volunteer -> BOOLEAN] /\ reports \in Seq(SafetyReport)
  BY ReviewAssumption DEF RecordNoShow, ReviewInv, ReviewTypeOK
<1>2. /\ noShows' \in [Volunteer -> 0 .. MaxNoShows] /\ noShows'[u] = noShows[u] + 1
      /\ \A w \in Volunteer \ {u} : noShows'[w] = noShows[w]
  BY <1>1
<1>3. CASE noShows[u] + 1 >= ReviewAt
  <2>1. AddReviewReason(u, "no_shows") /\ paused' = paused
    BY <1>3 DEF RecordNoShow
  <2>2. /\ reasons' \in [Volunteer -> SUBSET ReviewReason] /\ review' \in [Volunteer -> BOOLEAN]
        /\ waived' \in [Volunteer -> SUBSET ReviewReason] /\ ReviewFollows'
        /\ reasons'[u] = reasons[u] \cup {"no_shows"} /\ waived'[u] = waived[u] \ {"no_shows"}
        /\ \A w \in Volunteer \ {u} : reasons'[w] = reasons[w] /\ waived'[w] = waived[w]
    BY <2>1, AddReviewReasonKeeps DEF ReviewInv, ReviewReason
  <2>3. ReviewTypeOK'
    BY <1>1, <1>2, <2>1, <2>2 DEF ReviewTypeOK
  <2>4. ASSUME NEW w \in Volunteer PROVE ListedFor(w)' /\ StandsFor(w)
    <3>1. ListedFor(w)
      BY DEF ReviewInv, CauseListed
    <3>2. CASE w = u
      BY <1>1, <2>2, <3>1, <3>2 DEF ListedFor, StandsFor
    <3>3. CASE w # u
      BY <1>1, <1>2, <2>2, <3>1, <3>3 DEF ListedFor, StandsFor
    <3> QED BY <3>2, <3>3
  <2> QED BY <2>2, <2>3, <2>4 DEF ReviewInv, CauseListed, ReasonsStand
<1>4. CASE ~(noShows[u] + 1 >= ReviewAt)
  <2>1. /\ UNCHANGED <<reasons, review, waived>>
        /\ paused' = [paused EXCEPT ![u] = @ \/ noShows[u] + 1 >= PauseAt]
    BY <1>4 DEF RecordNoShow
  <2>2. paused' \in [Volunteer -> BOOLEAN]
    BY <1>1, <2>1
  <2>3. ReviewTypeOK' /\ ReviewFollows'
    BY <1>1, <1>2, <2>1, <2>2 DEF ReviewInv, ReviewTypeOK, ReviewFollows
  <2>4. ASSUME NEW w \in Volunteer PROVE ListedFor(w)' /\ StandsFor(w)
    <3>1. ListedFor(w) /\ (w = u => ~(noShows'[w] >= ReviewAt)) /\ (w # u => noShows'[w] = noShows[w])
      BY <1>2, <1>4 DEF ReviewInv, CauseListed
    <3> QED BY <1>1, <2>1, <3>1 DEF ListedFor, StandsFor
  <2> QED BY <2>3, <2>4 DEF ReviewInv, CauseListed, ReasonsStand
<1> QED BY <1>3, <1>4

(* A no-show that ages gives less cause than before.                       *)
LEMMA NoShowAgesKeeps ==
    ASSUME ReviewInv, NEW u \in Volunteer, NoShowAges(u)
    PROVE  ReviewInv' /\ ReasonsStand
<1>1. /\ noShows' = [noShows EXCEPT ![u] = @ - 1] /\ noShows[u] > 0 /\ MaxNoShows \in Nat
      /\ UNCHANGED <<reports, paused, reasons, review, waived>>
      /\ noShows \in [Volunteer -> 0 .. MaxNoShows]
  BY ReviewAssumption DEF NoShowAges, ReviewInv, ReviewTypeOK
<1>2. /\ noShows' \in [Volunteer -> 0 .. MaxNoShows]
      /\ \A w \in Volunteer : noShows'[w] <= noShows[w] /\ noShows[w] \in Nat /\ noShows'[w] \in Nat
  BY <1>1
<1>3. ReviewTypeOK' /\ ReviewFollows'
  BY <1>1, <1>2 DEF ReviewInv, ReviewTypeOK, ReviewFollows
<1>4. ASSUME NEW w \in Volunteer PROVE ListedFor(w)' /\ StandsFor(w)
  <2>1. ListedFor(w) /\ (noShows'[w] >= ReviewAt => noShows[w] >= ReviewAt)
    BY <1>2 DEF ReviewInv, CauseListed, ReviewAt
  <2> QED BY <1>1, <2>1 DEF ListedFor, StandsFor
<1> QED BY <1>3, <1>4 DEF ReviewInv, CauseListed, ReasonsStand

LEMMA PauseEndsKeeps ==
    ASSUME ReviewInv, NEW u \in Volunteer, PauseEnds(u)
    PROVE  ReviewInv' /\ ReasonsStand
<1>1. /\ paused' \in [Volunteer -> BOOLEAN] /\ UNCHANGED <<reports, noShows, reasons, review, waived>>
  BY DEF PauseEnds, ReviewInv, ReviewTypeOK
<1>2. ReviewTypeOK' /\ ReviewFollows'
  BY <1>1 DEF ReviewInv, ReviewTypeOK, ReviewFollows
<1>3. ASSUME NEW w \in Volunteer PROVE ListedFor(w)' /\ StandsFor(w)
  BY <1>1 DEF ReviewInv, CauseListed, ListedFor, StandsFor
<1> QED BY <1>2, <1>3 DEF ReviewInv, CauseListed, ReasonsStand

LEMMA FileReportKeeps ==
    ASSUME ReviewInv, NEW u \in Volunteer, NEW v \in Volunteer, FileReport(u, v)
    PROVE  ReviewInv' /\ ReasonsStand
<1> DEFINE rs == Append(reports, [by |-> u, about |-> v, open |-> TRUE])
<1>1. /\ reports' = rs /\ UNCHANGED <<noShows, paused>> /\ reports \in Seq(SafetyReport)
  BY DEF FileReport, ReviewInv, ReviewTypeOK
<1>2. /\ reports' \in Seq(SafetyReport)
      /\ \A w \in Volunteer :
            /\ OpenReports(reports, w) \subseteq OpenReports(reports', w)
            /\ w # v => OpenReporters(reports', w) = OpenReporters(reports, w)
  <2>1. /\ v \in Volunteer => rs \in Seq(SafetyReport)
        /\ \A w \in Volunteer :
            /\ OpenReports(reports, w) \subseteq OpenReports(rs, w)
            /\ w # v => OpenReporters(rs, w) = OpenReporters(reports, w)
    BY <1>1, AppendOpen, Zenon
  <2> QED BY <1>1, <2>1, Zenon
<1> HIDE DEF rs
<1>3. CASE HoldDue(rs, v)
  <2>1. AddReviewReason(v, "safety_reports")
    BY <1>3 DEF FileReport, rs
  <2>2. /\ reasons' \in [Volunteer -> SUBSET ReviewReason] /\ review' \in [Volunteer -> BOOLEAN]
        /\ waived' \in [Volunteer -> SUBSET ReviewReason] /\ ReviewFollows'
        /\ reasons'[v] = reasons[v] \cup {"safety_reports"} /\ waived'[v] = waived[v] \ {"safety_reports"}
        /\ \A w \in Volunteer \ {v} : reasons'[w] = reasons[w] /\ waived'[w] = waived[w]
    BY <2>1, AddReviewReasonKeeps DEF ReviewInv, ReviewReason
  <2>3. ReviewTypeOK'
    BY <1>1, <1>2, <2>2 DEF ReviewInv, ReviewTypeOK
  <2>4. ASSUME NEW w \in Volunteer PROVE ListedFor(w)' /\ StandsFor(w)
    <3>1. ListedFor(w)
      BY DEF ReviewInv, CauseListed
    <3>2. CASE w = v
      <4>1. OpenReports(reports', v) # {}
        BY <1>1, <1>2, <1>3, DueHasOpen
      <4> QED BY <1>1, <2>2, <3>1, <3>2, <4>1 DEF ListedFor, StandsFor
    <3>3. CASE w # v
      <4>1. HoldDue(reports', w) => HoldDue(reports, w)
        BY <1>2, <3>3 DEF HoldDue
      <4> QED BY <1>1, <1>2, <2>2, <3>1, <3>3, <4>1 DEF ListedFor, StandsFor
    <3> QED BY <3>2, <3>3
  <2> QED BY <2>2, <2>3, <2>4 DEF ReviewInv, CauseListed, ReasonsStand
<1>4. CASE ~HoldDue(rs, v)
  <2>1. UNCHANGED <<reasons, review, waived>>
    BY <1>4 DEF FileReport, rs
  <2>2. ReviewTypeOK' /\ ReviewFollows'
    BY <1>1, <1>2, <2>1 DEF ReviewInv, ReviewTypeOK, ReviewFollows
  <2>3. ASSUME NEW w \in Volunteer PROVE ListedFor(w)' /\ StandsFor(w)
    <3>1. ListedFor(w)
      BY DEF ReviewInv, CauseListed
    <3>2. HoldDue(reports', w) => HoldDue(reports, w)
      BY <1>1, <1>2, <1>4 DEF HoldDue
    <3> QED BY <1>1, <1>2, <2>1, <3>1, <3>2 DEF ListedFor, StandsFor
  <2> QED BY <2>2, <2>3 DEF ReviewInv, CauseListed, ReasonsStand
<1> QED BY <1>3, <1>4

LEMMA ReviewReportKeeps ==
    ASSUME ReviewInv, NEW i \in DOMAIN reports, ReviewReport(i)
    PROVE  ReviewInv' /\ ReasonsStand
<1> DEFINE v == reports[i].about
<1>1. /\ reports' = [reports EXCEPT ![i].open = FALSE] /\ UNCHANGED <<noShows, paused, waived>>
      /\ reports \in Seq(SafetyReport) /\ v \in Volunteer
  <2>1. reports \in Seq(SafetyReport)
    BY DEF ReviewInv, ReviewTypeOK
  <2>2. reports[i] \in SafetyReport
    BY <2>1
  <2> QED BY <2>1, <2>2 DEF ReviewReport, SafetyReport
<1>2. /\ reports' \in Seq(SafetyReport)
      /\ \A w \in Volunteer :
            /\ OpenReporters(reports', w) \subseteq OpenReporters(reports, w)
            /\ w # v => OpenReports(reports', w) = OpenReports(reports, w)
  BY <1>1, ReviewedOpen
<1>3. \A w \in Volunteer : HoldDue(reports', w) => HoldDue(reports, w) /\ OpenReports(reports', w) # {}
  BY <1>1, <1>2, FewerReporters, DueHasOpen
<1>4. CASE OpenReports(reports', v) = {}
  <2>1. PutReasons(v, reasons[v] \ {"safety_reports"})
    BY <1>1, <1>4 DEF ReviewReport, WithoutReason
  <2>2. reasons[v] \ {"safety_reports"} \in SUBSET ReviewReason
    BY <1>1 DEF ReviewInv, ReviewTypeOK
  <2>3. /\ reasons' \in [Volunteer -> SUBSET ReviewReason] /\ review' \in [Volunteer -> BOOLEAN]
        /\ ReviewFollows' /\ reasons'[v] = reasons[v] \ {"safety_reports"}
        /\ \A w \in Volunteer \ {v} : reasons'[w] = reasons[w]
    BY <1>1, <2>1, <2>2, PutReasonsKeeps DEF ReviewInv
  <2>4. ReviewTypeOK'
    BY <1>1, <1>2, <2>3 DEF ReviewInv, ReviewTypeOK
  <2>5. ASSUME NEW w \in Volunteer PROVE ListedFor(w)' /\ StandsFor(w)
    <3>1. ListedFor(w)
      BY DEF ReviewInv, CauseListed
    <3>2. CASE w = v
      BY <1>1, <1>3, <1>4, <2>3, <3>1, <3>2 DEF ListedFor, StandsFor
    <3>3. CASE w # v
      BY <1>1, <1>2, <1>3, <2>3, <3>1, <3>3 DEF ListedFor, StandsFor
    <3> QED BY <3>2, <3>3
  <2> QED BY <2>3, <2>4, <2>5 DEF ReviewInv, CauseListed, ReasonsStand
<1>5. CASE OpenReports(reports', v) # {}
  <2>1. UNCHANGED <<reasons, review>>
    BY <1>1, <1>5 DEF ReviewReport
  <2>2. ReviewTypeOK' /\ ReviewFollows'
    BY <1>1, <1>2, <2>1 DEF ReviewInv, ReviewTypeOK, ReviewFollows
  <2>3. ASSUME NEW w \in Volunteer PROVE ListedFor(w)' /\ StandsFor(w)
    <3>1. ListedFor(w) /\ (OpenReports(reports, w) # {} => OpenReports(reports', w) # {})
      BY <1>2, <1>5 DEF ReviewInv, CauseListed
    <3> QED BY <1>1, <1>3, <2>1, <3>1 DEF ListedFor, StandsFor
  <2> QED BY <2>2, <2>3 DEF ReviewInv, CauseListed, ReasonsStand
<1> QED BY <1>4, <1>5

LEMMA ClearReviewKeeps ==
    ASSUME ReviewInv, NEW u \in Volunteer, NEW r \in ReviewReason, ClearReview(u, r)
    PROVE  ReviewInv' /\ ReasonsStand
<1>1. /\ PutReasons(u, reasons[u] \ {r}) /\ UNCHANGED <<reports, noShows>>
      /\ paused' = IF r = "no_shows" THEN [paused EXCEPT ![u] = FALSE] ELSE paused
      /\ waived' = [waived EXCEPT ![u] = @ \cup {r}]
  BY DEF ClearReview, WithoutReason
<1>2. /\ paused' \in [Volunteer -> BOOLEAN] /\ waived' \in [Volunteer -> SUBSET ReviewReason]
      /\ waived'[u] = waived[u] \cup {r} /\ \A w \in Volunteer \ {u} : waived'[w] = waived[w]
      /\ reasons[u] \ {r} \in SUBSET ReviewReason
  BY <1>1 DEF ReviewInv, ReviewTypeOK
<1>3. /\ reasons' \in [Volunteer -> SUBSET ReviewReason] /\ review' \in [Volunteer -> BOOLEAN]
      /\ ReviewFollows' /\ reasons'[u] = reasons[u] \ {r}
      /\ \A w \in Volunteer \ {u} : reasons'[w] = reasons[w]
  BY <1>1, <1>2, PutReasonsKeeps DEF ReviewInv
<1>4. ReviewTypeOK'
  BY <1>1, <1>2, <1>3 DEF ReviewInv, ReviewTypeOK
<1>5. ASSUME NEW w \in Volunteer PROVE ListedFor(w)' /\ StandsFor(w)
  <2>1. ListedFor(w)
    BY DEF ReviewInv, CauseListed
  <2>2. CASE w = u
    BY <1>1, <1>2, <1>3, <2>1, <2>2 DEF ListedFor, StandsFor
  <2>3. CASE w # u
    BY <1>1, <1>2, <1>3, <2>1, <2>3 DEF ListedFor, StandsFor
  <2> QED BY <2>2, <2>3
<1> QED BY <1>3, <1>4, <1>5 DEF ReviewInv, CauseListed, ReasonsStand

LEMMA ClearAllReasonsKeeps ==
    ASSUME ReviewInv, NEW u \in Volunteer, ClearAllReasons(u)
    PROVE  ReviewInv' /\ ReasonsStand
<1>1. /\ PutReasons(u, {}) /\ UNCHANGED <<reports, noShows>>
      /\ paused' = [paused EXCEPT ![u] = FALSE] /\ waived' = [waived EXCEPT ![u] = ReviewReason]
      /\ {} \in SUBSET ReviewReason
  BY DEF ClearAllReasons
<1>2. /\ paused' \in [Volunteer -> BOOLEAN] /\ waived' \in [Volunteer -> SUBSET ReviewReason]
      /\ waived'[u] = ReviewReason /\ \A w \in Volunteer \ {u} : waived'[w] = waived[w]
      /\ reasons[u] \subseteq ReviewReason
  BY <1>1 DEF ReviewInv, ReviewTypeOK
<1>3. /\ reasons' \in [Volunteer -> SUBSET ReviewReason] /\ review' \in [Volunteer -> BOOLEAN]
      /\ ReviewFollows' /\ reasons'[u] = {} /\ \A w \in Volunteer \ {u} : reasons'[w] = reasons[w]
  BY <1>1, PutReasonsKeeps DEF ReviewInv
<1>4. ReviewTypeOK'
  BY <1>1, <1>2, <1>3 DEF ReviewInv, ReviewTypeOK
<1>5. ASSUME NEW w \in Volunteer PROVE ListedFor(w)' /\ StandsFor(w)
  <2>1. ListedFor(w)
    BY DEF ReviewInv, CauseListed
  <2>2. CASE w = u
    BY <1>1, <1>2, <1>3, <2>1, <2>2 DEF ListedFor, StandsFor, ReviewReason
  <2>3. CASE w # u
    BY <1>1, <1>2, <1>3, <2>1, <2>3 DEF ListedFor, StandsFor
  <2> QED BY <2>2, <2>3
<1> QED BY <1>3, <1>4, <1>5 DEF ReviewInv, CauseListed, ReasonsStand

LEMMA SuspendKeeps ==
    ASSUME ReviewInv, NEW u \in Volunteer, Suspend(u)
    PROVE  ReviewInv' /\ ReasonsStand
<1>1. AddReviewReason(u, "staff") /\ UNCHANGED <<reports, noShows, paused>> /\ "staff" \in ReviewReason
  BY DEF Suspend, ReviewReason
<1>2. /\ reasons' \in [Volunteer -> SUBSET ReviewReason] /\ review' \in [Volunteer -> BOOLEAN]
      /\ waived' \in [Volunteer -> SUBSET ReviewReason] /\ ReviewFollows'
      /\ reasons'[u] = reasons[u] \cup {"staff"} /\ waived'[u] = waived[u] \ {"staff"}
      /\ \A w \in Volunteer \ {u} : reasons'[w] = reasons[w] /\ waived'[w] = waived[w]
  BY <1>1, AddReviewReasonKeeps DEF ReviewInv
<1>3. ReviewTypeOK'
  BY <1>1, <1>2 DEF ReviewInv, ReviewTypeOK
<1>4. ASSUME NEW w \in Volunteer PROVE ListedFor(w)' /\ StandsFor(w)
  <2>1. ListedFor(w)
    BY DEF ReviewInv, CauseListed
  <2>2. CASE w = u
    BY <1>1, <1>2, <2>1, <2>2 DEF ListedFor, StandsFor
  <2>3. CASE w # u
    BY <1>1, <1>2, <2>1, <2>3 DEF ListedFor, StandsFor
  <2> QED BY <2>2, <2>3
<1> QED BY <1>2, <1>3, <1>4 DEF ReviewInv, CauseListed, ReasonsStand

LEMMA ReviewNextKeeps ==
    ASSUME ReviewInv, ReviewNext
    PROVE  ReviewInv' /\ ReasonsStand
<1>1. Watched \subseteq Volunteer
  BY ReviewAssumption
<1>2. CASE \E i \in DOMAIN reports : ReviewReport(i)
  BY <1>2, ReviewReportKeeps
<1>3. CASE \E u, v \in Volunteer : FileReport(u, v)
  BY <1>3, FileReportKeeps
<1>4. ASSUME NEW u \in Watched,
             \/ RecordNoShow(u) \/ NoShowAges(u) \/ PauseEnds(u)
             \/ ClearAllReasons(u) \/ Suspend(u)
             \/ \E r \in ReviewReason : ClearReview(u, r)
      PROVE  ReviewInv' /\ ReasonsStand
  <2>1. u \in Volunteer
    BY <1>1
  <2> QED BY <1>4, <2>1, RecordNoShowKeeps, NoShowAgesKeeps, PauseEndsKeeps, ClearAllReasonsKeeps,
             SuspendKeeps, ClearReviewKeeps
<1> QED BY <1>2, <1>3, <1>4 DEF ReviewNext

-----------------------------------------------------------------------------
(* The listed causes block matching, and a reason that stands does.        *)
LEMMA ListedIsHeld ==
    ASSUME ReviewInv
    PROVE  HoldsByCause
<1> SUFFICES ASSUME NEW u \in Volunteer
             PROVE  /\ HoldDue(reports, u) /\ "safety_reports" \notin waived[u] => MatchingBlocked(u)
                    /\ noShows[u] >= ReviewAt /\ "no_shows" \notin waived[u] => MatchingBlocked(u)
                    /\ "safety_reports" \in reasons[u] => OpenReports(reports, u) # {}
  BY DEF HoldsByCause
<1>1. ListedFor(u) /\ review[u] = (reasons[u] # {})
  BY DEF ReviewInv, CauseListed, ReviewFollows
<1> QED BY <1>1 DEF ListedFor, MatchingBlocked

HoldsStep ==
    HoldsByCause' /\ \A u \in Volunteer : \A r \in reasons[u] :
        \/ r \in reasons'[u] /\ MatchingBlocked(u)'
        \/ r \in waived'[u]
        \/ r = "safety_reports" /\ OpenReports(reports', u) = {}

(* Whoever gave cause by reports or no-shows is held, and no step ends a   *)
(* reason but staff clearing it or the last open report being reviewed     *)
(* (lib/reliability.js, lib/social.js, routes/admin.js).                   *)
THEOREM HoldsStandForCause == ReviewSpec => HoldsStand
<1>1. ReviewInit => ReviewInv
  <2> SUFFICES ASSUME ReviewInit PROVE ReviewInv
    OBVIOUS
  <2>1. /\ reports = <<>> /\ noShows = [u \in Volunteer |-> 0] /\ paused = [u \in Volunteer |-> FALSE]
        /\ reasons = [u \in Volunteer |-> {}] /\ review = [u \in Volunteer |-> FALSE]
        /\ waived = [u \in Volunteer |-> {}] /\ MaxNoShows \in Nat
    BY ReviewAssumption DEF ReviewInit
  <2>2. ReviewTypeOK /\ ReviewFollows
    <3>1. reports \in Seq(SafetyReport) /\ noShows \in [Volunteer -> 0 .. MaxNoShows]
      BY <2>1
    <3>2. paused \in [Volunteer -> BOOLEAN] /\ review \in [Volunteer -> BOOLEAN]
      BY <2>1
    <3>3. reasons \in [Volunteer -> SUBSET ReviewReason] /\ waived \in [Volunteer -> SUBSET ReviewReason]
      BY <2>1
    <3>4. \A u \in Volunteer : review[u] = (reasons[u] # {})
      BY <2>1
    <3> QED BY <3>1, <3>2, <3>3, <3>4 DEF ReviewTypeOK, ReviewFollows
  <2>3. ASSUME NEW u \in Volunteer PROVE ListedFor(u)
    <3>1. OpenReports(reports, u) = {}
      BY <2>1 DEF OpenReports
    <3>2. ~HoldDue(reports, u)
      BY <2>2, <3>1, DueHasOpen DEF ReviewTypeOK
    <3> QED BY <2>1, <3>1, <3>2 DEF ListedFor, ReviewAt
  <2> QED BY <2>2, <2>3 DEF ReviewInv, CauseListed
<1>2. ReviewInv /\ [ReviewNext]_reviewVars => ReviewInv'
  <2> SUFFICES ASSUME ReviewInv, [ReviewNext]_reviewVars PROVE ReviewInv'
    OBVIOUS
  <2>1. CASE ReviewNext
    BY <2>1, ReviewNextKeeps
  <2>2. CASE UNCHANGED reviewVars
    BY <2>2 DEF reviewVars, ReviewInv, ReviewTypeOK, ReviewFollows, CauseListed, ListedFor
  <2> QED BY <2>1, <2>2
<1>3. ReviewInv => HoldsByCause
  BY ListedIsHeld
<1>4. ReviewInv /\ ReviewInv' /\ [ReviewNext]_reviewVars => [HoldsStep]_reviewVars
  <2> SUFFICES ASSUME ReviewInv, ReviewInv', ReviewNext PROVE HoldsStep
    OBVIOUS
  <2>1. HoldsByCause'
    <3>1. ReviewInv' => HoldsByCause'
      BY ListedIsHeld, PTL
    <3> QED BY <3>1
  <2>2. ASSUME NEW u \in Volunteer, NEW r \in reasons[u]
        PROVE  \/ r \in reasons'[u] /\ MatchingBlocked(u)'
               \/ r \in waived'[u]
               \/ r = "safety_reports" /\ OpenReports(reports', u) = {}
    <3>1. r \in reasons'[u] \/ r \in waived'[u] \/ (r = "safety_reports" /\ OpenReports(reports', u) = {})
      BY ReviewNextKeeps DEF ReasonsStand, StandsFor
    <3>2. r \in reasons'[u] => MatchingBlocked(u)'
      BY DEF ReviewInv, ReviewFollows, MatchingBlocked
    <3> QED BY <3>1, <3>2
  <2> QED BY <2>1, <2>2 DEF HoldsStep
<1>5. HoldsStand <=> HoldsByCause /\ [][HoldsStep]_reviewVars
  BY DEF HoldsStand, HoldsStep
<1> QED BY <1>1, <1>2, <1>3, <1>4, <1>5, PTL DEF ReviewSpec

-----------------------------------------------------------------------------
(* Reports and buddyships. *)

(* The tables are functions on the pairings.                               *)
Tabled ==
    /\ BuddiesTypeOK
    /\ booking = [p \in Pairing |-> booking[p]]
    /\ answer = [p \in Pairing |-> answer[p]]
    /\ share \in [Pairing -> SUBSET Person]

(* Only who was there has answered, and stays to have been there.          *)
AnswersEarned ==
    \A p \in Pairing : \A u \in members[p] :
        answer[p][u] # "none" => booking[p][u] \in {"attended", "unverified"}

BuddiesInv == Tabled /\ ReportedApart /\ AnswersEarned /\ BuddiesAgreed

-----------------------------------------------------------------------------
(* Two different people of a pair are all of it.                           *)
LEMMA SamePair ==
    ASSUME NEW c \in Two, NEW u \in c, NEW v \in c, u # v
    PROVE  c = {u, v}
<1>1. IsFiniteSet(c) /\ Cardinality(c) = 2
  BY FS_Subset, BuddiesAssumption DEF Two
<1>2. IsFiniteSet(c \ {u}) /\ Cardinality(c \ {u}) = 1
  BY <1>1, FS_RemoveElement
<1>3. IsFiniteSet((c \ {u}) \ {v}) /\ Cardinality((c \ {u}) \ {v}) = 0
  <2>1. v \in c \ {u} /\ 1 - 1 = 0
    OBVIOUS
  <2> QED BY <1>2, <2>1, FS_RemoveElement
<1>4. (c \ {u}) \ {v} = {}
  BY <1>3, FS_EmptySet
<1> QED BY <1>4

(* The partner is the other one of the pair.                               *)
LEMMA PartnerIsOther ==
    ASSUME members \in [Pairing -> Two], NEW p \in Pairing, NEW u \in members[p]
    PROVE  /\ Partner(p, u) \in members[p] /\ Partner(p, u) # u
           /\ members[p] = {u, Partner(p, u)}
<1>1. \E v \in members[p] : v # u
  <2>1. IsFiniteSet(members[p]) /\ Cardinality(members[p]) = 2
    BY FS_Subset, BuddiesAssumption DEF Two
  <2>2. IsFiniteSet(members[p] \ {u}) /\ Cardinality(members[p] \ {u}) = 1
    BY <2>1, FS_RemoveElement
  <2>3. members[p] \ {u} # {}
    BY <2>2, FS_EmptySet
  <2> QED BY <2>3
<1>2. Partner(p, u) \in members[p] /\ Partner(p, u) # u
  BY <1>1 DEF Partner
<1> QED BY <1>2, SamePair

(* A person's buddyships are finitely many.                                *)
LEMMA FewBuddies ==
    ASSUME buddies \subseteq Two, NEW u \in Person
    PROVE  IsFiniteSet(buddies) /\ IsFiniteSet(BuddiesOf(u))
<1>1. IsFiniteSet(SUBSET Person)
  BY BuddiesAssumption, FS_SUBSET
<1>2. IsFiniteSet(buddies)
  BY <1>1, FS_Subset DEF Two
<1> QED BY <1>2, FS_Subset DEF BuddiesOf

-----------------------------------------------------------------------------
LEMMA InitHolds == BuddiesInit => BuddiesInv
<1> SUFFICES ASSUME BuddiesInit PROVE BuddiesInv
  OBVIOUS
<1>1. PICK m \in Meetings :
        /\ members = m.members
        /\ pairing = [p \in Pairing |-> IF p \in m.completed THEN "completed" ELSE "proposed"]
        /\ over = [p \in Pairing |-> p \in m.completed]
        /\ booking = [p \in Pairing |-> [u \in m.members[p] |->
                            IF p \in m.completed THEN "attended" ELSE "booked"]]
        /\ answer = [p \in Pairing |-> [u \in m.members[p] |-> "none"]]
  BY DEF BuddiesInit
<1>2. m \in [members : [Pairing -> Two], completed : SUBSET Pairing]
  BY BuddiesAssumption
<1>3. /\ share = [p \in Pairing |-> {}]
      /\ buddies = {} /\ cap = [u \in Person |-> FreeBuddyCap]
      /\ flagged = [u \in Person |-> {}]
  BY DEF BuddiesInit
<1>4. Tabled
  BY <1>1, <1>2, <1>3 DEF Tabled, BuddiesTypeOK, PairingStatus, Attendance, Answer
<1>5. ReportedApart
  BY <1>1, <1>2, <1>3 DEF ReportedApart, Two
<1>6. BuddiesAgreed
  <2>1. \A u \in Person : BuddiesOf(u) = {}
    BY <1>3 DEF BuddiesOf
  <2>2. Cardinality({}) = 0
    BY FS_EmptySet
  <2> QED BY <1>3, <2>1, <2>2 DEF BuddiesAgreed, PremiumBuddyCap
<1>7. AnswersEarned
  BY <1>1, <1>2 DEF AnswersEarned
<1> QED BY <1>4, <1>5, <1>6, <1>7 DEF BuddiesInv

(* Nothing but the course of the pairings moves: the bookings that are     *)
(* resolved stay so.                                                       *)
LEMMA CourseKeeps ==
    ASSUME BuddiesInv, Tabled',
           UNCHANGED <<members, share, answer, buddies, flagged>>,
           \A q \in Pairing : \A u \in members[q] :
                booking[q][u] # "booked" => booking'[q][u] = booking[q][u]
    PROVE  BuddiesInv'
<1>1. ReportedApart'
  BY DEF BuddiesInv, ReportedApart, Blocked, BlockedPair
<1>2. BuddiesAgreed'
  <2>1. \A b \in buddies : \E q \in Pairing :
            /\ members[q] = b
            /\ \A x \in b : answer[q][x] = "yes" /\ booking'[q][x] \in {"attended", "unverified"}
    <3> SUFFICES ASSUME NEW b \in buddies
                 PROVE  \E q \in Pairing :
                            /\ members[q] = b
                            /\ \A x \in b : /\ answer[q][x] = "yes"
                                           /\ booking'[q][x] \in {"attended", "unverified"}
      OBVIOUS
    <3>1. PICK q \in Pairing :
            /\ members[q] = b
            /\ \A x \in b : answer[q][x] = "yes" /\ booking[q][x] \in {"attended", "unverified"}
      BY DEF BuddiesInv, BuddiesAgreed
    <3>2. \A x \in b : booking'[q][x] = booking[q][x]
      BY <3>1
    <3> QED BY <3>1, <3>2
  <2>2. \A u \in Person : BuddiesOf(u)' = BuddiesOf(u)
    BY DEF BuddiesOf
  <2>3. \A u \in Person : Cardinality(BuddiesOf(u)) <= PremiumBuddyCap
    BY DEF BuddiesInv, BuddiesAgreed
  <2>4. \A u \in Person : Cardinality(BuddiesOf(u)') <= PremiumBuddyCap
    BY <2>2, <2>3
  <2> QED BY <2>1, <2>4 DEF BuddiesAgreed
<1>3. AnswersEarned'
  BY DEF BuddiesInv, AnswersEarned
<1> QED BY <1>1, <1>2, <1>3 DEF BuddiesInv

(* Fewer buddyships are still agreed and few.                              *)
LEMMA FewerBuddies ==
    ASSUME BuddiesInv, NEW S, buddies' = buddies \ S,
           UNCHANGED <<members, answer, booking>>
    PROVE  BuddiesAgreed'
<1>1. \A u \in Person : Cardinality(BuddiesOf(u)') <= PremiumBuddyCap
  <2> SUFFICES ASSUME NEW u \in Person
               PROVE  Cardinality(BuddiesOf(u)') <= PremiumBuddyCap
    OBVIOUS
  <2>1. IsFiniteSet(BuddiesOf(u)) /\ Cardinality(BuddiesOf(u)) <= PremiumBuddyCap
    BY FewBuddies DEF BuddiesInv, Tabled, BuddiesTypeOK, BuddiesAgreed
  <2>2. BuddiesOf(u)' \subseteq BuddiesOf(u)
    BY DEF BuddiesOf
  <2>3. /\ Cardinality(BuddiesOf(u)') <= Cardinality(BuddiesOf(u))
        /\ IsFiniteSet(BuddiesOf(u)')
    BY <2>1, <2>2, FS_Subset
  <2>4. Cardinality(BuddiesOf(u)') \in Nat /\ Cardinality(BuddiesOf(u)) \in Nat
    BY <2>1, <2>3, FS_CardinalityType
  <2> QED BY <2>1, <2>3, <2>4 DEF PremiumBuddyCap
<1> QED BY <1>1 DEF BuddiesInv, BuddiesAgreed

-----------------------------------------------------------------------------
LEMMA AttendStep ==
    ASSUME BuddiesInv, NEW p \in Pairing, NEW u \in members[p],
           NEW how \in Attendance \ {"booked"}, Attend(p, u, how)
    PROVE  BuddiesInv'
<1> DEFINE b == [booking[p] EXCEPT ![u] = how]
<1>1. b \in [members[p] -> Attendance] /\ booking' = [booking EXCEPT ![p] = b]
  BY DEF Attend, BuddiesInv, Tabled, BuddiesTypeOK
<1>2. pairing' \in [Pairing -> PairingStatus]
  BY DEF Attend, CompleteIfResolved, BuddiesInv, Tabled, BuddiesTypeOK, PairingStatus
<1>3. Tabled'
  BY <1>1, <1>2 DEF Attend, BuddiesInv, Tabled, BuddiesTypeOK
<1>4. \A q \in Pairing : \A x \in members[q] :
        booking[q][x] # "booked" => booking'[q][x] = booking[q][x]
  BY DEF Attend, BuddiesInv, Tabled, BuddiesTypeOK
<1> QED BY <1>3, <1>4, CourseKeeps DEF Attend

(* The steps of a pairing that touch neither answers nor bookings.         *)
LEMMA CourseStep ==
    ASSUME BuddiesInv, NEW p \in Pairing,
           ConfirmPairing(p) \/ ShiftEnds(p) \/ Complete(p)
    PROVE  BuddiesInv'
<1>1. pairing' \in [Pairing -> PairingStatus] /\ over' \in [Pairing -> BOOLEAN]
  BY DEF ConfirmPairing, ShiftEnds, Complete, CompleteIfResolved, BuddiesInv, Tabled,
         BuddiesTypeOK, PairingStatus
<1>2. UNCHANGED <<members, booking, share, answer, buddies, cap, flagged>>
  BY DEF ConfirmPairing, ShiftEnds, Complete
<1>3. Tabled'
  BY <1>1, <1>2 DEF BuddiesInv, Tabled, BuddiesTypeOK
<1> QED BY <1>2, <1>3, CourseKeeps

LEMMA ShareStep ==
    ASSUME BuddiesInv, NEW p \in Pairing, NEW u \in members[p], NEW optIn \in BOOLEAN,
           ShareContact(p, u, optIn)
    PROVE  BuddiesInv'
<1>1. UNCHANGED <<members, pairing, over, booking, answer, buddies, cap, flagged>>
  BY DEF ShareContact, courseVars
<1>2. /\ optIn => ~Blocked(p)
      /\ share' = [share EXCEPT ![p] = IF optIn THEN @ \cup {u} ELSE @ \ {u}]
  BY DEF ShareContact
<1>3. Tabled'
  BY <1>1, <1>2 DEF BuddiesInv, Tabled, BuddiesTypeOK, Two
<1>4. ReportedApart'
  <2> SUFFICES ASSUME NEW q \in Pairing, Blocked(q)
               PROVE  share'[q] = {} /\ members[q] \notin buddies
    BY <1>1 DEF ReportedApart, Blocked, BlockedPair
  <2>1. share[q] = {} /\ members[q] \notin buddies
    BY DEF BuddiesInv, ReportedApart
  <2>2. q = p => ~optIn
    BY <1>2
  <2> QED BY <1>2, <2>1, <2>2 DEF BuddiesInv, Tabled
<1>5. BuddiesAgreed'
  BY <1>1 DEF BuddiesInv, BuddiesAgreed, BuddiesOf
<1>6. AnswersEarned'
  BY <1>1 DEF BuddiesInv, AnswersEarned
<1> QED BY <1>3, <1>4, <1>5, <1>6 DEF BuddiesInv

(* The second yes makes the two buddies while neither has a full plan.     *)
LEMMA RateStep ==
    ASSUME BuddiesInv, NEW p \in Pairing, NEW u \in members[p], NEW yes \in BOOLEAN,
           Rate(p, u, yes)
    PROVE  BuddiesInv'
<1> DEFINE a == [answer[p] EXCEPT ![u] = IF yes THEN "yes" ELSE "no"]
<1>1. UNCHANGED <<members, pairing, over, booking, share, cap, flagged>>
  BY DEF Rate, courseVars
<1>2. /\ booking[p][u] \in {"attended", "unverified"} /\ answer[p][u] = "none"
      /\ answer' = [answer EXCEPT ![p] = a]
      /\ buddies' = IF BuddyForms(p, u, a) THEN buddies \cup {members[p]} ELSE buddies
  BY DEF Rate
<1>3. a \in [members[p] -> Answer]
  BY DEF BuddiesInv, Tabled, BuddiesTypeOK, Answer
<1>4. Tabled'
  <2>1. members[p] \in Two
    BY DEF BuddiesInv, Tabled, BuddiesTypeOK
  <2> QED BY <1>1, <1>2, <1>3, <2>1 DEF BuddiesInv, Tabled, BuddiesTypeOK
<1>5. ReportedApart'
  <2> SUFFICES ASSUME NEW q \in Pairing, Blocked(q)
               PROVE  share[q] = {} /\ members[q] \notin buddies'
    BY <1>1 DEF ReportedApart, Blocked, BlockedPair
  <2>1. share[q] = {} /\ members[q] \notin buddies
    BY DEF BuddiesInv, ReportedApart
  <2>2. BuddyForms(p, u, a) => members[q] # members[p]
    BY DEF BuddyForms, Blocked
  <2> QED BY <1>2, <2>1, <2>2
<1>6. \A q \in Pairing : \A x \in members[q] :
        answer[q][x] = "yes" => answer'[q][x] = "yes"
  BY <1>2 DEF BuddiesInv, Tabled, BuddiesTypeOK
<1>7. AnswersEarned'
  BY <1>1, <1>2 DEF BuddiesInv, AnswersEarned, Tabled, BuddiesTypeOK
<1>8. BuddiesAgreed'
  <2>1. CASE ~BuddyForms(p, u, a)
    <3>1. buddies' = buddies
      BY <1>2, <2>1
    <3>2. \A b \in buddies : \E q \in Pairing :
            /\ members[q] = b
            /\ \A x \in b : answer'[q][x] = "yes" /\ booking[q][x] \in {"attended", "unverified"}
      BY <1>6 DEF BuddiesInv, BuddiesAgreed
    <3> QED BY <1>1, <3>1, <3>2 DEF BuddiesInv, BuddiesAgreed, BuddiesOf
  <2>2. CASE BuddyForms(p, u, a)
    <3>1. buddies' = buddies \cup {members[p]}
      BY <1>2, <2>2
    <3>2. \A x \in members[p] : answer'[p][x] = "yes"
      BY <1>2, <2>2 DEF BuddyForms, BuddiesInv, Tabled
    <3>3. \A b \in buddies' : \E q \in Pairing :
            /\ members[q] = b
            /\ \A x \in b : answer'[q][x] = "yes" /\ booking[q][x] \in {"attended", "unverified"}
      <4>1. \A x \in members[p] : booking[p][x] \in {"attended", "unverified"}
        BY <1>1, <1>7, <3>2 DEF AnswersEarned
      <4>2. \A b \in buddies : \E q \in Pairing :
            /\ members[q] = b
            /\ \A x \in b : answer'[q][x] = "yes" /\ booking[q][x] \in {"attended", "unverified"}
        BY <1>6 DEF BuddiesInv, BuddiesAgreed
      <4> QED BY <3>1, <3>2, <4>1, <4>2
    <3>4. ASSUME NEW v \in Person
          PROVE  Cardinality(BuddiesOf(v)') <= PremiumBuddyCap
      <4>1. IsFiniteSet(BuddiesOf(v)) /\ Cardinality(BuddiesOf(v)) <= PremiumBuddyCap
        BY FewBuddies DEF BuddiesInv, Tabled, BuddiesTypeOK, BuddiesAgreed
      <4>2. CASE v \notin members[p]
        BY <3>1, <4>1, <4>2 DEF BuddiesOf
      <4>3. CASE v \in members[p]
        <5>1. ~(Cardinality(BuddiesOf(v)) >= cap[v])
          BY <2>2, <4>3 DEF BuddyForms, SlotsFull
        <5>2. cap[v] <= PremiumBuddyCap /\ cap[v] \in Nat
          BY DEF BuddiesInv, Tabled, BuddiesTypeOK, FreeBuddyCap, PremiumBuddyCap
        <5>3. Cardinality(BuddiesOf(v)) \in Nat
          BY <4>1, FS_CardinalityType
        <5>4. BuddiesOf(v)' = BuddiesOf(v) \cup {members[p]}
          BY <3>1, <4>3 DEF BuddiesOf
        <5>5. Cardinality(BuddiesOf(v)') <= Cardinality(BuddiesOf(v)) + 1
          BY <4>1, <5>3, <5>4, FS_AddElement
        <5>6. Cardinality(BuddiesOf(v)') \in Nat
          BY <4>1, <5>4, FS_AddElement, FS_CardinalityType
        <5> QED BY <5>1, <5>2, <5>3, <5>5, <5>6 DEF PremiumBuddyCap
      <4> QED BY <4>2, <4>3
    <3> QED BY <1>1, <3>3, <3>4 DEF BuddiesAgreed
  <2> QED BY <2>1, <2>2
<1> QED BY <1>4, <1>5, <1>7, <1>8 DEF BuddiesInv

LEMMA EndBuddyStep ==
    ASSUME BuddiesInv, NEW b \in buddies, EndBuddy(b)
    PROVE  BuddiesInv'
<1>1. UNCHANGED <<members, pairing, over, booking, share, answer, cap, flagged>>
  BY DEF EndBuddy, courseVars
<1>2. buddies' = buddies \ {b}
  BY DEF EndBuddy
<1>3. Tabled' /\ AnswersEarned'
  BY <1>1, <1>2 DEF BuddiesInv, Tabled, BuddiesTypeOK, AnswersEarned
<1>4. ReportedApart'
  BY <1>1, <1>2 DEF BuddiesInv, ReportedApart, Blocked, BlockedPair
<1>5. BuddiesAgreed'
  BY <1>1, <1>2, FewerBuddies
<1> QED BY <1>3, <1>4, <1>5 DEF BuddiesInv

(* A smaller plan ends no buddyship: the bound is that of the larger one.  *)
LEMMA TierStep ==
    ASSUME BuddiesInv, NEW u \in Changing, TierChanges(u)
    PROVE  BuddiesInv'
<1>1. UNCHANGED <<members, pairing, over, booking, share, answer, buddies, flagged>>
  BY DEF TierChanges, courseVars
<1>2. cap' \in [Person -> {FreeBuddyCap, PremiumBuddyCap}]
  BY BuddiesAssumption DEF TierChanges, BuddiesInv, Tabled, BuddiesTypeOK
<1>3. Tabled' /\ AnswersEarned'
  BY <1>1, <1>2 DEF BuddiesInv, Tabled, BuddiesTypeOK, AnswersEarned
<1> QED BY <1>1, <1>3, CourseKeeps

(* A report blocks the two people of the pairing and nobody else, and      *)
(* clears what both have in any pairing of theirs.                         *)
LEMMA ReportStep ==
    ASSUME BuddiesInv, NEW p \in Pairing, NEW u \in members[p], NEW leave \in BOOLEAN,
           Report(p, u, leave)
    PROVE  BuddiesInv'
<1> DEFINE v == Partner(p, u)
<1>1. UNCHANGED <<members, over, booking, answer, cap>>
  BY DEF Report
<1>2. /\ flagged' = [flagged EXCEPT ![u] = @ \cup {v}]
      /\ buddies' = buddies \ {members[p]}
      /\ share' = [q \in Pairing |-> IF members[q] = members[p] THEN {} ELSE share[q]]
  BY DEF Report, Withdrawn
<1>3. v \in members[p] /\ v # u /\ members[p] = {u, v}
  BY PartnerIsOther DEF BuddiesInv, Tabled, BuddiesTypeOK
<1>4. u \in Person /\ v \in Person
  BY <1>3 DEF BuddiesInv, Tabled, BuddiesTypeOK, Two
<1>5. Tabled'
  <2>1. pairing' \in [Pairing -> PairingStatus]
    BY DEF Report, BuddiesInv, Tabled, BuddiesTypeOK, PairingStatus
  <2>2. flagged' \in [Person -> SUBSET Person]
    BY <1>2, <1>4 DEF BuddiesInv, Tabled, BuddiesTypeOK
  <2> QED BY <1>1, <1>2, <2>1, <2>2 DEF BuddiesInv, Tabled, BuddiesTypeOK
<1>6. ReportedApart'
  <2> SUFFICES ASSUME NEW q \in Pairing, Blocked(q)'
               PROVE  share'[q] = {} /\ members[q] \notin buddies'
    BY <1>1 DEF ReportedApart
  <2>1. CASE members[q] = members[p]
    BY <1>2, <2>1
  <2>2. CASE members[q] # members[p]
    <3>1. PICK x \in members[q], y \in members[q] : x # y /\ y \in flagged'[x]
      BY <1>1 DEF Blocked, BlockedPair
    <3>2. members[q] = {x, y} /\ x \in Person
      BY <3>1, SamePair DEF BuddiesInv, Tabled, BuddiesTypeOK, Two
    <3>3. y \in flagged[x]
      BY <1>2, <1>3, <2>2, <3>1, <3>2 DEF BuddiesInv, Tabled, BuddiesTypeOK
    <3>4. Blocked(q)
      BY <3>1, <3>3 DEF Blocked, BlockedPair
    <3> QED BY <1>2, <2>2, <3>4 DEF BuddiesInv, ReportedApart
  <2> QED BY <2>1, <2>2
<1>7. BuddiesAgreed' /\ AnswersEarned'
  BY <1>1, <1>2, FewerBuddies DEF BuddiesInv, AnswersEarned
<1> QED BY <1>5, <1>6, <1>7 DEF BuddiesInv

-----------------------------------------------------------------------------
LEMMA StepHolds == BuddiesInv /\ [BuddiesNext]_buddyVars => BuddiesInv'
<1> SUFFICES ASSUME BuddiesInv, [BuddiesNext]_buddyVars PROVE BuddiesInv'
  OBVIOUS
<1>1. ASSUME NEW p \in Pairing, OfPairing(p) PROVE BuddiesInv'
  <2>1. CASE ConfirmPairing(p) \/ ShiftEnds(p) \/ Complete(p)
    BY <2>1, CourseStep
  <2>2. ASSUME NEW u \in members[p], NEW how \in Attendance \ {"booked"}, Attend(p, u, how)
        PROVE  BuddiesInv'
    BY <2>2, AttendStep
  <2>3. ASSUME NEW u \in members[p], NEW b \in BOOLEAN, ShareContact(p, u, b)
        PROVE  BuddiesInv'
    BY <2>3, ShareStep
  <2>4. ASSUME NEW u \in members[p], NEW b \in BOOLEAN, Rate(p, u, b)
        PROVE  BuddiesInv'
    BY <2>4, RateStep
  <2>5. ASSUME NEW u \in members[p], NEW b \in BOOLEAN, Report(p, u, b)
        PROVE  BuddiesInv'
    BY <2>5, ReportStep
  <2> QED BY <1>1, <2>1, <2>2, <2>3, <2>4, <2>5 DEF OfPairing
<1>2. ASSUME NEW b \in buddies, EndBuddy(b) PROVE BuddiesInv'
  BY <1>2, EndBuddyStep
<1>3. ASSUME NEW u \in Changing, TierChanges(u) PROVE BuddiesInv'
  BY <1>3, TierStep
<1>4. CASE UNCHANGED buddyVars
  BY <1>4 DEF buddyVars, courseVars, BuddiesInv, Tabled, BuddiesTypeOK, ReportedApart, Blocked,
              BlockedPair, AnswersEarned, BuddiesAgreed, BuddiesOf
<1> QED BY <1>1, <1>2, <1>3, <1>4 DEF BuddiesNext

LEMMA InvariantHolds == BuddiesSpec => []BuddiesInv
BY InitHolds, StepHolds, PTL DEF BuddiesSpec

(* After a report the two are nothing to each other, in any of the         *)
(* pairings they ever had and whatever either does afterwards              *)
(* (lib/social.js fileReport, maybeFormBuddy; shareContact).               *)
THEOREM ReportsSeparate == BuddiesSpec => []ReportedApart
<1>1. BuddiesInv => ReportedApart
  BY DEF BuddiesInv
<1> QED BY <1>1, InvariantHolds, PTL

(* Every buddyship is one that both asked for after a pairing both were    *)
(* at, and no one has more of them than the larger plan has slots          *)
(* (lib/social.js submitRating, maybeFormBuddy).                           *)
THEOREM BuddyshipsAreAgreed == BuddiesSpec => []BuddiesAgreed
<1>1. BuddiesInv => BuddiesAgreed
  BY DEF BuddiesInv
<1> QED BY <1>1, InvariantHolds, PTL

-----------------------------------------------------------------------------
(* The chat. *)

Audience == {"both", "me", "them"}
CallRow == [kind : {"none", "poll", "messages", "post", "posted"}, after : Nat, upTo : Nat]

(* Whoever the cursor counts from has all that was there before it.        *)
CaughtUp(n) == \A m \in Visible : m <= n => m \in shown

ThreadOK == thread \in Seq(Audience) /\ stretch \in 0 .. 4 /\ starters \in 0 .. 3
CallOK(c) ==
    /\ calls[c] \in CallRow /\ calls[c].after <= Len(thread) /\ calls[c].upTo <= Len(thread)
    /\ calls[c].kind \in {"poll", "messages"} => CaughtUp(calls[c].after)
ScreenOK ==
    /\ calls = [c \in Call |-> calls[c]] /\ \A c \in Call : CallOK(c)
    /\ lastId \in 0 .. Len(thread) /\ shown \subseteq 1 .. Len(thread)
    /\ CaughtUp(lastId) /\ \A k \in shown : CaughtUp(k)
ChatInv == ThreadOK /\ ScreenOK

(* A thread that only has messages added at its end.                       *)
Longer(t) ==
    /\ t \in Seq(Audience) /\ Len(t) >= Len(thread)
    /\ \A i \in 1 .. Len(thread) : t[i] = thread[i]

-----------------------------------------------------------------------------
(* A nonempty set of numbers below a bound has a last one.                 *)
LEMMA HasLast ==
    ASSUME NEW n \in Nat, NEW S \in SUBSET (0 .. n), S # {}
    PROVE  \E k \in S : \A m \in S : m <= k
<1> DEFINE Below == {n - m : m \in S}
<1>1. Below \subseteq Nat
  <2>1. \A m \in S : n - m \in Nat
    OBVIOUS
  <2> QED BY <2>1
<1>2. Below # {}
  OBVIOUS
<1>3. PICK x \in Below : \A y \in Below : ~(<<y, x>> \in OpToRel(<, Nat))
  <2> HIDE DEF Below
  <2> QED BY <1>1, <1>2, NatLessThanWellFounded, WFMin, Zenon
<1>4. \A y \in Below : x <= y
  <2>1. OpToRel(<, Nat) = {ss \in Nat \X Nat : ss[1] < ss[2]}
    BY Zenon DEF OpToRel
  <2>2. ASSUME NEW y \in Below PROVE ~(y < x)
    <3>1. <<y, x>> \notin {ss \in Nat \X Nat : ss[1] < ss[2]}
      BY <1>3, <2>1, Zenon
    <3> HIDE DEF Below
    <3> QED BY <1>1, <3>1
  <2> HIDE DEF Below
  <2> QED BY <1>1, <2>2
<1>5. PICK k \in S : x = n - k
  OBVIOUS
<1>6. ASSUME NEW m \in S PROVE m <= k
  <2>1. n - m \in Below
    OBVIOUS
  <2>2. n - k <= n - m
    BY <1>4, <1>5, <2>1
  <2> QED BY <2>2
<1> QED BY <1>6

(* What a longer thread adds lies behind every cursor.                     *)
LEMMA LongerKeeps ==
    ASSUME ChatInv, Longer(thread'), UNCHANGED shown
    PROVE  \A n \in 0 .. Len(thread) : CaughtUp(n) => \A m \in Visible' : m <= n => m \in shown'
<1>1. /\ thread \in Seq(Audience) /\ thread' \in Seq(Audience) /\ Len(thread') >= Len(thread)
      /\ \A i \in 1 .. Len(thread) : thread'[i] = thread[i]
      /\ Len(thread) \in Nat /\ Len(thread') \in Nat
  BY DEF ChatInv, ThreadOK, Longer
<1>2. ASSUME NEW n \in 0 .. Len(thread), CaughtUp(n), NEW m \in Visible', m <= n PROVE m \in shown'
  <2>1. m \in 1 .. Len(thread') /\ thread'[m] \in {"both", "me"}
    BY <1>1 DEF Visible
  <2>2. m \in 1 .. Len(thread)
    BY <1>1, <1>2, <2>1
  <2>3. m \in Visible
    BY <1>1, <2>1, <2>2 DEF Visible
  <2> QED BY <1>2, <2>3 DEF CaughtUp
<1> QED BY <1>2

(* A call that is as it was, with a longer thread, is as good as it was.   *)
LEMMA CallKeeps ==
    ASSUME ChatInv, Longer(thread'), UNCHANGED shown, NEW c \in Call, calls'[c] = calls[c]
    PROVE  CallOK(c)'
<1>1. CallOK(c) /\ Len(thread) \in Nat /\ Len(thread') \in Nat /\ Len(thread') >= Len(thread)
  BY DEF ChatInv, ThreadOK, ScreenOK, Longer
<1>2. calls[c].after \in 0 .. Len(thread) /\ calls[c].upTo \in 0 .. Len(thread)
  BY <1>1 DEF CallOK, CallRow
<1>3. calls[c].kind \in {"poll", "messages"} => \A m \in Visible' : m <= calls[c].after => m \in shown'
  BY <1>1, <1>2, LongerKeeps DEF CallOK
<1>4. calls'[c].kind \in {"poll", "messages"} => CaughtUp(calls[c].after)'
  BY <1>3 DEF CaughtUp
<1>5. /\ calls'[c] \in CallRow /\ calls'[c].after <= Len(thread') /\ calls'[c].upTo <= Len(thread')
  BY <1>1, <1>2 DEF CallOK
<1> QED BY <1>4, <1>5 DEF CallOK

(* What is put at the end of the thread leaves it longer.                  *)
LEMMA AddedAtEnd ==
    ASSUME ThreadOK, NEW t \in Seq(Audience)
    PROVE  Longer(thread \o t)
BY DEF ThreadOK, Longer

LEMMA OneAdded ==
    ASSUME ThreadOK, NEW w \in Audience
    PROVE  Longer(Append(thread, w)) /\ Len(Append(thread, w)) = Len(thread) + 1
BY DEF ThreadOK, Longer

(* The screen does not notice that the thread grows.                       *)
LEMMA ThreadGrows ==
    ASSUME ChatInv, Longer(thread'), UNCHANGED <<calls, lastId, shown>>,
           stretch' \in 0 .. 4, starters' \in 0 .. 3
    PROVE  ChatInv'
<1>1. ThreadOK'
  BY DEF ThreadOK, Longer
<1>2. \A c \in Call : CallOK(c)'
  BY CallKeeps
<1>3. /\ Len(thread) \in Nat /\ Len(thread') \in Nat /\ Len(thread') >= Len(thread)
      /\ lastId \in 0 .. Len(thread) /\ shown \subseteq 1 .. Len(thread)
      /\ CaughtUp(lastId) /\ \A k \in shown : CaughtUp(k)
  BY DEF ChatInv, ThreadOK, ScreenOK, Longer
<1>4. CaughtUp(lastId)' /\ \A k \in shown' : CaughtUp(k)'
  <2>1. \A m \in Visible' : m <= lastId => m \in shown'
    BY <1>3, LongerKeeps
  <2>2. \A k \in shown : k \in 0 .. Len(thread)
    BY <1>3
  <2>3. \A k \in shown : \A m \in Visible' : m <= k => m \in shown'
    BY <1>3, <2>2, LongerKeeps
  <2> QED BY <2>1, <2>3 DEF CaughtUp
<1>5. calls' = [c \in Call |-> calls'[c]]
  BY DEF ChatInv, ScreenOK
<1> QED BY <1>1, <1>2, <1>3, <1>4, <1>5 DEF ChatInv, ScreenOK

(* The same for a thread that stays while one call moves on.               *)
LEMMA CallMoves ==
    ASSUME ChatInv, NEW c \in Call, NEW row, calls' = [calls EXCEPT ![c] = row],
           Longer(thread'), UNCHANGED <<stretch, starters, lastId, shown>>,
           row \in CallRow, row.after <= Len(thread'), row.upTo <= Len(thread'),
           row.kind \in {"poll", "messages"} => row.after \in 0 .. Len(thread) /\ CaughtUp(row.after)
    PROVE  ChatInv'
<1>1. ThreadOK' /\ Len(thread) \in Nat /\ Len(thread') \in Nat /\ Len(thread') >= Len(thread)
  BY DEF ChatInv, ThreadOK, Longer
<1>2. /\ calls' = [d \in Call |-> calls'[d]] /\ calls'[c] = row
      /\ \A d \in Call \ {c} : calls'[d] = calls[d]
  BY DEF ChatInv, ScreenOK
<1>3. ASSUME NEW d \in Call \ {c} PROVE CallOK(d)'
  BY <1>2, CallKeeps
<1>4. CallOK(c)'
  <2>1. calls'[c].kind \in {"poll", "messages"} => \A m \in Visible' : m <= row.after => m \in shown'
    BY <1>2, LongerKeeps
  <2> QED BY <1>2, <2>1 DEF CallOK, CaughtUp
<1>5. CaughtUp(lastId)' /\ \A k \in shown' : CaughtUp(k)'
  <2>1. /\ lastId \in 0 .. Len(thread) /\ shown \subseteq 1 .. Len(thread)
        /\ CaughtUp(lastId) /\ \A k \in shown : CaughtUp(k)
    BY DEF ChatInv, ScreenOK
  <2>2. \A m \in Visible' : m <= lastId => m \in shown'
    BY <2>1, LongerKeeps
  <2>3. \A k \in shown : k \in 0 .. Len(thread)
    BY <1>1, <2>1
  <2>4. \A k \in shown : \A m \in Visible' : m <= k => m \in shown'
    BY <2>1, <2>3, LongerKeeps
  <2> QED BY <2>2, <2>4 DEF CaughtUp
<1>6. lastId' \in 0 .. Len(thread') /\ shown' \subseteq 1 .. Len(thread')
  BY <1>1 DEF ChatInv, ScreenOK
<1> QED BY <1>1, <1>2, <1>3, <1>4, <1>5, <1>6 DEF ChatInv, ScreenOK

LEMMA SameThread ==
    ASSUME ThreadOK
    PROVE  Longer(thread)
BY DEF ThreadOK, Longer

-----------------------------------------------------------------------------
(* The steps of the server and of the other person.                        *)
LEMMA ServerKeeps ==
    ASSUME ChatInv, Introduced \/ BackedOut \/ Reported \/ ShiftGoesOn \/ Completed \/ Tick \/ TheyWrite
    PROVE  ChatInv'
<1>1. ThreadOK /\ UNCHANGED <<calls, lastId, shown>>
  BY DEF ChatInv, Introduced, BackedOut, Reported, ShiftGoesOn, Completed, Tick, TheyWrite
<1>2. CASE Introduced
  <2>1. <<"me", "them">> \in Seq(Audience)
    BY DEF Audience
  <2> QED BY <1>1, <1>2, <2>1, AddedAtEnd, ThreadGrows DEF Introduced, ThreadOK
<1>3. CASE BackedOut
  BY <1>1, <1>3, OneAdded, ThreadGrows DEF BackedOut, ThreadOK, Audience
<1>4. CASE Reported
  BY <1>1, <1>4, SameThread, ThreadGrows DEF Reported, ThreadOK
<1>5. CASE ShiftGoesOn
  <2>1. stretch' \in 0 .. 4 /\ starters' \in 0 .. 3 /\ thread' = thread
    BY <1>1, <1>5 DEF ShiftGoesOn, ThreadOK, STARTERS_PER_SHIFT
  <2> QED BY <1>1, <2>1, SameThread, ThreadGrows
<1>6. CASE Completed
  BY <1>1, <1>6, SameThread, ThreadGrows DEF Completed, ThreadOK
<1>7. CASE Tick
  <2>1. StartersDue \in Nat /\ stretch \in 1 .. 3 /\ stretch' = stretch /\ starters' \in 0 .. 3
    BY <1>1, <1>7 DEF Tick, StartersDue, ThreadOK, STARTERS_PER_SHIFT
  <2>2. ASSUME NEW n \in Nat PROVE Longer(WithStarters(n))
    <3>1. [i \in 1 .. n |-> "both"] \in Seq(Audience)
      BY DEF Audience
    <3> QED BY <1>1, <3>1, AddedAtEnd DEF WithStarters
  <2>3. \E n \in Nat : thread' = WithStarters(n)
    BY <1>7, <2>1 DEF Tick
  <2>4. Longer(thread')
    BY <2>2, <2>3
  <2> QED BY <1>1, <2>1, <2>4, ThreadGrows
<1>8. CASE TheyWrite
  BY <1>1, <1>8, OneAdded, ThreadGrows DEF TheyWrite, ThreadOK, Audience
<1> QED BY <1>2, <1>3, <1>4, <1>5, <1>6, <1>7, <1>8

(* The steps of the screen and of its calls.                               *)
LEMMA PollKeeps ==
    ASSUME ChatInv, NEW c \in Call, Poll(c)
    PROVE  ChatInv'
<1>1. calls' = [calls EXCEPT ![c] = PollCall] /\ UNCHANGED <<stretch, starters, thread, lastId, shown>>
  BY DEF Poll, Start
<1>2. /\ thread \in Seq(Audience) /\ lastId \in 0 .. Len(thread) /\ CaughtUp(lastId) /\ Longer(thread)
  BY SameThread DEF ChatInv, ThreadOK, ScreenOK
<1>3. /\ PollCall \in CallRow /\ PollCall.after = lastId /\ PollCall.upTo = 0
  BY <1>2 DEF PollCall, CallRow
<1>4. /\ Longer(thread') /\ PollCall.after <= Len(thread') /\ PollCall.upTo <= Len(thread')
      /\ PollCall.after \in 0 .. Len(thread) /\ CaughtUp(PollCall.after)
  BY <1>1, <1>2, <1>3
<1> QED BY <1>1, <1>3, <1>4, CallMoves

LEMMA SendOrFailKeeps ==
    ASSUME ChatInv, NEW c \in Call, Send(c) \/ Fails(c)
    PROVE  ChatInv'
<1>1. UNCHANGED <<stretch, starters, thread, lastId, shown>>
  BY DEF Send, Fails
<1>2. PICK r \in {NoCall, [NoCall EXCEPT !.kind = "post"]} : calls' = [calls EXCEPT ![c] = r]
  BY DEF Send, Fails, Start
<1>3. /\ thread \in Seq(Audience) /\ Longer(thread)
  BY SameThread DEF ChatInv, ThreadOK
<1>4. /\ r \in CallRow /\ r.after = 0 /\ r.upTo = 0 /\ r.kind \in {"none", "post"}
  BY DEF CallRow, NoCall
<1>5. /\ Longer(thread') /\ r.after <= Len(thread') /\ r.upTo <= Len(thread')
      /\ r.kind \notin {"poll", "messages"}
  BY <1>1, <1>3, <1>4
<1> QED BY <1>1, <1>2, <1>4, <1>5, CallMoves

LEMMA ServePollKeeps ==
    ASSUME ChatInv, NEW c \in Call, ServePoll(c)
    PROVE  ChatInv'
<1> DEFINE row == [kind |-> "messages", after |-> calls[c].after, upTo |-> Len(thread)]
<1>1. /\ UNCHANGED <<stretch, starters, thread, lastId, shown>> /\ calls[c].kind = "poll"
      /\ calls' = [calls EXCEPT ![c].kind = "messages", ![c].upTo = Len(thread)]
  BY DEF ServePoll
<1>2. /\ thread \in Seq(Audience) /\ Longer(thread) /\ Len(thread) \in Nat /\ CallOK(c)
      /\ calls = [d \in Call |-> calls[d]]
  BY SameThread DEF ChatInv, ThreadOK, ScreenOK
<1>3. calls[c] \in CallRow /\ calls[c].after \in 0 .. Len(thread) /\ CaughtUp(calls[c].after)
  BY <1>1, <1>2 DEF CallOK, CallRow
<1>4. calls' = [calls EXCEPT ![c] = row]
  <2>1. PICK k, a, u : calls[c] = [kind |-> k, after |-> a, upTo |-> u]
    BY <1>3 DEF CallRow
  <2>2. calls' = [calls EXCEPT ![c] = [[calls[c] EXCEPT !.kind = "messages"] EXCEPT !.upTo = Len(thread)]]
    BY <1>1, <1>2
  <2>3. [[[kind |-> k, after |-> a, upTo |-> u] EXCEPT !.kind = "messages"] EXCEPT !.upTo = Len(thread)] = row
    <3>1. [[kind |-> k, after |-> a, upTo |-> u] EXCEPT !.kind = "messages"] = [kind |-> "messages", after |-> a, upTo |-> u]
      OBVIOUS
    <3>2. [[kind |-> "messages", after |-> a, upTo |-> u] EXCEPT !.upTo = Len(thread)] = [kind |-> "messages", after |-> a, upTo |-> Len(thread)]
      OBVIOUS
    <3>3. row = [kind |-> "messages", after |-> a, upTo |-> Len(thread)]
      BY <2>1
    <3> HIDE DEF row
    <3> QED BY <3>1, <3>2, <3>3, Zenon
  <2> HIDE DEF row
  <2> QED BY <2>1, <2>2, <2>3, Zenon
<1>5. row \in CallRow /\ row.after <= Len(thread') /\ row.upTo <= Len(thread')
  BY <1>1, <1>2, <1>3 DEF CallRow
<1>6. row.after \in 0 .. Len(thread) /\ CaughtUp(row.after)
  BY <1>3
<1>7. Longer(thread')
  BY <1>1, <1>2
<1> HIDE DEF row
<1> QED BY <1>1, <1>4, <1>5, <1>6, <1>7, CallMoves

LEMMA ServePostKeeps ==
    ASSUME ChatInv, NEW c \in Call, ServePost(c)
    PROVE  ChatInv'
<1> DEFINE row == [kind |-> "posted", after |-> calls[c].after, upTo |-> Len(thread')]
<1>1. /\ UNCHANGED <<stretch, starters, lastId, shown>> /\ thread' = Append(thread, "both")
      /\ calls' = [calls EXCEPT ![c].kind = "posted", ![c].upTo = Len(thread')]
  BY DEF ServePost
<1>2. /\ thread \in Seq(Audience) /\ Longer(thread') /\ Len(thread) \in Nat /\ Len(thread') = Len(thread) + 1
      /\ CallOK(c) /\ calls = [d \in Call |-> calls[d]]
  BY <1>1, OneAdded DEF ChatInv, ThreadOK, ScreenOK, Audience
<1>3. calls[c] \in CallRow /\ calls[c].after \in 0 .. Len(thread)
  BY <1>2 DEF CallOK, CallRow
<1>4. calls' = [calls EXCEPT ![c] = row]
  <2>1. PICK k, a, u : calls[c] = [kind |-> k, after |-> a, upTo |-> u]
    BY <1>3 DEF CallRow
  <2>2. calls' = [calls EXCEPT ![c] = [[calls[c] EXCEPT !.kind = "posted"] EXCEPT !.upTo = Len(thread')]]
    BY <1>1, <1>2
  <2>3. [[[kind |-> k, after |-> a, upTo |-> u] EXCEPT !.kind = "posted"] EXCEPT !.upTo = Len(thread')] = row
    <3>1. [[kind |-> k, after |-> a, upTo |-> u] EXCEPT !.kind = "posted"] = [kind |-> "posted", after |-> a, upTo |-> u]
      OBVIOUS
    <3>2. [[kind |-> "posted", after |-> a, upTo |-> u] EXCEPT !.upTo = Len(thread')] = [kind |-> "posted", after |-> a, upTo |-> Len(thread')]
      OBVIOUS
    <3>3. row = [kind |-> "posted", after |-> a, upTo |-> Len(thread')]
      BY <2>1
    <3> HIDE DEF row
    <3> QED BY <3>1, <3>2, <3>3, Zenon
  <2> HIDE DEF row
  <2> QED BY <2>1, <2>2, <2>3, Zenon
<1>5. row \in CallRow /\ row.after <= Len(thread') /\ row.upTo <= Len(thread') /\ row.kind = "posted"
  BY <1>2, <1>3 DEF CallRow
<1> HIDE DEF row
<1> QED BY <1>1, <1>2, <1>4, <1>5, CallMoves

LEMMA PostReplyKeeps ==
    ASSUME ChatInv, NEW c \in Call, PostReply(c)
    PROVE  ChatInv'
<1> DEFINE row == [kind |-> "poll", after |-> lastId, upTo |-> 0]
<1>1. UNCHANGED <<stretch, starters, thread, lastId, shown>>
  BY DEF PostReply, CursorAfterPost
<1>2. calls' = [calls EXCEPT ![c] = row]
  <2>1. calls' = [calls EXCEPT ![c] = [PollCall EXCEPT !.after = lastId]]
    BY <1>1 DEF PostReply
  <2>2. [PollCall EXCEPT !.after = lastId] = row
    BY DEF PollCall
  <2> HIDE DEF row
  <2> QED BY <2>1, <2>2, Zenon
<1>3. /\ thread \in Seq(Audience) /\ lastId \in 0 .. Len(thread) /\ CaughtUp(lastId) /\ Longer(thread)
  BY SameThread DEF ChatInv, ThreadOK, ScreenOK
<1>4. row \in CallRow /\ row.after = lastId /\ row.upTo = 0
  BY <1>3 DEF CallRow
<1>5. /\ Longer(thread') /\ row.after <= Len(thread') /\ row.upTo <= Len(thread')
      /\ row.after \in 0 .. Len(thread) /\ CaughtUp(row.after)
  BY <1>1, <1>3, <1>4
<1> HIDE DEF row
<1> QED BY <1>1, <1>2, <1>4, <1>5, CallMoves

LEMMA PollReplyKeeps ==
    ASSUME ChatInv, NEW c \in Call, PollReply(c)
    PROVE  ChatInv'
<1> DEFINE new == Fetched(calls[c])
<1>1. /\ UNCHANGED <<stretch, starters, thread>> /\ calls[c].kind = "messages"
      /\ calls' = [calls EXCEPT ![c] = NoCall] /\ shown' = shown \cup new
      /\ lastId' = IF new = {} THEN lastId ELSE CHOOSE m \in new : \A k \in new : k <= m
  BY DEF PollReply
<1>2. /\ thread \in Seq(Audience) /\ Len(thread) \in Nat /\ CallOK(c) /\ calls = [d \in Call |-> calls[d]]
      /\ lastId \in 0 .. Len(thread) /\ shown \subseteq 1 .. Len(thread)
      /\ CaughtUp(lastId) /\ (\A k \in shown : CaughtUp(k)) /\ \A d \in Call : CallOK(d)
  BY DEF ChatInv, ThreadOK, ScreenOK
<1>3. /\ calls[c].after \in Nat /\ calls[c].upTo \in Nat /\ calls[c].upTo <= Len(thread)
      /\ CaughtUp(calls[c].after)
  BY <1>1, <1>2 DEF CallOK, CallRow
<1>4. /\ Visible \subseteq 1 .. Len(thread) /\ new \subseteq Visible /\ Visible' = Visible
      /\ \A m \in Visible : m \in new <=> calls[c].after < m /\ m <= calls[c].upTo
  BY <1>1, <1>2 DEF Visible, Fetched
<1> HIDE DEF new
<1>5. ASSUME NEW k \in new, NEW m \in Visible, m <= k PROVE m \in shown'
  <2>1. m \in Nat /\ k \in Nat /\ k <= calls[c].upTo
    BY <1>4, <1>5
  <2>2. CASE calls[c].after < m
    BY <1>1, <1>3, <1>4, <1>5, <2>1, <2>2
  <2>3. CASE ~(calls[c].after < m)
    BY <1>1, <1>3, <1>5, <2>1, <2>3 DEF CaughtUp
  <2> QED BY <2>2, <2>3
<1>6. lastId' \in new \/ lastId' = lastId
  <2>1. CASE new = {}
    BY <1>1, <2>1
  <2>2. CASE new # {}
    <3>1. new \in SUBSET (0 .. Len(thread))
      BY <1>2, <1>4
    <3>2. \E k \in new : \A m \in new : m <= k
      BY <1>2, <2>2, <3>1, HasLast
    <3> QED BY <1>1, <2>2, <3>2
  <2> QED BY <2>1, <2>2
<1>7. CaughtUp(lastId)' /\ \A k \in shown' : CaughtUp(k)'
  <2>1. \A m \in Visible : m <= lastId => m \in shown'
    BY <1>1, <1>2 DEF CaughtUp
  <2>2. \A m \in Visible : m <= lastId' => m \in shown'
    BY <1>5, <1>6, <2>1
  <2>3. \A k \in shown : \A m \in Visible : m <= k => m \in shown'
    BY <1>1, <1>2 DEF CaughtUp
  <2>4. \A k \in shown' : \A m \in Visible : m <= k => m \in shown'
    BY <1>1, <1>5, <2>3
  <2> QED BY <1>4, <2>2, <2>4 DEF CaughtUp
<1>8. lastId' \in 0 .. Len(thread') /\ shown' \subseteq 1 .. Len(thread')
  <2>1. thread' = thread /\ shown' = shown \cup new /\ new \subseteq 1 .. Len(thread)
    BY <1>1, <1>4
  <2>2. lastId' \in 0 .. Len(thread)
    <3>1. new \subseteq 0 .. Len(thread)
      BY <1>2, <2>1
    <3> QED BY <1>2, <1>6, <3>1
  <2> QED BY <1>2, <2>1, <2>2
<1>9. ASSUME NEW d \in Call PROVE CallOK(d)'
  <2>1. CASE d = c
    <3>1. calls'[d] = [kind |-> "none", after |-> 0, upTo |-> 0]
      BY <1>1, <1>2, <2>1 DEF NoCall
    <3> QED BY <1>1, <1>2, <3>1 DEF CallOK, CallRow
  <2>2. CASE d # c
    <3>1. calls'[d] = calls[d] /\ CallOK(d)
      BY <1>1, <1>2, <2>2
    <3>2. calls'[d].kind \in {"poll", "messages"} => CaughtUp(calls[d].after)'
      BY <1>1, <1>4, <3>1 DEF CallOK, CaughtUp
    <3> QED BY <1>1, <3>1, <3>2 DEF CallOK
  <2> QED BY <2>1, <2>2
<1>10. calls' = [d \in Call |-> calls'[d]]
  BY <1>1, <1>2
<1> QED BY <1>1, <1>7, <1>8, <1>9, <1>10 DEF ChatInv, ThreadOK, ScreenOK

LEMMA ReopenKeeps ==
    ASSUME ChatInv, Reopen
    PROVE  ChatInv'
<1>1. /\ UNCHANGED <<stretch, starters, thread>> /\ lastId' = 0 /\ shown' = {}
      /\ calls' = [c \in Call |-> [kind |-> "none", after |-> 0, upTo |-> 0]]
      /\ thread \in Seq(Audience) /\ Len(thread) \in Nat
  BY DEF Reopen, NoCall, ChatInv, ThreadOK
<1>2. \A m \in Visible' : ~(m <= 0)
  BY <1>1 DEF Visible
<1>3. \A c \in Call : CallOK(c)'
  BY <1>1 DEF CallOK, CallRow
<1> QED BY <1>1, <1>2, <1>3 DEF ChatInv, ThreadOK, ScreenOK, CaughtUp

-----------------------------------------------------------------------------
(* No reply, however late, leaves a hole in the list or moves the cursor   *)
(* past a message that is not shown (mobile/screens/ChatScreen.js).        *)
THEOREM ChatHasNoHoles == ChatSpec => []NothingSkipped
<1>1. ChatInit => ChatInv
  <2> SUFFICES ASSUME ChatInit PROVE ChatInv
    OBVIOUS
  <2>1. /\ stretch = 0 /\ starters = 0 /\ thread = <<>> /\ lastId = 0 /\ shown = {}
        /\ calls = [c \in Call |-> [kind |-> "none", after |-> 0, upTo |-> 0]]
    BY DEF ChatInit, NoCall
  <2>2. ThreadOK /\ Len(thread) = 0 /\ Visible = {}
    BY <2>1 DEF ThreadOK, Visible
  <2>3. \A c \in Call : CallOK(c)
    BY <2>1, <2>2 DEF CallOK, CallRow
  <2> QED BY <2>1, <2>2, <2>3 DEF ChatInv, ScreenOK, CaughtUp
<1>2. ChatInv /\ [ChatNext]_chatVars => ChatInv'
  <2> SUFFICES ASSUME ChatInv, [ChatNext]_chatVars PROVE ChatInv'
    OBVIOUS
  <2>1. CASE UNCHANGED chatVars
    BY <2>1 DEF chatVars, ChatInv, ThreadOK, ScreenOK, CallOK, CaughtUp, Visible
  <2>2. CASE ChatNext
    BY <2>2, ServerKeeps, ReopenKeeps, PollKeeps, SendOrFailKeeps, ServePollKeeps, PollReplyKeeps,
       ServePostKeeps, PostReplyKeeps DEF ChatNext
  <2> QED BY <2>1, <2>2
<1>3. ChatInv => NothingSkipped
  <2> SUFFICES ASSUME ChatInv, NEW m \in Visible, m <= lastId \/ \E k \in shown : m < k
               PROVE  m \in shown
    BY DEF NothingSkipped
  <2>1. /\ CaughtUp(lastId) /\ (\A k \in shown : CaughtUp(k)) /\ shown \subseteq 1 .. Len(thread)
        /\ thread \in Seq(Audience) /\ m \in DOMAIN thread
    BY DEF ChatInv, ThreadOK, ScreenOK, Visible
  <2>2. CASE m <= lastId
    BY <2>1, <2>2 DEF CaughtUp
  <2>3. ASSUME NEW k \in shown, m < k PROVE m \in shown
    <3>1. k \in Nat /\ m \in Nat /\ m <= k
      BY <2>1, <2>3
    <3> QED BY <2>1, <3>1 DEF CaughtUp
  <2> QED BY <2>2, <2>3
<1> QED BY <1>1, <1>2, <1>3, PTL DEF ChatSpec

-----------------------------------------------------------------------------
(* Organizations, their shifts and rosters.                                *)

OrgRec == [exists : BOOLEAN, placed : BOOLEAN, verified : BOOLEAN, waiver : Waiver]
RowOK(o) == o \in OrgRec /\ (o.exists = FALSE => o.waiver = "none")
CallAt == {"sent", "ok", "orphan"}
FormCall == [to : {"orgs", "waiver"}, at : CallAt, waiver : Waiver \ {"none"}]
ShiftCall == [to : {"shifts"}, at : CallAt, start : LocalHour, end : LocalHour, own : BOOLEAN]

(* What a call in flight says of the organization: a shift is published    *)
(* only for one with a place, and a waiver that was answered is stored.    *)
OrgCallOK ==
    /\ orgCall \in {NoOrgCall} \cup FormCall \cup ShiftCall
    /\ orgCall.to = "shifts" =>
            /\ org.placed = TRUE
            /\ orgCall.at \in {"sent", "ok"} => orgScreen \notin {"onboard", "loading"}
    /\ orgCall.to = "waiver" /\ orgCall.at = "ok" => org.waiver # "none"
(* The home and the form of the phone know no place the row does not have. *)
PlaceKnown ==
    /\ home.placed = TRUE => org.placed = TRUE
    /\ orgScreen = "orgForm" => org.placed = TRUE
    /\ shift.listed = TRUE => shift.placed = TRUE
FormOK == orgForm \in [coords : BOOLEAN, created : BOOLEAN, waiver : Waiver]
RatedOK == rated # NoRate => attendance \in AttendanceKnown
OrgIInv == RowOK(org) /\ OrgCallOK /\ PlaceKnown /\ FormOK /\ RatedOK

(* What becomes of the row.                                                *)
RowKept ==
    /\ RowOK(org)' /\ (org.placed = TRUE => org'.placed = TRUE)
    /\ org.exists = TRUE => org'.exists = TRUE /\ org'.placed = org.placed
    /\ org.waiver # "none" => org'.waiver # "none"
(* What becomes of the booking.                                            *)
BookingKept ==
    /\ attendance \in AttendanceKnown \cup {"cancelled"} => attendance' = attendance
    /\ RatedOK'
HomeWithWaiver == orgScreen = "onboard" /\ orgScreen' = "home" => org.waiver # "none"
StepOK == RowKept /\ BookingKept /\ HomeWithWaiver

LEMMA OrgInv == OrgIInv => PlacedAndRated
BY DEF RowOK, OrgIInv, PlaceKnown, RatedOK, PlacedAndRated, VisibleShift, AttendanceKnown, NoRate

LEMMA OrgTypes ==
    /\ NoOrg \in OrgRec /\ [NoOrg EXCEPT !.exists = TRUE] \in OrgRec
    /\ NoOrgCall.to = "none" /\ NoOrgCall.at = "idle" /\ NoHome.placed = FALSE
    /\ EmptyForm \in [coords : BOOLEAN, created : BOOLEAN, waiver : Waiver]
    /\ \A c \in FormCall : c.to \in {"orgs", "waiver"} /\ c.at \in CallAt /\ c.waiver # "none"
    /\ \A c \in ShiftCall : c.to = "shifts" /\ c.at \in CallAt
    /\ \A o : HomeOf(o).placed = o.placed
<1>1. NoOrg \in OrgRec BY DEF NoOrg, OrgRec, Waiver
<1>2. [NoOrg EXCEPT !.exists = TRUE] \in OrgRec BY <1>1 DEF OrgRec
<1>3. /\ NoOrgCall.to = "none" /\ NoOrgCall.at = "idle" /\ NoHome.placed = FALSE
      /\ EmptyForm \in [coords : BOOLEAN, created : BOOLEAN, waiver : Waiver]
  BY DEF NoOrgCall, NoHome, EmptyForm, Waiver
<1>4. \A o : HomeOf(o).placed = o.placed BY DEF HomeOf
<1>5. \A c \in FormCall : c.to \in {"orgs", "waiver"} /\ c.at \in CallAt /\ c.waiver # "none"
  BY DEF FormCall
<1>6. \A c \in ShiftCall : c.to = "shifts" /\ c.at \in CallAt BY DEF ShiftCall
<1> QED BY <1>1, <1>2, <1>3, <1>4, <1>5, <1>6

LEMMA InitOrgs == OrgsInit => OrgIInv
<1> SUFFICES ASSUME OrgsInit PROVE OrgIInv OBVIOUS
<1>1. RowOK(org) /\ FormOK
  <2>1. /\ NoOrg.waiver = "none" /\ [NoOrg EXCEPT !.exists = TRUE].exists = TRUE
    BY DEF NoOrg
  <2> HIDE DEF NoOrg
  <2> QED BY <2>1, OrgTypes DEF OrgsInit, FormOK, RowOK
<1>2. OrgCallOK BY OrgTypes DEF OrgsInit, OrgCallOK
<1>3. PlaceKnown BY OrgTypes DEF OrgsInit, PlaceKnown, NoShift
<1>4. RatedOK BY DEF OrgsInit, RatedOK
<1> QED BY <1>1, <1>2, <1>3, <1>4 DEF OrgIInv

(* A call that is left behind, and one that is answered.                   *)
LEMMA CallForms ==
    ASSUME OrgCallOK
    PROVE  /\ Left(orgCall) \in {NoOrgCall} \cup FormCall \cup ShiftCall
           /\ Left(orgCall).at \notin {"sent", "ok"}
           /\ Left(orgCall).to = "shifts" => orgCall.to = "shifts"
           /\ orgCall.at \in CallAt =>
                LET c == [orgCall EXCEPT !.at = "ok"]
                IN  /\ c \in FormCall \cup ShiftCall /\ c.to = orgCall.to /\ c.at = "ok"
           /\ orgCall \in FormCall =>
                LET c == [orgCall EXCEPT !.to = "waiver", !.at = "sent"]
                IN  c \in FormCall /\ c.to = "waiver" /\ c.at = "sent"
<1>1. \A c \in FormCall : \A a \in CallAt :
        /\ [c EXCEPT !.at = a] \in FormCall /\ [c EXCEPT !.at = a].to = c.to
        /\ [c EXCEPT !.at = a].at = a
  BY DEF FormCall
<1>2. \A c \in ShiftCall : \A a \in CallAt :
        /\ [c EXCEPT !.at = a] \in ShiftCall /\ [c EXCEPT !.at = a].to = c.to
        /\ [c EXCEPT !.at = a].at = a
  BY DEF ShiftCall
<1>3. \A c \in FormCall :
        LET d == [c EXCEPT !.to = "waiver", !.at = "sent"]
        IN  d \in FormCall /\ d.to = "waiver" /\ d.at = "sent"
  BY DEF FormCall, CallAt
<1>4. orgCall \in {NoOrgCall} \cup FormCall \cup ShiftCall BY DEF OrgCallOK
<1>5. "sent" \in CallAt /\ "ok" \in CallAt /\ "orphan" \in CallAt /\ "idle" \notin CallAt
  BY DEF CallAt
<1>6. Left(orgCall) = IF orgCall.at = "sent" THEN [orgCall EXCEPT !.at = "orphan"]
                      ELSE IF orgCall.at = "ok" THEN NoOrgCall ELSE orgCall
  BY DEF Left
<1> HIDE DEF FormCall, ShiftCall, NoOrgCall, Left
<1>7. /\ Left(orgCall) \in {NoOrgCall} \cup FormCall \cup ShiftCall
      /\ Left(orgCall).at \notin {"sent", "ok"}
      /\ Left(orgCall).to = "shifts" => orgCall.to = "shifts"
  <2>1. CASE orgCall = NoOrgCall BY <1>6, <2>1, OrgTypes
  <2>2. CASE orgCall \in FormCall BY <1>1, <1>5, <1>6, <2>2, OrgTypes
  <2>3. CASE orgCall \in ShiftCall BY <1>2, <1>5, <1>6, <2>3, OrgTypes
  <2> QED BY <1>4, <2>1, <2>2, <2>3
<1>8. ASSUME orgCall.at \in CallAt
      PROVE  LET c == [orgCall EXCEPT !.at = "ok"]
             IN  c \in FormCall \cup ShiftCall /\ c.to = orgCall.to /\ c.at = "ok"
  <2>1. orgCall \in FormCall \cup ShiftCall BY <1>4, <1>5, <1>8, OrgTypes
  <2> QED BY <1>1, <1>2, <1>5, <2>1
<1> QED BY <1>3, <1>7, <1>8

(* Steps that leave the row and the booking alone.                         *)
LEMMA RowSame ==
    ASSUME OrgIInv, UNCHANGED org
    PROVE  RowKept
BY DEF RowOK, OrgIInv, RowKept

LEMMA BookingSame ==
    ASSUME OrgIInv, UNCHANGED <<attendance, rated>>
    PROVE  BookingKept
BY DEF RowOK, OrgIInv, BookingKept, RatedOK

(* Steps of the server that do not answer a call of a form.                *)
LEMMA ServerStep ==
    ASSUME OrgIInv, RowKept, BookingKept,
           UNCHANGED <<shift, orgScreen, orgForm, orgCall, home>>
    PROVE  OrgIInv' /\ StepOK
<1>1. OrgCallOK' BY DEF RowOK, OrgIInv, OrgCallOK, RowKept
<1>2. PlaceKnown' BY DEF RowOK, OrgIInv, PlaceKnown, RowKept
<1>3. FormOK' BY DEF RowOK, OrgIInv, FormOK
<1>4. RatedOK' BY DEF BookingKept
<1>5. HomeWithWaiver BY DEF HomeWithWaiver
<1> QED BY <1>1, <1>2, <1>3, <1>4, <1>5 DEF RowOK, OrgIInv, StepOK, RowKept

(* Steps of the app that go on with no call.                               *)
LEMMA AppStep ==
    ASSUME OrgIInv, UNCHANGED <<org, shift, attendance, rated>>, FormOK', OrgCallOK', HomeWithWaiver,
           home'.placed = TRUE => org.placed = TRUE,
           orgScreen' = "orgForm" => org.placed = TRUE
    PROVE  OrgIInv' /\ StepOK
<1>1. RowKept /\ BookingKept BY RowSame, BookingSame
<1>2. PlaceKnown' BY DEF RowOK, OrgIInv, PlaceKnown
<1> QED BY <1>1, <1>2 DEF RowOK, OrgIInv, StepOK, RowKept, BookingKept

LEMMA CallLeft ==
    ASSUME OrgIInv, UNCHANGED org, orgCall' = Left(orgCall)
    PROVE  OrgCallOK'
<1>1. OrgCallOK BY DEF RowOK, OrgIInv
<1>2. PICK c : c = orgCall' OBVIOUS
<1>3. /\ c \in {NoOrgCall} \cup FormCall \cup ShiftCall /\ c.at \notin {"sent", "ok"}
      /\ c.to = "shifts" => orgCall.to = "shifts"
  BY <1>1, <1>2, CallForms
<1>4. c.to = "shifts" => org'.placed = TRUE BY <1>1, <1>3 DEF OrgCallOK
<1> QED BY <1>2, <1>3, <1>4 DEF OrgCallOK

LEMMA CallSame ==
    ASSUME OrgIInv, UNCHANGED <<org, orgCall>>,
           orgScreen' = orgScreen \/ orgScreen' \notin {"onboard", "loading"}
                                 \/ orgScreen \in {"onboard", "loading"}
    PROVE  OrgCallOK'
BY DEF RowOK, OrgIInv, OrgCallOK

LEMMA NoOrgCallOK ==
    ASSUME orgCall' = NoOrgCall
    PROVE  OrgCallOK'
BY OrgTypes DEF OrgCallOK

LEMMA NavigatesOrgs ==
    ASSUME OrgIInv, \/ StartApp \/ loadOrgState
                    \/ \E screen \in {"orgForm", "roster", "home"} : Open(screen)
    PROVE  OrgIInv' /\ StepOK
<1>1. FormOK /\ PlaceKnown BY DEF RowOK, OrgIInv
<1>2. EmptyForm \in [coords : BOOLEAN, created : BOOLEAN, waiver : Waiver] /\ NoHome.placed = FALSE
  BY OrgTypes
<1>3. CASE StartApp
  <2>1. FormOK' BY <1>2, <1>3 DEF StartApp, FormOK
  <2>2. OrgCallOK' BY <1>3, CallLeft DEF StartApp
  <2>3. HomeWithWaiver BY <1>3 DEF StartApp, HomeWithWaiver
  <2>4. /\ home'.placed = FALSE /\ orgScreen' = "loading"
        /\ UNCHANGED <<org, shift, attendance, rated>>
    BY <1>2, <1>3 DEF StartApp
  <2> QED BY <2>1, <2>2, <2>3, <2>4, AppStep
<1>4. CASE loadOrgState
  <2>1. FormOK' BY <1>1, <1>4 DEF loadOrgState, FormOK
  <2>2. OrgCallOK' BY <1>4, CallSame DEF loadOrgState
  <2>3. HomeWithWaiver BY <1>4 DEF loadOrgState, HomeWithWaiver
  <2>4. /\ home' = home /\ orgScreen' # "orgForm" /\ UNCHANGED <<org, shift, attendance, rated>>
    BY <1>4 DEF loadOrgState
  <2> QED BY <1>1, <2>1, <2>2, <2>3, <2>4, AppStep DEF PlaceKnown
<1>5. ASSUME NEW screen \in {"orgForm", "roster", "home"}, Open(screen)
      PROVE  OrgIInv' /\ StepOK
  <2>1. /\ orgScreen' = screen /\ orgForm' = EmptyForm /\ home' = NoHome
        /\ orgScreen \in {"home", "orgForm", "roster"}
        /\ screen = "orgForm" => home.placed
        /\ orgCall' \in {orgCall, Left(orgCall)} /\ UNCHANGED <<org, shift, attendance, rated>>
    BY <1>5 DEF Open
  <2>2. FormOK' BY <1>2, <2>1 DEF FormOK
  <2>3. OrgCallOK'
    <3>1. CASE orgCall' = orgCall BY <2>1, <3>1, CallSame
    <3>2. CASE orgCall' = Left(orgCall) BY <2>1, <3>2, CallLeft
    <3> QED BY <2>1, <3>1, <3>2
  <2>4. HomeWithWaiver BY <2>1 DEF HomeWithWaiver
  <2>5. screen = "orgForm" => org.placed = TRUE BY <1>1, <2>1 DEF PlaceKnown
  <2> QED BY <1>2, <2>1, <2>2, <2>3, <2>4, <2>5, AppStep
<1> QED BY <1>3, <1>4, <1>5

LEMMA FormsOrgs ==
    ASSUME OrgIInv, \/ LoadHome \/ \E w \in Waiver : ChooseWaiver(w)
                    \/ \E known \in BOOLEAN : PlaceTaken(known)
    PROVE  OrgIInv' /\ StepOK
<1>1. FormOK /\ PlaceKnown /\ org \in OrgRec BY DEF RowOK, OrgIInv
<1>2. /\ UNCHANGED <<org, shift, attendance, rated, orgScreen, orgCall>>
      /\ home' \in {home, HomeOf(org)}
  BY DEF LoadHome, ChooseWaiver, PlaceTaken
<1>3. FormOK'
  <2>1. CASE LoadHome BY <1>1, <2>1 DEF LoadHome, FormOK
  <2>2. CASE \E w \in Waiver : ChooseWaiver(w) BY <1>1, <2>2 DEF ChooseWaiver, FormOK
  <2>3. CASE \E known \in BOOLEAN : PlaceTaken(known) BY <1>1, <2>3 DEF PlaceTaken, FormOK
  <2> QED BY <2>1, <2>2, <2>3
<1>4. OrgCallOK' BY <1>2, CallSame
<1>5. HomeWithWaiver BY <1>2 DEF HomeWithWaiver
<1>6. home'.placed = TRUE => org.placed = TRUE
  <2>1. HomeOf(org).placed = org.placed BY OrgTypes
  <2> QED BY <1>1, <1>2, <2>1 DEF PlaceKnown
<1> QED BY <1>1, <1>2, <1>3, <1>4, <1>5, <1>6, AppStep DEF PlaceKnown

LEMMA SendsOrgs ==
    ASSUME OrgIInv, \/ \E found \in BOOLEAN : submit(found)
                    \/ saveWaiver
                    \/ \E s, e \in LocalHour, own \in BOOLEAN : publish(s, e, own)
    PROVE  OrgIInv' /\ StepOK
<1>1. FormOK /\ PlaceKnown /\ org \in OrgRec BY DEF RowOK, OrgIInv
<1>2. UNCHANGED <<org, shift, attendance, rated, orgScreen, home>>
  BY DEF submit, saveWaiver, publish
<1>3. HomeWithWaiver BY <1>2 DEF HomeWithWaiver
<1>4. orgForm.waiver \in Waiver BY <1>1 DEF FormOK
<1>5. FormOK' /\ OrgCallOK'
  <2>1. CASE \/ \E found \in BOOLEAN : submit(found)
             \/ saveWaiver
    <3>1. PICK to \in {"orgs", "waiver"} :
            /\ orgCall' = [to |-> to, at |-> "sent", waiver |-> orgForm.waiver]
            /\ orgForm.waiver # "none"
      <4>1. CASE saveWaiver BY <4>1 DEF saveWaiver
      <4>2. CASE \E found \in BOOLEAN : submit(found) BY <4>2 DEF submit
      <4> QED BY <2>1, <4>1, <4>2
    <3>2. FormOK' BY <1>1, <2>1 DEF submit, saveWaiver, FormOK
    <3>3. PICK c : c = [to |-> to, at |-> "sent", waiver |-> orgForm.waiver] OBVIOUS
    <3>4. c \in FormCall /\ c.to # "shifts" /\ c.at = "sent" BY <1>4, <3>1, <3>3 DEF FormCall, CallAt
    <3> QED BY <3>1, <3>2, <3>3, <3>4 DEF OrgCallOK
  <2>2. ASSUME NEW s \in LocalHour, NEW e \in LocalHour, NEW own \in BOOLEAN, publish(s, e, own)
        PROVE  FormOK' /\ OrgCallOK'
    <3>1. PICK c : c = [to |-> "shifts", at |-> "sent", start |-> s, end |-> e, own |-> own] OBVIOUS
    <3>2. c \in ShiftCall /\ c.to = "shifts" BY <3>1 DEF ShiftCall, CallAt
    <3>3. orgScreen = "orgForm" /\ orgCall' = c /\ orgForm' = orgForm BY <2>2, <3>1 DEF publish
    <3>4. org.placed = TRUE BY <1>1, <3>3 DEF PlaceKnown
    <3>5. FormOK' BY <1>1, <3>3 DEF FormOK
    <3>6. OrgCallOK' BY <1>2, <3>2, <3>3, <3>4 DEF OrgCallOK
    <3> QED BY <3>5, <3>6
  <2> QED BY <2>1, <2>2
<1> QED BY <1>1, <1>2, <1>3, <1>5, AppStep DEF PlaceKnown

LEMMA CallFailsOrgs ==
    ASSUME OrgIInv, CallFails
    PROVE  OrgIInv' /\ StepOK
<1>1. /\ orgCall' = NoOrgCall
      /\ UNCHANGED <<org, shift, attendance, rated, orgScreen, orgForm, home>>
  BY DEF CallFails
<1>2. OrgCallOK' BY <1>1, NoOrgCallOK
<1>3. FormOK' /\ HomeWithWaiver BY <1>1 DEF RowOK, OrgIInv, FormOK, HomeWithWaiver
<1> QED BY <1>1, <1>2, <1>3, AppStep DEF RowOK, OrgIInv, PlaceKnown

(* A call of the sign-up or of a form that the server has answered.        *)
LEMMA AnsweredOrgs ==
    ASSUME OrgIInv, orgCall.at \in CallAt, orgCall.to \in {"orgs", "waiver", "shifts"},
           Answered \/ Refused, UNCHANGED orgScreen,
           RowKept, orgCall.to = "waiver" => org'.waiver # "none"
    PROVE  OrgCallOK'
<1>1. OrgCallOK BY DEF RowOK, OrgIInv
<1>2. PICK c : c = orgCall' OBVIOUS
<1>3. CASE c = NoOrgCall BY <1>2, <1>3, NoOrgCallOK
<1>4. CASE c # NoOrgCall
  <2>1. /\ c = [orgCall EXCEPT !.at = "ok"] /\ orgCall.at # "orphan"
    BY <1>2, <1>4 DEF Answered, Refused
  <2>2. c \in FormCall \cup ShiftCall /\ c.to = orgCall.to /\ c.at = "ok"
    BY <1>1, <2>1, CallForms
  <2>3. orgCall.at \in {"sent", "ok"} BY <2>1 DEF CallAt
  <2>4. c.to = "shifts" => org'.placed = TRUE /\ orgScreen' \notin {"onboard", "loading"}
    BY <1>1, <2>2, <2>3 DEF RowOK, OrgCallOK, RowKept
  <2> QED BY <1>2, <2>2, <2>4 DEF OrgCallOK
<1> QED BY <1>3, <1>4

LEMMA ServesOrgs ==
    ASSUME OrgIInv, CreateOrg \/ SetWaiver \/ ListShift
    PROVE  OrgIInv' /\ StepOK
<1>1. FormOK /\ PlaceKnown /\ org \in OrgRec /\ OrgCallOK BY DEF RowOK, OrgIInv
<1>2. /\ UNCHANGED <<attendance, rated, orgScreen, orgForm, home>>
      /\ orgCall.at \in CallAt /\ orgCall.to \in {"orgs", "waiver", "shifts"}
      /\ Answered \/ Refused
  BY DEF CreateOrg, SetWaiver, ListShift, Served, CallAt
<1>3. /\ RowKept /\ (orgCall.to = "waiver" => org'.waiver # "none")
      /\ PlaceKnown'
  <2>1. CASE CreateOrg
    <3>1. org' = IF org.exists THEN org ELSE [NoOrg EXCEPT !.exists = TRUE, !.placed = TRUE]
      BY <2>1 DEF CreateOrg
    <3>2. PICK n : n = [NoOrg EXCEPT !.exists = TRUE, !.placed = TRUE] OBVIOUS
    <3>3. n \in OrgRec /\ n.exists = TRUE /\ n.placed = TRUE
      BY <3>2, OrgTypes DEF OrgRec
    <3>5. CASE org.exists = TRUE
      <4>1. org' = org BY <3>1, <3>5
      <4>2. RowKept BY <4>1, RowSame
      <4>3. PlaceKnown' BY <1>1, <1>2, <2>1, <4>1 DEF CreateOrg, PlaceKnown
      <4> QED BY <2>1, <4>2, <4>3 DEF CreateOrg
    <3>6. CASE org.exists = FALSE
      <4>1. org' = n BY <3>1, <3>2, <3>6
      <4>2. org.waiver = "none" /\ org.placed \in BOOLEAN BY <3>6 DEF OrgIInv, RowOK, OrgRec
      <4>3. RowKept BY <3>3, <3>6, <4>1, <4>2 DEF RowOK, RowKept
      <4> QED BY <1>1, <1>2, <2>1, <3>3, <4>1, <4>3 DEF CreateOrg, PlaceKnown
    <3> QED BY <1>1, <3>5, <3>6 DEF OrgRec
  <2>2. CASE SetWaiver
    <3>1. org' = [org EXCEPT !.waiver = orgCall.waiver] /\ orgCall.to = "waiver" BY <2>2 DEF SetWaiver
    <3>2. orgCall \in FormCall BY <1>1, <3>1, OrgTypes DEF OrgCallOK
    <3>3. orgCall.waiver \in Waiver /\ orgCall.waiver # "none" BY <3>2 DEF FormCall
    <3>4. /\ org' \in OrgRec /\ org'.waiver # "none" /\ org'.placed = org.placed
          /\ org'.exists = org.exists /\ org'.exists = TRUE
      BY <1>1, <2>2, <3>1, <3>3 DEF SetWaiver, OrgRec
    <3>5. RowKept BY <3>4 DEF RowOK, RowKept
    <3> QED BY <1>1, <1>2, <2>2, <3>4, <3>5 DEF SetWaiver, PlaceKnown
  <2>3. CASE ListShift
    <3>1. org' = org /\ orgCall.to = "shifts" BY <2>3 DEF ListShift
    <3>2. RowKept BY <3>1, RowSame
    <3>3. org.placed = TRUE BY <1>1, <3>1 DEF OrgCallOK
    <3>4. CASE UNCHANGED shift BY <1>1, <1>2, <3>1, <3>2, <3>4 DEF PlaceKnown
    <3>5. CASE ~UNCHANGED shift
      <4>1. shift' = [listed |-> TRUE, placed |-> PlaceOfShift(orgCall.own),
                      starts |-> zonedToUtc(orgCall.start), ends |-> zonedToUtc(orgCall.end)]
        BY <2>3, <3>5 DEF ListShift
      <4>2. shift'.placed = PlaceOfShift(orgCall.own) BY <4>1
      <4>3. orgCall.own \in BOOLEAN
        <5>1. orgCall \in ShiftCall BY <1>1, <3>1, OrgTypes DEF OrgCallOK
        <5> QED BY <5>1 DEF ShiftCall
      <4>4. PlaceOfShift(orgCall.own) = TRUE BY <3>3, <4>3 DEF PlaceOfShift
      <4> QED BY <1>1, <1>2, <3>1, <3>2, <4>2, <4>4 DEF PlaceKnown
    <3> QED BY <3>4, <3>5
  <2> QED BY <2>1, <2>2, <2>3
<1>4. OrgCallOK' BY <1>2, <1>3, AnsweredOrgs
<1>5. BookingKept BY <1>2, BookingSame
<1>6. FormOK' /\ HomeWithWaiver BY <1>1, <1>2 DEF FormOK, HomeWithWaiver
<1> QED BY <1>3, <1>4, <1>5, <1>6 DEF RowOK, OrgIInv, StepOK, RowKept, BookingKept

LEMMA OrgReplyOrgs ==
    ASSUME OrgIInv, OrgReply
    PROVE  OrgIInv' /\ StepOK
<1>1. FormOK /\ PlaceKnown /\ org \in OrgRec /\ OrgCallOK BY DEF RowOK, OrgIInv
<1>2. UNCHANGED <<org, shift, attendance, rated>> /\ orgCall.at = "ok" BY DEF OrgReply
<1>3. HomeOf(org).placed = org.placed /\ NoHome.placed = FALSE BY OrgTypes
<1>4. orgCall.to \in {"orgs", "waiver", "shifts"} /\ (orgCall.to # "shifts" => orgCall \in FormCall)
  BY <1>1, <1>2, OrgTypes DEF OrgCallOK
<1>5. CASE orgCall.to = "orgs"
  <2>1. /\ orgForm' = [orgForm EXCEPT !.created = TRUE]
        /\ orgCall' = [orgCall EXCEPT !.to = "waiver", !.at = "sent"]
        /\ UNCHANGED <<orgScreen, home>>
    BY <1>5 DEF OrgReply
  <2>2. FormOK' BY <1>1, <2>1 DEF FormOK
  <2>3. PICK c : c = [orgCall EXCEPT !.to = "waiver", !.at = "sent"] OBVIOUS
  <2>4. c \in FormCall /\ c.to = "waiver" /\ c.at = "sent" BY <1>1, <1>4, <1>5, <2>3, CallForms
  <2>5. OrgCallOK' BY <2>1, <2>3, <2>4 DEF OrgCallOK
  <2>6. HomeWithWaiver BY <2>1 DEF HomeWithWaiver
  <2> QED BY <1>1, <1>2, <2>1, <2>2, <2>5, <2>6, AppStep DEF PlaceKnown
<1>6. CASE orgCall.to = "waiver"
  <2>1. /\ orgCall' = NoOrgCall /\ orgScreen' = "home"
        /\ home' \in {HomeOf(org), NoHome} /\ orgForm' \in {orgForm, EmptyForm}
    BY <1>6 DEF OrgReply
  <2>2. FormOK' BY <1>1, <2>1, OrgTypes DEF FormOK
  <2>3. org.waiver # "none" BY <1>1, <1>2, <1>6 DEF OrgCallOK
  <2>4. HomeWithWaiver BY <2>3 DEF HomeWithWaiver
  <2>5. OrgCallOK' BY <2>1, NoOrgCallOK
  <2> QED BY <1>2, <1>3, <2>1, <2>2, <2>4, <2>5, AppStep
<1>7. CASE orgCall.to = "shifts"
  <2>1. /\ orgScreen' = "home" /\ orgCall' = NoOrgCall /\ UNCHANGED orgForm
        /\ home' \in {home, NoHome}
    BY <1>7 DEF OrgReply
  <2>2. orgScreen # "onboard" BY <1>1, <1>2, <1>7 DEF OrgCallOK
  <2>3. HomeWithWaiver BY <2>2 DEF HomeWithWaiver
  <2>4. OrgCallOK' BY <2>1, NoOrgCallOK
  <2>5. FormOK' BY <1>1, <2>1 DEF FormOK
  <2> QED BY <1>1, <1>2, <1>3, <2>1, <2>3, <2>4, <2>5, AppStep DEF PlaceKnown
<1> QED BY <1>4, <1>5, <1>6, <1>7

LEMMA StaffOrgs ==
    ASSUME OrgIInv, \/ HourPasses \/ ServeRoster
                    \/ \E on, override \in BOOLEAN : Verify(on, override)
                    \/ Book \/ CancelBooking \/ NotRecorded
                    \/ \E l \in lists : ShowRoster(l)
                    \/ \E a \in Act : Tap(a) \/ ServeAct(a) \/ LoseAct(a)
    PROVE  OrgIInv' /\ StepOK
<1>1. UNCHANGED <<shift, orgScreen, orgForm, orgCall, home>>
  BY DEF HourPasses, ServeRoster, Verify, Book, CancelBooking, NotRecorded, ShowRoster, Tap, ServeAct,
     LoseAct
<1>2. RowKept
  <2>1. CASE \E on, override \in BOOLEAN : Verify(on, override)
    <3>1. PICK on \in BOOLEAN : org' = [org EXCEPT !.verified = on] BY <2>1 DEF Verify
    <3> QED BY <3>1 DEF RowOK, OrgIInv, OrgRec, RowKept
  <2>2. CASE UNCHANGED org BY <2>2, RowSame
  <2> QED
    BY <2>1, <2>2 DEF HourPasses, ServeRoster, Book, CancelBooking, NotRecorded, ShowRoster, Tap,
       ServeAct, LoseAct
<1>3. BookingKept
  <2>1. RatedOK BY DEF RowOK, OrgIInv
  <2>2. CASE Book \/ CancelBooking \/ NotRecorded
    <3>1. attendance \in {"none", "confirmed"} /\ rated' = rated
      BY <2>2 DEF Book, CancelBooking, NotRecorded
    <3>2. attendance \notin AttendanceKnown \cup {"cancelled"} BY <3>1 DEF AttendanceKnown
    <3> QED BY <2>1, <3>1, <3>2 DEF BookingKept, RatedOK
  <2>3. ASSUME NEW a \in Act, ServeAct(a) PROVE BookingKept
    <3>1. attendance # "confirmed" => attendance' = attendance
      BY <2>3 DEF ServeAct, MayCheckIn, MayMarkNoShow
    <3>2. "confirmed" \notin AttendanceKnown \cup {"cancelled"} BY DEF AttendanceKnown
    <3>3. rated' = rated \/ attendance \in AttendanceKnown BY <2>3 DEF ServeAct, MayRate
    <3> HIDE DEF AttendanceKnown
    <3> QED BY <2>1, <3>1, <3>2, <3>3 DEF BookingKept, RatedOK
  <2>4. CASE UNCHANGED <<attendance, rated>> BY <2>4, BookingSame
  <2> QED
    BY <2>2, <2>3, <2>4 DEF HourPasses, ServeRoster, Verify, ShowRoster, Tap, LoseAct
<1> QED BY <1>1, <1>2, <1>3, ServerStep

LEMMA StepOrgs == OrgIInv /\ [OrgsNext]_orgVars => OrgIInv' /\ (StepOK \/ UNCHANGED orgVars)
<1> SUFFICES ASSUME OrgIInv, [OrgsNext]_orgVars PROVE OrgIInv' /\ (StepOK \/ UNCHANGED orgVars)
  OBVIOUS
<1>1. CASE UNCHANGED orgVars
  BY <1>1 DEF RowOK, orgVars, OrgIInv, OrgCallOK, PlaceKnown, FormOK, RatedOK
<1>2. CASE OrgsNext
  BY <1>2, NavigatesOrgs, FormsOrgs, SendsOrgs, CallFailsOrgs, ServesOrgs, OrgReplyOrgs, StaffOrgs
  DEF OrgsNext
<1> QED BY <1>1, <1>2

(* A recorded attendance and a called-off booking stay as they are, an     *)
(* organization keeps its place and its waiver, and its sign-up does not   *)
(* end without one, whatever the phones tap and whenever it arrives.       *)
THEOREM TapsAreSafe == OrgsSpec => RosterTapsSafe
<1>1. OrgsInit => OrgIInv BY InitOrgs
<1>2. OrgIInv /\ [OrgsNext]_orgVars => OrgIInv' BY StepOrgs
<1>3. OrgIInv => PlacedAndRated BY OrgInv
<1>4. OrgIInv /\ [OrgsNext]_orgVars
        => [/\ attendance \in AttendanceKnown \cup {"cancelled"} => attendance' = attendance
            /\ org.exists => org'.exists /\ org'.placed = org.placed
            /\ org.waiver # "none" => org'.waiver # "none"
            /\ orgScreen = "onboard" /\ orgScreen' = "home" => org.waiver # "none"]_orgVars
  <2> SUFFICES ASSUME OrgIInv, [OrgsNext]_orgVars, StepOK
      PROVE  /\ attendance \in AttendanceKnown \cup {"cancelled"} => attendance' = attendance
             /\ org.exists => org'.exists /\ org'.placed = org.placed
             /\ org.waiver # "none" => org'.waiver # "none"
             /\ orgScreen = "onboard" /\ orgScreen' = "home" => org.waiver # "none"
    BY StepOrgs
  <2>1. org.exists => org.exists = TRUE BY DEF RowOK, OrgIInv, OrgRec
  <2> QED BY <2>1 DEF RowOK, StepOK, RowKept, BookingKept, HomeWithWaiver
<1> QED BY <1>1, <1>2, <1>3, <1>4, PTL DEF OrgsSpec, RosterTapsSafe

-----------------------------------------------------------------------------
LEMMA LeastNatural ==
    ASSUME NEW T, T \subseteq Nat, T # {}
    PROVE  \E x \in T : \A y \in T : x <= y
<1> DEFINE R == OpToRel(<, Nat)
<1>1. IsWellFoundedOn(R, Nat) BY NatLessThanWellFounded
<1>2. \A x, y \in Nat : x < y => <<x, y>> \in R BY DEF OpToRel
<1> HIDE DEF R
<1>3. \E x \in T : \A y \in T : ~(<<y, x>> \in R) BY <1>1, WFMin
<1>4. PICK x \in T : \A y \in T : ~(<<y, x>> \in R) BY <1>3
<1>5. ASSUME NEW y \in T PROVE x <= y
  <2>1. x \in Nat /\ y \in Nat OBVIOUS
  <2>2. ~(y < x) BY <1>2, <1>4, <2>1
  <2> QED BY <2>1, <2>2
<1> QED BY <1>5

(* A finite set of times has a latest one, which is what Max chooses.      *)
HasLatest(X) == \E x \in X : \A y \in X : x >= y

LEMMA LatestExists ==
    ASSUME NEW S, IsFiniteSet(S), S \subseteq Int, S # {}
    PROVE  Max(S) \in S /\ \A y \in S : Max(S) >= y
<1> DEFINE Bad(n) == \E X \in SUBSET S : X # {} /\ Cardinality(X) = n /\ ~HasLatest(X)
           T == {n \in Nat : Bad(n)}
<1>1. ASSUME T # {} PROVE FALSE
  <2>1. PICK n \in T : \A m \in T : n <= m
    <3>1. T \subseteq Nat
      OBVIOUS
    <3> HIDE DEF T
    <3> QED BY <1>1, <3>1, LeastNatural
  <2>2. PICK X \in SUBSET S : X # {} /\ Cardinality(X) = n /\ ~HasLatest(X)
    OBVIOUS
  <2>3. PICK x : x \in X
    BY <2>2
  <2>4. IsFiniteSet(X)
    BY FS_Subset
  <2>5. /\ IsFiniteSet(X \ {x}) /\ Cardinality(X \ {x}) = n - 1 /\ Cardinality(X \ {x}) \in Nat
    BY <2>2, <2>3, <2>4, FS_RemoveElement, FS_CardinalityType
  <2>6. n - 1 \in Nat /\ n \in Nat
    BY <2>5
  <2>7. n - 1 \notin T
    <3> HIDE DEF T
    <3> QED BY <2>1, <2>6
  <2>8. X \ {x} = {} \/ HasLatest(X \ {x})
    BY <2>5, <2>6, <2>7
  <2>9. CASE X \ {x} = {}
    <3>1. X = {x} /\ x \in Int
      BY <2>3, <2>9
    <3> QED BY <2>2, <3>1 DEF HasLatest
  <2>10. CASE HasLatest(X \ {x})
    <3>1. PICK m \in X \ {x} : \A y \in X \ {x} : m >= y
      BY <2>10 DEF HasLatest
    <3>2. x \in Int /\ m \in Int /\ X \subseteq Int /\ m \in X
      BY <2>3
    <3>3. CASE m >= x
      <4>1. \A y \in X : m >= y
        BY <3>1, <3>2, <3>3
      <4> QED BY <2>2, <3>2, <4>1 DEF HasLatest
    <3>4. CASE x >= m
      <4>1. \A y \in X : x >= y
        BY <3>1, <3>2, <3>4
      <4> QED BY <2>2, <2>3, <4>1 DEF HasLatest
    <3> QED BY <3>2, <3>3, <3>4
  <2> QED BY <2>8, <2>9, <2>10
<1>2. Cardinality(S) \in Nat
  BY FS_CardinalityType
<1>3. HasLatest(S)
  BY <1>1, <1>2
<1> QED BY <1>3 DEF HasLatest, Max

(* The values of a function on a finite set are finitely many.             *)
LEMMA ValuesFinite ==
    ASSUME NEW S, IsFiniteSet(S), NEW f, DOMAIN f = S
    PROVE  IsFiniteSet({f[x] : x \in S})
<1> DEFINE T == {f[x] : x \in S}
           g == [x \in S |-> f[x]]
<1>1. g \in Surjection(S, T)
  BY DEF Surjection
<1> HIDE DEF T, g
<1>2. IsFiniteSet(T)
  BY <1>1, FS_Surjection
<1> QED BY <1>2 DEF T

-----------------------------------------------------------------------------
LEMMA TimeTyped == NudgeTypeOK => AppTime \in 0 .. LastHour + MaxMoved
BY ResurfaceAssumption DEF NudgeTypeOK, AppTime

(* The last activity is no earlier than any activity.                      *)
LEMMA ActivityIsLatest ==
    ASSUME NudgeTypeOK, NEW t \in Int
    PROVE  /\ LastActivity(t) \in Int
           /\ \A s \in Behind(t) : Calendar[s].ends <= LastActivity(t)
           /\ \A i \in DOMAIN nudged : nudged[i] <= LastActivity(t)
<1> DEFINE ended == {Calendar[s].ends : s \in Behind(t)}
           told == {nudged[i] : i \in DOMAIN nudged}
           S == {0, lastSearchEnd} \cup ended \cup told
<1>1. ended \subseteq Int /\ IsFiniteSet(ended)
  <2>1. Behind(t) \in SUBSET Listed /\ IsFiniteSet(Listed)
    BY ResurfaceAssumption DEF Behind, Listed
  <2>2. IsFiniteSet(Behind(t))
    BY <2>1, FS_Subset
  <2> DEFINE f == [s \in Behind(t) |-> Calendar[s].ends]
  <2>3. DOMAIN f = Behind(t) /\ \A s \in Behind(t) : f[s] = Calendar[s].ends
    OBVIOUS
  <2>4. {f[s] : s \in Behind(t)} = ended
    BY <2>3
  <2> HIDE DEF f, ended
  <2>5. IsFiniteSet({f[s] : s \in Behind(t)})
    BY <2>2, <2>3, ValuesFinite
  <2>6. \A s \in Listed : Calendar[s].ends \in Nat
    BY ResurfaceAssumption DEF Listed
  <2>7. ended \subseteq Int
    BY <2>1, <2>6 DEF ended
  <2> QED BY <2>4, <2>5, <2>7
<1>2. told \subseteq Int /\ IsFiniteSet(told)
  <2>1. DOMAIN nudged = 1 .. Len(nudged) /\ Len(nudged) \in Nat /\ \A i \in DOMAIN nudged : nudged[i] \in Nat
    BY DEF NudgeTypeOK
  <2>2. IsFiniteSet(DOMAIN nudged)
    <3>1. 1 \in Int /\ Len(nudged) \in Int
      BY <2>1
    <3> QED BY <2>1, <3>1, FS_Interval
  <2>3. IsFiniteSet({nudged[i] : i \in DOMAIN nudged})
    BY <2>2, ValuesFinite
  <2> QED BY <2>1, <2>3
<1>3. lastSearchEnd \in Int
  BY DEF NudgeTypeOK, Never
<1> HIDE DEF ended, told
<1>4. S \subseteq Int /\ S # {} /\ IsFiniteSet(S)
  <2>1. IsFiniteSet({0, lastSearchEnd})
    <3>1. IsFiniteSet({}) BY FS_EmptySet
    <3>2. IsFiniteSet({} \cup {0}) BY <3>1, FS_AddElement
    <3>3. IsFiniteSet(({} \cup {0}) \cup {lastSearchEnd}) BY <3>2, FS_AddElement
    <3>4. ({} \cup {0}) \cup {lastSearchEnd} = {0, lastSearchEnd} OBVIOUS
    <3> QED BY <3>3, <3>4
  <2>2. IsFiniteSet({0, lastSearchEnd} \cup ended)
    BY <1>1, <2>1, FS_Union
  <2>3. IsFiniteSet(S)
    BY <1>2, <2>2, FS_Union
  <2> QED BY <1>1, <1>2, <1>3, <2>3
<1>5. LastActivity(t) = Max(S)
  BY DEF LastActivity, ended, told
<1> HIDE DEF S
<1>6. LastActivity(t) \in Int /\ \A y \in S : y <= LastActivity(t)
  BY <1>4, <1>5, LatestExists
<1>7. /\ \A s \in Behind(t) : Calendar[s].ends \in S
      /\ \A i \in DOMAIN nudged : nudged[i] \in S
  BY DEF S, ended, told
<1> QED BY <1>6, <1>7

(* What the pass at time t tells the volunteer is timely.                  *)
LEMMA PassIsQuiet ==
    ASSUME NudgeTypeOK, NEW t \in Nat, NEW blocked, TickAt(t, blocked), nudged' # nudged
    PROVE  LET at == nudged'[Len(nudged')]
               quietFor(since) == at - since >= Cadence[frequency]
           IN /\ ~openSearch
              /\ \A i \in DOMAIN nudged : quietFor(nudged[i])
              /\ \A s \in Listed :
                    /\ held'[s] \in {"proposed", "confirmed"} => quietFor(Calendar[s].ends)
                    /\ held'[s] \in {"attended", "unverified"} /\ Calendar[s].ends <= at =>
                            quietFor(Calendar[s].ends)
              /\ \E s \in Listed : /\ Calendar[s].starts > at + Lead /\ Calendar[s].room >= 1
                                 /\ Calendar[s].miles <= TravelRadius
<1>1. nudged' = Append(nudged, t) /\ Due(t, blocked) /\ held' = Resolved(t)
  BY DEF TickAt
<1>2. nudged'[Len(nudged')] = t
  BY <1>1 DEF NudgeTypeOK
<1>3. Cadence[frequency] \in Nat /\ t - LastActivity(t) >= Cadence[frequency] /\ ~Busy(t)
  BY <1>1, ResurfaceAssumption DEF Due, NudgeTypeOK
<1>4. ~openSearch
  BY <1>3 DEF Busy
<1>5. \A i \in DOMAIN nudged : t - nudged[i] >= Cadence[frequency]
  <2>1. \A i \in DOMAIN nudged : nudged[i] \in Nat
    BY DEF NudgeTypeOK
  <2> QED BY <1>3, <2>1, ActivityIsLatest
<1>6. ASSUME NEW s \in Listed, s \in Behind(t) PROVE t - Calendar[s].ends >= Cadence[frequency]
  <2>1. Calendar[s].ends \in Nat
    BY ResurfaceAssumption DEF Listed
  <2> QED BY <1>3, <1>6, <2>1, ActivityIsLatest
<1>7. ASSUME NEW s \in Listed, held'[s] \in {"proposed", "confirmed"}
      PROVE  s \in Behind(t)
  <2>1. Calendar[s].starts \in Nat /\ Calendar[s].ends \in Nat /\ Calendar[s].starts < Calendar[s].ends
    BY ResurfaceAssumption DEF Listed
  <2>2. Resolved(t)[s] \in {"proposed", "confirmed"}
    BY <1>1, <1>7
  <2>3. Calendar[s].ends <= t
    BY <1>3, <2>1, <2>2 DEF Busy
  <2>4. Resolved(t)[s] # "proposed"
    BY <2>1, <2>3 DEF Resolved
  <2> QED BY <2>2, <2>3, <2>4 DEF Behind
<1>8. ASSUME NEW s \in Listed, held'[s] \in {"attended", "unverified"}, Calendar[s].ends <= t
      PROVE  s \in Behind(t)
  BY <1>1, <1>8 DEF Behind
<1>9. \E s \in Listed : /\ Calendar[s].starts > t + Lead /\ Calendar[s].room >= 1
                       /\ Calendar[s].miles <= TravelRadius
  BY <1>1 DEF Due, Upcoming, Fits
<1> QED BY <1>2, <1>4, <1>5, <1>6, <1>7, <1>8, <1>9

-----------------------------------------------------------------------------
(* The types.                                                              *)
LEMMA InitNudge == NudgeInit => NudgeTypeOK
<1> SUFFICES ASSUME NudgeInit PROVE NudgeTypeOK
  OBVIOUS
<1>1. LastHour \in Nat /\ MaxMoved \in Nat
  BY ResurfaceAssumption
<1>2. held \in [Listed -> {"none", "proposed", "confirmed", "attended", "unverified", "gone"}]
  BY DEF NudgeInit
<1>3. nudged \in Seq(Nat)
  BY DEF NudgeInit
<1>4. machineTime = 0 /\ offsetMs = 0 /\ lastRunMs = Never /\ lastSearchEnd = Never
  BY DEF NudgeInit
<1>5. frequency = NoFrequency /\ openSearch \in BOOLEAN
  BY DEF NudgeInit
<1>6. machineTime \in 0 .. LastHour /\ offsetMs \in 0 .. MaxMoved
  BY <1>1, <1>4
<1> QED BY <1>2, <1>3, <1>4, <1>5, <1>6 DEF NudgeTypeOK

LEMMA PassTyped ==
    ASSUME NudgeTypeOK, NEW t \in 0 .. LastHour + MaxMoved, NEW blocked, TickAt(t, blocked)
    PROVE  /\ lastRunMs' \in {Never} \cup 0 .. LastHour + MaxMoved
           /\ held' \in [Listed -> {"none", "proposed", "confirmed", "attended", "unverified", "gone"}]
           /\ nudged' \in Seq(Nat)
<1>1. t \in Nat
  BY ResurfaceAssumption
<1>2. held' = Resolved(t)
  BY DEF TickAt
<1>3. Resolved(t) \in [Listed -> {"none", "proposed", "confirmed", "attended", "unverified", "gone"}]
  BY DEF Resolved, NudgeTypeOK
<1>4. lastRunMs' \in {lastRunMs, t} /\ nudged' \in {nudged, Append(nudged, t)}
  BY DEF TickAt
<1>5. nudged' \in Seq(Nat)
  <2>1. nudged \in Seq(Nat)
    BY DEF NudgeTypeOK
  <2>2. Append(nudged, t) \in Seq(Nat)
    BY <1>1, <2>1
  <2> QED BY <1>4, <2>1, <2>2
<1>6. lastRunMs' \in {Never} \cup 0 .. LastHour + MaxMoved
  BY <1>4 DEF NudgeTypeOK
<1> QED BY <1>2, <1>3, <1>5, <1>6

LEMMA StepNudge == NudgeTypeOK /\ [NudgeNext]_nudgeVars => NudgeTypeOK'
<1> SUFFICES ASSUME NudgeTypeOK, [NudgeNext]_nudgeVars PROVE NudgeTypeOK'
  OBVIOUS
<1>1. /\ LastHour \in Nat /\ MaxMoved \in Nat /\ AppTime \in 0 .. LastHour + MaxMoved
  BY ResurfaceAssumption, TimeTyped
<1>2. CASE UNCHANGED nudgeVars
  BY <1>2 DEF nudgeVars, NudgeTypeOK
<1>3. CASE TimeGoesOn \/ ResetClock \/ ServerRestarts
  BY <1>1, <1>3 DEF NudgeTypeOK, TimeGoesOn, ResetClock, ServerRestarts, unclocked
<1>4. CASE OpenSearch
  BY <1>4 DEF NudgeTypeOK, OpenSearch, timers
<1>5. CASE EndSearch
  <2>1. Max({lastSearchEnd, AppTime}) \in {lastSearchEnd, AppTime}
    <3>1. IsFiniteSet({}) BY FS_EmptySet
    <3>2. IsFiniteSet({} \cup {lastSearchEnd}) BY <3>1, FS_AddElement
    <3>3. IsFiniteSet(({} \cup {lastSearchEnd}) \cup {AppTime}) BY <3>2, FS_AddElement
    <3>4. ({} \cup {lastSearchEnd}) \cup {AppTime} = {lastSearchEnd, AppTime} OBVIOUS
    <3>5. {lastSearchEnd, AppTime} \subseteq Int
      BY <1>1 DEF NudgeTypeOK, Never
    <3> QED BY <3>3, <3>4, <3>5, LatestExists
  <2> QED BY <1>1, <1>5, <2>1 DEF NudgeTypeOK, EndSearch, timers
<1>6. ASSUME NEW blocked, TickNow(blocked) PROVE NudgeTypeOK'
  <2>1. /\ TickAt(AppTime, blocked)
        /\ UNCHANGED <<machineTime, offsetMs, frequency, openSearch, lastSearchEnd>>
    BY <1>6 DEF TickNow
  <2> QED BY <1>1, <2>1, PassTyped DEF NudgeTypeOK
<1>7. ASSUME NEW blocked, NEW by \in 1 .. MaxMoved, AdvanceClock(by, blocked) PROVE NudgeTypeOK'
  <2>1. /\ TickAt(AppTime + by, blocked) /\ offsetMs + by <= MaxMoved /\ offsetMs' = offsetMs + by
        /\ UNCHANGED <<machineTime, frequency, openSearch, lastSearchEnd>>
    BY <1>7 DEF AdvanceClock
  <2>2. AppTime + by \in 0 .. LastHour + MaxMoved /\ offsetMs' \in 0 .. MaxMoved
    BY <1>1, <2>1 DEF NudgeTypeOK, AppTime
  <2> QED BY <2>1, <2>2, PassTyped DEF NudgeTypeOK
<1>8. ASSUME NEW f \in DOMAIN Cadence, SetFrequency(f) PROVE NudgeTypeOK'
  BY <1>8 DEF NudgeTypeOK, SetFrequency, timers
<1>9. ASSUME NEW s \in Listed, NEW to \in {"proposed", "confirmed", "attended", "gone"}, BookingTurns(s, to)
      PROVE  NudgeTypeOK'
  BY <1>9 DEF NudgeTypeOK, BookingTurns, timers
<1> QED BY <1>2, <1>3, <1>4, <1>5, <1>6, <1>7, <1>8, <1>9 DEF NudgeNext

(* A step that tells the volunteer something is a pass.                    *)
LEMMA NudgedByPass ==
    ASSUME NudgeTypeOK, NudgeNext, nudged' # nudged
    PROVE  \E t \in Nat, blocked \in BOOLEAN : TickAt(t, blocked)
<1>1. AppTime \in Nat /\ MaxMoved \in Nat
  BY ResurfaceAssumption, TimeTyped
<1>2. \/ \E blocked \in BOOLEAN : TickNow(blocked)
      \/ \E blocked \in BOOLEAN, by \in 1 .. MaxMoved : AdvanceClock(by, blocked)
  BY DEF NudgeNext, TimeGoesOn, ResetClock, ServerRestarts, OpenSearch, EndSearch, SetFrequency,
         BookingTurns, unclocked
<1>3. ASSUME NEW blocked \in BOOLEAN, TickNow(blocked) PROVE TickAt(AppTime, blocked)
  BY <1>3 DEF TickNow
<1>4. ASSUME NEW blocked \in BOOLEAN, NEW by \in 1 .. MaxMoved, AdvanceClock(by, blocked)
      PROVE  TickAt(AppTime + by, blocked) /\ AppTime + by \in Nat
  BY <1>1, <1>4 DEF AdvanceClock
<1> QED BY <1>1, <1>2, <1>3, <1>4

(* A nudge comes only to a volunteer who has been quiet for a whole period *)
(* of theirs, is not busy and can reach a shift that has room, also when   *)
(* the clock was moved or the server restarted (lib/resurface.js).         *)
THEOREM NudgesAreQuiet == NudgeSpec => NudgedWhenQuiet /\ []NudgeTypeOK
<1> DEFINE Quiet ==
        nudged' # nudged =>
          LET at == nudged'[Len(nudged')]
              quietFor(since) == at - since >= Cadence[frequency]
          IN /\ ~openSearch
             /\ \A i \in DOMAIN nudged : quietFor(nudged[i])
             /\ \A s \in Listed :
                    /\ held'[s] \in {"proposed", "confirmed"} => quietFor(Calendar[s].ends)
                    /\ held'[s] \in {"attended", "unverified"} /\ Calendar[s].ends <= at =>
                            quietFor(Calendar[s].ends)
             /\ \E s \in Listed : /\ Calendar[s].starts > at + Lead /\ Calendar[s].room >= 1
                                /\ Calendar[s].miles <= TravelRadius
<1>1. NudgeTypeOK /\ [NudgeNext]_nudgeVars => [Quiet]_nudgeVars
  <2> SUFFICES ASSUME NudgeTypeOK, NudgeNext, nudged' # nudged PROVE Quiet
    BY DEF nudgeVars
  <2>1. PICK t \in Nat, blocked \in BOOLEAN : TickAt(t, blocked)
    BY NudgedByPass
  <2> QED BY <2>1, PassIsQuiet
<1> QED BY <1>1, InitNudge, StepNudge, PTL DEF NudgeSpec, NudgedWhenQuiet

=============================================================================
