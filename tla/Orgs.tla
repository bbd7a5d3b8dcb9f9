-------------------------------- MODULE Orgs --------------------------------
(***************************************************************************)
(* The organization's side (routes/org.js, shifts.js, routes/admin.js and  *)
(* the four org screens): signing an organization up in two calls, its     *)
(* verification by staff, listing a shift, and the roster of the day,      *)
(* whose buttons act on the last list the phone happened to receive.       *)
(*                                                                         *)
(* Abstractions: one organization, one shift and one booking.  Names, tags *)
(* and texts are left out; a place is known or not.  A call carries the    *)
(* form as it was when its button was pressed; of the forms one call is on *)
(* its way at a time.  The end of publish goes back one screen, whichever  *)
(* is shown by then; an app that was started anew hears no old answer.     *)
(* Time counts in hours of UTC; one change of the clocks lies in the day.  *)
(***************************************************************************)
EXTENDS Integers, FiniteSets

CONSTANTS
    Change,         \* the hour (UTC) at which the clocks change
    LocalHour,      \* the hours a orgForm may name
    MaxHour,        \* bound: time
    Score,           \* the ratings given
    MaxCalls        \* bound: acts and lists of the roster in flight, of each

Waiver == {"none", "default", "photo"}
AttendanceKnown == {"attended", "no_show"}
OnRoster == {"confirmed", "unverified"} \cup AttendanceKnown
NoRate == 0

VARIABLES
    org,        \* orgs: the row, verified, waiver_kind and the place
    shift,      \* shifts: the listed shift, its place and its hours
    attendance, \* bookings.status of a volunteer on the shift
    rated,      \* org_volunteer_ratings of that booking
    orgScreen,  \* App.js: "loading", "onboard", "home", "orgForm" or "roster"
    orgForm,       \* OrgOnboardScreen: coords, orgCreated, waiver
    orgCall,       \* the orgCall a screen's busy flag stands for
    home,       \* OrgHomeScreen: org as it was last received
    roster,     \* OrgRosterScreen: data as it was last received
    acts,       \* the roster's calls in flight
    lists,      \* replies of GET .../roster in flight
    clockHour

orgVars == <<org, shift, attendance, rated, orgScreen, orgForm, orgCall, home, roster, acts, lists, clockHour>>

NoOrg == [exists |-> FALSE, placed |-> FALSE, verified |-> FALSE, waiver |-> "none"]
NoShift == [listed |-> FALSE, placed |-> FALSE, starts |-> 0, ends |-> 0]
EmptyForm == [coords |-> FALSE, created |-> FALSE, waiver |-> "none"]
NoOrgCall == [to |-> "none", at |-> "idle"]
Left(c) == IF c.at = "sent" THEN [c EXCEPT !.at = "orphan"] ELSE IF c.at = "ok" THEN NoOrgCall ELSE c
NoHome == [exists |-> FALSE, placed |-> FALSE, waiver |-> "none"]
HomeOf(o) == [exists |-> TRUE, placed |-> o.placed, waiver |-> o.waiver]
NoRoster == [status |-> "unknown", rate |-> NoRate]
Act == {[to |-> k, rate |-> NoRate] : k \in {"check-in", "no-show"}} \cup {[to |-> "rate", rate |-> r] : r \in Score}
Snapshot == [status |-> attendance, rate |-> rated]

-----------------------------------------------------------------------------
(* zonedToUtc: the offset of the guess, not of the answer, is taken.       *)
OffsetAt(utc) == IF utc < Change THEN 2 ELSE 1
zonedToUtc(local) == local + OffsetAt(local)

(* The form compares the times as they were picked.                        *)
FormValid(start, end) == end > start
Listable(starts, ends) == ends > starts /\ starts > clockHour

(* What volunteers may be matched into, and shown.                         *)
VisibleShift == shift.listed /\ org.verified /\ shift.starts > clockHour

OrgsInit ==
    /\ org \in {NoOrg, [NoOrg EXCEPT !.exists = TRUE]}
    /\ shift = NoShift /\ attendance = "none" /\ rated = NoRate /\ orgScreen = "loading"
    /\ orgForm = EmptyForm /\ orgCall = NoOrgCall /\ home = NoHome /\ roster = NoRoster
    /\ acts = {} /\ lists = {} /\ clockHour = 0

HourPasses ==
    /\ clockHour < MaxHour /\ clockHour' = clockHour + 1
    /\ UNCHANGED <<org, shift, attendance, rated, orgScreen, orgForm, orgCall, home, roster, acts, lists>>

-----------------------------------------------------------------------------
(* The app                                                                 *)

(* Starting the app again forgets every screen; calls on their way may     *)
(* still arrive.  loadOrgState then asks whether there is an organization. *)
StartApp ==
    /\ orgScreen' = "loading" /\ orgForm' = EmptyForm /\ home' = NoHome /\ roster' = NoRoster
    /\ orgCall' = Left(orgCall)
    /\ lists' = {} /\ orgScreen # "loading"
    /\ UNCHANGED <<org, shift, attendance, rated, acts, clockHour>>
loadOrgState ==
    /\ orgScreen = "loading" /\ orgScreen' = IF org.exists THEN "home" ELSE "onboard"
    /\ UNCHANGED <<org, shift, attendance, rated, orgForm, orgCall, home, roster, acts, lists, clockHour>>

(* The ways between the screens, none of them closed during a call.        *)
Open(screen) ==
    /\ \/ orgScreen = "home" /\ screen = "orgForm" /\ home.placed
       \/ orgScreen = "home" /\ screen = "roster" /\ shift.listed
       \/ orgScreen \in {"orgForm", "roster"} /\ screen = "home"
    /\ orgScreen' = screen /\ roster' = NoRoster /\ lists' = {} /\ home' = NoHome
    /\ orgForm' = EmptyForm /\ orgCall' = IF orgCall.to = "shifts" THEN orgCall ELSE Left(orgCall)
    /\ UNCHANGED <<org, shift, attendance, rated, acts, clockHour>>

(* OrgHomeScreen.load.                                                     *)
LoadHome ==
    /\ orgScreen = "home" /\ home' = HomeOf(org)
    /\ UNCHANGED <<org, shift, attendance, rated, orgScreen, orgForm, orgCall, roster, acts, lists, clockHour>>

(* WaiverPicker, on the onboarding screen or on the card of the home.      *)
ChooseWaiver(w) ==
    /\ orgScreen \in {"onboard", "home"} /\ w # orgForm.waiver
    /\ orgScreen = "home" => home.exists /\ home.waiver = "none"
    /\ orgForm' = [orgForm EXCEPT !.waiver = w]
    /\ UNCHANGED <<org, shift, attendance, rated, orgScreen, orgCall, home, roster, acts, lists, clockHour>>
(* The place is taken from the phone, or typed anew and not known yet.     *)
PlaceTaken(known) ==
    /\ orgScreen = "onboard" /\ orgForm' = [orgForm EXCEPT !.coords = known]
    /\ UNCHANGED <<org, shift, attendance, rated, orgScreen, orgCall, home, roster, acts, lists, clockHour>>

(* OrgOnboardScreen.submit: a typed place is looked up first, and a press  *)
(* after the row was made goes on with the waiver alone.                   *)
submit(found) ==
    /\ orgScreen = "onboard" /\ orgCall.at = "idle" /\ orgForm.waiver # "none"
    /\ orgForm.created \/ orgForm.coords \/ found
    /\ orgForm' = [orgForm EXCEPT !.coords = @ \/ found]
    /\ orgCall' = [to |-> IF orgForm.created THEN "waiver" ELSE "orgs", at |-> "sent", waiver |-> orgForm.waiver]
    /\ UNCHANGED <<org, shift, attendance, rated, orgScreen, home, roster, acts, lists, clockHour>>
saveWaiver ==
    /\ orgScreen = "home" /\ home.exists /\ home.waiver = "none" /\ orgForm.waiver # "none"
    /\ orgCall.at = "idle" /\ orgCall' = [to |-> "waiver", at |-> "sent", waiver |-> orgForm.waiver]
    /\ UNCHANGED <<org, shift, attendance, rated, orgScreen, orgForm, home, roster, acts, lists, clockHour>>

(* OrgShiftFormScreen.publish, with a place of its own or none.            *)
publish(s, e, own) ==
    /\ orgScreen = "orgForm" /\ orgCall.at = "idle" /\ ~shift.listed /\ FormValid(s, e)
    /\ orgCall' = [to |-> "shifts", at |-> "sent", start |-> s, end |-> e, own |-> own]
    /\ UNCHANGED <<org, shift, attendance, rated, orgScreen, orgForm, home, roster, acts, lists, clockHour>>

-----------------------------------------------------------------------------
(* The server                                                              *)

Answered == orgCall' = IF orgCall.at = "orphan" THEN NoOrgCall ELSE [orgCall EXCEPT !.at = "ok"]
Refused == orgCall' = NoOrgCall
Served == orgCall.at \in {"sent", "orphan"}

(* POST /orgs: coordinates are required, and submit never calls without; a *)
(* second call is answered 409, which the screen takes for the row of an   *)
(* earlier try.                                                            *)
CreateOrg ==
    /\ Served /\ orgCall.to = "orgs"
    /\ org' = IF org.exists THEN org ELSE [NoOrg EXCEPT !.exists = TRUE, !.placed = TRUE]
    /\ Answered
    /\ UNCHANGED <<shift, attendance, rated, orgScreen, orgForm, home, roster, acts, lists, clockHour>>

(* POST /orgs/mine/waiver: the default form, or an uploaded one.           *)
SetWaiver ==
    /\ Served /\ orgCall.to = "waiver" /\ org.exists
    /\ org' = [org EXCEPT !.waiver = orgCall.waiver] /\ Answered
    /\ UNCHANGED <<shift, attendance, rated, orgScreen, orgForm, home, roster, acts, lists, clockHour>>

(* POST /orgs/mine/shifts, also before verification.                       *)
PlaceOfShift(own) == own \/ org.placed
ListShift ==
    /\ Served /\ orgCall.to = "shifts"
    /\ LET s == zonedToUtc(orgCall.start)
           e == zonedToUtc(orgCall.end)
       IN IF Listable(s, e) /\ ~shift.listed
          THEN /\ shift' = [listed |-> TRUE, placed |-> PlaceOfShift(orgCall.own), starts |-> s, ends |-> e]
               /\ Answered
          ELSE Refused /\ UNCHANGED shift
    /\ UNCHANGED <<org, attendance, rated, orgScreen, orgForm, home, roster, acts, lists, clockHour>>

(* The rest of the screen's function, or an error when a call or its       *)
(* answer was lost.                                                        *)
OrgReply ==
    /\ orgCall.at = "ok"
    /\ CASE orgCall.to = "orgs" ->
              /\ orgForm' = [orgForm EXCEPT !.created = TRUE]
              /\ orgCall' = [orgCall EXCEPT !.to = "waiver", !.at = "sent"]
              /\ UNCHANGED <<orgScreen, home>>
         [] orgCall.to = "waiver" ->
              /\ orgCall' = NoOrgCall /\ orgScreen' = "home"
              /\ home' = IF orgScreen = "home" THEN HomeOf(org) ELSE NoHome
              /\ orgForm' = IF orgScreen = "home" THEN orgForm ELSE EmptyForm
         [] orgCall.to = "shifts" ->
              /\ orgScreen' = "home" /\ orgCall' = NoOrgCall /\ UNCHANGED orgForm
              /\ home' = IF orgScreen = "home" THEN home ELSE NoHome
    /\ roster' = IF orgScreen' = "home" THEN NoRoster ELSE roster
    /\ lists' = IF orgScreen' = "home" THEN {} ELSE lists
    /\ UNCHANGED <<org, shift, attendance, rated, acts, clockHour>>
CallFails ==
    /\ orgCall.at # "idle" /\ orgCall' = NoOrgCall
    /\ UNCHANGED <<org, shift, attendance, rated, orgScreen, orgForm, home, roster, acts, lists, clockHour>>

(* POST /admin/orgs/:id/verify: an organization without a place takes an   *)
(* explicit override.                                                      *)
MayVerify(on, override) == on => org.placed \/ override
Verify(on, override) ==
    /\ org.exists /\ MayVerify(on, override)
    /\ org' = [org EXCEPT !.verified = on]
    /\ UNCHANGED <<shift, attendance, rated, orgScreen, orgForm, orgCall, home, roster, acts, lists, clockHour>>

-----------------------------------------------------------------------------
(* The booking: made, cancelled or settled elsewhere                       *)

Book ==
    /\ attendance = "none" /\ VisibleShift /\ attendance' = "confirmed"
    /\ UNCHANGED <<org, shift, rated, orgScreen, orgForm, orgCall, home, roster, acts, lists, clockHour>>
CancelBooking ==
    /\ attendance = "confirmed" /\ attendance' = "cancelled"
    /\ UNCHANGED <<org, shift, rated, orgScreen, orgForm, orgCall, home, roster, acts, lists, clockHour>>
NotRecorded ==
    /\ attendance = "confirmed" /\ clockHour > shift.ends /\ attendance' = "unverified"
    /\ UNCHANGED <<org, shift, rated, orgScreen, orgForm, orgCall, home, roster, acts, lists, clockHour>>

-----------------------------------------------------------------------------
(* The roster                                                              *)

(* GET /orgs/mine/shifts/:id/roster; a later reply may be an earlier list. *)
ServeRoster ==
    /\ orgScreen = "roster" /\ Cardinality(lists) < MaxCalls
    /\ lists' = lists \cup {IF attendance \in OnRoster THEN Snapshot ELSE NoRoster}
    /\ UNCHANGED <<org, shift, attendance, rated, orgScreen, orgForm, orgCall, home, roster, acts, clockHour>>
ShowRoster(l) ==
    /\ orgScreen = "roster" /\ l \in lists /\ lists' = lists \ {l} /\ roster' = l
    /\ UNCHANGED <<org, shift, attendance, rated, orgScreen, orgForm, orgCall, home, acts, clockHour>>

(* The buttons of the row as it is shown; none is ever off.                *)
Offered(a) ==
    IF a.to = "rate" THEN roster.status \in AttendanceKnown /\ roster.rate = NoRate
    ELSE roster.status = "confirmed"
Tap(a) ==
    /\ orgScreen = "roster" /\ Offered(a) /\ Cardinality(acts) < MaxCalls
    /\ acts' = acts \cup {a}
    /\ UNCHANGED <<org, shift, attendance, rated, orgScreen, orgForm, orgCall, home, roster, lists, clockHour>>

(* checkIn and markNoShow look at the booking as it is by now.             *)
MayCheckIn == attendance = "confirmed" /\ clockHour >= shift.starts - 2
(* Mutant: a recorded attendance can be taken back. *)
MayMarkNoShowAgain == attendance \in {"confirmed", "attended"} /\ clockHour >= shift.starts
MayMarkNoShow == attendance = "confirmed" /\ clockHour >= shift.starts
MayRate == attendance \in AttendanceKnown

ServeAct(a) ==
    /\ a \in acts /\ acts' = acts \ {a}
    /\ attendance' = CASE a.to = "check-in" /\ MayCheckIn -> "attended"
                    [] a.to = "no-show" /\ MayMarkNoShow -> "no_show"
                    [] OTHER -> attendance
    /\ rated' = IF a.to = "rate" /\ MayRate THEN a.rate ELSE rated
    /\ UNCHANGED <<org, shift, orgScreen, orgForm, orgCall, home, roster, lists, clockHour>>
LoseAct(a) ==
    /\ a \in acts /\ acts' = acts \ {a}
    /\ UNCHANGED <<org, shift, attendance, rated, orgScreen, orgForm, orgCall, home, roster, lists, clockHour>>

-----------------------------------------------------------------------------
OrgsNext ==
    \/ HourPasses \/ StartApp \/ loadOrgState \/ LoadHome
    \/ \E screen \in {"orgForm", "roster", "home"} : Open(screen)
    \/ \E w \in Waiver : ChooseWaiver(w)
    \/ \E found \in BOOLEAN : PlaceTaken(found) \/ submit(found)
    \/ saveWaiver
    \/ \E s, e \in LocalHour, own \in BOOLEAN : publish(s, e, own)
    \/ CreateOrg \/ SetWaiver \/ ListShift \/ OrgReply \/ CallFails
    \/ \E on, override \in BOOLEAN : Verify(on, override)
    \/ Book \/ CancelBooking \/ NotRecorded \/ ServeRoster
    \/ \E l \in lists : ShowRoster(l)
    \/ \E a \in Act : Tap(a) \/ ServeAct(a) \/ LoseAct(a)

OrgsSpec == OrgsInit /\ [][OrgsNext]_orgVars

OrgsTypeOK ==
    /\ org \in [exists : BOOLEAN, placed : BOOLEAN, verified : BOOLEAN, waiver : Waiver]
    /\ shift \in [listed : BOOLEAN, placed : BOOLEAN, starts : 0 .. MaxHour + 9, ends : 0 .. MaxHour + 9]
    /\ attendance \in OnRoster \cup {"none", "cancelled"} /\ rated \in Score \cup {NoRate}
    /\ orgForm \in [coords : BOOLEAN, created : BOOLEAN, waiver : Waiver]
    /\ home \in [exists : BOOLEAN, placed : BOOLEAN, waiver : Waiver]
    /\ acts \subseteq Act /\ clockHour \in 0 .. MaxHour

(* What volunteers are shown has a place to measure their travel from,     *)
(* although the server lists shifts without and staff may verify an        *)
(* organization without: the app of one that has no place offers no form.  *)
(* No rating stands without a recorded attendance.                         *)
PlacedAndRated ==
    /\ VisibleShift => shift.placed
    /\ rated # NoRate => attendance \in AttendanceKnown

(* Whatever the organization taps on a list that is out of date, twice or  *)
(* late, an attendance that was recorded stays as it was, so the Deeds it  *)
(* settled are settled once; a tap on an old list never records one for a  *)
(* booking that was called off; and an organization is made once and keeps *)
(* a waiver however often its sign-up is tried again.                      *)
RosterTapsSafe ==
    /\ PlacedAndRated
    /\ [][ /\ PlacedAndRated'
           /\ attendance \in AttendanceKnown \cup {"cancelled"} => attendance' = attendance
           /\ org.exists => org'.exists /\ org'.placed = org.placed
           /\ org.waiver # "none" => org'.waiver # "none"
           /\ orgScreen = "onboard" /\ orgScreen' = "home" => org.waiver # "none" ]_orgVars
=============================================================================
