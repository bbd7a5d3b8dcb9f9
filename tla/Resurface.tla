----------------------------- MODULE Resurface -----------------------------
(***************************************************************************)
(* The nudges of a quiet volunteer (lib/resurface.js): one volunteer, the  *)
(* shifts of the calendar, the pass over the volunteers that every tick    *)
(* makes at most once an hour, and a clock that staff move forward, reset, *)
(* or lose with the memory of the process, together with the time of the   *)
(* last pass.                                                              *)
(*                                                                         *)
(* Abstractions: the clock in units, an hour being Hour of them; every     *)
(* search is a new one; a pass may find the volunteer eligible or not, as  *)
(* verification, reviews, pauses and the month's cap are other components. *)
(***************************************************************************)
EXTENDS Integers, Sequences, FiniteSetsExt

CONSTANTS
    Hour,               \* HOUR
    Day,                \* ATTENDANCE_AUTO_RESOLVE_MS
    Lead,               \* MIN_LEAD_MS
    Horizon,            \* RESURFACE_HORIZON_MS
    Cadence,            \* RESURFACE_CADENCE_DAYS, by frequency
    Calendar,           \* shifts: a sequence of [starts, ends, causeGate, miles, room]
    TravelRadius,       \* travel_radius_miles
    MaxMoved, LastHour  \* bounds: of clock moves, and of the machine's clock

ASSUME ResurfaceAssumption ==
    /\ Hour \in Nat \ {0} /\ {Day, Lead, Horizon, MaxMoved, LastHour} \subseteq Nat
    /\ \A f \in DOMAIN Cadence : Cadence[f] \in Nat \ {0}
    /\ IsFiniteSet(DOMAIN Calendar)
    /\ \A s \in DOMAIN Calendar :
        {Calendar[s].starts, Calendar[s].ends} \subseteq Nat /\ Calendar[s].starts < Calendar[s].ends

VARIABLES
    machineTime,        \* Date.now()
    offsetMs,           \* the clock's offset, in memory
    lastRunMs,          \* the time of the last pass, in memory
    frequency,          \* volunteering_frequency
    openSearch,         \* a search is searching or proposed
    lastSearchEnd,      \* the latest ended_at
    held,               \* by shift: the status of the volunteer's booking, or none
    nudged              \* the times of the volunteer's nudges, in order

nudgeVars ==
    <<machineTime, offsetMs, lastRunMs, frequency, openSearch, lastSearchEnd, held, nudged>>
unclocked == <<frequency, openSearch, lastSearchEnd, held, nudged>>
timers == <<machineTime, offsetMs, lastRunMs>>

Listed == DOMAIN Calendar
Never == -1
NoFrequency == "none"

AppTime == machineTime + offsetMs

Throttled(t) == lastRunMs # Never /\ t >= lastRunMs /\ t - lastRunMs < Hour

(* The bookings a tick resolves before the pass: a proposal nobody took in *)
(* time, and a booking the org did not mark within a day of the shift.     *)
Resolved(t) ==
    [s \in Listed |->
        IF held[s] = "proposed" /\ Calendar[s].starts <= t THEN "gone"
        ELSE IF held[s] = "confirmed" /\ Calendar[s].ends <= t - Day THEN "unverified"
        ELSE held[s]]

(* CANDIDATES_SQL: busy, and the ends of the shifts behind the volunteer,  *)
(* with the bookings as the tick leaves them.                              *)
Busy(t) ==
    openSearch
    \/ \E s \in Listed : Resolved(t)[s] \in {"proposed", "confirmed"} /\ Calendar[s].ends > t
Behind(t) ==
    {s \in Listed : Resolved(t)[s] \in {"attended", "unverified", "confirmed"} /\ Calendar[s].ends <= t}

(* The volunteer joined at time 0.                                         *)
(* Mutant: an earlier nudge is no activity. *)
LastActivityIgnoresNudges(t) == Max({0, lastSearchEnd} \cup {Calendar[s].ends : s \in Behind(t)})
LastActivity(t) ==
    Max({0, lastSearchEnd} \cup {Calendar[s].ends : s \in Behind(t)}
            \cup {nudged[i] : i \in DOMAIN nudged})

(* visibleShifts from the lead time on, and fits.                          *)
Upcoming(t) ==
    {s \in Listed : /\ Calendar[s].starts > t + Lead /\ Calendar[s].starts <= t + Horizon
                    /\ Calendar[s].room >= 1}
Fits(s) == Calendar[s].causeGate /\ Calendar[s].miles <= TravelRadius

Due(t, blocked) ==
    /\ frequency # NoFrequency /\ ~Busy(t)
    /\ t - LastActivity(t) >= Cadence[frequency]
    /\ ~blocked
    /\ \E s \in Upcoming(t) : Fits(s)

(* A tick: the bookings, then the pass.                                    *)
TickAt(t, blocked) ==
    /\ held' = Resolved(t)
    /\ IF Throttled(t) THEN UNCHANGED <<lastRunMs, nudged>>
       ELSE /\ lastRunMs' = t
            /\ nudged' = IF Due(t, blocked) THEN Append(nudged, t) ELSE nudged
-----------------------------------------------------------------------------
NudgeInit ==
    /\ machineTime = 0 /\ offsetMs = 0 /\ lastRunMs = Never
    /\ frequency = NoFrequency
    /\ openSearch = FALSE /\ lastSearchEnd = Never
    /\ held = [s \in Listed |-> "none"] /\ nudged = <<>>

TimeGoesOn ==
    /\ machineTime < LastHour /\ machineTime' = machineTime + 1
    /\ UNCHANGED <<offsetMs, lastRunMs, unclocked>>

TickNow(blocked) ==
    /\ TickAt(AppTime, blocked)
    /\ UNCHANGED <<machineTime, offsetMs, frequency, openSearch, lastSearchEnd>>

(* POST /dev/clock/advance ends with a tick; /dev/clock/reset does not.    *)
AdvanceClock(by, blocked) ==
    /\ offsetMs + by <= MaxMoved /\ offsetMs' = offsetMs + by
    /\ TickAt(AppTime + by, blocked)
    /\ UNCHANGED <<machineTime, frequency, openSearch, lastSearchEnd>>
ResetClock ==
    /\ offsetMs' = 0 /\ UNCHANGED <<machineTime, lastRunMs, unclocked>>

ServerRestarts ==
    /\ offsetMs' = 0 /\ lastRunMs' = Never /\ UNCHANGED <<machineTime, unclocked>>

(* PATCH /users/me.                                                        *)
SetFrequency(f) ==
    /\ frequency' = f /\ UNCHANGED <<timers, openSearch, lastSearchEnd, held, nudged>>

OpenSearch ==
    /\ ~openSearch /\ openSearch' = TRUE
    /\ UNCHANGED <<timers, frequency, lastSearchEnd, held, nudged>>
EndSearch ==
    /\ openSearch /\ openSearch' = FALSE /\ lastSearchEnd' = Max({lastSearchEnd, AppTime})
    /\ UNCHANGED <<timers, frequency, held, nudged>>

(* What a booking on a shift may become, and until or from when; gone is   *)
(* cancelled before the shift or a no-show after its start.                *)
Turns(s) ==
    CASE held[s] = "none" -> IF s \in Upcoming(AppTime) /\ Fits(s) THEN {"proposed", "confirmed"} ELSE {}
      [] held[s] = "proposed" -> {"gone"} \cup (IF Calendar[s].starts > AppTime THEN {"confirmed"} ELSE {})
      [] held[s] = "confirmed" ->
            {"gone"} \cup (IF AppTime >= Calendar[s].starts - 2 * Hour THEN {"attended"} ELSE {})
      [] OTHER -> {}
BookingTurns(s, to) ==
    /\ to \in Turns(s) /\ held' = [held EXCEPT ![s] = to]
    /\ UNCHANGED <<timers, frequency, openSearch, lastSearchEnd, nudged>>

NudgeNext ==
    \/ TimeGoesOn \/ ResetClock \/ ServerRestarts \/ OpenSearch \/ EndSearch
    \/ \E blocked \in BOOLEAN :
            TickNow(blocked) \/ \E by \in 1 .. MaxMoved : AdvanceClock(by, blocked)
    \/ \E f \in DOMAIN Cadence : SetFrequency(f)
    \/ \E s \in Listed, to \in {"proposed", "confirmed", "attended", "gone"} :
            BookingTurns(s, to)
NudgeSpec == NudgeInit /\ [][NudgeNext]_nudgeVars
-----------------------------------------------------------------------------
NudgeTypeOK ==
    /\ machineTime \in 0 .. LastHour /\ offsetMs \in 0 .. MaxMoved
    /\ lastRunMs \in {Never} \cup 0 .. LastHour + MaxMoved
    /\ frequency \in DOMAIN Cadence \cup {NoFrequency} /\ openSearch \in BOOLEAN
    /\ lastSearchEnd \in {Never} \cup 0 .. LastHour + MaxMoved
    /\ held \in [Listed -> {"none", "proposed", "confirmed", "attended", "unverified", "gone"}]
    /\ nudged \in Seq(Nat)

(* A nudge comes only to a quiet volunteer: a whole period of theirs after *)
(* each nudge before it, also when the clock was moved and reset or the    *)
(* server restarted in between, a period after every shift they went to,   *)
(* with no search open and no shift ahead, and only for a shift that has   *)
(* room and is within reach.  A shift they are checked in to and that has  *)
(* not ended yet is no exception the code makes.                           *)
NudgedWhenQuiet ==
    [][nudged' # nudged =>
          LET at == nudged'[Len(nudged')]
              quietFor(since) == at - since >= Cadence[frequency]
          IN /\ ~openSearch
             /\ \A i \in DOMAIN nudged : quietFor(nudged[i])
             /\ \A s \in Listed :
                    /\ held'[s] \in {"proposed", "confirmed"} => quietFor(Calendar[s].ends)
                    /\ held'[s] \in {"attended", "unverified"} /\ Calendar[s].ends <= at =>
                            quietFor(Calendar[s].ends)
             /\ \E s \in Listed : /\ Calendar[s].starts > at + Lead /\ Calendar[s].room >= 1
                                /\ Calendar[s].miles <= TravelRadius
      ]_nudgeVars
=============================================================================
