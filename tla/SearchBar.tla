----------------------------- MODULE SearchBar -----------------------------
(***************************************************************************)
(* How long a search holds out for a good match: the bar a partner must    *)
(* clear falls with the share of its search time a search has used         *)
(* (backend/matching/assign.js), and adjusting the search, which moves the *)
(* deadline and opens an ended search again, must not raise it             *)
(* (adjustRequest, backend/lib/lifecycle.js).                              *)
(*                                                                         *)
(* Abstractions: one search, made on day 0; days instead of milliseconds,  *)
(* a share as a fraction <<numerator, denominator>>, and the bar as a      *)
(* share of its highest value.                                             *)
(***************************************************************************)
EXTENDS Integers

CONSTANTS
    WaitCap,            \* WAIT_CAP_MS
    MinLead,            \* MIN_LEAD_MS
    Far, Near,          \* farHoursBeforeShift, floorHoursBeforeShift
    ShiftDay,           \* days of the shifts the bar is asked for
    LastDay             \* bound

ASSUME SearchBarAssumption ==
    /\ WaitCap \in Nat \ {0} /\ MinLead \in Nat \ {0} /\ LastDay \in Nat
    /\ Near \in Nat /\ Far \in Nat /\ Near < Far /\ ShiftDay \subseteq Nat

VARIABLES
    date,
    searchDeadline,     \* search_deadline
    pressureFloor,      \* pressure_floor
    searchOpen,         \* status: searching, or no_match
    preference          \* match_preference

searchVars == <<date, searchDeadline, pressureFloor, searchOpen, preference>>

NoShare == <<0, 1>>
FullShare == <<1, 1>>
AtMost(f, g) == f[1] * g[2] <= g[1] * f[2]
Lower(f, g) == IF AtMost(f, g) THEN f ELSE g
Higher(f, g) == IF AtMost(f, g) THEN g ELSE f

(* pressure: the share of its time the search has used, never below the    *)
(* floor of the last adjustment.                                           *)
UsedShare == IF searchDeadline > 0 THEN Lower(FullShare, <<date, searchDeadline>>) ELSE FullShare
(* Mutant: the floor of the last adjustment is forgotten. *)
PressureForgets == UsedShare
SearchPressure == Higher(pressureFloor, UsedShare)

ByShift(day) ==
    IF day - date >= Far THEN FullShare
    ELSE IF day - date <= Near THEN NoShare
    ELSE <<day - date - Near, Far - Near>>
BySearchTime == <<SearchPressure[2] - SearchPressure[1], SearchPressure[2]>>
Bar(day) == IF preference = "anyone" THEN NoShare ELSE Lower(ByShift(day), BySearchTime)

(* validateWindow: the deadline of a window that ends on the given day.    *)
DeadlineFor(windowEnd) ==
    IF date + WaitCap <= windowEnd - MinLead THEN date + WaitCap ELSE windowEnd - MinLead
-----------------------------------------------------------------------------
SearchInit ==
    /\ date = 0 /\ searchDeadline \in 1 .. WaitCap /\ searchOpen = TRUE
    /\ pressureFloor = NoShare /\ preference \in {"best", "anyone"}

NextDay ==
    /\ date < LastDay /\ date' = date + 1
    /\ UNCHANGED <<searchDeadline, pressureFloor, searchOpen, preference>>

NoMatch ==
    /\ searchOpen = TRUE /\ date >= searchDeadline
    /\ searchOpen' = FALSE
    /\ UNCHANGED <<date, searchDeadline, pressureFloor, preference>>

(* adjustRequest, of an open search or of one that found no match.         *)
AdjustSearch(windowEnd, pref) ==
    /\ DeadlineFor(windowEnd) > date
    /\ searchDeadline' = DeadlineFor(windowEnd)
    /\ pressureFloor' = SearchPressure
    /\ searchOpen' = TRUE /\ preference' = pref
    /\ UNCHANGED date

SearchNext ==
    \/ NextDay \/ NoMatch
    \/ \E day \in ShiftDay, pref \in {"best", "anyone"} : AdjustSearch(day, pref)
SearchSpec == SearchInit /\ [][SearchNext]_searchVars
-----------------------------------------------------------------------------
SearchTypeOK ==
    /\ date \in 0 .. LastDay /\ searchDeadline \in Nat /\ searchOpen \in BOOLEAN
    /\ pressureFloor \in Nat \X (Nat \ {0}) /\ preference \in {"best", "anyone"}

(* A search that goes on wanting the best match never gets pickier: for no *)
(* shift does the bar rise, whether days pass, the search ends, or its     *)
(* dates are moved again and again and an ended search reopened.           *)
BarNeverRises ==
    [][searchVars' # searchVars /\ preference' = preference =>
            \A day \in ShiftDay : AtMost(Bar(day)', Bar(day))]_searchVars
=============================================================================
