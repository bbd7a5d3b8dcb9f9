-------------------------------- MODULE Plan --------------------------------
(***************************************************************************)
(* One matching run over the whole pool of open searches: the snapshot     *)
(* (backend/lib/matchingRunner.js, buildSnapshot), the greedy assignment   *)
(* (matching/assign.js), and the proposals and reasons written from the    *)
(* plan (commitPlan).  The run is one IMMEDIATE transaction, so nothing    *)
(* else moves while it takes its steps; the pool it finds is arbitrary.    *)
(*                                                                         *)
(* Abstractions: a request is a number, whose order is the order of ids,   *)
(* and so is a shift; the fit score of two people on a shift, the bar of a *)
(* person for a shift, and the boost of the time waited are small numbers  *)
(* of the pool; what keeps two users apart (hard filters, age bands, an    *)
(* earlier decline, a pairing under way) is a set of pairs of users.       *)
(***************************************************************************)
EXTENDS Integers, Sequences, FiniteSets

CONSTANTS
    User, NoUser,
    MaxRequest, MaxShift,   \* bounds: the searches and shifts of the pool
    Start,                  \* per shift: starts_at
    Pools                   \* bound: the pools a run may find

Request == 1 .. MaxRequest
Shift == 1 .. MaxShift
NoShift == 0
Kind == {"standard", "solo_rsvp", "rematch"}

(* Two requests that may be planned together, the lower id first.          *)
Edge == {e \in Request \X Request : e[1] < e[2]}

Pool == [user : [Request -> User], kind : [Request -> Kind],
         anchor : [Request -> Shift \cup {NoShift}],     \* the shift of the booking it keeps
         buddy : [Request -> User \cup {NoUser}],
         created : [Request -> Nat], deadline : [Request -> Nat],
         urgent : SUBSET Request,                        \* close to their deadline
         anyone : SUBSET Request,                        \* match_preference
         blocked : SUBSET Request,                       \* eligibilityBlock
         can : [Request -> SUBSET Shift],                \* shiftsFor
         poor : [Request -> SUBSET Shift],               \* orgs the user rated a poor fit
         bar : [Request -> [Shift -> Nat]], boost : [Request -> Nat],
         fit : [Edge -> [Shift -> Nat]],                 \* pairShiftFit
         quality : [Edge -> [Shift -> Nat]],
         apart : SUBSET SUBSET User,
         room : [Shift -> Nat]]

ASSUME PlanAssumption ==
    /\ NoUser \notin User
    /\ MaxRequest \in Nat /\ MaxShift \in Nat
    /\ Start \in [Shift -> Nat]
    /\ Pools \subseteq Pool

VARIABLES
    pool,       \* what the run finds, unchanged by it
    phase,      \* "read", "plan", "commit", "told"
    options,    \* per edge: the shifts that pass, as buildEdges leaves them
    current,    \* per edge: the shift it is at (options[idx])
    held,       \* requests whose own bar keeps them waiting
    queue,      \* edges not looked at; the list is kept sorted, so a set
    capacity,   \* the planner's own counter of spots
    matched, matches,       \* the plan: requests, and edges in acceptance order
    spots,      \* shifts: capacity_total - capacity_booked
    written,    \* how many matches of the plan are written
    status, reason          \* availability_requests

planVars == <<options, current, held, queue, capacity, matched, matches>>
tableVars == <<spots, written, status, reason>>
vars == <<pool, phase, planVars, tableVars>>

Reason == {"none", "blocked", "holding_for_better_match", "waiting_for_buddy",
           "no_shift_in_shared_causes", "no_capacity_in_window",
           "no_compatible_partner_in_radius"}

Ends(e) == {e[1], e[2]}
Anchored(r) == pool.anchor[r] # NoShift
Need(e) == (IF Anchored(e[1]) THEN 0 ELSE 1) + (IF Anchored(e[2]) THEN 0 ELSE 1)
Larger(m, n) == IF m > n THEN m ELSE n
Smaller(m, n) == IF m < n THEN m ELSE n

PairEligible(e) ==
    LET a == e[1]
        b == e[2]
    IN  /\ pool.user[a] # pool.user[b]
        /\ {pool.user[a], pool.user[b]} \notin pool.apart
        /\ pool.buddy[a] # NoUser \/ pool.buddy[b] # NoUser =>
              pool.buddy[a] = pool.user[b] /\ pool.buddy[b] = pool.user[a]
        /\ Anchored(a) /\ Anchored(b) => pool.anchor[a] = pool.anchor[b]

MutualBuddy(e) == pool.buddy[e[1]] # NoUser /\ pool.buddy[e[2]] # NoUser

(* The bar of one person, and of a pair: both standards apply.             *)
PersonalBar(r, s) ==
    IF r \in pool.anyone \/ Anchored(r) \/ pool.kind[r] # "standard" THEN 0 ELSE pool.bar[r][s]
(* Mutant: the lower of the two standards is enough. *)
MatchBarOfOne(e, s) ==
    IF MutualBuddy(e) THEN 0 ELSE Smaller(PersonalBar(e[1], s), PersonalBar(e[2], s))
MatchBar(e, s) ==
    IF MutualBuddy(e) THEN 0 ELSE Larger(PersonalBar(e[1], s), PersonalBar(e[2], s))

SharedWithRoom(e) == {s \in pool.can[e[1]] \cap pool.can[e[2]] : spots[s] >= Need(e)}
Passing(e) == {s \in SharedWithRoom(e) : pool.quality[e][s] >= MatchBar(e, s)}

LexLess(k, l) == \E i \in DOMAIN k : k[i] < l[i] /\ \A j \in 1 .. i - 1 : k[j] = l[j]

(* The order of the shifts of a pair: not demoted first, then best fit,    *)
(* then earliest, then id.                                                 *)
OptionKey(e, s) ==
    << IF s \in pool.poor[e[1]] \cup pool.poor[e[2]] THEN 1 ELSE 0,
       0 - pool.fit[e][s], Start[s], s >>
BestOption(e, S) == CHOOSE s \in S : \A t \in S \ {s} : LexLess(OptionKey(e, s), OptionKey(e, t))

IsUrgent(r) == pool.kind[r] = "rematch" \/ r \in pool.urgent
IsRematch(e) == \E r \in Ends(e) : pool.kind[r] = "rematch"
Tier(e) ==
    IF IsRematch(e) THEN 3
    ELSE IF \E r \in Ends(e) : IsUrgent(r) THEN 2
    ELSE IF MutualBuddy(e) THEN 1 ELSE 0

(* Whose deadline counts: the rematches of a rematch edge, else the urgent.*)
Pressing(e) == {r \in Ends(e) : IF IsRematch(e) THEN pool.kind[r] = "rematch" ELSE IsUrgent(r)}
UrgentDeadline(e) ==
    IF Pressing(e) = {} THEN 0
    ELSE CHOOSE d \in {pool.deadline[r] : r \in Pressing(e)} : \A r \in Pressing(e) : d <= pool.deadline[r]
Adjusted(e) == pool.quality[e][current[e]] + Larger(pool.boost[e[1]], pool.boost[e[2]])

(* Mutant: the tier counts after the score. *)
EdgeKeyByScore(e) == <<0 - Adjusted(e), 0 - Tier(e), UrgentDeadline(e), e[1], e[2]>>

(* compareEdges: tier, the nearer deadline, the adjusted score, the longer *)
(* wait, and the key, which makes the order total.                         *)
EdgeKey(e) ==
    << 0 - Tier(e), UrgentDeadline(e), 0 - Adjusted(e),
       Smaller(pool.created[e[1]], pool.created[e[2]]),
       Larger(pool.created[e[1]], pool.created[e[2]]), e[1], e[2] >>
First(e) == e \in queue /\ \A f \in queue \ {e} : LexLess(EdgeKey(e), EdgeKey(f))

-----------------------------------------------------------------------------
Init ==
    /\ pool \in Pools
    /\ phase = "read"
    /\ options = [e \in Edge |-> {}] /\ current = [e \in Edge |-> NoShift]
    /\ held = {} /\ queue = {} /\ matched = {} /\ matches = <<>>
    /\ capacity = pool.room /\ spots = pool.room /\ written = 0
    /\ status = [r \in Request |-> "searching"]
    /\ reason = [r \in Request |-> "none"]

(* buildSnapshot and buildEdges: every eligible pair of unblocked requests *)
(* with a shared shift that has room and reaches the bar; whoever's own    *)
(* bar is what keeps a pair from forming is held.                          *)
(* Mutant: a partner's bar holds a person too. *)
HeldByEither(e) ==
    {r \in Ends(e) : Passing(e) = {} /\ SharedWithRoom(e) # {}}
HeldBy(e) ==
    {r \in Ends(e) : Passing(e) = {} /\ \E s \in SharedWithRoom(e) :
                        PersonalBar(r, s) > pool.quality[e][s]}
Snapshot ==
    /\ phase = "read"
    /\ LET eligible == {e \in Edge : Ends(e) \cap pool.blocked = {} /\ PairEligible(e)}
           edges == {e \in eligible : Passing(e) # {}}
       IN  /\ options' = [e \in Edge |-> IF e \in edges THEN Passing(e) ELSE {}]
           /\ current' = [e \in Edge |-> IF e \in edges THEN BestOption(e, Passing(e)) ELSE NoShift]
           /\ queue' = edges
           /\ held' = UNION {HeldBy(e) : e \in eligible}
    /\ phase' = "plan"
    /\ UNCHANGED <<pool, capacity, matched, matches, tableVars>>

(* Mutant: any room is room enough. *)
HasSomeRoom(e) == capacity[current[e]] > 0
HasRoom(e) == capacity[current[e]] >= Need(e)

(* Mutant: a pair is passed over only if both are matched already. *)
TakenBoth(e) == Ends(e) \subseteq matched
Taken(e) == Ends(e) \cap matched # {}

(* Mutants: a pair whose first shift is full is given up; it is put back   *)
(* without moving on. *)
NoLaterOptions(e) == {}
LaterOptionsFromHere(e) ==
    {s \in options[e] : ~LexLess(OptionKey(e, s), OptionKey(e, current[e]))}
LaterOptions(e) ==
    {s \in options[e] : LexLess(OptionKey(e, current[e]), OptionKey(e, s)) /\ capacity[s] >= Need(e)}

SkipMatched(e) ==
    /\ Taken(e)
    /\ queue' = queue \ {e}
    /\ UNCHANGED <<options, current, held, capacity, matched, matches>>

Accept(e) ==
    /\ ~Taken(e) /\ HasRoom(e)
    /\ capacity' = [capacity EXCEPT ![current[e]] = @ - Need(e)]
    /\ matched' = matched \cup Ends(e)
    /\ matches' = Append(matches, e)
    /\ queue' = queue \ {e}
    /\ UNCHANGED <<options, current, held>>

(* Lazy greedy: the pair's next shift that still has room; insertSorted    *)
(* puts the edge back where its new score belongs.                         *)
FallBack(e) ==
    /\ ~Taken(e) /\ ~HasRoom(e) /\ LaterOptions(e) # {}
    /\ current' = [current EXCEPT ![e] = BestOption(e, LaterOptions(e))]
    /\ UNCHANGED <<options, held, queue, capacity, matched, matches>>

Drop(e) ==
    /\ ~Taken(e) /\ ~HasRoom(e) /\ LaterOptions(e) = {}
    /\ queue' = queue \ {e}
    /\ UNCHANGED <<options, current, held, capacity, matched, matches>>

Assign ==
    /\ phase = "plan"
    /\ \E e \in queue : First(e) /\ (SkipMatched(e) \/ Accept(e) \/ FallBack(e) \/ Drop(e))
    /\ UNCHANGED <<pool, phase, tableVars>>

StartCommit ==
    /\ phase = "plan" /\ queue = {}
    /\ phase' = "commit"
    /\ reason' = [r \in Request |-> IF r \in pool.blocked THEN "blocked" ELSE reason[r]]
    /\ UNCHANGED <<pool, planVars, spots, written, status>>

(* createProposal: the live counter decides; without room the match is     *)
(* passed over and both keep searching.                                    *)
CommitMatch ==
    /\ phase = "commit" /\ written < Len(matches)
    /\ LET e == matches[written + 1]
           s == current[e]
       IN  IF spots[s] >= Need(e)
           THEN /\ spots' = [spots EXCEPT ![s] = @ - Need(e)]
                /\ status' = [r \in Request |-> IF r \in Ends(e) THEN "proposed" ELSE status[r]]
                /\ reason' = [r \in Request |-> IF r \in Ends(e) THEN "none" ELSE reason[r]]
           ELSE UNCHANGED <<spots, status, reason>>
    /\ written' = written + 1
    /\ UNCHANGED <<pool, phase, planVars>>

NoMatchReason(r) ==
    IF pool.buddy[r] # NoUser THEN "waiting_for_buddy"
    ELSE IF pool.can[r] = {} THEN "no_shift_in_shared_causes"
    ELSE IF \A s \in pool.can[r] : spots[s] < (IF Anchored(r) THEN 1 ELSE 2) THEN "no_capacity_in_window"
    ELSE "no_compatible_partner_in_radius"

(* What is left is told why, by the spots that remain after the proposals. *)
TellReasons ==
    /\ phase = "commit" /\ written = Len(matches)
    /\ phase' = "told"
    /\ reason' = [r \in Request |->
            IF r \in pool.blocked \/ status[r] = "proposed" THEN reason[r]
            ELSE IF r \in held \ matched /\ pool.buddy[r] = NoUser THEN "holding_for_better_match"
            ELSE NoMatchReason(r)]
    /\ UNCHANGED <<pool, planVars, spots, written, status>>

Next == Snapshot \/ Assign \/ StartCommit \/ CommitMatch \/ TellReasons

Spec == Init /\ [][Next]_vars /\ WF_vars(Next)
-----------------------------------------------------------------------------
PlanTypeOK ==
    /\ pool \in Pool
    /\ phase \in {"read", "plan", "commit", "told"}
    /\ options \in [Edge -> SUBSET Shift]
    /\ current \in [Edge -> Shift \cup {NoShift}]
    /\ held \subseteq Request /\ matched \subseteq Request
    /\ queue \subseteq Edge /\ \A e \in queue : current[e] \in options[e]
    /\ matches \in Seq(Edge) /\ written \in 0 .. Len(matches)
    /\ capacity \in [Shift -> Nat] /\ spots \in [Shift -> Nat]
    /\ status \in [Request -> {"searching", "proposed"}]
    /\ reason \in [Request -> Reason]

(* Every spot is accounted for, twice: the planner's own counter and the   *)
(* live one each differ from the room the run found by the people who got  *)
(* a new spot, and nobody is placed twice.                                 *)
PlacedAt(n, s) ==
    {r \in Request : ~Anchored(r) /\ \E i \in 1 .. n : r \in Ends(matches[i]) /\ current[matches[i]] = s}
SeatsCounted ==
    /\ \A s \in Shift :
        /\ capacity[s] + Cardinality(PlacedAt(Len(matches), s)) = pool.room[s]
        /\ spots[s] + Cardinality(PlacedAt(written, s)) = pool.room[s]
    /\ \A i, j \in 1 .. Len(matches) : i # j => Ends(matches[i]) \cap Ends(matches[j]) = {}

(* Best first: once the plan is made, a pair that is not in it but has a   *)
(* shift with room left lost one of its two people to a pair that comes    *)
(* before it.  So no pair the rules allow is left out for no reason, and   *)
(* falling back to a later shift never lets a lesser pair go first.        *)
(* Rematches come before urgent searches, those before mutual buddy        *)
(* requests, those before the rest, also after pairs have fallen back.     *)
InPlan(e) == \E i \in 1 .. Len(matches) : matches[i] = e
BestFirst ==
    /\ \A i, j \in 1 .. Len(matches) : i < j => Tier(matches[i]) >= Tier(matches[j])
    /\ phase # "read" /\ queue = {} =>
        \A e \in Edge : ~InPlan(e) /\ (\E s \in options[e] : capacity[s] >= Need(e)) =>
            \E i \in 1 .. Len(matches) :
                Ends(matches[i]) \cap Ends(e) # {} /\ LexLess(EdgeKey(matches[i]), EdgeKey(e))

(* The plan is written as it was made, although each proposal reserves its *)
(* spots anew, and each search ends the run with a proposal or a reason;   *)
(* "holding" is only said to someone whose own choice sets a bar.          *)
EveryoneAnswered ==
    phase = "told" =>
        /\ spots = capacity
        /\ \A r \in Request :
            /\ status[r] = "proposed" <=> r \in matched
            /\ status[r] = "searching" <=> reason[r] # "none"
            /\ reason[r] = "holding_for_better_match" =>
                    pool.kind[r] = "standard" /\ r \notin pool.anyone

(* The plan is an assignment the rules allow (module Assignment).          *)
Allowed ==
    {p \in Edge \X Shift :
        LET e == p[1]
            s == p[2]
        IN  /\ Ends(e) \cap pool.blocked = {} /\ PairEligible(e)
            /\ s \in pool.can[e[1]] \cap pool.can[e[2]]
            /\ MutualBuddy(e) \/ \A r \in Ends(e) : pool.quality[e][s] >= PersonalBar(r, s)}
Planned == {<<matches[i], current[matches[i]]>> : i \in 1 .. Len(matches)}
Abstract == INSTANCE Assignment WITH
    allowed <- Allowed, needs <- [e \in Edge |-> Need(e)], room <- pool.room, plan <- Planned
ImplementsAssignment == Abstract!Spec

(* A run ends: pairs that fall back over and over run out of shifts.       *)
RunEnds == <>(phase = "told")
=============================================================================
