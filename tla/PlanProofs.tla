----------------------------- MODULE PlanProofs -----------------------------
(***************************************************************************)
(* What is proved of a matching run for every pool of searches: the plan   *)
(* is an assignment the rules allow, spot for spot; it is written as it    *)
(* was made; nobody is placed twice or left without an answer; and no pair *)
(* is left out but for a better one.                                       *)
(*                                                                         *)
(* Two orders carry the argument, that of the shifts of a pair and that of *)
(* the pairs.  The first is total, so a pair always has a best shift that  *)
(* is left, and whatever lies before the shift a pair has come to is full. *)
(* Of the second it is only needed that the first pair of the queue is     *)
(* before the others: a pair one of whose people is taken never moves      *)
(* again, so the pair that took them stays before it.                      *)
(*                                                                         *)
(* And of the search a run works for, for every wait and every date: its   *)
(* bar never rises.  The bar is made of fractions with different bottoms,  *)
(* so the argument is that what the code does to them, the lower and the   *)
(* higher of two, what is left of a whole, keeps their order; and that the *)
(* pressure, however dates are moved, never falls below its floor.         *)
(***************************************************************************)
EXTENDS Plan, SearchBar, FiniteSetTheorems, SequenceTheorems, WellFoundedInduction, TLAPS

(* Lexicographic order on four numbers, number by number.                  *)
LEMMA LexFour ==
    ASSUME NEW k, NEW l, DOMAIN k = 1 .. 4
    PROVE  LexLess(k, l) <=>
               \/ k[1] < l[1]
               \/ k[1] = l[1] /\ k[2] < l[2]
               \/ k[1] = l[1] /\ k[2] = l[2] /\ k[3] < l[3]
               \/ k[1] = l[1] /\ k[2] = l[2] /\ k[3] = l[3] /\ k[4] < l[4]
<1>1. DOMAIN k = {1, 2, 3, 4} OBVIOUS
<1>2. /\ 1 .. 1 - 1 = {} /\ 1 .. 2 - 1 = {1}
      /\ 1 .. 3 - 1 = {1, 2} /\ 1 .. 4 - 1 = {1, 2, 3}
  OBVIOUS
<1> QED BY <1>1, <1>2, Zenon DEF LexLess

(* The order of the shifts of a pair is a strict total order.              *)
LEMMA OptionsOrdered ==
    ASSUME pool \in Pool, NEW e \in Edge
    PROVE  /\ \A s, t \in Shift : s # t =>
                  LexLess(OptionKey(e, s), OptionKey(e, t)) \/ LexLess(OptionKey(e, t), OptionKey(e, s))
           /\ \A s, t \in Shift :
                  ~(LexLess(OptionKey(e, s), OptionKey(e, t)) /\ LexLess(OptionKey(e, t), OptionKey(e, s)))
           /\ \A s, t, u \in Shift :
                  LexLess(OptionKey(e, s), OptionKey(e, t)) /\ LexLess(OptionKey(e, t), OptionKey(e, u))
                  => LexLess(OptionKey(e, s), OptionKey(e, u))
<1>1. ASSUME NEW s \in Shift
      PROVE  /\ DOMAIN OptionKey(e, s) = 1 .. 4
             /\ \A i \in 1 .. 4 : OptionKey(e, s)[i] \in Int
             /\ OptionKey(e, s)[4] = s
  <2>1. pool.fit[e][s] \in Nat BY DEF Pool
  <2>2. Start[s] \in Nat /\ s \in Int BY PlanAssumption DEF Shift
  <2> DEFINE d == IF s \in pool.poor[e[1]] \cup pool.poor[e[2]] THEN 1 ELSE 0
             f == 0 - pool.fit[e][s]
  <2>3. d \in Int /\ f \in Int BY <2>1
  <2>4. OptionKey(e, s) = <<d, f, Start[s], s>> BY DEF OptionKey
  <2> HIDE DEF d, f
  <2> QED BY <2>2, <2>3, <2>4
<1> DEFINE K(s) == OptionKey(e, s)
<1> HIDE DEF K
<1>2. \A s, t \in Shift : LexLess(K(s), K(t)) <=>
         \/ K(s)[1] < K(t)[1]
         \/ K(s)[1] = K(t)[1] /\ K(s)[2] < K(t)[2]
         \/ K(s)[1] = K(t)[1] /\ K(s)[2] = K(t)[2] /\ K(s)[3] < K(t)[3]
         \/ K(s)[1] = K(t)[1] /\ K(s)[2] = K(t)[2] /\ K(s)[3] = K(t)[3] /\ K(s)[4] < K(t)[4]
  BY <1>1, LexFour DEF K
<1>3. \A s \in Shift : /\ K(s)[1] \in Int /\ K(s)[2] \in Int /\ K(s)[3] \in Int
                       /\ K(s)[4] \in Int /\ K(s)[4] = s
  BY <1>1 DEF K
<1>4. ASSUME NEW s \in Shift, NEW t \in Shift, s # t
      PROVE  LexLess(K(s), K(t)) \/ LexLess(K(t), K(s))
  BY <1>2, <1>3, <1>4
<1>5. ASSUME NEW s \in Shift, NEW t \in Shift
      PROVE  ~(LexLess(K(s), K(t)) /\ LexLess(K(t), K(s)))
  BY <1>2, <1>3
<1>6. ASSUME NEW s \in Shift, NEW t \in Shift, NEW u \in Shift,
             LexLess(K(s), K(t)), LexLess(K(t), K(u))
      PROVE  LexLess(K(s), K(u))
  BY <1>2, <1>3, <1>6
<1> QED BY <1>4, <1>5, <1>6 DEF K

(* A set of naturals that is not empty has a least one.                    *)
LEMMA LeastNatural ==
    ASSUME NEW T, T \subseteq Nat, T # {}
    PROVE  \E x \in T : \A y \in T : x <= y
<1> DEFINE R == OpToRel(<, Nat)
<1>1. IsWellFoundedOn(R, Nat) BY NatLessThanWellFounded
<1>2. \A x, y \in Nat : x < y => <<x, y>> \in R BY DEF OpToRel
<1> HIDE DEF R
<1>3. \E x \in T : \A y \in T : ~(<<y, x>> \in R) BY <1>1, WFMin
<1>4. PICK x \in T : \A y \in T : ~(<<y, x>> \in R) BY <1>3
<1>5. ASSUME NEW y \in T PROVE x <= y
  <2>1. x \in Nat /\ y \in Nat OBVIOUS
  <2>2. ~(y < x) BY <1>2, <1>4, <2>1
  <2> QED BY <2>1, <2>2
<1> QED BY <1>5

(* A pair with shifts left has a best one among them, and only one.        *)
LEMMA BestIsBest ==
    ASSUME pool \in Pool, NEW e \in Edge, NEW S, S \subseteq Shift, S # {}
    PROVE  /\ BestOption(e, S) \in S
           /\ \A t \in S \ {BestOption(e, S)} :
                  LexLess(OptionKey(e, BestOption(e, S)), OptionKey(e, t))
<1> DEFINE Less(s, t) == LexLess(OptionKey(e, s), OptionKey(e, t))
           HasBest(X) == \E s \in X : \A t \in X \ {s} : Less(s, t)
           T == {n \in Nat : \E X \in SUBSET (1 .. n) : X # {} /\ X \subseteq Shift /\ ~HasBest(X)}
<1>1. /\ \A s, t \in Shift : s # t => Less(s, t) \/ Less(t, s)
      /\ \A s, t, u \in Shift : Less(s, t) /\ Less(t, u) => Less(s, u)
  BY OptionsOrdered
<1> HIDE DEF Less
<1>2. ASSUME T # {} PROVE FALSE
  <2>1. PICK n \in T : \A m \in T : n <= m
    <3>1. T \subseteq Nat OBVIOUS
    <3> HIDE DEF T
    <3> QED BY <1>2, <3>1, LeastNatural
  <2>2. PICK X \in SUBSET (1 .. n) : X # {} /\ X \subseteq Shift /\ ~HasBest(X)
    OBVIOUS
  <2>3. n \in Nat /\ n # 0
    <3>1. 1 .. 0 = {} OBVIOUS
    <3>2. n \in Nat OBVIOUS
    <3> HIDE DEF T, HasBest
    <3> QED BY <2>2, <3>1, <3>2
  <2>4. n - 1 \in Nat /\ ~(n <= n - 1) BY <2>3
  <2>5. n - 1 \notin T BY <2>1, <2>4
  <2>6. X \ {n} \in SUBSET (1 .. n - 1) BY <2>3
  <2>7. X \ {n} = {} \/ HasBest(X \ {n}) BY <2>2, <2>4, <2>5, <2>6
  <2>8. n \in X
    <3> SUFFICES ASSUME n \notin X PROVE FALSE OBVIOUS
    <3>1. X \ {n} = X OBVIOUS
    <3> QED BY <2>2, <2>7, <3>1
  <2>9. CASE X \ {n} = {}
    BY <2>2, <2>8, <2>9
  <2>10. CASE HasBest(X \ {n})
    <3>1. PICK s \in X \ {n} : \A t \in (X \ {n}) \ {s} : Less(s, t) BY <2>10
    <3>2. s \in Shift /\ n \in Shift /\ s # n BY <2>2, <2>8
    <3>3. CASE Less(s, n)
      <4>1. \A t \in X \ {s} : Less(s, t) BY <3>1, <3>3
      <4> QED BY <2>2, <4>1
    <3>4. CASE Less(n, s)
      <4>1. ASSUME NEW t \in X \ {n} PROVE Less(n, t)
        <5>1. t = s \/ Less(s, t) BY <3>1
        <5>2. t \in Shift BY <2>2
        <5> QED BY <1>1, <3>2, <3>4, <5>1, <5>2
      <4> QED BY <2>2, <2>8, <4>1
    <3> QED BY <1>1, <3>2, <3>3, <3>4
  <2> QED BY <2>7, <2>9, <2>10
<1>3. S \in SUBSET (1 .. MaxShift) /\ MaxShift \in Nat
  BY PlanAssumption DEF Shift
<1>4. HasBest(S) BY <1>2, <1>3
<1>5. BestOption(e, S) = CHOOSE s \in S : \A t \in S \ {s} : Less(s, t)
  BY DEF BestOption, Less
<1>6. BestOption(e, S) \in S /\ \A t \in S \ {BestOption(e, S)} : Less(BestOption(e, S), t)
  BY <1>4, <1>5
<1> QED BY <1>6 DEF Less

-----------------------------------------------------------------------------
(* What the pool says of a pair.                                           *)
LEMMA PairTyped ==
    ASSUME pool \in Pool, NEW e \in Edge
    PROVE  /\ e[1] \in Request /\ e[2] \in Request /\ e[1] # e[2]
           /\ Ends(e) \subseteq Request
           /\ Need(e) \in Nat /\ Tier(e) \in Nat
<1>1. e[1] \in Request /\ e[2] \in Request /\ e[1] # e[2]
  BY PlanAssumption DEF Edge, Request
<1>2. Ends(e) \subseteq Request BY <1>1 DEF Ends
<1>3. Need(e) \in Nat BY DEF Need
<1>4. Tier(e) \in Nat BY DEF Tier
<1> QED BY <1>1, <1>2, <1>3, <1>4

(* The people of a pair who get a new spot; Need counts them.              *)
NewcomersOf(e) == {r \in Ends(e) : ~Anchored(r)}
LEMMA NeedCounts ==
    ASSUME pool \in Pool, NEW e \in Edge
    PROVE  IsFiniteSet(NewcomersOf(e)) /\ Cardinality(NewcomersOf(e)) = Need(e)
<1>1. e[1] # e[2] BY PairTyped
<1>2. CASE Anchored(e[1]) /\ Anchored(e[2])
  <2>1. NewcomersOf(e) = {} BY <1>2 DEF NewcomersOf, Ends
  <2> QED BY <1>2, <2>1, FS_EmptySet DEF Need
<1>3. CASE Anchored(e[1]) /\ ~Anchored(e[2])
  <2>1. NewcomersOf(e) = {e[2]} BY <1>3 DEF NewcomersOf, Ends
  <2>2. IsFiniteSet({e[2]}) /\ Cardinality({e[2]}) = 1 BY FS_Singleton
  <2> QED BY <1>3, <2>1, <2>2 DEF Need
<1>4. CASE ~Anchored(e[1]) /\ Anchored(e[2])
  <2>1. NewcomersOf(e) = {e[1]} BY <1>4 DEF NewcomersOf, Ends
  <2>2. IsFiniteSet({e[1]}) /\ Cardinality({e[1]}) = 1 BY FS_Singleton
  <2> QED BY <1>4, <2>1, <2>2 DEF Need
<1>5. CASE ~Anchored(e[1]) /\ ~Anchored(e[2])
  <2>1. NewcomersOf(e) = {e[1]} \cup {e[2]} BY <1>5 DEF NewcomersOf, Ends
  <2>2. IsFiniteSet({e[1]}) /\ Cardinality({e[1]}) = 1 BY FS_Singleton
  <2>3. e[2] \notin {e[1]} BY <1>1
  <2>4. Cardinality({e[1]} \cup {e[2]}) = 2 /\ IsFiniteSet({e[1]} \cup {e[2]})
    BY <2>2, <2>3, FS_AddElement
  <2> QED BY <1>5, <2>1, <2>4 DEF Need
<1> QED BY <1>2, <1>3, <1>4, <1>5

(* Nothing but the shift a pair is at changes what the orders compare.     *)
LEMMA PoolStays ==
    ASSUME pool' = pool
    PROVE  /\ \A r : Anchored(r)' = Anchored(r)
           /\ \A e : Need(e)' = Need(e)
           /\ \A e : MutualBuddy(e)' = MutualBuddy(e)
           /\ \A e : Tier(e)' = Tier(e)
           /\ \A e, s : OptionKey(e, s)' = OptionKey(e, s)
           /\ Allowed' = Allowed
<1>1. \A r : Anchored(r)' = Anchored(r) BY DEF Anchored
<1>2. \A e : Need(e)' = Need(e) BY <1>1 DEF Need
<1>3. \A e : MutualBuddy(e)' = MutualBuddy(e) BY DEF MutualBuddy
<1>4. \A e : Tier(e)' = Tier(e) BY <1>3 DEF Tier, IsRematch, IsUrgent
<1>5. \A e, s : OptionKey(e, s)' = OptionKey(e, s) BY DEF OptionKey
<1>6. \A e : PairEligible(e)' = PairEligible(e) BY <1>1 DEF PairEligible
<1>7. \A r, s : PersonalBar(r, s)' = PersonalBar(r, s) BY <1>1 DEF PersonalBar
<1>8. Allowed' = Allowed BY <1>3, <1>6, <1>7 DEF Allowed
<1> QED BY <1>1, <1>2, <1>3, <1>4, <1>5, <1>8

LEMMA EdgeStays ==
    ASSUME pool' = pool, NEW e, current'[e] = current[e]
    PROVE  EdgeKey(e)' = EdgeKey(e)
<1>1. Tier(e)' = Tier(e) BY PoolStays
<1>2. Adjusted(e)' = Adjusted(e) BY DEF Adjusted
<1>3. Pressing(e)' = Pressing(e) BY DEF Pressing, IsRematch, IsUrgent
<1>4. UrgentDeadline(e)' = UrgentDeadline(e) BY <1>3 DEF UrgentDeadline
<1> QED BY <1>1, <1>2, <1>4 DEF EdgeKey

(* Who comes first has the highest tier.                                   *)
LEMMA FirstHasTier ==
    ASSUME pool \in Pool, NEW e \in Edge, NEW f \in Edge,
           LexLess(EdgeKey(e), EdgeKey(f))
    PROVE  Tier(f) <= Tier(e)
<1>1. /\ DOMAIN EdgeKey(e) = 1 .. 7
      /\ EdgeKey(e)[1] = 0 - Tier(e) /\ EdgeKey(f)[1] = 0 - Tier(f)
  BY DEF EdgeKey
<1>2. PICK i \in 1 .. 7 :
         EdgeKey(e)[i] < EdgeKey(f)[i] /\ \A j \in 1 .. i - 1 : EdgeKey(e)[j] = EdgeKey(f)[j]
  BY <1>1 DEF LexLess
<1>3. EdgeKey(e)[1] < EdgeKey(f)[1] \/ EdgeKey(e)[1] = EdgeKey(f)[1]
  BY <1>2
<1> QED BY <1>1, <1>3, PairTyped

(* What passes the bar of a pair is allowed.                               *)
LEMMA PassingAllowed ==
    ASSUME pool \in Pool, NEW e \in Edge, Ends(e) \cap pool.blocked = {}, PairEligible(e),
           NEW s \in Passing(e)
    PROVE  s \in Shift /\ <<e, s>> \in Allowed
<1>1. s \in pool.can[e[1]] \cap pool.can[e[2]] /\ pool.quality[e][s] >= MatchBar(e, s)
  BY DEF Passing, SharedWithRoom
<1>2. s \in Shift BY <1>1, PairTyped DEF Pool
<1>3. ASSUME ~MutualBuddy(e), NEW r \in Ends(e) PROVE pool.quality[e][s] >= PersonalBar(r, s)
  <2>1. \A q \in Request : PersonalBar(q, s) \in Nat BY <1>2 DEF PersonalBar, Pool
  <2>2. PersonalBar(e[1], s) \in Nat /\ PersonalBar(e[2], s) \in Nat BY <2>1, PairTyped
  <2>3. pool.quality[e][s] \in Nat BY <1>2 DEF Pool
  <2>4. pool.quality[e][s] >= Larger(PersonalBar(e[1], s), PersonalBar(e[2], s))
    BY <1>1, <1>3 DEF MatchBar
  <2>5. r = e[1] \/ r = e[2] BY DEF Ends
  <2> QED BY <2>2, <2>3, <2>4, <2>5 DEF Larger
<1> QED BY <1>1, <1>2, <1>3 DEF Allowed
-----------------------------------------------------------------------------
(* Types: a spot is only taken where there is one, and the shift a pair is *)
(* at is one of its own.                                                   *)
LEMMA InitTyped == Init => PlanTypeOK
<1> SUFFICES ASSUME Init PROVE PlanTypeOK OBVIOUS
<1>1. pool \in Pool BY PlanAssumption DEF Init
<1>2. pool.room \in [Shift -> Nat] BY <1>1 DEF Pool
<1> QED BY <1>1, <1>2 DEF Init, PlanTypeOK, Reason

LEMMA SnapshotTyped == PlanTypeOK /\ Snapshot => PlanTypeOK'
<1> SUFFICES ASSUME PlanTypeOK, Snapshot PROVE PlanTypeOK' OBVIOUS
<1> DEFINE eligible == {e \in Edge : Ends(e) \cap pool.blocked = {} /\ PairEligible(e)}
           edges == {e \in eligible : Passing(e) # {}}
<1>1. /\ options' = [e \in Edge |-> IF e \in edges THEN Passing(e) ELSE {}]
      /\ current' = [e \in Edge |-> IF e \in edges THEN BestOption(e, Passing(e)) ELSE NoShift]
      /\ queue' = edges
      /\ held' = UNION {HeldBy(e) : e \in eligible}
      /\ phase' = "plan"
      /\ UNCHANGED <<pool, capacity, matched, matches, spots, written, status, reason>>
  BY DEF Snapshot, tableVars
<1>2. ASSUME NEW e \in Edge, e \in edges
      PROVE  Passing(e) \subseteq Shift /\ BestOption(e, Passing(e)) \in Passing(e)
  <2>1. Passing(e) \subseteq Shift /\ Passing(e) # {} BY <1>2, PassingAllowed DEF PlanTypeOK
  <2> QED BY <2>1, BestIsBest DEF PlanTypeOK
<1>3. \A e \in Edge : HeldBy(e) \subseteq Request
  BY PairTyped DEF HeldBy, PlanTypeOK
<1> HIDE DEF edges
<1>4. edges \subseteq Edge BY DEF edges
<1>5. options' \in [Edge -> SUBSET Shift] BY <1>1, <1>2
<1>6. current' \in [Edge -> Shift \cup {NoShift}] BY <1>1, <1>2
<1>7. \A e \in queue' : current'[e] \in options'[e] BY <1>1, <1>2, <1>4
<1>8. held' \subseteq Request BY <1>1, <1>3
<1> QED BY <1>1, <1>4, <1>5, <1>6, <1>7, <1>8 DEF PlanTypeOK

LEMMA AssignTyped == PlanTypeOK /\ Assign => PlanTypeOK'
<1> SUFFICES ASSUME PlanTypeOK, Assign PROVE PlanTypeOK' OBVIOUS
<1>1. PICK e \in queue : First(e) /\ (SkipMatched(e) \/ Accept(e) \/ FallBack(e) \/ Drop(e))
  BY DEF Assign
<1>2. UNCHANGED <<pool, phase, spots, written, status, reason>> BY DEF Assign, tableVars
<1>3. e \in Edge /\ current[e] \in Shift BY DEF PlanTypeOK
<1>4. CASE SkipMatched(e)
  BY <1>2, <1>4 DEF SkipMatched, PlanTypeOK
<1>5. CASE Accept(e)
  <2>1. Need(e) \in Nat /\ Ends(e) \subseteq Request
    <3>1. pool \in Pool BY DEF PlanTypeOK
    <3> QED BY <1>3, <3>1, PairTyped
  <2>2. capacity' \in [Shift -> Nat]
    BY <1>3, <1>5, <2>1 DEF Accept, HasRoom, PlanTypeOK
  <2>3. matches' \in Seq(Edge) /\ Len(matches') = Len(matches) + 1
    BY <1>3, <1>5 DEF Accept, PlanTypeOK
  <2>4. written' \in 0 .. Len(matches') BY <1>2, <2>3 DEF PlanTypeOK
  <2> QED BY <1>2, <1>5, <2>1, <2>2, <2>3, <2>4 DEF Accept, PlanTypeOK
<1>6. CASE FallBack(e)
  <2>1. LaterOptions(e) \subseteq options[e] /\ LaterOptions(e) \subseteq Shift
    BY <1>3 DEF LaterOptions, PlanTypeOK
  <2>2. BestOption(e, LaterOptions(e)) \in LaterOptions(e)
    BY <1>3, <1>6, <2>1, BestIsBest DEF FallBack, PlanTypeOK
  <2>3. current' = [current EXCEPT ![e] = BestOption(e, LaterOptions(e))]
    BY <1>6 DEF FallBack
  <2>4. current' \in [Edge -> Shift \cup {NoShift}] BY <2>1, <2>2, <2>3 DEF PlanTypeOK
  <2>5. \A f \in queue : current'[f] \in options[f] BY <1>3, <2>1, <2>2, <2>3 DEF PlanTypeOK
  <2> QED BY <1>2, <1>6, <2>4, <2>5 DEF FallBack, PlanTypeOK
<1>7. CASE Drop(e)
  BY <1>2, <1>7 DEF Drop, PlanTypeOK
<1> QED BY <1>1, <1>4, <1>5, <1>6, <1>7

LEMMA CommitTyped ==
    PlanTypeOK /\ (StartCommit \/ CommitMatch \/ TellReasons) => PlanTypeOK'
<1>1. ASSUME PlanTypeOK, StartCommit PROVE PlanTypeOK'
  <2>1. reason' \in [Request -> Reason] BY <1>1 DEF StartCommit, PlanTypeOK, Reason
  <2> QED BY <1>1, <2>1 DEF StartCommit, PlanTypeOK, planVars
<1>2. ASSUME PlanTypeOK, CommitMatch PROVE PlanTypeOK'
  <2> DEFINE e == matches[written + 1]
             s == current[e]
  <2>1. written + 1 \in 1 .. Len(matches) BY <1>2 DEF CommitMatch, PlanTypeOK
  <2>2. e \in Edge BY <1>2, <2>1 DEF PlanTypeOK
  <2>3. Need(e) \in Nat
    <3>1. pool \in Pool BY <1>2 DEF PlanTypeOK
    <3> HIDE DEF e
    <3> QED BY <2>2, <3>1, PairTyped
  <2>4. UNCHANGED <<pool, phase, planVars>> /\ written' = written + 1
    BY <1>2 DEF CommitMatch
  <2>5. CASE spots[s] >= Need(e)
    <3>1. /\ spots' = [spots EXCEPT ![s] = @ - Need(e)]
          /\ status' = [r \in Request |-> IF r \in Ends(e) THEN "proposed" ELSE status[r]]
          /\ reason' = [r \in Request |-> IF r \in Ends(e) THEN "none" ELSE reason[r]]
      BY <1>2, <2>5 DEF CommitMatch
    <3> HIDE DEF e, s
    <3>2. spots' \in [Shift -> Nat]
      <4>1. spots \in [Shift -> Nat] BY <1>2 DEF PlanTypeOK
      <4>2. ASSUME NEW x \in Shift PROVE spots'[x] \in Nat BY <2>3, <2>5, <3>1, <4>1
      <4>3. spots' = [x \in Shift |-> spots'[x]] BY <3>1, <4>1
      <4> QED BY <4>2, <4>3
    <3>3. status' \in [Request -> {"searching", "proposed"}] /\ reason' \in [Request -> Reason]
      BY <1>2, <3>1 DEF PlanTypeOK, Reason
    <3> QED BY <1>2, <2>1, <2>4, <3>2, <3>3 DEF PlanTypeOK, planVars
  <2>6. CASE ~(spots[s] >= Need(e))
    <3>1. UNCHANGED <<spots, status, reason>> BY <1>2, <2>6 DEF CommitMatch
    <3> QED BY <1>2, <2>1, <2>4, <3>1 DEF PlanTypeOK, planVars
  <2> QED BY <2>5, <2>6
<1>3. ASSUME PlanTypeOK, TellReasons PROVE PlanTypeOK'
  <2>1. \A r : NoMatchReason(r) \in Reason BY DEF NoMatchReason, Reason
  <2>2. reason' \in [Request -> Reason] BY <1>3, <2>1 DEF TellReasons, PlanTypeOK, Reason
  <2> QED BY <1>3, <2>2 DEF TellReasons, PlanTypeOK, planVars
<1> QED BY <1>1, <1>2, <1>3

(* Every value of a run has its type, and a pair in the queue is at one of *)
(* its own shifts, whatever the pool (assign.js).                          *)
THEOREM PlanTyped == Spec => []PlanTypeOK
<1>1. PlanTypeOK /\ [Next]_vars => PlanTypeOK'
  <2>1. PlanTypeOK /\ UNCHANGED vars => PlanTypeOK'
    BY DEF vars, planVars, tableVars, PlanTypeOK
  <2> QED BY <2>1, SnapshotTyped, AssignTyped, CommitTyped DEF Next
<1> QED BY <1>1, InitTyped, PTL DEF Spec
-----------------------------------------------------------------------------
(* The invariant.  Phases: what is empty when.  Placed: the plan uses a    *)
(* request once, and its pairs have left the queue, so they stay at their  *)
(* shifts.  Legal: every shift left to a pair is one the rules allow.      *)
(* Counted: the spots, by the people placed and by the needs of the pairs. *)
Phases ==
    /\ phase = "read" => matches = <<>> /\ queue = {} /\ options = [e \in Edge |-> {}]
    /\ phase \in {"commit", "told"} => queue = {}

Placed ==
    /\ matched = {r \in Request : \E i \in 1 .. Len(matches) : r \in Ends(matches[i])}
    /\ \A i, j \in 1 .. Len(matches) : i # j => Ends(matches[i]) \cap Ends(matches[j]) = {}
    /\ \A i \in 1 .. Len(matches) :
           matches[i] \notin queue /\ current[matches[i]] \in options[matches[i]]

Legal == \A e \in Edge : \A s \in options[e] : <<e, s>> \in Allowed

Counted ==
    /\ \A s \in Shift :
        /\ capacity[s] + Cardinality(PlacedAt(Len(matches), s)) = pool.room[s]
        /\ spots[s] + Cardinality(PlacedAt(written, s)) = pool.room[s]
        /\ capacity[s] + Abstract!Spots(s) = pool.room[s]
    /\ IsFiniteSet(Planned)

(* Ranked: no pair of the queue has a higher tier than one of the plan;    *)
(* whatever lies before the shift a pair is at is full; and every pair is  *)
(* still in the race, in the plan, beaten to one of its people by a pair   *)
(* before it, or out because all its shifts are full.                      *)
Beaten(e) ==
    \E i \in 1 .. Len(matches) :
        Ends(matches[i]) \cap Ends(e) # {} /\ LexLess(EdgeKey(matches[i]), EdgeKey(e))
Full(e) == \A s \in options[e] : capacity[s] < Need(e)
Ranked ==
    /\ \A i, j \in 1 .. Len(matches) : i < j => Tier(matches[i]) >= Tier(matches[j])
    /\ \A i \in 1 .. Len(matches), f \in queue : Tier(matches[i]) >= Tier(f)
    /\ \A e \in queue : \A s \in options[e] :
           LexLess(OptionKey(e, s), OptionKey(e, current[e])) => capacity[s] < Need(e)
    /\ \A e \in Edge :
           \/ e \in queue /\ ~Taken(e)
           \/ InPlan(e)
           \/ e \notin queue /\ Full(e)
           \/ Beaten(e)

(* Answered: what is told, by how far the run has come.                    *)
Answered ==
    /\ \A r \in held : pool.kind[r] = "standard" /\ r \notin pool.anyone
    /\ \A r \in Request :
           status[r] = "proposed" <=> \E i \in 1 .. written : r \in Ends(matches[i])
    /\ phase \in {"read", "plan"} => written = 0 /\ \A r \in Request : reason[r] = "none"
    /\ phase = "commit" =>
           \A r \in Request : reason[r] = IF r \in pool.blocked THEN "blocked" ELSE "none"
    /\ phase = "told" =>
        /\ written = Len(matches)
        /\ \A r \in Request :
            /\ status[r] = "searching" <=> reason[r] # "none"
            /\ reason[r] = "holding_for_better_match" => r \in held

PlanIInv ==
    /\ PlanTypeOK /\ Phases /\ Placed /\ Legal
    /\ Counted /\ Ranked /\ Answered
-----------------------------------------------------------------------------
(* Counting the people placed.                                             *)
PlacedBy(m, n, s) ==
    {r \in Request : ~Anchored(r) /\ \E i \in 1 .. n : r \in Ends(m[i]) /\ current[m[i]] = s}

LEMMA PlacedFinite ==
    ASSUME NEW m, NEW n, NEW s
    PROVE  IsFiniteSet(PlacedBy(m, n, s)) /\ Cardinality(PlacedBy(m, n, s)) \in Nat
<1>1. IsFiniteSet(Request) BY PlanAssumption, FS_Interval DEF Request
<1>2. PlacedBy(m, n, s) \subseteq Request BY DEF PlacedBy
<1> QED BY <1>1, <1>2, FS_Subset, FS_CardinalityType

LEMMA PlacedGrows ==
    ASSUME pool \in Pool, NEW m \in Seq(Edge), NEW n \in Nat, n + 1 <= Len(m), NEW s,
           \A i, j \in 1 .. Len(m) : i # j => Ends(m[i]) \cap Ends(m[j]) = {}
    PROVE  Cardinality(PlacedBy(m, n + 1, s)) =
               Cardinality(PlacedBy(m, n, s)) + (IF current[m[n + 1]] = s THEN Need(m[n + 1]) ELSE 0)
<1> DEFINE e == m[n + 1]
<1>1. n + 1 \in 1 .. Len(m) /\ 1 .. n + 1 = (1 .. n) \cup {n + 1} /\ 1 .. n \subseteq 1 .. Len(m)
  BY LenProperties
<1>2. e \in Edge BY <1>1, ElementOfSeq
<1>3. Ends(e) \subseteq Request BY <1>2, PairTyped
<1>4. \A i \in 1 .. n : Ends(m[i]) \cap Ends(e) = {}
  <2>1. \A i \in 1 .. n : i \in 1 .. Len(m) /\ i # n + 1 BY <1>1
  <2> QED BY <1>1, <2>1
<1> HIDE DEF e
<1>5. CASE current[e] = s
  <2> DEFINE A == PlacedBy(m, n, s)
             B == NewcomersOf(e)
  <2>1. PlacedBy(m, n + 1, s) = A \cup B
    BY <1>1, <1>3, <1>5 DEF PlacedBy, NewcomersOf, e
  <2>2. A \cap B = {}
    BY <1>4 DEF PlacedBy, NewcomersOf
  <2>3. IsFiniteSet(A) /\ Cardinality(A) \in Nat BY PlacedFinite
  <2>4. IsFiniteSet(B) /\ Cardinality(B) = Need(e) /\ Need(e) \in Nat
    BY <1>2, NeedCounts, PairTyped
  <2> HIDE DEF A, B
  <2>5. Cardinality(A \cup B) = Cardinality(A) + Cardinality(B)
    <3>1. Cardinality(A \cap B) = 0 BY <2>2, FS_EmptySet
    <3>2. Cardinality(A \cup B) = Cardinality(A) + Cardinality(B) - Cardinality(A \cap B)
      BY <2>3, <2>4, FS_Union
    <3>3. Cardinality(B) \in Nat BY <2>4
    <3> QED BY <2>3, <3>1, <3>2, <3>3
  <2>6. Cardinality(PlacedBy(m, n + 1, s)) = Cardinality(PlacedBy(m, n, s)) + Need(e)
    BY <2>1, <2>4, <2>5 DEF A
  <2> QED BY <1>5, <2>6 DEF e
<1>6. CASE current[e] # s
  <2>1. PlacedBy(m, n + 1, s) = PlacedBy(m, n, s) BY <1>1, <1>6 DEF PlacedBy, e
  <2>2. Cardinality(PlacedBy(m, n, s)) \in Nat BY PlacedFinite
  <2> QED BY <1>6, <2>1, <2>2 DEF e
<1> QED BY <1>5, <1>6

LEMMA PlacedMonotone ==
    ASSUME NEW m, NEW n \in Nat, NEW k \in Nat, n <= k, NEW s
    PROVE  Cardinality(PlacedBy(m, n, s)) <= Cardinality(PlacedBy(m, k, s))
<1>1. PlacedBy(m, n, s) \subseteq PlacedBy(m, k, s)
  <2>1. 1 .. n \subseteq 1 .. k OBVIOUS
  <2> QED BY <2>1 DEF PlacedBy
<1> QED BY <1>1, PlacedFinite, FS_Subset

(* A pair that joins the plan takes as many spots as it needs.             *)
AtOf(plan, s, n) == {p \in plan : p[2] = s /\ Need(p[1]) = n}
SpotsOf(plan, s) == Cardinality(AtOf(plan, s, 1)) + 2 * Cardinality(AtOf(plan, s, 2))

LEMMA SpotsGrow ==
    ASSUME pool \in Pool, NEW plan, IsFiniteSet(plan), NEW e \in Edge, NEW c,
           <<e, c>> \notin plan, NEW s
    PROVE  /\ SpotsOf(plan \cup {<<e, c>>}, s) = SpotsOf(plan, s) + (IF c = s THEN Need(e) ELSE 0)
           /\ SpotsOf(plan, s) \in Nat
<1> DEFINE p == <<e, c>>
<1>1. Need(e) \in {0, 1, 2} BY DEF Need
<1>2. ASSUME NEW n
      PROVE  IsFiniteSet(AtOf(plan, s, n)) /\ Cardinality(AtOf(plan, s, n)) \in Nat
  <2>1. AtOf(plan, s, n) \subseteq plan BY DEF AtOf
  <2> QED BY <2>1, FS_Subset, FS_CardinalityType
<1>3. ASSUME NEW n, c = s, Need(e) = n
      PROVE  Cardinality(AtOf(plan \cup {p}, s, n)) = Cardinality(AtOf(plan, s, n)) + 1
  <2>1. AtOf(plan \cup {p}, s, n) = AtOf(plan, s, n) \cup {p} BY <1>3 DEF AtOf
  <2>2. p \notin AtOf(plan, s, n) BY DEF AtOf
  <2> QED BY <1>2, <2>1, <2>2, FS_AddElement
<1>4. ASSUME NEW n, ~(c = s /\ Need(e) = n)
      PROVE  AtOf(plan \cup {p}, s, n) = AtOf(plan, s, n)
  BY <1>4 DEF AtOf
<1> HIDE DEF p
<1>5. CASE c # s
  <2>1. SpotsOf(plan \cup {p}, s) = SpotsOf(plan, s) BY <1>4, <1>5 DEF SpotsOf
  <2> QED BY <1>2, <1>5, <2>1 DEF SpotsOf, p
<1>6. CASE c = s /\ Need(e) = 0
  <2>1. SpotsOf(plan \cup {p}, s) = SpotsOf(plan, s) BY <1>4, <1>6 DEF SpotsOf
  <2> QED BY <1>2, <1>6, <2>1 DEF SpotsOf, p
<1>7. CASE c = s /\ Need(e) = 1
  <2>1. AtOf(plan \cup {p}, s, 2) = AtOf(plan, s, 2) BY <1>4, <1>7
  <2>2. Cardinality(AtOf(plan \cup {p}, s, 1)) = Cardinality(AtOf(plan, s, 1)) + 1 BY <1>3, <1>7
  <2> QED BY <1>2, <1>7, <2>1, <2>2 DEF SpotsOf, p
<1>8. CASE c = s /\ Need(e) = 2
  <2>1. AtOf(plan \cup {p}, s, 1) = AtOf(plan, s, 1) BY <1>4, <1>8
  <2>2. Cardinality(AtOf(plan \cup {p}, s, 2)) = Cardinality(AtOf(plan, s, 2)) + 1 BY <1>3, <1>8
  <2> QED BY <1>2, <1>8, <2>1, <2>2 DEF SpotsOf, p
<1> QED BY <1>1, <1>5, <1>6, <1>7, <1>8

(* The count of the abstract assignment, in these terms.                   *)
LEMMA SpotsAreOf ==
    ASSUME PlanTypeOK, NEW s
    PROVE  Abstract!Spots(s) = SpotsOf(Planned, s)
<1>1. \A p \in Planned : p[1] \in Edge
  BY DEF Planned, PlanTypeOK
<1>2. \A n : Abstract!At(s, n) = AtOf(Planned, s, n)
  BY <1>1 DEF Abstract!At, AtOf
<1>3. \A S : Abstract!Cardinality(S) = Cardinality(S)
  BY DEF Abstract!Cardinality, Cardinality
<1> QED BY <1>2, <1>3 DEF Abstract!Spots, SpotsOf
-----------------------------------------------------------------------------
(* An empty plan takes no spots.                                           *)
LEMMA NothingPlaced ==
    /\ \A s : PlacedAt(0, s) = {}
    /\ Cardinality({}) = 0
    /\ \A s : SpotsOf({}, s) = 0
<1>1. \A s : PlacedAt(0, s) = {}
  <2>1. 1 .. 0 = {} OBVIOUS
  <2> QED BY <2>1 DEF PlacedAt
<1>2. Cardinality({}) = 0 BY FS_EmptySet
<1>3. \A s : SpotsOf({}, s) = 0
  <2>1. \A s, n : AtOf({}, s, n) = {} BY DEF AtOf
  <2> QED BY <1>2, <2>1 DEF SpotsOf
<1> QED BY <1>1, <1>2, <1>3

LEMMA EmptyPlan ==
    ASSUME matches = <<>>
    PROVE  Len(matches) = 0 /\ 1 .. Len(matches) = {} /\ Planned = {}
<1>1. Len(matches) = 0 /\ 1 .. Len(matches) = {} OBVIOUS
<1> QED BY <1>1 DEF Planned

LEMMA InitPlanned == Init => PlanIInv
<1> SUFFICES ASSUME Init PROVE PlanIInv OBVIOUS
<1>1. PlanTypeOK BY InitTyped
<1>2. matches = <<>> /\ queue = {} /\ matched = {} /\ written = 0 /\ phase = "read"
  BY DEF Init
<1>3. Len(matches) = 0 /\ 1 .. Len(matches) = {} /\ Planned = {} BY <1>2, EmptyPlan
<1>4. options = [e \in Edge |-> {}] BY DEF Init
<1>5. Phases BY <1>2, <1>4 DEF Phases
<1>6. Placed BY <1>2, <1>3 DEF Placed
<1>7. Legal BY <1>4 DEF Legal
<1>8. Counted
  <2>1. capacity = pool.room /\ spots = pool.room /\ pool.room \in [Shift -> Nat]
    BY <1>1 DEF Init, PlanTypeOK
  <2>2. ASSUME NEW s \in Shift
        PROVE  /\ Cardinality(PlacedAt(Len(matches), s)) = 0
               /\ Cardinality(PlacedAt(written, s)) = 0
               /\ Abstract!Spots(s) = 0
    <3>1. Abstract!Spots(s) = SpotsOf({}, s) BY <1>1, <1>3, SpotsAreOf
    <3> QED BY <1>2, <1>3, <3>1, NothingPlaced
  <2>3. IsFiniteSet(Planned) BY <1>3, FS_EmptySet
  <2> QED BY <2>1, <2>2, <2>3 DEF Counted
<1>9. Ranked
  <2>1. \A e \in Edge : Full(e) BY <1>4 DEF Full
  <2> QED BY <1>2, <1>3, <2>1 DEF Ranked
<1>10. Answered
  <2>1. /\ held = {} /\ status = [r \in Request |-> "searching"]
        /\ reason = [r \in Request |-> "none"]
    BY DEF Init
  <2>2. 1 .. written = {} BY <1>2
  <2> QED BY <1>2, <2>1, <2>2 DEF Answered
<1> QED BY <1>1, <1>5, <1>6, <1>7, <1>8, <1>9, <1>10 DEF PlanIInv

LEMMA SnapshotPlanned == PlanIInv /\ Snapshot => PlanIInv'
<1> SUFFICES ASSUME PlanIInv, Snapshot PROVE PlanIInv' OBVIOUS
<1> DEFINE eligible == {e \in Edge : Ends(e) \cap pool.blocked = {} /\ PairEligible(e)}
           edges == {e \in eligible : Passing(e) # {}}
<1>1. /\ options' = [e \in Edge |-> IF e \in edges THEN Passing(e) ELSE {}]
      /\ current' = [e \in Edge |-> IF e \in edges THEN BestOption(e, Passing(e)) ELSE NoShift]
      /\ queue' = edges
      /\ held' = UNION {HeldBy(e) : e \in eligible}
      /\ phase = "read" /\ phase' = "plan"
      /\ UNCHANGED <<pool, capacity, matched, matches, spots, written, status, reason>>
  BY DEF Snapshot, tableVars
<1>2. PlanTypeOK' /\ PlanTypeOK BY SnapshotTyped DEF PlanIInv
<1>3. pool \in Pool BY <1>2 DEF PlanTypeOK
<1>4. matches = <<>> /\ queue = {} BY <1>1 DEF PlanIInv, Phases
<1>5. Len(matches) = 0 /\ 1 .. Len(matches) = {} /\ Planned = {} BY <1>4, EmptyPlan
<1>6. /\ matches' = <<>> /\ Len(matches') = 0 /\ 1 .. Len(matches') = {} /\ Planned' = {}
  BY <1>1, <1>4, <1>5 DEF Planned
<1>7. matched = {} /\ written = 0
  BY <1>2, <1>5 DEF PlanIInv, Placed, PlanTypeOK
<1>8. ASSUME NEW e \in edges
      PROVE  /\ Passing(e) \subseteq Shift /\ Passing(e) # {}
             /\ \A s \in Passing(e) : <<e, s>> \in Allowed
  BY <1>3, PassingAllowed
<1>9. edges \subseteq Edge OBVIOUS
<1> HIDE DEF edges
<1>10. Phases' BY <1>1 DEF Phases
<1>11. Placed' BY <1>1, <1>6, <1>7 DEF Placed
<1>12. Legal'
  <2>1. \A e \in Edge : \A s \in options'[e] : <<e, s>> \in Allowed BY <1>1, <1>8
  <2> QED BY <1>1, <2>1, PoolStays DEF Legal
<1>13. Counted'
  <2>1. ASSUME NEW s \in Shift
        PROVE  /\ PlacedAt(Len(matches), s)' = {} /\ PlacedAt(written, s)' = {}
               /\ PlacedAt(Len(matches), s) = {} /\ PlacedAt(written, s) = {}
    <3>1. 1 .. 0 = {} OBVIOUS
    <3> QED BY <1>1, <1>5, <1>6, <1>7, <3>1 DEF PlacedAt
  <2>2. ASSUME NEW s PROVE Abstract!Spots(s)' = Abstract!Spots(s)
    <3>1. Planned' = Planned BY <1>5, <1>6
    <3>2. Abstract!At(s, 1)' = Abstract!At(s, 1) /\ Abstract!At(s, 2)' = Abstract!At(s, 2)
      BY <1>5, <1>6, <3>1 DEF Abstract!At
    <3> QED BY <3>2 DEF Abstract!Spots
  <2>3. IsFiniteSet(Planned') BY <1>6, FS_EmptySet
  <2> QED BY <1>1, <2>1, <2>2, <2>3 DEF PlanIInv, Counted
<1>14. Ranked'
  <2>1. ASSUME NEW e \in edges, NEW s \in Passing(e)
        PROVE  ~LexLess(OptionKey(e, s), OptionKey(e, BestOption(e, Passing(e))))
    <3>1. /\ BestOption(e, Passing(e)) \in Passing(e)
          /\ s # BestOption(e, Passing(e)) =>
                LexLess(OptionKey(e, BestOption(e, Passing(e))), OptionKey(e, s))
      BY <1>3, <1>8, <1>9, BestIsBest
    <3>2. s \in Shift /\ BestOption(e, Passing(e)) \in Shift BY <1>8, <3>1
    <3> QED BY <1>3, <1>9, <3>1, <3>2, OptionsOrdered
  <2>2. ASSUME NEW e \in queue', NEW s \in options'[e]
        PROVE  ~LexLess(OptionKey(e, s), OptionKey(e, current[e]))'
    <3>1. e \in edges /\ e \in Edge BY <1>1, <1>9
    <3>2. s \in Passing(e) /\ current'[e] = BestOption(e, Passing(e)) BY <1>1, <3>1
    <3>3. ~LexLess(OptionKey(e, s), OptionKey(e, current'[e])) BY <2>1, <3>1, <3>2
    <3>4. /\ OptionKey(e, s)' = OptionKey(e, s)
          /\ OptionKey(e, current[e])' = OptionKey(e, current'[e])
      BY <1>1 DEF OptionKey
    <3> QED BY <3>3, <3>4 DEF LexLess
  <2>3. ASSUME NEW e \in Edge
        PROVE  (e \in queue /\ ~Taken(e))' \/ (e \notin queue /\ Full(e))'
    <3>1. ~Taken(e)' BY <1>1, <1>7 DEF Taken
    <3>2. e \notin edges => Full(e)' BY <1>1 DEF Full
    <3> QED BY <1>1, <3>1, <3>2
  <2> QED BY <1>6, <2>2, <2>3 DEF Ranked
<1>15. Answered'
  <2>1. ASSUME NEW r \in held' PROVE pool.kind[r] = "standard" /\ r \notin pool.anyone
    <3>1. PICK e \in Edge : r \in HeldBy(e) BY <1>1
    <3>2. PICK s \in SharedWithRoom(e) : PersonalBar(r, s) > pool.quality[e][s]
      BY <3>1 DEF HeldBy
    <3>3. s \in Shift BY <1>3, PairTyped DEF SharedWithRoom, Pool
    <3>4. pool.quality[e][s] \in Nat BY <1>3, <3>3 DEF Pool
    <3>5. PersonalBar(r, s) # 0 BY <3>2, <3>4
    <3> QED BY <3>5 DEF PersonalBar
  <2>2. 1 .. written = {} /\ 1 .. written' = {} BY <1>1, <1>7
  <2> QED BY <1>1, <2>1, <2>2 DEF PlanIInv, Answered
<1> QED BY <1>2, <1>10, <1>11, <1>12, <1>13, <1>14, <1>15 DEF PlanIInv
LEMMA SpotsStay ==
    ASSUME pool' = pool, Planned' = Planned
    PROVE  \A s : Abstract!Spots(s)' = Abstract!Spots(s)
<1>1. [e \in Edge |-> Need(e)]' = [e \in Edge |-> Need(e)] BY PoolStays
<1>2. \A s, n : Abstract!At(s, n)' = Abstract!At(s, n) BY <1>1 DEF Abstract!At
<1> QED BY <1>2 DEF Abstract!Spots

-----------------------------------------------------------------------------
(* The rounds of planAssignments.                                          *)

(* A pair leaves the queue for good, and nothing else happens.             *)
LEMMA LeavesQueue ==
    ASSUME PlanIInv, PlanTypeOK', NEW e \in queue, phase = "plan",
           UNCHANGED <<pool, phase, spots, written, status, reason>>,
           UNCHANGED <<options, current, held, capacity, matched, matches>>,
           queue' = queue \ {e}, Beaten(e) \/ Full(e)
    PROVE  PlanIInv'
<1>1. e \in Edge BY DEF PlanIInv, PlanTypeOK
<1>2. Phases' BY DEF Phases
<1>3. Placed' BY DEF PlanIInv, Placed
<1>4. Legal' BY PoolStays DEF PlanIInv, Legal
<1>5. Counted'
  <2>1. \A n, s : PlacedAt(n, s)' = PlacedAt(n, s) BY DEF PlacedAt, Anchored
  <2>2. Planned' = Planned BY DEF Planned
  <2>3. \A s : Abstract!Spots(s)' = Abstract!Spots(s)
    BY <2>2, SpotsStay
  <2> QED BY <2>1, <2>2, <2>3 DEF PlanIInv, Counted
<1>6. Ranked'
  <2>1. \A f : EdgeKey(f)' = EdgeKey(f) BY EdgeStays
  <2>2. \A f : Beaten(f)' = Beaten(f) BY <2>1 DEF Beaten, LexLess
  <2>3. \A f : Full(f)' = Full(f) BY PoolStays DEF Full
  <2>4. \A f : InPlan(f)' = InPlan(f) /\ Taken(f)' = Taken(f) BY DEF InPlan, Taken
  <2>5. \A f, s : LexLess(OptionKey(f, s), OptionKey(f, current[f]))' =
                      LexLess(OptionKey(f, s), OptionKey(f, current[f]))
    BY DEF OptionKey, LexLess
  <2>6. \A f : Tier(f)' = Tier(f) /\ Need(f)' = Need(f) BY PoolStays
  <2>7. /\ \A i, j \in 1 .. Len(matches) : i < j => (Tier(matches[i]) >= Tier(matches[j]))'
        /\ \A i \in 1 .. Len(matches), f \in queue' : (Tier(matches[i]) >= Tier(f))'
    BY <2>6 DEF PlanIInv, Ranked
  <2>8. \A f \in queue' : \A s \in options'[f] :
           (LexLess(OptionKey(f, s), OptionKey(f, current[f])) => capacity[s] < Need(f))'
    BY <2>5, <2>6 DEF PlanIInv, Ranked
  <2>9. ASSUME NEW f \in Edge
        PROVE  \/ f \in queue' /\ ~Taken(f)
               \/ InPlan(f)
               \/ f \notin queue' /\ Full(f)
               \/ Beaten(f)
    <3>1. \/ f \in queue /\ ~Taken(f)
          \/ InPlan(f)
          \/ f \notin queue /\ Full(f)
          \/ Beaten(f)
      BY DEF PlanIInv, Ranked
    <3> QED BY <3>1
  <2> QED BY <2>2, <2>3, <2>4, <2>7, <2>8, <2>9 DEF Ranked
<1>7. Answered' BY DEF PlanIInv, Answered
<1> QED BY <1>2, <1>3, <1>4, <1>5, <1>6, <1>7 DEF PlanIInv

(* A pair one of whose people is taken was beaten by who took them.        *)
LEMMA SkippedIsBeaten ==
    ASSUME PlanIInv, NEW e \in queue, Taken(e)
    PROVE  Beaten(e)
<1>1. e \in Edge BY DEF PlanIInv, PlanTypeOK
<1>2. ~InPlan(e) BY DEF PlanIInv, Placed, InPlan
<1> QED BY <1>1, <1>2 DEF PlanIInv, Ranked

(* A pair that cannot fall back has no shift with room, also not among     *)
(* those it fell back from.                                                *)
LEMMA DroppedIsFull ==
    ASSUME PlanIInv, NEW e \in queue, ~HasRoom(e), LaterOptions(e) = {}
    PROVE  Full(e)
<1>1. /\ e \in Edge /\ pool \in Pool /\ options[e] \subseteq Shift /\ current[e] \in options[e]
      /\ capacity \in [Shift -> Nat]
  BY DEF PlanIInv, PlanTypeOK
<1>2. Need(e) \in Nat BY <1>1, PairTyped
<1>3. ASSUME NEW s \in options[e] PROVE capacity[s] < Need(e)
  <2>1. s \in Shift /\ current[e] \in Shift /\ capacity[s] \in Nat BY <1>1
  <2>2. \/ s = current[e]
        \/ LexLess(OptionKey(e, s), OptionKey(e, current[e]))
        \/ LexLess(OptionKey(e, current[e]), OptionKey(e, s))
    BY <1>1, <2>1, OptionsOrdered
  <2>3. CASE s = current[e] BY <1>2, <2>1, <2>3 DEF HasRoom
  <2>4. CASE LexLess(OptionKey(e, s), OptionKey(e, current[e]))
    BY <2>4 DEF PlanIInv, Ranked
  <2>5. CASE LexLess(OptionKey(e, current[e]), OptionKey(e, s))
    <3>1. ~(capacity[s] >= Need(e)) BY <2>5 DEF LaterOptions
    <3> QED BY <1>2, <2>1, <3>1
  <2> QED BY <2>2, <2>3, <2>4, <2>5
<1> QED BY <1>3 DEF Full

(* Falling back: the shifts before the new one are those before the old    *)
(* one, the old one, and those passed over, all of them full.              *)
LEMMA FallBackPlanned ==
    ASSUME PlanIInv, PlanTypeOK', NEW e \in queue, phase = "plan",
           UNCHANGED <<pool, phase, spots, written, status, reason>>, FallBack(e)
    PROVE  PlanIInv'
<1> DEFINE c == BestOption(e, LaterOptions(e))
<1>1. /\ e \in Edge /\ pool \in Pool /\ options[e] \subseteq Shift /\ current[e] \in options[e]
      /\ capacity \in [Shift -> Nat] /\ current \in [Edge -> Shift \cup {NoShift}]
      /\ matches \in Seq(Edge)
  BY DEF PlanIInv, PlanTypeOK
<1>2. Need(e) \in Nat BY <1>1, PairTyped
<1>3. /\ ~Taken(e) /\ ~HasRoom(e) /\ LaterOptions(e) # {}
      /\ current' = [current EXCEPT ![e] = c]
      /\ UNCHANGED <<options, held, queue, capacity, matched, matches>>
  BY DEF FallBack
<1>4. LaterOptions(e) \subseteq options[e] /\ LaterOptions(e) \subseteq Shift
  BY <1>1 DEF LaterOptions
<1>5. /\ c \in LaterOptions(e)
      /\ \A t \in LaterOptions(e) \ {c} : LexLess(OptionKey(e, c), OptionKey(e, t))
  BY <1>1, <1>3, <1>4, BestIsBest
<1> HIDE DEF c
<1>6. current'[e] = c /\ \A f \in Edge : f # e => current'[f] = current[f]
  BY <1>1, <1>3
<1>7. \A i \in 1 .. Len(matches) : matches[i] \in Edge /\ matches[i] # e
  BY <1>1, ElementOfSeq DEF PlanIInv, Placed
<1>8. \A i \in 1 .. Len(matches) : current'[matches[i]] = current[matches[i]]
  BY <1>6, <1>7
<1>9. Phases' BY DEF Phases
<1>10. Placed' BY <1>3, <1>8 DEF PlanIInv, Placed
<1>11. Legal' BY <1>3, PoolStays DEF PlanIInv, Legal
<1>12. Counted'
  <2>1. ASSUME NEW n \in {written, Len(matches)}, NEW s PROVE PlacedAt(n, s)' = PlacedAt(n, s)
    <3>1. \A i \in 1 .. n : i \in 1 .. Len(matches) BY DEF PlanIInv, PlanTypeOK
    <3> QED BY <1>3, <1>8, <3>1 DEF PlacedAt, Anchored
  <2>2. Planned' = Planned BY <1>3, <1>8 DEF Planned
  <2>3. \A s : Abstract!Spots(s)' = Abstract!Spots(s)
    BY <2>2, SpotsStay
  <2>4. \A s : /\ PlacedAt(Len(matches), s)' = PlacedAt(Len(matches), s)
               /\ PlacedAt(written, s)' = PlacedAt(written, s)
    BY <1>3, <2>1
  <2> QED BY <1>3, <2>2, <2>3, <2>4 DEF PlanIInv, Counted
<1>13. Ranked'
  <2>1. \A f \in Edge : f # e => EdgeKey(f)' = EdgeKey(f) BY <1>6, EdgeStays
  <2>3. \A f \in Edge : f # e => Beaten(f)' = Beaten(f)
    BY <1>3, <1>7, <2>1 DEF Beaten, LexLess
  <2>4. \A f : Full(f)' = Full(f) BY <1>3, PoolStays DEF Full
  <2>5. \A f : InPlan(f)' = InPlan(f) /\ Taken(f)' = Taken(f) BY <1>3 DEF InPlan, Taken
  <2>6. \A f : Tier(f)' = Tier(f) /\ Need(f)' = Need(f) BY PoolStays
  <2>7. /\ \A i, j \in 1 .. Len(matches) : i < j => (Tier(matches[i]) >= Tier(matches[j]))'
        /\ \A i \in 1 .. Len(matches), f \in queue' : (Tier(matches[i]) >= Tier(f))'
    BY <1>3, <2>6 DEF PlanIInv, Ranked
  <2>8. ASSUME NEW f \in queue', f # e, NEW s \in options'[f]
        PROVE  (LexLess(OptionKey(f, s), OptionKey(f, current[f])) => capacity[s] < Need(f))'
    <3>1. f \in Edge /\ f \in queue /\ s \in options[f] BY <1>3 DEF PlanIInv, PlanTypeOK
    <3>2. /\ OptionKey(f, s)' = OptionKey(f, s)
          /\ OptionKey(f, current[f])' = OptionKey(f, current[f])
      BY <1>6, <2>8, <3>1 DEF OptionKey
    <3> QED BY <1>3, <2>6, <3>1, <3>2 DEF PlanIInv, Ranked, LexLess
  <2>9. ASSUME NEW s \in options[e], LexLess(OptionKey(e, s), OptionKey(e, c))
        PROVE  capacity[s] < Need(e)
    <3>1. s \in Shift /\ c \in Shift /\ current[e] \in Shift /\ capacity[s] \in Nat
      BY <1>1, <1>4, <1>5
    <3>2. s \notin LaterOptions(e) BY <1>1, <1>5, <2>9, <3>1, OptionsOrdered
    <3>3. \/ s = current[e]
          \/ LexLess(OptionKey(e, s), OptionKey(e, current[e]))
          \/ LexLess(OptionKey(e, current[e]), OptionKey(e, s))
      BY <1>1, <3>1, OptionsOrdered
    <3>4. CASE s = current[e] BY <1>2, <1>3, <3>1, <3>4 DEF HasRoom
    <3>5. CASE LexLess(OptionKey(e, s), OptionKey(e, current[e]))
      BY <3>5 DEF PlanIInv, Ranked
    <3>6. CASE LexLess(OptionKey(e, current[e]), OptionKey(e, s))
      <4>1. ~(capacity[s] >= Need(e)) BY <3>2, <3>6 DEF LaterOptions
      <4> QED BY <1>2, <3>1, <4>1
    <3> QED BY <3>3, <3>4, <3>5, <3>6
  <2>10. ASSUME NEW s \in options'[e]
         PROVE  (LexLess(OptionKey(e, s), OptionKey(e, current[e])) => capacity[s] < Need(e))'
    <3>1. OptionKey(e, s)' = OptionKey(e, s) /\ OptionKey(e, current[e])' = OptionKey(e, c)
      BY <1>6 DEF OptionKey
    <3> QED BY <1>3, <2>6, <2>9, <3>1 DEF LexLess
  <2>11. ASSUME NEW f \in Edge
         PROVE  \/ (f \in queue /\ ~Taken(f))'
                \/ InPlan(f)'
                \/ (f \notin queue /\ Full(f))'
                \/ Beaten(f)'
    <3>1. CASE f = e BY <1>3, <2>5, <3>1
    <3>2. CASE f # e
      <4>1. \/ f \in queue /\ ~Taken(f)
            \/ InPlan(f)
            \/ f \notin queue /\ Full(f)
            \/ Beaten(f)
        BY DEF PlanIInv, Ranked
      <4> QED BY <1>3, <2>3, <2>4, <2>5, <3>2, <4>1
    <3> QED BY <3>1, <3>2
  <2>12. \A f \in queue' : \A s \in options'[f] :
            (LexLess(OptionKey(f, s), OptionKey(f, current[f])) => capacity[s] < Need(f))'
    BY <2>8, <2>10
  <2>13. Len(matches') = Len(matches) BY <1>3
  <2> QED BY <2>7, <2>11, <2>12, <2>13 DEF Ranked
<1>14. Answered' BY <1>3 DEF PlanIInv, Answered
<1> QED BY <1>9, <1>10, <1>11, <1>12, <1>13, <1>14 DEF PlanIInv
(* Accepting the first pair: it becomes the last of the plan, with a tier  *)
(* no lower than what is left, and takes its people from pairs after it.   *)
LEMMA AcceptPlanned ==
    ASSUME PlanIInv, PlanTypeOK', NEW e \in queue, phase = "plan", First(e),
           UNCHANGED <<pool, phase, spots, written, status, reason>>, Accept(e)
    PROVE  PlanIInv'
<1> DEFINE c == current[e]
<1>0. PICK L : L = Len(matches) OBVIOUS
<1>1. /\ e \in Edge /\ pool \in Pool /\ current[e] \in options[e]
      /\ options \in [Edge -> SUBSET Shift]
      /\ capacity \in [Shift -> Nat] /\ matches \in Seq(Edge) /\ queue \subseteq Edge
  BY DEF PlanIInv, PlanTypeOK
<1>2. Need(e) \in Nat /\ Ends(e) \subseteq Request /\ c \in Shift BY <1>1, PairTyped
<1>3. /\ ~Taken(e) /\ capacity[c] >= Need(e)
      /\ capacity' = [capacity EXCEPT ![c] = @ - Need(e)]
      /\ matched' = matched \cup Ends(e)
      /\ matches' = Append(matches, e)
      /\ queue' = queue \ {e}
      /\ UNCHANGED <<options, current, held>>
  BY DEF Accept, HasRoom
<1>4. /\ L \in Nat /\ Len(matches') = L + 1 /\ matches' \in Seq(Edge)
      /\ matches'[L + 1] = e /\ \A i \in 1 .. L : matches'[i] = matches[i]
      /\ 1 .. L + 1 = (1 .. L) \cup {L + 1} /\ L + 1 \notin 1 .. L
  BY <1>0, <1>1, <1>3
<1>5. written = 0 BY DEF PlanIInv, Answered
<1>6. \A f \in Edge : f \in queue' => f \in queue /\ f # e BY <1>1, <1>3
<1>7. \A s \in Shift : capacity'[s] = capacity[s] - (IF c = s THEN Need(e) ELSE 0)
  BY <1>1, <1>2, <1>3
<1>8. \A i \in 1 .. L : matches[i] \in Edge /\ matches[i] # e
  BY <1>0, <1>1, ElementOfSeq DEF PlanIInv, Placed
<1> HIDE DEF c
<1>9. Phases' BY DEF Phases
<1>10. Placed'
  <2>1. \A i \in 1 .. L : Ends(matches[i]) \cap Ends(e) = {}
    BY <1>2, <1>3, <1>0 DEF PlanIInv, Placed, Taken
  <2>2. matched' = {r \in Request : \E i \in 1 .. L + 1 : r \in Ends(matches'[i])}
    <3>1. matched = {r \in Request : \E i \in 1 .. L : r \in Ends(matches[i])}
      BY <1>0 DEF PlanIInv, Placed
    <3> QED BY <1>2, <1>3, <1>4, <3>1
  <2>3. \A i, j \in 1 .. L + 1 : i # j => Ends(matches'[i]) \cap Ends(matches'[j]) = {}
    <3>1. \A i, j \in 1 .. L : i # j => Ends(matches[i]) \cap Ends(matches[j]) = {}
      BY <1>0 DEF PlanIInv, Placed
    <3> QED BY <1>4, <2>1, <3>1
  <2>4. \A i \in 1 .. L + 1 :
           matches'[i] \notin queue' /\ current'[matches'[i]] \in options'[matches'[i]]
    <3>1. \A i \in 1 .. L :
             matches[i] \notin queue /\ current[matches[i]] \in options[matches[i]]
      BY <1>0 DEF PlanIInv, Placed
    <3> QED BY <1>1, <1>3, <1>4, <3>1
  <2> QED BY <1>4, <2>2, <2>3, <2>4 DEF Placed
<1>11. Legal' BY <1>3, PoolStays DEF PlanIInv, Legal
<1>12. Counted'
  <2>1. ASSUME NEW n, NEW s PROVE PlacedAt(n, s)' = PlacedBy(matches', n, s)
    BY <1>3 DEF PlacedAt, PlacedBy, Anchored
  <2>2. ASSUME NEW n \in {0, L}, NEW s PROVE PlacedBy(matches', n, s) = PlacedAt(n, s)
    <3>1. \A i \in 1 .. n : matches'[i] = matches[i] BY <1>4
    <3> QED BY <3>1 DEF PlacedAt, PlacedBy
  <2>3. \A i, j \in 1 .. Len(matches') : i # j => Ends(matches'[i]) \cap Ends(matches'[j]) = {}
    BY <1>10 DEF Placed
  <2>4. ASSUME NEW s \in Shift
        PROVE  capacity'[s] + Cardinality(PlacedAt(L + 1, s)') = pool.room[s]
    <3>1. Cardinality(PlacedBy(matches', L + 1, s)) =
            Cardinality(PlacedBy(matches', L, s)) + (IF current[e] = s THEN Need(e) ELSE 0)
      <4> DEFINE m == matches'
      <4>1. m \in Seq(Edge) /\ L \in Nat /\ L + 1 <= Len(m) /\ m[L + 1] = e
        BY <1>4
      <4>2. \A i, j \in 1 .. Len(m) : i # j => Ends(m[i]) \cap Ends(m[j]) = {} BY <2>3
      <4> HIDE DEF m
      <4>3. Cardinality(PlacedBy(m, L + 1, s)) =
              Cardinality(PlacedBy(m, L, s)) + (IF current[m[L + 1]] = s THEN Need(m[L + 1]) ELSE 0)
        BY <1>1, <4>1, <4>2, PlacedGrows
      <4> QED BY <4>1, <4>3 DEF m
    <3>2. capacity[s] + Cardinality(PlacedBy(matches', L, s)) = pool.room[s]
      <4>1. PlacedBy(matches', L, s) = PlacedAt(L, s) BY <2>2
      <4> QED BY <4>1, <1>0 DEF PlanIInv, Counted
    <3>3. Cardinality(PlacedBy(matches', L, s)) \in Nat /\ capacity[s] \in Nat
      BY <1>1, PlacedFinite
    <3>4. capacity'[s] = capacity[s] - (IF current[e] = s THEN Need(e) ELSE 0)
      BY <1>7 DEF c
    <3>5. PlacedAt(L + 1, s)' = PlacedBy(matches', L + 1, s) BY <2>1
    <3> DEFINE k == IF current[e] = s THEN Need(e) ELSE 0
               x == Cardinality(PlacedBy(matches', L, s))
    <3>6. k \in Nat BY <1>2
    <3>7. /\ Cardinality(PlacedAt(L + 1, s)') = x + k /\ x \in Nat
          /\ capacity[s] + x = pool.room[s] /\ capacity'[s] = capacity[s] - k
      BY <3>1, <3>2, <3>3, <3>4, <3>5
    <3> HIDE DEF k, x
    <3> QED BY <3>3, <3>6, <3>7
  <2>5. ASSUME NEW s \in Shift
        PROVE  spots'[s] + Cardinality(PlacedAt(0, s)') = pool.room[s]
    <3>1. PlacedAt(0, s)' = PlacedAt(0, s) BY <2>1, <2>2
    <3> QED BY <1>5, <3>1 DEF PlanIInv, Counted
  <2>6. Planned' = Planned \cup {<<e, c>>}
    BY <1>3, <1>4, <1>0 DEF Planned, c
  <2>7. <<e, c>> \notin Planned BY <1>8, <1>0 DEF Planned
  <2>8. IsFiniteSet(Planned) /\ IsFiniteSet(Planned')
    <3>1. IsFiniteSet(Planned) BY DEF PlanIInv, Counted
    <3> QED BY <2>6, <3>1, FS_AddElement
  <2>9. ASSUME NEW s \in Shift
        PROVE  capacity'[s] + Abstract!Spots(s)' = pool.room[s]
    <3>1. Abstract!Spots(s) = SpotsOf(Planned, s) BY SpotsAreOf DEF PlanIInv
    <3>2. Abstract!Spots(s)' = SpotsOf(Planned', s)
      <4>1. \A p \in Planned' : p[1] \in Edge BY <1>1, <1>8, <2>6, <1>0 DEF Planned
      <4>2. [f \in Edge |-> Need(f)]' = [f \in Edge |-> Need(f)] BY PoolStays
      <4>3. \A n : Abstract!At(s, n)' = AtOf(Planned', s, n)
        BY <4>1, <4>2 DEF Abstract!At, AtOf
      <4>4. \A S : Abstract!Cardinality(S) = Cardinality(S)
        BY DEF Abstract!Cardinality, Cardinality
      <4> QED BY <4>3, <4>4 DEF Abstract!Spots, SpotsOf
    <3>3. /\ SpotsOf(Planned', s) = SpotsOf(Planned, s) + (IF c = s THEN Need(e) ELSE 0)
          /\ SpotsOf(Planned, s) \in Nat
      BY <1>1, <2>6, <2>7, <2>8, SpotsGrow
    <3> DEFINE k == IF c = s THEN Need(e) ELSE 0
               x == SpotsOf(Planned, s)
    <3>4. k \in Nat BY <1>2
    <3>5. /\ Abstract!Spots(s)' = x + k /\ x \in Nat
          /\ capacity[s] + x = pool.room[s] /\ capacity'[s] = capacity[s] - k
          /\ capacity[s] \in Nat
      BY <1>1, <1>7, <3>1, <3>2, <3>3 DEF PlanIInv, Counted
    <3> HIDE DEF k, x
    <3> QED BY <3>4, <3>5
  <2>10. Len(matches)' = L + 1 /\ written' = 0 BY <1>4, <1>5
  <2> QED BY <2>4, <2>5, <2>8, <2>9, <2>10 DEF Counted
<1>13. Ranked'
  <2>1. \A f : EdgeKey(f)' = EdgeKey(f) BY <1>3, EdgeStays
  <2>2. \A f : Tier(f)' = Tier(f) /\ Need(f)' = Need(f) BY PoolStays
  <2>3. \A f \in queue' : LexLess(EdgeKey(e), EdgeKey(f)) /\ f \in Edge
    BY <1>1, <1>3 DEF First
  <2>4. \A f \in queue' : Tier(e) >= Tier(f)
    <3>1. \A f \in queue' : Tier(f) <= Tier(e) BY <1>1, <2>3, FirstHasTier
    <3>2. \A f \in queue' : Tier(f) \in Nat /\ Tier(e) \in Nat BY <1>1, <2>3, PairTyped
    <3> QED BY <3>1, <3>2
  <2>5. \A i, j \in 1 .. L + 1 : i < j => Tier(matches'[i]) >= Tier(matches'[j])
    <3>1. \A i, j \in 1 .. L : i < j => Tier(matches[i]) >= Tier(matches[j])
      BY <1>0 DEF PlanIInv, Ranked
    <3>2. \A i \in 1 .. L : Tier(matches[i]) >= Tier(e) BY <1>0 DEF PlanIInv, Ranked
    <3>3. \A i \in 1 .. L + 1 : ~(L + 1 < i) BY <1>4
    <3> QED BY <1>4, <3>1, <3>2, <3>3
  <2>6. \A i \in 1 .. L + 1, f \in queue' : Tier(matches'[i]) >= Tier(f)
    <3>1. \A i \in 1 .. L, f \in queue : Tier(matches[i]) >= Tier(f)
      BY <1>0 DEF PlanIInv, Ranked
    <3> QED BY <1>3, <1>4, <2>4, <3>1
  <2>7. ASSUME NEW f \in Edge, NEW s \in options[f], capacity[s] < Need(f)
        PROVE  capacity'[s] < Need(f)
    <3>1. s \in Shift /\ capacity[s] \in Nat /\ Need(f) \in Nat BY <1>1, PairTyped
    <3> QED BY <1>2, <1>7, <2>7, <3>1
  <2>8. ASSUME NEW f \in queue', NEW s \in options'[f],
               LexLess(OptionKey(f, s), OptionKey(f, current[f]))'
        PROVE  (capacity[s] < Need(f))'
    <3>1. f \in queue /\ f \in Edge /\ s \in options[f] BY <1>1, <1>3
    <3>2. LexLess(OptionKey(f, s), OptionKey(f, current[f])) BY <1>3, <2>8 DEF OptionKey, LexLess
    <3>3. capacity[s] < Need(f) BY <3>1, <3>2 DEF PlanIInv, Ranked
    <3> QED BY <2>2, <2>7, <3>1, <3>3
  <2>9. ASSUME NEW f \in Edge
        PROVE  \/ (f \in queue /\ ~Taken(f))'
               \/ InPlan(f)'
               \/ (f \notin queue /\ Full(f))'
               \/ Beaten(f)'
    <3>1. \/ f \in queue /\ ~Taken(f)
          \/ InPlan(f)
          \/ f \notin queue /\ Full(f)
          \/ Beaten(f)
      BY DEF PlanIInv, Ranked
    <3>2. CASE f = e
      <4>1. L + 1 \in 1 .. Len(matches') BY <1>4
      <4> QED BY <1>4, <3>2, <4>1 DEF InPlan
    <3>3. CASE f \in queue /\ ~Taken(f) /\ f # e
      <4>1. f \in queue' BY <1>3, <3>3
      <4>2. CASE Ends(f) \cap Ends(e) = {}
        <5>1. ~Taken(f)' BY <1>3, <3>3, <4>2 DEF Taken
        <5> QED BY <4>1, <5>1
      <4>3. CASE Ends(f) \cap Ends(e) # {}
        <5>1. L + 1 \in 1 .. Len(matches') BY <1>4
        <5>2. LexLess(EdgeKey(e), EdgeKey(f))' BY <2>1, <2>3, <4>1 DEF LexLess
        <5>3. Ends(matches'[L + 1]) \cap Ends(f) # {} BY <1>4, <4>3
        <5> QED BY <1>4, <5>1, <5>2, <5>3 DEF Beaten, LexLess
      <4> QED BY <4>2, <4>3
    <3>4. CASE InPlan(f)
      <4>1. PICK i \in 1 .. L : matches[i] = f BY <3>4, <1>0 DEF InPlan
      <4>2. i \in 1 .. Len(matches') /\ matches'[i] = f BY <1>4, <4>1
      <4> QED BY <4>2 DEF InPlan
    <3>5. CASE f \notin queue /\ Full(f)
      <4>1. f \notin queue' BY <1>3, <3>5
      <4>2. \A s \in options[f] : capacity'[s] < Need(f) BY <2>7, <3>5 DEF Full
      <4> QED BY <1>3, <2>2, <4>1, <4>2 DEF Full
    <3>6. CASE Beaten(f)
      <4>1. PICK i \in 1 .. L :
               Ends(matches[i]) \cap Ends(f) # {} /\ LexLess(EdgeKey(matches[i]), EdgeKey(f))
        BY <3>6, <1>0 DEF Beaten
      <4>2. i \in 1 .. Len(matches') /\ matches'[i] = matches[i] BY <1>4, <4>1
      <4> QED BY <2>1, <4>1, <4>2 DEF Beaten, LexLess
    <3> QED BY <3>1, <3>2, <3>3, <3>4, <3>5, <3>6
  <2>10. Len(matches)' = L + 1 BY <1>4
  <2> QED BY <2>2, <2>5, <2>6, <2>8, <2>9, <2>10 DEF Ranked
<1>14. Answered'
  <2>1. 1 .. written = {} /\ 1 .. written' = {} BY <1>5
  <2> QED BY <1>3, <1>5, <2>1 DEF PlanIInv, Answered
<1>15. PlanTypeOK' OBVIOUS
<1> QED BY <1>9, <1>10, <1>11, <1>12, <1>13, <1>14, <1>15 DEF PlanIInv

LEMMA AssignPlanned == PlanIInv /\ Assign => PlanIInv'
<1> SUFFICES ASSUME PlanIInv, Assign PROVE PlanIInv' OBVIOUS
<1>1. PICK e \in queue : First(e) /\ (SkipMatched(e) \/ Accept(e) \/ FallBack(e) \/ Drop(e))
  BY DEF Assign
<1>2. phase = "plan" /\ UNCHANGED <<pool, phase, spots, written, status, reason>>
  BY DEF Assign, tableVars
<1>3. PlanTypeOK' BY AssignTyped DEF PlanIInv
<1>4. CASE SkipMatched(e)
  <2>1. Beaten(e) BY <1>4, SkippedIsBeaten DEF SkipMatched
  <2> QED BY <1>2, <1>3, <1>4, <2>1, LeavesQueue DEF SkipMatched
<1>5. CASE Accept(e) BY <1>1, <1>2, <1>3, <1>5, AcceptPlanned
<1>6. CASE FallBack(e) BY <1>2, <1>3, <1>6, FallBackPlanned
<1>7. CASE Drop(e)
  <2>1. Full(e) BY <1>7, DroppedIsFull DEF Drop
  <2> QED BY <1>2, <1>3, <1>7, <2>1, LeavesQueue DEF Drop
<1> QED BY <1>1, <1>4, <1>5, <1>6, <1>7
-----------------------------------------------------------------------------
(* Writing the plan leaves the plan as it is.                              *)
LEMMA PlanStays ==
    ASSUME PlanIInv, UNCHANGED <<pool, planVars>>
    PROVE  /\ Placed' /\ Legal' /\ Ranked'
           /\ \A n, s : PlacedAt(n, s)' = PlacedAt(n, s)
           /\ \A s : Abstract!Spots(s)' = Abstract!Spots(s)
           /\ IsFiniteSet(Planned')
<1>1. UNCHANGED <<pool, options, current, held, queue, capacity, matched, matches>>
  BY DEF planVars
<1>2. Placed' BY <1>1 DEF PlanIInv, Placed
<1>3. Legal' BY <1>1, PoolStays DEF PlanIInv, Legal
<1>4. \A n, s : PlacedAt(n, s)' = PlacedAt(n, s) BY <1>1 DEF PlacedAt, Anchored
<1>5. Planned' = Planned BY <1>1 DEF Planned
<1>6. \A s : Abstract!Spots(s)' = Abstract!Spots(s) BY <1>1, <1>5, SpotsStay
<1>7. Ranked'
  <2>1. \A f : EdgeKey(f)' = EdgeKey(f) BY <1>1, EdgeStays
  <2>2. \A f : Beaten(f)' = Beaten(f) BY <1>1, <2>1 DEF Beaten, LexLess
  <2>3. \A f : Tier(f)' = Tier(f) /\ Need(f)' = Need(f) BY <1>1, PoolStays
  <2>4. \A f : Full(f)' = Full(f) BY <1>1, <2>3 DEF Full
  <2>5. \A f : InPlan(f)' = InPlan(f) /\ Taken(f)' = Taken(f) BY <1>1 DEF InPlan, Taken
  <2>6. \A f, s : LexLess(OptionKey(f, s), OptionKey(f, current[f]))' =
                      LexLess(OptionKey(f, s), OptionKey(f, current[f]))
    BY <1>1 DEF OptionKey, LexLess
  <2>7. /\ \A i, j \in 1 .. Len(matches) : i < j => (Tier(matches[i]) >= Tier(matches[j]))'
        /\ \A i \in 1 .. Len(matches), f \in queue' : (Tier(matches[i]) >= Tier(f))'
    BY <1>1, <2>3 DEF PlanIInv, Ranked
  <2>8. \A f \in queue' : \A s \in options'[f] :
           (LexLess(OptionKey(f, s), OptionKey(f, current[f])) => capacity[s] < Need(f))'
    BY <1>1, <2>3, <2>6 DEF PlanIInv, Ranked
  <2>9. \A f \in Edge :
            \/ (f \in queue /\ ~Taken(f))'
            \/ InPlan(f)'
            \/ (f \notin queue /\ Full(f))'
            \/ Beaten(f)'
    BY <1>1, <2>2, <2>4, <2>5 DEF PlanIInv, Ranked
  <2>10. Len(matches') = Len(matches) BY <1>1
  <2> QED BY <2>7, <2>8, <2>9, <2>10 DEF Ranked
<1>8. IsFiniteSet(Planned') BY <1>5 DEF PlanIInv, Counted
<1> QED BY <1>2, <1>3, <1>4, <1>6, <1>7, <1>8

(* Nobody of the plan is blocked.                                          *)
LEMMA PlannedAllowed ==
    ASSUME PlanIInv, NEW i \in 1 .. Len(matches)
    PROVE  /\ matches[i] \in Edge /\ current[matches[i]] \in Shift
           /\ <<matches[i], current[matches[i]]>> \in Allowed
           /\ Ends(matches[i]) \cap pool.blocked = {}
<1>1. matches[i] \in Edge BY ElementOfSeq DEF PlanIInv, PlanTypeOK
<1>2. current[matches[i]] \in options[matches[i]] BY DEF PlanIInv, Placed
<1>3. options[matches[i]] \subseteq Shift BY <1>1 DEF PlanIInv, PlanTypeOK
<1>4. <<matches[i], current[matches[i]]>> \in Allowed BY <1>1, <1>2 DEF PlanIInv, Legal
<1>5. Ends(matches[i]) \cap pool.blocked = {} BY <1>4 DEF Allowed
<1> QED BY <1>1, <1>2, <1>3, <1>4, <1>5

(* The live counter has room for the next match: what is written is part   *)
(* of what the planner counted.                                            *)
LEMMA CommitHasRoom ==
    ASSUME PlanIInv, written < Len(matches)
    PROVE  spots[current[matches[written + 1]]] >= Need(matches[written + 1])
<1>0. PICK k : k = written + 1 OBVIOUS
<1>1. /\ pool \in Pool /\ matches \in Seq(Edge) /\ written \in Nat /\ Len(matches) \in Nat
      /\ capacity \in [Shift -> Nat] /\ spots \in [Shift -> Nat] /\ pool.room \in [Shift -> Nat]
  BY DEF PlanIInv, PlanTypeOK, Pool
<1>2. k \in 1 .. Len(matches) /\ k <= Len(matches) /\ k \in Nat BY <1>0, <1>1
<1>3. matches[k] \in Edge /\ current[matches[k]] \in Shift BY <1>2, PlannedAllowed
<1> DEFINE c == current[matches[k]]
           x == Cardinality(PlacedBy(matches, written, c))
           y == Cardinality(PlacedBy(matches, k, c))
           z == Cardinality(PlacedBy(matches, Len(matches), c))
<1>4. x \in Nat /\ y \in Nat /\ z \in Nat BY PlacedFinite
<1>5. y = x + Need(matches[k])
  <2>1. \A i, j \in 1 .. Len(matches) : i # j => Ends(matches[i]) \cap Ends(matches[j]) = {}
    BY DEF PlanIInv, Placed
  <2>2. Cardinality(PlacedBy(matches, written + 1, c)) =
           Cardinality(PlacedBy(matches, written, c))
             + (IF current[matches[written + 1]] = c THEN Need(matches[written + 1]) ELSE 0)
    <3> HIDE DEF c
    <3>1. written + 1 <= Len(matches) BY <1>0, <1>2
    <3> QED BY <1>1, <2>1, <3>1, PlacedGrows
  <2> QED BY <1>0, <2>2
<1>6. y <= z BY <1>1, <1>2, PlacedMonotone
<1>7. /\ capacity[c] + z = pool.room[c] /\ spots[c] + x = pool.room[c]
  <2>1. \A n, s : PlacedAt(n, s) = PlacedBy(matches, n, s) BY DEF PlacedAt, PlacedBy
  <2> QED BY <1>3, <2>1 DEF PlanIInv, Counted
<1>8. capacity[c] \in Nat /\ spots[c] \in Nat /\ Need(matches[k]) \in Nat
  BY <1>1, <1>3, PairTyped
<1>9. spots[c] >= Need(matches[k])
  <2> HIDE DEF c, x, y, z
  <2> QED BY <1>4, <1>5, <1>6, <1>7, <1>8
<1> QED BY <1>0, <1>9

LEMMA StartCommitPlanned == PlanIInv /\ StartCommit => PlanIInv'
<1> SUFFICES ASSUME PlanIInv, StartCommit PROVE PlanIInv' OBVIOUS
<1>1. /\ phase = "plan" /\ queue = {} /\ phase' = "commit"
      /\ reason' = [r \in Request |-> IF r \in pool.blocked THEN "blocked" ELSE reason[r]]
      /\ UNCHANGED <<pool, planVars, spots, written, status>>
  BY DEF StartCommit
<1>2. UNCHANGED <<held, queue, capacity, matches>> BY <1>1 DEF planVars
<1>3. PlanTypeOK' BY CommitTyped DEF PlanIInv
<1>4. /\ Placed' /\ Legal' /\ Ranked' /\ IsFiniteSet(Planned')
      /\ \A n, s : PlacedAt(n, s)' = PlacedAt(n, s)
      /\ \A s : Abstract!Spots(s)' = Abstract!Spots(s)
  BY <1>1, PlanStays
<1>5. Phases' BY <1>1, <1>2 DEF Phases
<1>6. Counted' BY <1>1, <1>2, <1>4 DEF PlanIInv, Counted
<1>7. Answered'
  <2>1. \A r \in Request : reason'[r] = IF r \in pool.blocked THEN "blocked" ELSE "none"
    BY <1>1 DEF PlanIInv, Answered
  <2>2. phase' # "told" /\ phase' \notin {"read", "plan"} BY <1>1
  <2> QED BY <1>1, <1>2, <2>1, <2>2 DEF PlanIInv, Answered
<1> QED BY <1>3, <1>4, <1>5, <1>6, <1>7 DEF PlanIInv

LEMMA CommitMatchPlanned == PlanIInv /\ CommitMatch => PlanIInv'
<1> SUFFICES ASSUME PlanIInv, CommitMatch PROVE PlanIInv' OBVIOUS
<1>0. PICK k : k = written + 1 OBVIOUS
<1>1. PICK e : e = matches[k] OBVIOUS
<1>2. PICK c : c = current[e] OBVIOUS
<1>3. /\ phase = "commit" /\ written < Len(matches) /\ written' = k
      /\ UNCHANGED <<pool, phase, planVars>>
  BY <1>0 DEF CommitMatch
<1>4. spots[c] >= Need(e) BY <1>0, <1>1, <1>2, <1>3, CommitHasRoom
<1>5. /\ spots' = [spots EXCEPT ![c] = @ - Need(e)]
      /\ status' = [r \in Request |-> IF r \in Ends(e) THEN "proposed" ELSE status[r]]
      /\ reason' = [r \in Request |-> IF r \in Ends(e) THEN "none" ELSE reason[r]]
  BY <1>0, <1>1, <1>2, <1>4 DEF CommitMatch
<1>6. UNCHANGED <<held, queue, capacity, current, matches>> BY <1>3 DEF planVars
<1>7. PlanTypeOK' BY CommitTyped DEF PlanIInv
<1>8. /\ Placed' /\ Legal' /\ Ranked' /\ IsFiniteSet(Planned')
      /\ \A n, s : PlacedAt(n, s)' = PlacedAt(n, s)
      /\ \A s : Abstract!Spots(s)' = Abstract!Spots(s)
  BY <1>3, PlanStays
<1>9. /\ pool \in Pool /\ matches \in Seq(Edge) /\ written \in Nat /\ spots \in [Shift -> Nat]
      /\ Len(matches) \in Nat /\ status \in [Request -> {"searching", "proposed"}]
      /\ reason \in [Request -> Reason]
  BY DEF PlanIInv, PlanTypeOK
<1>10. k \in 1 .. Len(matches) /\ 1 .. k = (1 .. written) \cup {k} BY <1>0, <1>3, <1>9
<1>11. e \in Edge /\ c \in Shift /\ Ends(e) \cap pool.blocked = {}
  BY <1>1, <1>2, <1>10, PlannedAllowed
<1>12. Phases' BY <1>3, <1>6 DEF PlanIInv, Phases
<1>13. Counted'
  <2>1. ASSUME NEW s \in Shift
        PROVE  spots'[s] + Cardinality(PlacedAt(k, s)) = pool.room[s]
    <3>1. \A n : PlacedAt(n, s) = PlacedBy(matches, n, s) BY DEF PlacedAt, PlacedBy
    <3>2. \A i, j \in 1 .. Len(matches) : i # j => Ends(matches[i]) \cap Ends(matches[j]) = {}
      BY DEF PlanIInv, Placed
    <3>3. written + 1 <= Len(matches) BY <1>3, <1>9
    <3>4. Cardinality(PlacedBy(matches, written + 1, s)) =
             Cardinality(PlacedBy(matches, written, s))
               + (IF current[matches[written + 1]] = s THEN Need(matches[written + 1]) ELSE 0)
      BY <1>9, <3>2, <3>3, PlacedGrows
    <3> DEFINE x == Cardinality(PlacedBy(matches, written, s))
               d == IF c = s THEN Need(e) ELSE 0
    <3>5. Cardinality(PlacedAt(k, s)) = x + d BY <1>0, <1>1, <1>2, <3>1, <3>4
    <3>6. x \in Nat /\ d \in Nat /\ spots[s] \in Nat
      BY <1>9, <1>11, PlacedFinite, PairTyped
    <3>7. spots[s] + x = pool.room[s] BY <3>1 DEF PlanIInv, Counted
    <3>8. spots'[s] = spots[s] - d BY <1>5, <1>9, <1>11, <3>6
    <3> HIDE DEF x, d
    <3> QED BY <3>5, <3>6, <3>7, <3>8
  <2>2. ASSUME NEW s \in Shift
        PROVE  /\ capacity'[s] + Cardinality(PlacedAt(Len(matches), s)') = pool.room[s]
               /\ capacity'[s] + Abstract!Spots(s)' = pool.room[s]
    BY <1>6, <1>8 DEF PlanIInv, Counted
  <2>3. \A s : PlacedAt(written, s)' = PlacedAt(k, s) BY <1>3, <1>8
  <2> QED BY <1>3, <1>6, <1>8, <2>1, <2>2, <2>3 DEF Counted
<1>14. Answered'
  <2>1. ASSUME NEW r \in Request
        PROVE  status'[r] = "proposed" <=> \E i \in 1 .. k : r \in Ends(matches[i])
    <3>1. status[r] = "proposed" <=> \E i \in 1 .. written : r \in Ends(matches[i])
      BY DEF PlanIInv, Answered
    <3>2. status'[r] = "proposed" <=> r \in Ends(e) \/ status[r] = "proposed"
      BY <1>5, <1>9
    <3> QED BY <1>1, <1>10, <3>1, <3>2
  <2>2. ASSUME NEW r \in Request
        PROVE  reason'[r] = IF r \in pool.blocked THEN "blocked" ELSE "none"
    <3>1. reason[r] = IF r \in pool.blocked THEN "blocked" ELSE "none"
      BY <1>3 DEF PlanIInv, Answered
    <3> QED BY <1>5, <1>11, <3>1
  <2>3. phase' # "told" /\ phase' \notin {"read", "plan"} BY <1>3
  <2> QED BY <1>3, <1>6, <2>1, <2>2, <2>3 DEF PlanIInv, Answered
<1> QED BY <1>7, <1>8, <1>12, <1>13, <1>14 DEF PlanIInv

LEMMA TellReasonsPlanned == PlanIInv /\ TellReasons => PlanIInv'
<1> SUFFICES ASSUME PlanIInv, TellReasons PROVE PlanIInv' OBVIOUS
<1>1. /\ phase = "commit" /\ written = Len(matches) /\ phase' = "told"
      /\ reason' = [r \in Request |->
            IF r \in pool.blocked \/ status[r] = "proposed" THEN reason[r]
            ELSE IF r \in held \ matched /\ pool.buddy[r] = NoUser THEN "holding_for_better_match"
            ELSE NoMatchReason(r)]
      /\ UNCHANGED <<pool, planVars, spots, written, status>>
  BY DEF TellReasons
<1>2. UNCHANGED <<held, queue, capacity, matches>> BY <1>1 DEF planVars
<1>3. PlanTypeOK' BY CommitTyped DEF PlanIInv
<1>4. /\ Placed' /\ Legal' /\ Ranked' /\ IsFiniteSet(Planned')
      /\ \A n, s : PlacedAt(n, s)' = PlacedAt(n, s)
      /\ \A s : Abstract!Spots(s)' = Abstract!Spots(s)
  BY <1>1, PlanStays
<1>5. Phases' BY <1>1, <1>2 DEF PlanIInv, Phases
<1>6. Counted' BY <1>1, <1>2, <1>4 DEF PlanIInv, Counted
<1>7. Answered'
  <2>1. ASSUME NEW r \in Request
        PROVE  /\ status[r] = "searching" <=> reason'[r] # "none"
               /\ reason'[r] = "holding_for_better_match" => r \in held
    <3>1. /\ reason[r] = IF r \in pool.blocked THEN "blocked" ELSE "none"
          /\ status[r] = "proposed" <=> \E i \in 1 .. Len(matches) : r \in Ends(matches[i])
      BY <1>1 DEF PlanIInv, Answered
    <3>2. status[r] \in {"searching", "proposed"} BY DEF PlanIInv, PlanTypeOK
    <3>3. r \in pool.blocked => status[r] # "proposed" BY <3>1, PlannedAllowed
    <3>4. NoMatchReason(r) \notin {"none", "holding_for_better_match"} BY DEF NoMatchReason
    <3>5. CASE r \in pool.blocked \/ status[r] = "proposed"
      BY <1>1, <3>1, <3>2, <3>3, <3>5
    <3>6. CASE ~(r \in pool.blocked \/ status[r] = "proposed")
      BY <1>1, <3>2, <3>4, <3>6
    <3> QED BY <3>5, <3>6
  <2>2. phase' \notin {"read", "plan", "commit"} BY <1>1
  <2> QED BY <1>1, <1>2, <2>1, <2>2 DEF PlanIInv, Answered
<1> QED BY <1>3, <1>4, <1>5, <1>6, <1>7 DEF PlanIInv

LEMMA StutterPlanned == PlanIInv /\ UNCHANGED vars => PlanIInv'
<1> SUFFICES ASSUME PlanIInv, UNCHANGED vars PROVE PlanIInv' OBVIOUS
<1>1. UNCHANGED <<pool, phase, planVars, spots, written, status, reason>>
  BY DEF vars, tableVars
<1>2. UNCHANGED <<options, current, held, queue, capacity, matched, matches>>
  BY <1>1 DEF planVars
<1>3. PlanTypeOK' BY <1>1, <1>2 DEF PlanIInv, PlanTypeOK
<1>4. /\ Placed' /\ Legal' /\ Ranked' /\ IsFiniteSet(Planned')
      /\ \A n, s : PlacedAt(n, s)' = PlacedAt(n, s)
      /\ \A s : Abstract!Spots(s)' = Abstract!Spots(s)
  BY <1>1, PlanStays
<1>5. Phases' BY <1>1, <1>2 DEF PlanIInv, Phases
<1>6. Counted' BY <1>1, <1>2, <1>4 DEF PlanIInv, Counted
<1>7. Answered' BY <1>1, <1>2 DEF PlanIInv, Answered
<1> QED BY <1>3, <1>4, <1>5, <1>6, <1>7 DEF PlanIInv

(* The invariant of a run holds throughout.                                *)
THEOREM PlanHolds == Spec => []PlanIInv
<1>1. PlanIInv /\ [Next]_vars => PlanIInv'
  BY SnapshotPlanned, AssignPlanned, StartCommitPlanned, CommitMatchPlanned,
     TellReasonsPlanned, StutterPlanned DEF Next
<1> QED BY <1>1, InitPlanned, PTL DEF Spec
(* No spot is given out twice and none is lost, by the planner's counter   *)
(* and by the one createProposal reserves from, and nobody is placed twice *)
(* (assign.js, lib/shifts.js).                                             *)
THEOREM SeatsAreCounted == Spec => []SeatsCounted
<1>1. PlanIInv => SeatsCounted
  <2> SUFFICES ASSUME PlanIInv PROVE SeatsCounted OBVIOUS
  <2>1. \A i, j \in 1 .. Len(matches) : i # j => Ends(matches[i]) \cap Ends(matches[j]) = {}
    BY DEF PlanIInv, Placed
  <2>2. \A s \in Shift :
           /\ capacity[s] + Cardinality(PlacedAt(Len(matches), s)) = pool.room[s]
           /\ spots[s] + Cardinality(PlacedAt(written, s)) = pool.room[s]
    BY DEF PlanIInv, Counted
  <2> QED BY <2>1, <2>2 DEF SeatsCounted
<1> QED BY <1>1, PlanHolds, PTL

(* The pairs are taken best first, also after some fell back to a later    *)
(* shift (compareEdges, insertSorted): whoever is left out although there  *)
(* was room lost a person to a pair that comes before.                     *)
THEOREM PlanIsBestFirst == Spec => []BestFirst
<1>1. PlanIInv => BestFirst
  <2> SUFFICES ASSUME PlanIInv PROVE BestFirst OBVIOUS
  <2>1. \A i, j \in 1 .. Len(matches) : i < j => Tier(matches[i]) >= Tier(matches[j])
    BY DEF PlanIInv, Ranked
  <2>2. ASSUME queue = {}, NEW e \in Edge, ~InPlan(e), NEW s \in options[e], capacity[s] >= Need(e)
        PROVE  Beaten(e)
    <3>1. s \in Shift /\ capacity[s] \in Nat /\ pool \in Pool BY DEF PlanIInv, PlanTypeOK
    <3>2. Need(e) \in Nat BY <3>1, PairTyped
    <3>3. ~Full(e) BY <2>2, <3>1, <3>2 DEF Full
    <3> QED BY <2>2, <3>3 DEF PlanIInv, Ranked
  <2> QED BY <2>1, <2>2 DEF BestFirst, Beaten
<1> QED BY <1>1, PlanHolds, PTL

(* commitPlan writes what was planned, and every search of the run gets a  *)
(* proposal or a reason that is true of it.                                *)
THEOREM EveryoneIsAnswered == Spec => []EveryoneAnswered
<1>1. PlanIInv => EveryoneAnswered
  <2> SUFFICES ASSUME PlanIInv, phase = "told" PROVE
          /\ spots = capacity
          /\ \A r \in Request :
              /\ status[r] = "proposed" <=> r \in matched
              /\ status[r] = "searching" <=> reason[r] # "none"
              /\ reason[r] = "holding_for_better_match" =>
                      pool.kind[r] = "standard" /\ r \notin pool.anyone
    BY DEF EveryoneAnswered
  <2>1. written = Len(matches) BY DEF PlanIInv, Answered
  <2>2. capacity \in [Shift -> Nat] /\ spots \in [Shift -> Nat] BY DEF PlanIInv, PlanTypeOK
  <2>3. ASSUME NEW s \in Shift PROVE spots[s] = capacity[s]
    <3> DEFINE x == Cardinality(PlacedAt(Len(matches), s))
    <3>1. capacity[s] + x = pool.room[s] /\ spots[s] + x = pool.room[s]
      BY <2>1 DEF PlanIInv, Counted
    <3>2. x \in Nat
      <4>1. \A n : PlacedAt(n, s) = PlacedBy(matches, n, s) BY DEF PlacedAt, PlacedBy
      <4> QED BY <4>1, PlacedFinite
    <3> HIDE DEF x
    <3>3. spots[s] \in Nat /\ capacity[s] \in Nat BY <2>2
    <3> QED BY <3>1, <3>2, <3>3
  <2>4. spots = capacity BY <2>2, <2>3
  <2>5. ASSUME NEW r \in Request PROVE status[r] = "proposed" <=> r \in matched
    BY <2>1 DEF PlanIInv, Answered, Placed
  <2>6. ASSUME NEW r \in Request
        PROVE  /\ status[r] = "searching" <=> reason[r] # "none"
               /\ reason[r] = "holding_for_better_match" =>
                      pool.kind[r] = "standard" /\ r \notin pool.anyone
    BY DEF PlanIInv, Answered
  <2> QED BY <2>4, <2>5, <2>6
<1> QED BY <1>1, PlanHolds, PTL

-----------------------------------------------------------------------------
(* The plan is an assignment: accepting a pair places it, and every other  *)
(* step of a run, the snapshot and the writing included, leaves the        *)
(* assignment alone.                                                       *)
LEMMA AcceptPlaces ==
    ASSUME PlanIInv, NEW e \in queue, phase = "plan", pool' = pool, Accept(e)
    PROVE  Abstract!Place(e, current[e])
<1> DEFINE c == current[e]
<1>1. /\ e \in Edge /\ pool \in Pool /\ c \in options[e] /\ c \in Shift
      /\ capacity \in [Shift -> Nat] /\ matches \in Seq(Edge)
  BY DEF PlanIInv, PlanTypeOK
<1>2. /\ ~Taken(e) /\ capacity[c] >= Need(e)
      /\ matches' = Append(matches, e) /\ current' = current
  BY DEF Accept, HasRoom
<1>3. <<e, c>> \in Allowed BY <1>1 DEF PlanIInv, Legal
<1>4. ASSUME NEW p \in Planned PROVE {p[1][1], p[1][2]} \cap {e[1], e[2]} = {}
  <2>1. PICK i \in 1 .. Len(matches) : p = <<matches[i], current[matches[i]]>> BY DEF Planned
  <2>2. p[1] = matches[i] /\ Ends(matches[i]) \cap Ends(e) = {}
    <3>1. Ends(e) \subseteq Request BY <1>1, PairTyped
    <3>2. \A r \in Request : r \in Ends(matches[i]) => r \in matched BY DEF PlanIInv, Placed
    <3> QED BY <1>2, <2>1, <3>1, <3>2 DEF Taken
  <2> QED BY <2>2 DEF Ends
<1>5. Abstract!Spots(c) + [f \in Edge |-> Need(f)][e] <= pool.room[c]
  <2>1. capacity[c] + Abstract!Spots(c) = pool.room[c] BY <1>1 DEF PlanIInv, Counted
  <2>2. Abstract!Spots(c) \in Nat
    <3>1. Abstract!Spots(c) = SpotsOf(Planned, c) BY SpotsAreOf DEF PlanIInv
    <3>2. IsFiniteSet(Planned) BY DEF PlanIInv, Counted
    <3>3. <<e, c>> \notin Planned
      <4>1. \A i \in 1 .. Len(matches) : matches[i] # e BY DEF PlanIInv, Placed
      <4> QED BY <4>1 DEF Planned
    <3> HIDE DEF c
    <3>4. SpotsOf(Planned, c) \in Nat BY <1>1, <3>2, <3>3, SpotsGrow
    <3> QED BY <3>1, <3>4
  <2>3. capacity[c] \in Nat /\ Need(e) \in Nat BY <1>1, PairTyped
  <2>4. [f \in Edge |-> Need(f)][e] = Need(e) BY <1>1
  <2> HIDE DEF c
  <2> QED BY <1>2, <2>1, <2>2, <2>3, <2>4
<1>6. Planned' = Planned \cup {<<e, c>>}
  <2>1. Len(matches') = Len(matches) + 1 /\ Len(matches) \in Nat
        /\ matches'[Len(matches) + 1] = e
        /\ \A i \in 1 .. Len(matches) : matches'[i] = matches[i]
    BY <1>1, <1>2
  <2>2. 1 .. Len(matches') = (1 .. Len(matches)) \cup {Len(matches) + 1} BY <2>1
  <2> QED BY <1>2, <2>1, <2>2 DEF Planned
<1> QED BY <1>3, <1>4, <1>5, <1>6 DEF Abstract!Place, Abstract!Free

LEMMA StepPlaces ==
    PlanIInv /\ [Next]_vars => [Abstract!Next]_(Abstract!vars)
<1> SUFFICES ASSUME PlanIInv, [Next]_vars PROVE [Abstract!Next]_(Abstract!vars)
  OBVIOUS
<1>1. pool' = pool
  BY DEF Next, vars, Snapshot, Assign, StartCommit, CommitMatch, TellReasons
<1>2. /\ Allowed' = Allowed /\ pool.room' = pool.room
      /\ [e \in Edge |-> Need(e)]' = [e \in Edge |-> Need(e)]
  BY <1>1, PoolStays
<1>3. ASSUME Planned' = Planned PROVE UNCHANGED Abstract!vars
  BY <1>2, <1>3 DEF Abstract!vars
<1>4. CASE UNCHANGED <<matches, current>>
  <2>1. Planned' = Planned BY <1>4 DEF Planned
  <2> QED BY <1>3, <2>1
<1>5. CASE Snapshot
  <2>1. phase = "read" /\ matches' = matches BY <1>5 DEF Snapshot
  <2>2. matches = <<>> BY <2>1 DEF PlanIInv, Phases
  <2>3. 1 .. Len(matches) = {} BY <2>2
  <2>4. Planned' = Planned BY <2>1, <2>3 DEF Planned
  <2> QED BY <1>3, <2>4
<1>6. CASE Assign
  <2>1. PICK e \in queue : First(e) /\ (SkipMatched(e) \/ Accept(e) \/ FallBack(e) \/ Drop(e))
    BY <1>6 DEF Assign
  <2>2. phase = "plan" /\ e \in Edge /\ matches \in Seq(Edge)
        /\ current \in [Edge -> Shift \cup {NoShift}] /\ current[e] \in Shift
    BY <1>6 DEF Assign, PlanIInv, PlanTypeOK
  <2>3. CASE SkipMatched(e) \/ Drop(e)
    BY <1>4, <2>3 DEF SkipMatched, Drop
  <2>4. CASE Accept(e)
    <3>1. Abstract!Place(e, current[e]) BY <1>1, <2>2, <2>4, AcceptPlaces
    <3>2. Abstract!Next BY <1>2, <2>2, <3>1 DEF Abstract!Next
    <3> QED BY <3>2
  <2>5. CASE FallBack(e)
    <3>1. /\ matches' = matches
          /\ current' = [current EXCEPT ![e] = BestOption(e, LaterOptions(e))]
      BY <2>5 DEF FallBack
    <3>2. \A i \in 1 .. Len(matches) : matches[i] \in Edge /\ matches[i] # e
      BY <2>2, ElementOfSeq DEF PlanIInv, Placed
    <3>3. \A i \in 1 .. Len(matches) : current'[matches[i]] = current[matches[i]]
      BY <2>2, <3>1, <3>2
    <3>4. Planned' = Planned BY <3>1, <3>3 DEF Planned
    <3> QED BY <1>3, <3>4
  <2> QED BY <2>1, <2>3, <2>4, <2>5
<1>7. CASE StartCommit \/ CommitMatch \/ TellReasons
  BY <1>4, <1>7 DEF StartCommit, CommitMatch, TellReasons, planVars
<1>8. CASE UNCHANGED vars
  BY <1>4, <1>8 DEF vars, planVars
<1> QED BY <1>5, <1>6, <1>7, <1>8 DEF Next

(* Every run of planAssignments is a run of the abstract assignment: only  *)
(* pairs the rules allow, each request at most once, never more spots than *)
(* a shift has, and a pair once assigned stays where it is.                *)
THEOREM PlanImplementsAssignment == Spec => ImplementsAssignment
<1>1. Init => Abstract!Init
  <2> SUFFICES ASSUME Init PROVE Planned = {} BY DEF Abstract!Init
  <2>1. matches = <<>> BY DEF Init
  <2> QED BY <2>1, EmptyPlan
<1>2. PlanIInv /\ [Next]_vars => [Abstract!Next]_(Abstract!vars)
  BY StepPlaces
<1> QED BY <1>1, <1>2, PlanHolds, PTL DEF Spec, ImplementsAssignment, Abstract!Spec

-----------------------------------------------------------------------------
(* Fractions: a share is a natural over a positive number.                 *)
Fraction == Nat \X (Nat \ {0})
Share == {f \in Fraction : f[1] <= f[2]}

LEMMA Multiplied ==
    ASSUME NEW x \in Nat, NEW y \in Nat, NEW z \in Nat
    PROVE  /\ x <= y => x * z <= y * z
           /\ z > 0 /\ x * z <= y * z => x <= y
OBVIOUS

LEMMA Reordered ==
    ASSUME NEW x \in Nat, NEW y \in Nat, NEW z \in Nat
    PROVE  (x * y) * z = (x * z) * y /\ x * y = y * x /\ x * y \in Nat
OBVIOUS

LEMMA AtMostTotal ==
    ASSUME NEW f \in Fraction, NEW g \in Fraction
    PROVE  AtMost(f, g) \/ AtMost(g, f)
<1>1. f[1] * g[2] \in Nat /\ g[1] * f[2] \in Nat
  BY DEF Fraction
<1> QED BY <1>1 DEF AtMost

LEMMA AtMostChains ==
    ASSUME NEW f \in Fraction, NEW g \in Fraction, NEW h \in Fraction, AtMost(f, g), AtMost(g, h)
    PROVE  AtMost(f, h)
<1> DEFINE a == f[1]
           b == f[2]
           c == g[1]
           d == g[2]
           e == h[1]
           k == h[2]
<1>1. /\ a \in Nat /\ b \in Nat /\ c \in Nat /\ d \in Nat /\ e \in Nat /\ k \in Nat /\ d > 0
      /\ a * d <= c * b /\ c * k <= e * d
  BY DEF Fraction, AtMost
<1> HIDE DEF a, b, c, d, e, k
<1>2. /\ a * d \in Nat /\ c * b \in Nat /\ c * k \in Nat /\ e * d \in Nat /\ a * k \in Nat /\ e * b \in Nat
  BY <1>1, Reordered
<1>3. (a * d) * k <= (c * b) * k
  BY <1>1, <1>2, Multiplied
<1>4. (c * k) * b <= (e * d) * b
  BY <1>1, <1>2, Multiplied
<1>5. (c * b) * k = (c * k) * b /\ (a * d) * k = (a * k) * d /\ (e * d) * b = (e * b) * d
  BY <1>1, Reordered
<1>6. (a * k) * d \in Nat /\ (e * b) * d \in Nat /\ (c * k) * b \in Nat
  BY <1>1, <1>2, Reordered
<1>7. (a * k) * d <= (e * b) * d
  BY <1>3, <1>4, <1>5, <1>6
<1>8. a * k <= e * b
  BY <1>1, <1>2, <1>7, Multiplied
<1> QED BY <1>8 DEF AtMost, a, b, e, k

LEMMA LowerIs ==
    ASSUME NEW f \in Fraction, NEW g \in Fraction
    PROVE  /\ Lower(f, g) \in {f, g} /\ AtMost(Lower(f, g), f) /\ AtMost(Lower(f, g), g)
           /\ Higher(f, g) \in {f, g} /\ AtMost(f, Higher(f, g)) /\ AtMost(g, Higher(f, g))
<1>1. AtMost(f, f) /\ AtMost(g, g)
  BY AtMostTotal
<1>2. AtMost(f, g) \/ AtMost(g, f)
  BY AtMostTotal
<1> QED BY <1>1, <1>2 DEF Lower, Higher

(* What is left of a whole shrinks as the share grows.                     *)
LEMMA RestShrinks ==
    ASSUME NEW f \in Share, NEW g \in Share, AtMost(f, g)
    PROVE  /\ <<f[2] - f[1], f[2]>> \in Fraction /\ <<g[2] - g[1], g[2]>> \in Fraction
           /\ AtMost(<<g[2] - g[1], g[2]>>, <<f[2] - f[1], f[2]>>)
<1> DEFINE a == f[1]
           b == f[2]
           c == g[1]
           d == g[2]
<1>1. /\ a \in Nat /\ b \in Nat /\ c \in Nat /\ d \in Nat /\ d > 0 /\ b > 0 /\ a <= b /\ c <= d
      /\ a * d <= c * b
  BY DEF Share, Fraction, AtMost
<1> HIDE DEF a, b, c, d
<1>2. (d - c) * b = d * b - c * b /\ (b - a) * d = b * d - a * d /\ b * d = d * b
  BY <1>1
<1>3. (d - c) * b <= (b - a) * d
  <2>1. d * b \in Nat /\ c * b \in Nat /\ a * d \in Nat
    BY <1>1, Reordered
  <2> QED BY <1>1, <1>2, <2>1
<1>4. b - a \in Nat /\ d - c \in Nat
  BY <1>1
<1>5. <<b - a, b>> \in Fraction /\ <<d - c, d>> \in Fraction
  BY <1>1, <1>4 DEF Fraction
<1>6. AtMost(<<d - c, d>>, <<b - a, b>>)
  BY <1>3 DEF AtMost
<1> QED BY <1>5, <1>6 DEF a, b, c, d

(* The lower of two, each no higher than before.                           *)
LEMMA LowerShrinks ==
    ASSUME NEW f \in Fraction, NEW g \in Fraction, NEW h \in Fraction, NEW k \in Fraction,
           AtMost(f, h), AtMost(g, k)
    PROVE  AtMost(Lower(f, g), Lower(h, k))
<1>1. Lower(f, g) \in Fraction /\ AtMost(Lower(f, g), f) /\ AtMost(Lower(f, g), g)
  BY LowerIs
<1>2. AtMost(Lower(f, g), h) /\ AtMost(Lower(f, g), k)
  BY <1>1, AtMostChains
<1> QED BY <1>2, LowerIs

LEMMA HigherGrows ==
    ASSUME NEW f \in Fraction, NEW g \in Fraction, NEW h \in Fraction, NEW k \in Fraction,
           AtMost(f, h), AtMost(g, k)
    PROVE  AtMost(Higher(f, g), Higher(h, k))
<1>1. Higher(h, k) \in Fraction /\ AtMost(h, Higher(h, k)) /\ AtMost(k, Higher(h, k))
  BY LowerIs
<1>2. AtMost(f, Higher(h, k)) /\ AtMost(g, Higher(h, k))
  BY <1>1, AtMostChains
<1> QED BY <1>2, LowerIs

-----------------------------------------------------------------------------
SearchIInv == SearchTypeOK /\ pressureFloor \in Share

LEMMA PressureIsShare ==
    ASSUME SearchIInv
    PROVE  UsedShare \in Share /\ SearchPressure \in Share /\ AtMost(pressureFloor, SearchPressure)
<1>1. FullShare \in Share /\ FullShare \in Fraction
  BY DEF FullShare, Share, Fraction
<1>2. UsedShare \in Share
  <2>1. CASE searchDeadline > 0
    <3>1. date \in Nat /\ searchDeadline \in Nat
      BY DEF SearchIInv, SearchTypeOK
    <3>2. <<date, searchDeadline>> \in Fraction
      BY <2>1, <3>1 DEF Fraction
    <3>3. Lower(FullShare, <<date, searchDeadline>>) \in Share
      <4>1. CASE AtMost(FullShare, <<date, searchDeadline>>)
        BY <1>1, <4>1 DEF Lower
      <4>2. CASE ~AtMost(FullShare, <<date, searchDeadline>>)
        <5>1. date <= searchDeadline
          BY <3>1, <4>2 DEF AtMost, FullShare
        <5> QED BY <3>2, <4>2, <5>1 DEF Lower, Share
      <4> QED BY <4>1, <4>2
    <3> QED BY <2>1, <3>3 DEF UsedShare
  <2>2. CASE ~(searchDeadline > 0)
    BY <1>1, <2>2 DEF UsedShare
  <2> QED BY <2>1, <2>2
<1>3. pressureFloor \in Share /\ pressureFloor \in Fraction /\ UsedShare \in Fraction
  BY <1>2 DEF SearchIInv, Share
<1> QED BY <1>2, <1>3, LowerIs DEF SearchPressure

LEMMA InitSearch == SearchInit => SearchIInv
<1> SUFFICES ASSUME SearchInit PROVE SearchIInv
  OBVIOUS
<1>1. pressureFloor \in Share
  BY DEF SearchInit, NoShare, Share, Fraction
<1>2. SearchTypeOK
  BY <1>1, SearchBarAssumption DEF SearchInit, SearchTypeOK, Share, Fraction
<1> QED BY <1>1, <1>2 DEF SearchIInv

LEMMA StepSearch == SearchIInv /\ [SearchNext]_searchVars => SearchIInv'
<1> SUFFICES ASSUME SearchIInv, [SearchNext]_searchVars PROVE SearchIInv'
  OBVIOUS
<1>1. CASE UNCHANGED searchVars
  BY <1>1 DEF searchVars, SearchIInv, SearchTypeOK
<1>2. CASE NextDay
  BY <1>2, SearchBarAssumption DEF NextDay, SearchIInv, SearchTypeOK
<1>3. CASE NoMatch
  BY <1>3 DEF NoMatch, SearchIInv, SearchTypeOK
<1>4. ASSUME NEW day \in ShiftDay, NEW pref \in {"best", "anyone"}, AdjustSearch(day, pref)
      PROVE  SearchIInv'
  <2>1. /\ DeadlineFor(day) > date /\ searchDeadline' = DeadlineFor(day)
        /\ pressureFloor' = SearchPressure /\ searchOpen' = TRUE /\ preference' = pref /\ date' = date
    BY <1>4 DEF AdjustSearch
  <2>2. date \in Nat /\ DeadlineFor(day) \in Int
    BY SearchBarAssumption DEF SearchIInv, SearchTypeOK, DeadlineFor
  <2>3. searchDeadline' \in Nat
    BY <2>1, <2>2
  <2>4. pressureFloor' \in Share
    BY <2>1, PressureIsShare
  <2> QED BY <2>1, <2>3, <2>4 DEF SearchIInv, SearchTypeOK, Share, Fraction
<1> QED BY <1>1, <1>2, <1>3, <1>4 DEF SearchNext

(* The pressure on a search only grows.                                    *)
LEMMA PressureGrows ==
    ASSUME SearchIInv, SearchIInv', SearchNext
    PROVE  AtMost(SearchPressure, SearchPressure') /\ date \in Nat /\ date' \in Nat /\ date <= date'
<1>1. /\ SearchPressure \in Fraction /\ SearchPressure' \in Fraction
      /\ UsedShare \in Fraction /\ UsedShare' \in Fraction /\ pressureFloor \in Fraction
      /\ AtMost(pressureFloor', SearchPressure')
  <2>1. SearchPressure \in Share /\ UsedShare \in Share /\ pressureFloor \in Share
    BY PressureIsShare DEF SearchIInv
  <2>2. (SearchPressure \in Share /\ UsedShare \in Share /\ AtMost(pressureFloor, SearchPressure))'
    BY PressureIsShare, PTL
  <2> QED BY <2>1, <2>2 DEF Share
<1>2. date \in Nat /\ date' \in Nat /\ searchDeadline \in Nat
  BY DEF SearchIInv, SearchTypeOK
<1>3. CASE NextDay
  <2>1. /\ date' = date + 1 /\ UNCHANGED <<searchDeadline, pressureFloor>>
    BY <1>3 DEF NextDay
  <2>2. AtMost(UsedShare, UsedShare')
    <3>1. CASE searchDeadline > 0
      <4> DEFINE f == <<date, searchDeadline>>
                 g == <<date + 1, searchDeadline>>
      <4>1. f \in Fraction /\ g \in Fraction /\ FullShare \in Fraction
        BY <1>2, <3>1 DEF Fraction, FullShare
      <4>2. AtMost(f, g)
        <5>1. date * searchDeadline <= (date + 1) * searchDeadline
          BY <1>2, Multiplied
        <5> QED BY <5>1 DEF AtMost
      <4>3. AtMost(FullShare, FullShare)
        BY <4>1, AtMostTotal
      <4>4. UsedShare = Lower(FullShare, f) /\ UsedShare' = Lower(FullShare, g)
        BY <2>1, <3>1 DEF UsedShare, Lower, FullShare, AtMost
      <4> HIDE DEF f, g
      <4> QED BY <4>1, <4>2, <4>3, <4>4, LowerShrinks
    <3>2. CASE ~(searchDeadline > 0)
      BY <2>1, <3>2 DEF UsedShare, FullShare, AtMost
    <3> QED BY <3>1, <3>2
  <2>3. SearchPressure = Higher(pressureFloor, UsedShare)
        /\ SearchPressure' = Higher(pressureFloor, UsedShare')
    BY <2>1 DEF SearchPressure, Higher, AtMost
  <2>4. AtMost(pressureFloor, pressureFloor)
    BY <1>1, AtMostTotal
  <2>5. AtMost(Higher(pressureFloor, UsedShare), Higher(pressureFloor, UsedShare'))
    BY <1>1, <2>2, <2>4, HigherGrows
  <2> QED BY <1>2, <2>1, <2>3, <2>5
<1>4. CASE NoMatch
  <2>1. UNCHANGED <<date, searchDeadline, pressureFloor>>
    BY <1>4 DEF NoMatch
  <2>2. SearchPressure' = SearchPressure
    BY <2>1 DEF SearchPressure, UsedShare, Lower, Higher, AtMost, FullShare
  <2>3. AtMost(SearchPressure, SearchPressure)
    BY <1>1, AtMostTotal
  <2> QED BY <1>2, <2>1, <2>2, <2>3
<1>5. ASSUME NEW day \in ShiftDay, NEW pref \in {"best", "anyone"}, AdjustSearch(day, pref)
      PROVE  pressureFloor' = SearchPressure /\ date' = date
  BY <1>5 DEF AdjustSearch
<1> QED BY <1>1, <1>2, <1>3, <1>4, <1>5 DEF SearchNext

(* The way to the shift: its bar falls with the days.                      *)
ShareByShift(day, today) ==
    IF day - today >= Far THEN FullShare
    ELSE IF day - today <= Near THEN NoShare
    ELSE <<day - today - Near, Far - Near>>

LEMMA ByShiftFalls ==
    ASSUME NEW day \in ShiftDay, NEW d \in Nat, NEW e \in Nat, d <= e
    PROVE  /\ ShareByShift(day, d) \in Fraction /\ ShareByShift(day, e) \in Fraction
           /\ AtMost(ShareByShift(day, e), ShareByShift(day, d))
<1>1. Near \in Nat /\ Far \in Nat /\ Near < Far /\ day \in Nat
  BY SearchBarAssumption
<1>2. Far - Near \in Nat \ {0}
  BY <1>1
<1>3. \A today \in Nat : ShareByShift(day, today) \in Fraction
  <2> TAKE today \in Nat
  <2>1. ~(day - today <= Near) => day - today - Near \in Nat
    BY <1>1
  <2> QED BY <1>2, <2>1 DEF ShareByShift, FullShare, NoShare, Fraction
<1>4. AtMost(ShareByShift(day, e), ShareByShift(day, d))
  <2> DEFINE x == day - e - Near
             y == day - d - Near
             z == Far - Near
  <2>1. x \in Int /\ y \in Int /\ z \in Nat /\ z > 0 /\ x <= y
    BY <1>1
  <2>2. /\ day - e >= Far <=> x >= z
        /\ day - d >= Far <=> y >= z
        /\ day - e <= Near <=> x <= 0
        /\ day - d <= Near <=> y <= 0
    BY <1>1
  <2>3. ShareByShift(day, e) = IF x >= z THEN FullShare ELSE IF x <= 0 THEN NoShare ELSE <<x, z>>
    BY <2>2 DEF ShareByShift
  <2>4. ShareByShift(day, d) = IF y >= z THEN FullShare ELSE IF y <= 0 THEN NoShare ELSE <<y, z>>
    BY <2>2 DEF ShareByShift
  <2> HIDE DEF x, y, z
  <2>5. CASE x >= z
    <3>1. y >= z
      BY <2>1, <2>5
    <3> QED BY <2>3, <2>4, <2>5, <3>1 DEF AtMost, FullShare
  <2>6. CASE ~(x >= z) /\ x <= 0
    <3>1. ShareByShift(day, e) = <<0, 1>> /\ ShareByShift(day, d) \in Fraction
      BY <1>3, <2>3, <2>6 DEF NoShare
    <3>2. \A f \in Fraction : AtMost(<<0, 1>>, f)
      BY DEF AtMost, Fraction
    <3> QED BY <3>1, <3>2
  <2>7. CASE ~(x >= z) /\ ~(x <= 0)
    <3>1. ShareByShift(day, e) = <<x, z>> /\ x \in Nat
      BY <2>1, <2>3, <2>7
    <3>2. CASE y >= z
      <4>1. ShareByShift(day, d) = <<1, 1>>
        BY <2>4, <3>2 DEF FullShare
      <4> QED BY <2>1, <2>7, <3>1, <4>1 DEF AtMost
    <3>3. CASE ~(y >= z)
      <4>1. ShareByShift(day, d) = <<y, z>> /\ y \in Nat
        BY <2>1, <2>4, <2>7, <3>3
      <4>2. x * z <= y * z
        BY <2>1, <3>1, <4>1, Multiplied
      <4> QED BY <3>1, <4>1, <4>2 DEF AtMost
    <3> QED BY <3>2, <3>3
  <2> QED BY <2>5, <2>6, <2>7
<1> QED BY <1>3, <1>4

LEMMA BarFalls ==
    ASSUME SearchIInv, SearchIInv', SearchNext, preference' = preference, NEW day \in ShiftDay
    PROVE  AtMost(Bar(day)', Bar(day))
<1> DEFINE Rest(f) == <<f[2] - f[1], f[2]>>
           p == SearchPressure
           q == SearchPressure'
<1>1. /\ date \in Nat /\ date' \in Nat /\ date <= date' /\ AtMost(p, q) /\ p \in Share /\ q \in Share
  <2>1. (UsedShare \in Share /\ SearchPressure \in Share /\ AtMost(pressureFloor, SearchPressure))'
    BY PressureIsShare, PTL
  <2> QED BY <2>1, PressureGrows, PressureIsShare
<1>2. /\ ShareByShift(day, date) \in Fraction /\ ShareByShift(day, date') \in Fraction
      /\ AtMost(ShareByShift(day, date'), ShareByShift(day, date))
  BY <1>1, ByShiftFalls
<1>3. Rest(p) \in Fraction /\ Rest(q) \in Fraction /\ AtMost(Rest(q), Rest(p))
  BY <1>1, RestShrinks
<1>4. AtMost(Lower(ShareByShift(day, date'), Rest(q)), Lower(ShareByShift(day, date), Rest(p)))
  BY <1>2, <1>3, LowerShrinks
<1>5. /\ Bar(day) = IF preference = "anyone" THEN NoShare ELSE Lower(ShareByShift(day, date), Rest(p))
      /\ Bar(day)' = IF preference' = "anyone" THEN NoShare ELSE Lower(ShareByShift(day, date'), Rest(q))
  BY DEF Bar, ByShift, ShareByShift, BySearchTime, Lower, AtMost, NoShare, FullShare
<1>6. AtMost(NoShare, NoShare)
  BY DEF AtMost, NoShare
<1> HIDE DEF Rest, p, q
<1> QED BY <1>4, <1>5, <1>6

(* A search that goes on wanting the best match never gets pickier,        *)
(* however its dates are moved (matching/assign.js, lifecycle.js           *)
(* adjustRequest).                                                         *)
THEOREM BarOnlyFalls == SearchSpec => BarNeverRises /\ []SearchTypeOK
<1>1. SearchIInv /\ SearchIInv' /\ [SearchNext]_searchVars
      => [searchVars' # searchVars /\ preference' = preference =>
            \A day \in ShiftDay : AtMost(Bar(day)', Bar(day))]_searchVars
  BY BarFalls
<1>2. SearchIInv => SearchTypeOK
  BY DEF SearchIInv
<1> QED BY <1>1, <1>2, InitSearch, StepSearch, PTL DEF SearchSpec, BarNeverRises

=============================================================================
