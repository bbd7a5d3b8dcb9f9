----------------------------- MODULE MCLifecycle -----------------------------
(***************************************************************************)
(* Small instances of the lifecycle.  One unit of time stands for a few    *)
(* hours, with the thresholds in the order they have in lib/rules.js:      *)
(* RematchLast = CheckInLead < BailMin < LastResponse < MinLead and        *)
(* ProposalResponse = MinLead.  People without a spot can be proposed a     *)
(* shift until MinLead before it: at 0 for a shift at 4, at 0 and 1 for    *)
(* one at 5.  The last row that waits for attendance is resolved one unit  *)
(* after its shift.                                                        *)
(***************************************************************************)
EXTENDS Offers, TLC

CONSTANTS u1, u2, u3, s1, s2

TwoUsers == {u1, u2}
ThreeUsers == {u1, u2, u3}
Nobody == {}
OnlyU1 == {u1}

OneShift == {s1}
TwoShifts == {s1, s2}
StartAt4 == [s \in Shift |-> 4]
StartAt5 == [s \in Shift |-> 5]
EndAt5 == [s \in Shift |-> 5]
EndAt6 == [s \in Shift |-> 6]
OneLong == [s \in Shift |-> IF s = s2 THEN 6 ELSE 5]
Consecutive == [s \in Shift |-> IF s = s2 THEN 5 ELSE 4]
ConsecutiveEnd == [s \in Shift |-> Consecutive[s] + 1]
TwoSpots == [s \in Shift |-> 2]
ThreeSpots == [s \in Shift |-> 3]
EndOfDay == {6}
EarlyOrLate == {5, 6}

AnyThree == Permutations(ThreeUsers)

(* Narrows a search for a counterexample: no request is given up and no    *)
(* proposal refused.                                                       *)
Persistent ==
    /\ \A r \in RequestId : requests[r].status # "cancelled"
    /\ \A p \in PairingId : pairings[p].status # "declined"
=============================================================================
