----------------------------- MODULE MCCoachWeek -----------------------------
(* Small instances of CoachWeek for TLC: a week of two days, the first with *)
(* two hours.                                                               *)
EXTENDS CoachWeek, TLC

MCDayOf == <<1, 1, 2>>
MCNamed == {[week |-> 1, pos |-> 2], [week |-> 1, pos |-> 3]}
MCWeeklies == {{}, {1}}

Symmetry == Permutations(Workers)
=============================================================================
