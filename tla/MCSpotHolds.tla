---------------------------- MODULE MCSpotHolds ----------------------------
(* Small instances of SpotHolds for TLC. *)
EXTENDS SpotHolds, TLC

CONSTANTS a1, a2, b1    \* two children of one parent, one of another

MCPhone == a1 :> "A" @@ a2 :> "A" @@ b1 :> "B"
MCChildren == {a1, a2, b1}
MCPassLists == {<<a1>>, <<a1, a2>>, <<b1>>}
MCSingles == {<<a1>>, <<b1>>}
Symmetry == Permutations(Workers)

OnlyJobs(ops) == \A k \in Workers : job[k].op \in ops \cup {"idle"}

(* Which handlers an instance runs: the others' first step is not followed. *)
Checkout == OnlyJobs({"create", "renew", "picked", "book", "edit"})
Coach    == OnlyJobs({"create", "book", "credit", "move", "close", "cancel", "edit"})
Line     == OnlyJobs({"create", "book", "offer", "accept", "send", "unsent", "settle"})
=============================================================================
