----------------------------- MODULE MCOverflow -----------------------------
(* Small instances of OverflowCascade for TLC. *)
EXTENDS OverflowCascade, TLC

CONSTANTS s1, s2

MCStarts1 == s1 :> 2
MCStarts2 == s1 :> 2 @@ s2 :> 1
MCAnswers1 == s1 :> {"no", "backup"}
MCAnswers2 == MCAnswers1 @@ s2 :> {}
Symmetry == Permutations(Workers)
=============================================================================
