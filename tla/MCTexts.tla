------------------------------- MODULE MCTexts -------------------------------
(* Small instances of Texts for TLC. *)
EXTENDS Texts, TLC

MCPhoneOf == [b \in Bookings |-> CoachPhone]

Symmetry == Permutations(Workers) \cup Permutations(Sessions)
=============================================================================
