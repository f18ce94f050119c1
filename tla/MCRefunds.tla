----------------------------- MODULE MCRefunds -----------------------------
(* Small instances of Refunds for TLC. *)
EXTENDS Refunds, TLC

Symmetry == Permutations(Workers)

(* Two workers and two tries are enough states without the coach's cancel  *)
(* of the session: the run of a pack has that. A start only ends what may  *)
(* be cancelled, so the steps after it are taken before it as well.        *)
Upcoming == session = "scheduled" /\ ~started
=============================================================================
