---------------------------- MODULE MCPaidEvents ----------------------------
(* Small instances of PaidEvents for TLC. *)
EXTENDS PaidEvents, TLC

CONSTANTS p1, p2, e1, e2

Sold(mode) == [mode |-> mode, wrong |-> "no"]
Wrong(w) == [mode |-> "pack", wrong |-> w]
Of(e, p, o) == [event |-> e, payment |-> p, order |-> o]

(* Two events of a payment for a pack; or the second is of a payment of    *)
(* its own, for a drop-in, of another amount, or naming no booking.        *)
MCReports ==
    {Of(e1, p1, Sold("pack")), Of(e2, p1, Sold("pack")), Of(e2, p2, Sold("dropin")),
     Of(e2, p2, Wrong("amount")), Of(e2, p2, Wrong("booking"))}

MCOnePayment == {Of(e1, p1, Sold("pack"))}

Symmetry == Permutations(Workers)
=============================================================================
