---------------------------- MODULE PaymentOnce ----------------------------
(***************************************************************************)
(* What the app promises of the payments for one booking, however often    *)
(* the relay delivers an event and wherever a handler stops: the booking   *)
(* takes one payment, for good; what the purchase leaves over is granted   *)
(* once; and the relay is told an event is handled only when its payment   *)
(* is the booking's or the event is kept for the coach.                    *)
(***************************************************************************)
CONSTANTS
    Payments,   \* payment references
    Events,     \* ids of paid events
    NoPayment

VARIABLES
    names,      \* names[e]: the payment event e is about
    owner,      \* the payment the booking took
    granted,    \* the credits given for its purchase
    kept,       \* events kept for the coach
    answered    \* events the relay was told are handled

vars == <<names, owner, granted, kept, answered>>

Init ==
    /\ names = [e \in Events |-> NoPayment]
    /\ owner = NoPayment /\ granted = {} /\ kept = {} /\ answered = {}

Report(e, p) ==
    /\ names[e] = NoPayment
    /\ names' = [names EXCEPT ![e] = p]
    /\ UNCHANGED <<owner, granted, kept, answered>>

Book(p) ==
    /\ owner = NoPayment
    /\ owner' = p
    /\ UNCHANGED <<names, granted, kept, answered>>

GiveOne ==
    /\ granted = {} /\ granted' # {}
    /\ \A c, d \in granted' : c = d

Credit(p) ==
    /\ owner = NoPayment
    /\ owner' = p
    /\ GiveOne
    /\ UNCHANGED <<names, kept, answered>>

Grant ==
    /\ owner # NoPayment
    /\ GiveOne
    /\ UNCHANGED <<names, owner, kept, answered>>

Keep(e) ==
    /\ kept' = kept \cup {e}
    /\ UNCHANGED <<names, owner, granted, answered>>

Answer(e) ==
    /\ names[e] # NoPayment
    /\ owner = names[e] \/ e \in kept
    /\ answered' = answered \cup {e}
    /\ UNCHANGED <<names, owner, granted, kept>>

Next ==
    \/ \E p \in Payments : Book(p) \/ Credit(p) \/ \E e \in Events : Report(e, p)
    \/ Grant
    \/ \E e \in Events : Keep(e) \/ Answer(e)

Spec == Init /\ [][Next]_vars
=============================================================================
