----------------------------- MODULE PaidEvents -----------------------------
(***************************************************************************)
(* A paid event, from the relay's delivery to the booking.  The relay      *)
(* delivers an event until it is answered 2xx, and perhaps again.  The     *)
(* handler claims the event in store_event, looks at the booking it names, *)
(* books it (or gives credit, or keeps the event for the coach), grants    *)
(* what a package leaves over, tells the parent, and marks the event done: *)
(* each in a transaction of its own, and it may stop, or fail, between any *)
(* two.  A claim left unfinished can be taken over after a few minutes,    *)
(* whether or not the handler that made it is still at work.               *)
(*                                                                         *)
(* Around them the parent checks out with session credits they have, and   *)
(* cancels, child by child; the coach cancels the session and gives back   *)
(* late cancels.  Whether the session has room is SpotHolds' subject: here *)
(* it may come and go.                                                     *)
(***************************************************************************)
EXTENDS Integers, Sequences, FiniteSets, FiniteSetsExt

CONSTANTS
    Payments,       \* payment references
    Events,         \* ids of paid events
    NoPayment,      \* a null charge_id
    NoEvent,        \* what a checkout with credits handles
    Children,       \* the bookings of one pass
    First,          \* the one its buy links name
    Reports,        \* events the relay may raise, each of a payment for an order
    PackSessions,   \* sessions a package or a pack is worth
    OwnCredit,      \* sessions the parent holds from before
    Workers,        \* requests being handled at one time
    MaxFaults       \* bound on crashes, failures and needless redeliveries

ASSUME EventsAssumption == NoPayment \notin Payments /\ NoEvent \notin Events
ASSUME ChildrenAssumption == IsFiniteSet(Children) /\ First \in Children
ASSUME WorthAssumption == /\ PackSessions \in Nat /\ OwnCredit \in Nat /\ MaxFaults \in Nat
                          /\ PackSessions >= Cardinality(Children)

(* A drop-in or a package or pack; and what is wrong with the order: the   *)
(* buyer ref names no booking, the package is gone (or holds too few       *)
(* sessions for the pass), or the amount is not the price.                 *)
Order == [mode : {"dropin", "pack"}, wrong : {"no", "booking", "item", "amount"}]
ASSUME WorkersAssumption == IsFiniteSet(Workers)
ASSUME ReportsAssumption == Reports \subseteq [event : Events, payment : Payments, order : Order]

VARIABLES
    names,      \* names[e]: the payment event e is about, once there is one
    order,      \* order[p]: what payment p was for
    late,       \* payments made after the session started
    row,        \* row[e]: the event's row in store_event
    answered,   \* events answered 2xx
    kept,       \* kept[e]: the reason in payment_attention, or "none"
    child,      \* child[c]: the booking of child c
    credit,     \* the rows of credit, by id
    session,    \* session.status
    started,    \* whether starts_at_utc has passed
    told,       \* told[c]: confirmations sent for c
    job,        \* job[k]: what worker k is doing
    faults

vars == <<names, order, late, row, answered, kept, child, credit, session, started, told, job, faults>>
world == <<names, order, late, session, started>>
booked == <<child, credit>>
inbox == <<row, answered, kept>>

None == 0

NoOrder == [mode |-> "none", wrong |-> "no"]

(* A cancel inside the window is a late one until the coach gives it back. *)
Booking == [status : {"pending", "booked", "late", "cancelled"},
            charge : Payments \cup {NoPayment}, credit : Nat]

(* of is the purchase a credit's source names. *)
Credit == [left : Nat, of : Payments \cup {NoPayment}]

Reasons == {"none", "booking_missing", "booking_cancelled", "already_booked", "item_missing",
            "amount_mismatch", "session_cancelled", "session_started", "session_full"}

----------------------------------------------------------------------------
(* What a worker does next.  e is its event, or NoEvent at a checkout.     *)

Idle == [op |-> "idle"]
At(op, e) == [op |-> op, e |-> e]
SettleJob(e, seen) == [op |-> "settle", e |-> e, seen |-> seen]
KeepJob(e, reason) == [op |-> "keep", e |-> e, reason |-> reason]
GrantJob(e, then) == [op |-> "grant", e |-> e, then |-> then]
ConfirmJob(e, left) == [op |-> "confirm", e |-> e, left |-> left]
CreditsJob(op, ids) == [op |-> op, ids |-> ids]

Job ==
    {Idle}
    \cup [op : {"look", "book", "credit", "finish", "answer"}, e : Events]
    \cup [op : {"settle"}, e : Events, seen : Booking]
    \cup [op : {"keep"}, e : Events, reason : Reasons]
    \cup [op : {"grant"}, e : Events, then : {"confirm", "finish"}]
    \cup [op : {"confirm"}, e : Events \cup {NoEvent}, left : SUBSET Children]
    \cup [op : {"take", "spend", "putback"}, ids : Seq(Nat)]

Go(k, j) == job' = [job EXCEPT ![k] = j]

EventOf(k) == job[k].e

PaidBy(k) == names[EventOf(k)]

IsPack(p) == order[p].mode = "pack"

Worth(p) == IF IsPack(p) THEN PackSessions ELSE Cardinality(Children)

(* Broken on purpose: the status of the rows booked or closed is not checked. *)
PendingOrBooked == {c \in Children : child[c].status \in {"pending", "booked"}}

Pending == {c \in Children : child[c].status = "pending"}

NewCredit(left, of) == Append(credit, [left |-> left, of |-> of])

----------------------------------------------------------------------------
Init ==
    /\ names = [e \in Events |-> NoPayment]
    /\ order = [p \in Payments |-> NoOrder]
    /\ late = {}
    /\ row = [e \in Events |-> "none"]
    /\ answered = {}
    /\ kept = [e \in Events |-> "none"]
    /\ child = [c \in Children |-> [status |-> "pending", charge |-> NoPayment, credit |-> None]]
    /\ credit = <<[left |-> OwnCredit, of |-> NoPayment]>>
    /\ session = "scheduled"
    /\ started = FALSE
    /\ told = [c \in Children |-> 0]
    /\ job = [k \in Workers |-> Idle]
    /\ faults = 0

(* The parent pays, from a checkout page that may have been open for long, *)
(* and the relay raises an event of it, and maybe another.                 *)
Report(e, p, o) ==
    /\ names[e] = NoPayment
    /\ order[p] \in {NoOrder, o}
    /\ names' = [names EXCEPT ![e] = p]
    /\ order' = [order EXCEPT ![p] = o]
    /\ late' = IF order[p] = NoOrder /\ started THEN late \cup {p} ELSE late
    /\ UNCHANGED <<session, started, told, job, faults, inbox, booked>>

Start ==
    /\ ~started
    /\ started' = TRUE
    /\ UNCHANGED <<names, order, late, session, told, job, faults, inbox, booked>>

----------------------------------------------------------------------------
(* handledOnce: a delivery of e claims its row, or takes over a stale one. *)
(* While the row is claimed the delivery is answered with an error, and    *)
(* changes nothing.                                                        *)

DeliveredAgain(e) == IF e \in answered THEN faults < MaxFaults /\ faults' = faults + 1 ELSE UNCHANGED faults

(* Broken on purpose: a claim is for good. *)
ClaimableOnce(e) == row[e] = "none"

Claimable(e) == row[e] \in {"none", "stale"}

Claim(k, e) ==
    /\ job[k] = Idle
    /\ names[e] # NoPayment
    /\ DeliveredAgain(e)
    /\ Claimable(e)
    /\ row' = [row EXCEPT ![e] = "claimed"]
    /\ Go(k, At("look", e))
    /\ UNCHANGED <<answered, kept, told, booked, world>>

AnswerAgain(k, e) ==
    /\ job[k] = Idle
    /\ names[e] # NoPayment
    /\ DeliveredAgain(e)
    /\ row[e] = "done"
    /\ answered' = answered \cup {e}
    /\ UNCHANGED <<row, kept, told, job, booked, world>>

(* STALE_CLAIM_MINUTES pass, the handler at work or gone. *)
GrowStale(e) ==
    /\ row[e] = "claimed"
    /\ row' = [row EXCEPT ![e] = "stale"]
    /\ UNCHANGED <<answered, kept, told, job, faults, booked, world>>

Finish(k) ==
    /\ job[k].op = "finish"
    /\ row' = IF row[EventOf(k)] = "none" THEN row ELSE [row EXCEPT ![EventOf(k)] = "done"]
    /\ Go(k, At("answer", EventOf(k)))
    /\ UNCHANGED <<answered, kept, told, faults, booked, world>>

Answer(k) ==
    /\ job[k].op = "answer"
    /\ answered' = answered \cup {EventOf(k)}
    /\ Go(k, Idle)
    /\ UNCHANGED <<row, kept, told, faults, booked, world>>

Handling == {"look", "book", "credit", "settle", "keep", "grant", "confirm", "finish"}

(* A statement throws: releaseEvent, whoever holds the claim by now. *)
Fail(k) ==
    /\ faults < MaxFaults
    /\ job[k].op \in Handling /\ EventOf(k) # NoEvent
    /\ faults' = faults + 1
    /\ row' = IF row[EventOf(k)] = "done" THEN row ELSE [row EXCEPT ![EventOf(k)] = "none"]
    /\ Go(k, Idle)
    /\ UNCHANGED <<answered, kept, told, booked, world>>

(* The process stops: the claim stays. *)
Crash(k) ==
    /\ faults < MaxFaults
    /\ job[k] # Idle
    /\ faults' = faults + 1
    /\ Go(k, Idle)
    /\ UNCHANGED <<told, inbox, booked, world>>

----------------------------------------------------------------------------
(* handlePaid. *)

(* The reads: the booking, then its session and what was bought.  What they *)
(* decide is looked at again under a lock, or does not change.             *)
Look(k) ==
    /\ job[k].op = "look"
    /\ LET e == EventOf(k)
           p == names[e]
       IN  Go(k, IF order[p].wrong = "booking" THEN KeepJob(e, "booking_missing")
                 ELSE IF child[First].status # "pending" THEN SettleJob(e, child[First])
                 ELSE IF order[p].wrong = "item" THEN KeepJob(e, "item_missing")
                 ELSE IF order[p].wrong = "amount" THEN KeepJob(e, "amount_mismatch")
                 ELSE IF session = "cancelled" THEN At("credit", e)
                 ELSE IF p \in late THEN KeepJob(e, "session_started")
                 ELSE At("book", e))
    /\ UNCHANGED <<told, faults, inbox, booked, world>>

(* bookPendingBooking, under the session's lock; whether there is room is  *)
(* SpotHolds' subject.                                                     *)
BookedBy(p) ==
    [c \in Children |-> IF c \in Pending
                        THEN [child[c] EXCEPT !.status = "booked", !.charge = p] ELSE child[c]]

Book(k) ==
    /\ job[k].op = "book"
    /\ LET e == EventOf(k)
           p == names[e]
       IN  \/ /\ Pending = {}
              /\ Go(k, SettleJob(e, child[First])) /\ UNCHANGED child
           \/ /\ Pending # {} /\ session = "cancelled"
              /\ Go(k, At("credit", e)) /\ UNCHANGED child
           \/ /\ Pending # {} /\ session = "scheduled"
              /\ Go(k, KeepJob(e, "session_full")) /\ UNCHANGED child
           \/ /\ Pending # {} /\ session = "scheduled"
              /\ child' = BookedBy(p)
              /\ Go(k, IF IsPack(p) THEN GrantJob(e, "confirm") ELSE ConfirmJob(e, Children))
    /\ UNCHANGED <<credit, told, faults, inbox, world>>

(* Broken on purpose: the booking's credit is not looked at under its lock. *)
GrantableBlindly(c) == TRUE

Grantable(c) == child[c].credit = None

(* grantBookingCredit: what the package leaves after this pass's sessions. *)
Grant(k) ==
    /\ job[k].op = "grant"
    /\ IF Grantable(First)
       THEN /\ credit' = NewCredit(PackSessions - Cardinality(Children), PaidBy(k))
            /\ child' = [c \in Children |-> IF child[c].credit = None
                                            THEN [child[c] EXCEPT !.credit = Len(credit) + 1] ELSE child[c]]
       ELSE UNCHANGED booked
    /\ Go(k, IF job[k].then = "confirm" THEN ConfirmJob(EventOf(k), Children) ELSE At("finish", EventOf(k)))
    /\ UNCHANGED <<told, faults, inbox, world>>

Confirm(k) ==
    /\ job[k].op = "confirm"
    /\ \/ /\ job[k].left = {}
          /\ Go(k, IF EventOf(k) = NoEvent THEN Idle ELSE At("finish", EventOf(k)))
          /\ UNCHANGED told
       \/ \E c \in job[k].left :
          /\ told' = [told EXCEPT ![c] = @ + 1]
          /\ Go(k, ConfirmJob(EventOf(k), job[k].left \ {c}))
    /\ UNCHANGED <<faults, inbox, booked, world>>

(* creditCancelledBooking: the whole payment becomes credit; the parent is  *)
(* told, and Money lists it with whether they were.                        *)
CreditInstead(k) ==
    /\ job[k].op = "credit"
    /\ LET p == PaidBy(k)
       IN  IF child[First].status = "pending"
           THEN /\ credit' = NewCredit(Worth(p), p)
                /\ child' = [c \in Children |->
                      IF c \in Pending
                      THEN [status |-> "cancelled", charge |-> p, credit |-> Len(credit) + 1] ELSE child[c]]
                /\ Go(k, KeepJob(EventOf(k), "session_cancelled"))
           ELSE Go(k, SettleJob(EventOf(k), child[First])) /\ UNCHANGED booked
    /\ UNCHANGED <<told, faults, inbox, world>>

(* Broken on purpose: any booking no longer pending is taken for this payment's. *)
OurOwnAlways(seen, p) == TRUE

OurOwn(seen, p) == seen.charge = p

(* settled: finish what this payment began, or keep a second payment. *)
Begun(e, seen) ==
    /\ seen.status = "booked" /\ seen.credit = None
    /\ order[names[e]].wrong # "item" /\ IsPack(names[e])

(* Broken on purpose: the parent is told again. *)
FinishBegunAloud(e, seen) == IF Begun(e, seen) THEN GrantJob(e, "confirm") ELSE At("finish", e)

FinishBegun(e, seen) == IF Begun(e, seen) THEN GrantJob(e, "finish") ELSE At("finish", e)

SecondPayment(e, seen) ==
    KeepJob(e, IF seen.status \in {"late", "cancelled"} THEN "booking_cancelled" ELSE "already_booked")

Settle(k) ==
    /\ job[k].op = "settle"
    /\ LET e == EventOf(k)
           seen == job[k].seen
       IN  Go(k, IF OurOwn(seen, names[e]) THEN FinishBegun(e, seen) ELSE SecondPayment(e, seen))
    /\ UNCHANGED <<told, faults, inbox, booked, world>>

(* recordPaymentAttention: the first reason for an event stands. *)
Keep(k) ==
    /\ job[k].op = "keep"
    /\ kept' = IF kept[EventOf(k)] = "none" THEN [kept EXCEPT ![EventOf(k)] = job[k].reason] ELSE kept
    /\ Go(k, At("finish", EventOf(k)))
    /\ UNCHANGED <<row, answered, told, faults, booked, world>>

----------------------------------------------------------------------------
(* A checkout with session credits: one taken for each child, one at a     *)
(* time, and put back one at a time when the pass is not booked, or when   *)
(* none is left or the one read was used up meanwhile.                     *)

(* Broken on purpose: a credit used up is drawn on. *)
AnyCredit == DOMAIN credit

Usable == {i \in DOMAIN credit : credit[i].left > 0}

Checkout(k) ==
    /\ job[k] = Idle
    /\ child[First].status = "pending"
    /\ Usable # {}
    /\ Go(k, CreditsJob("take", <<>>))
    /\ UNCHANGED <<told, faults, inbox, booked, world>>

Take(k) ==
    /\ job[k].op = "take"
    /\ \/ /\ Len(job[k].ids) = Cardinality(Children)
          /\ Go(k, CreditsJob("spend", job[k].ids))
          /\ UNCHANGED credit
       \/ /\ Len(job[k].ids) < Cardinality(Children)
          /\ Go(k, CreditsJob("putback", job[k].ids))
          /\ UNCHANGED credit
       \/ /\ Len(job[k].ids) < Cardinality(Children)
          /\ \E i \in Usable :
                /\ credit' = [credit EXCEPT ![i].left = @ - 1]
                /\ Go(k, CreditsJob("take", Append(job[k].ids, i)))
    /\ UNCHANGED <<child, told, faults, inbox, world>>

(* bookPendingBooking again. *)
Spend(k) ==
    /\ job[k].op = "spend"
    /\ \/ /\ session = "scheduled" /\ Pending # {}
          /\ \E ids \in [Children -> DOMAIN credit] :
                /\ \A i \in DOMAIN credit :
                      Cardinality({c \in Children : ids[c] = i}) =
                      Cardinality({n \in DOMAIN job[k].ids : job[k].ids[n] = i})
                /\ child' = [c \in Children |->
                      IF c \in Pending THEN [child[c] EXCEPT !.status = "booked", !.credit = ids[c]]
                      ELSE child[c]]
          /\ Go(k, ConfirmJob(NoEvent, Children))
       \/ /\ Go(k, CreditsJob("putback", job[k].ids))
          /\ UNCHANGED child
    /\ UNCHANGED <<credit, told, faults, inbox, world>>

PutBack(k) ==
    /\ job[k].op = "putback"
    /\ LET ids == job[k].ids
       IN  IF ids = <<>> THEN Go(k, Idle) /\ UNCHANGED credit
           ELSE /\ credit' = [credit EXCEPT ![Head(ids)].left = @ + 1]
                /\ Go(k, CreditsJob("putback", Tail(ids)))
    /\ UNCHANGED <<child, told, faults, inbox, world>>

----------------------------------------------------------------------------
(* Cancels, and what they give back. *)

PaidDropIn(c) == child[c].charge # NoPayment /\ ~IsPack(child[c].charge)

(* c's booking takes status, and its session goes back to its credit; a    *)
(* paid drop-in becomes a credit of one session.                           *)
GiveBack(c, status) ==
    IF child[c].credit # None
    THEN /\ credit' = [credit EXCEPT ![child[c].credit].left = @ + 1]
         /\ child' = [child EXCEPT ![c].status = status]
    ELSE IF PaidDropIn(c)
    THEN /\ credit' = NewCredit(1, NoPayment)
         /\ child' = [child EXCEPT ![c].status = status, ![c].credit = Len(credit) + 1]
    ELSE /\ child' = [child EXCEPT ![c].status = status]
         /\ UNCHANGED credit

(* cancelByParent: inside the coach's window the session is used up. *)
CancelByParent(c) ==
    /\ child[c].status = "booked" /\ ~started
    /\ \/ GiveBack(c, "cancelled")
       \/ /\ child[c].credit # None \/ PaidDropIn(c)
          /\ child' = [child EXCEPT ![c].status = "late"]
          /\ UNCHANGED credit
    /\ UNCHANGED <<told, job, faults, inbox, world>>

Waivable(c) == child[c].status = "late"

(* waiveBooking, from the session screen, and for each late cancel of a    *)
(* session the coach cancels.                                              *)
Waive(c) ==
    /\ Waivable(c)
    /\ GiveBack(c, "cancelled")
    /\ UNCHANGED <<told, job, faults, inbox, world>>

CancelSession ==
    /\ session = "scheduled" /\ ~started
    /\ session' = "cancelled"
    /\ UNCHANGED <<names, order, late, started, told, job, faults, inbox, booked>>

CancelSessionBooking(c) ==
    /\ session = "cancelled"
    /\ child[c].status = "booked"
    /\ GiveBack(c, "cancelled")
    /\ UNCHANGED <<told, job, faults, inbox, world>>

----------------------------------------------------------------------------
Deliver(e) == \E k \in Workers : Claim(k, e) \/ AnswerAgain(k, e)

Step(k) ==
    \/ Look(k) \/ Book(k) \/ Grant(k) \/ Confirm(k) \/ CreditInstead(k) \/ Settle(k) \/ Keep(k) \/ Finish(k) \/ Answer(k)
    \/ Take(k) \/ Spend(k) \/ PutBack(k)

Next ==
    \/ \E r \in Reports : Report(r.event, r.payment, r.order)
    \/ Start \/ CancelSession
    \/ \E e \in Events : Deliver(e) \/ GrowStale(e)
    \/ \E k \in Workers : Step(k) \/ Fail(k) \/ Crash(k) \/ Checkout(k)
    \/ \E c \in Children : CancelByParent(c) \/ Waive(c) \/ CancelSessionBooking(c)

(* The relay delivers until it is answered, a handler goes on until it     *)
(* ends or stops, and five minutes pass.  Nothing else need ever happen.   *)
Fairness ==
    /\ \A e \in Events : SF_vars(e \notin answered /\ Deliver(e)) /\ WF_vars(GrowStale(e))
    /\ \A k \in Workers : WF_vars(Step(k))

Spec == Init /\ [][Next]_vars /\ Fairness

----------------------------------------------------------------------------
(* Rows and handlers are what the code can write; no credit is drawn below  *)
(* zero (decrementCredit takes only what is left).                          *)
TypeOK ==
    /\ names \in [Events -> Payments \cup {NoPayment}]
    /\ order \in [Payments -> Order \cup {NoOrder}]
    /\ late \subseteq Payments
    /\ row \in [Events -> {"none", "claimed", "stale", "done"}]
    /\ answered \subseteq Events
    /\ kept \in [Events -> Reasons]
    /\ child \in [Children -> Booking]
    /\ credit \in Seq(Credit)
    /\ session \in {"scheduled", "cancelled"}
    /\ started \in BOOLEAN
    /\ told \in [Children -> Nat]
    /\ job \in [Workers -> Job]
    /\ faults \in 0..MaxFaults

(* "A booked parent gets one confirmation": however many handlers, events    *)
(* and checkouts reach the booking, no child is confirmed twice.             *)
ConfirmedOnce == \A c \in Children : told[c] <= 1

InUse == {c \in Children : child[c].status \in {"booked", "late"}}

InHand == SumFunction([i \in DOMAIN credit |-> credit[i].left])

Carried(k) == IF job[k].op \in {"take", "spend", "putback"} THEN Len(job[k].ids) ELSE 0

UnderWay == SumFunction([k \in Workers |-> Carried(k)])

PaidFor == OwnCredit + (IF child[First].charge = NoPayment THEN 0 ELSE Worth(child[First].charge))

(* Sessions booked, used up, in hand as credit, or taken for a booking under *)
(* way never come to more than were paid for with this booking's payment and *)
(* held before: no retry, cancel or give-back makes a session out of nothing *)
(* (grantBookingCredit, creditCancelledBooking, restoreCredit).              *)
NeverMoreThanPaid == Cardinality(InUse) + InHand + UnderWay <= PaidFor

Settled(e) == child[First].charge = names[e] \/ kept[e] # "none"

(* The relay is told 2xx, and store_event says done, only when the payment   *)
(* is the booking's or the event is kept for the coach.                      *)
AnsweredIsSettled == \A e \in Events : (e \in answered \/ row[e] = "done") => Settled(e)

(* "Every paid event is either booked or kept for the coach with a reason":  *)
(* and it gets there, through crashes, failures and claims left behind.      *)
EveryPaidEventSettled == \A e \in Events : (names[e] # NoPayment) ~> Settled(e)

(* The credits that the purchases paid for this booking left. *)
Granted == {i \in DOMAIN credit : credit[i].of # NoPayment}

(* The booking takes one payment for good, and its purchase is granted once. *)
Promise == INSTANCE PaymentOnce WITH
    names <- names, owner <- child[First].charge, granted <- Granted,
    kept <- {e \in Events : kept[e] # "none"}

PaidOnce == Promise!Spec
=============================================================================
