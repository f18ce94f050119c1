----------------------------- MODULE SpotHolds -----------------------------
(***************************************************************************)
(* The spots of a session: who holds one, who has bought one, and who is   *)
(* waiting for one.  Every parent, every paid event, the coach and the     *)
(* tick act on the same three tables (session, booking, waitlist), each in *)
(* transactions of its own.                                                *)
(*                                                                         *)
(* A transaction that counts spots does three things at three moments: its *)
(* caller reads the capacity, BEGIN fixes now() for the whole transaction, *)
(* and the session's row lock is granted when whoever holds it commits.    *)
(* Begin* actions are the first two; the action named for the function is  *)
(* everything from the grant of the lock to the commit.  Time may pass in  *)
(* between: at most LockWait, so LockWait = 0 is a system in which nobody  *)
(* waits for a lock across a change of the clock.                          *)
(***************************************************************************)
EXTENDS Integers, Sequences, FiniteSets

CONSTANTS
    Sessions,       \* ids of sessions of one type, of one coach
    FirstSessions,  \* those scheduled at the start; the others may open as second groups
    MaxBookings,    \* bound: booking ids are 1..MaxBookings
    MaxWaiting,     \* bound: waitlist ids are 1..MaxWaiting
    Children,       \* a child is a name under one parent's phone
    Phone,          \* Phone[c]: the contact_phone the child is booked under
    PassLists,      \* the lists of names a booking form may send
    Unreachable,    \* children whose parent can be sent neither text nor email
    TypeCapacity,   \* session_type.capacity at the start
    CapacityEdits,  \* capacities the coach may change the type to
    HoldTime,       \* BOOKING_HOLD_MINUTES
    RetryTime,      \* the wait after an offer that did not go out
    LockWait,       \* how long a transaction may wait for a row lock
    LostAnswers,    \* whether a delivered message may be answered with an error
    Workers,        \* requests, webhooks and ticks being handled at one time
    MaxTime         \* bound on the clock

ASSUME SessionsAssumption == /\ IsFiniteSet(Sessions)
                             /\ FirstSessions \subseteq Sessions
                             /\ 0 \notin Sessions
ASSUME IdsAssumption == MaxBookings \in Nat /\ MaxWaiting \in Nat
ASSUME PassAssumption ==
    \A kids \in PassLists :
        /\ kids \in Seq(Children) /\ Len(kids) >= 1
        /\ \A i \in 1..Len(kids) : Phone[kids[i]] = Phone[kids[1]]
ASSUME CapacityAssumption == TypeCapacity \in Nat /\ CapacityEdits \subseteq Nat
ASSUME TimeAssumption == /\ HoldTime \in Nat \ {0} /\ RetryTime \in Nat \ {0}
                         /\ LockWait \in Nat /\ MaxTime \in Nat
ASSUME LostAnswersAssumption == LostAnswers \in BOOLEAN

VARIABLES
    clock,      \* the time, as Postgres' now() gives it at BEGIN
    typeCap,    \* session_type.capacity
    session,    \* session[s]: [status, override, overflowOf]
    booking,    \* booking[b]: a row of booking, or NoBooking
    serial,     \* the last booking id given
    wait,       \* wait[w]: a row of waitlist, or NoEntry
    job         \* job[k]: what worker k is doing

vars == <<clock, typeCap, session, booking, serial, wait, job>>

Bookings == 1..MaxBookings
Entries  == 1..MaxWaiting
None     == 0

(***************************************************************************)
(* Rows.  A booking's pass is the id of the first booking of its pass (a   *)
(* booking without pass_id is a pass of one); charged says it carries a    *)
(* charge_id; link, that its parent was sent, or shown, its checkout page. *)
(***************************************************************************)
Booking == [status : {"none", "pending", "booked", "cancelled"},
            session : Sessions \cup {None}, child : Children \cup {None},
            pass : Bookings \cup {None}, hold : Int,
            charged : BOOLEAN, link : BOOLEAN]
NoBooking == [status |-> "none", session |-> None, child |-> None, pass |-> None,
              hold |-> 0, charged |-> FALSE, link |-> FALSE]

Entry == [state : {"none", "waiting", "offered", "booked", "lapsed", "unreachable"},
          session : Sessions \cup {None}, child : Children \cup {None},
          offer : Bookings \cup {None}, retry : Int]
NoEntry == [state |-> "none", session |-> None, child |-> None, offer |-> None, retry |-> 0]

Session == [status : {"unopened", "scheduled", "cancelled"},
            override : Nat, overflowOf : Sessions \cup {None}]

(***************************************************************************)
(* What a worker is in the middle of.  Those of InTransaction have sent    *)
(* BEGIN at time at and wait for their locks; the others are between two   *)
(* statements of the handler.                                              *)
(***************************************************************************)
Idle == [op |-> "idle"]
CreateJob(s, kids, at, cap) == [op |-> "create", s |-> s, kids |-> kids, at |-> at, cap |-> cap]
RenewJob(b, s, at, cap, pay) == [op |-> "renew", b |-> b, s |-> s, at |-> at, cap |-> cap, pay |-> pay]
PickedJob(b, s, cap) == [op |-> "picked", b |-> b, s |-> s, cap |-> cap]
BookJob(b, s, at, cap, paid) == [op |-> "book", b |-> b, s |-> s, at |-> at, cap |-> cap, paid |-> paid]
CreditJob(b) == [op |-> "credit", b |-> b]
OfferJob(s, at) == [op |-> "offer", s |-> s, at |-> at]
AcceptJob(s, kind, at) == [op |-> "accept", s |-> s, kind |-> kind, at |-> at]
SendJob(spots) == [op |-> "send", spots |-> spots]
UnsentJob(spots) == [op |-> "unsent", spots |-> spots]
SettleJob == [op |-> "settle"]
MoveJob(b, s, to, at) == [op |-> "move", b |-> b, s |-> s, to |-> to, at |-> at]
CloseJob(s) == [op |-> "close", s |-> s]
CancelJob(left) == [op |-> "cancel", left |-> left]
EditJob(cap) == [op |-> "edit", cap |-> cap]

InTransaction == {"create", "renew", "book", "offer", "accept", "move"}

Job ==
    {Idle, SettleJob}
    \cup [op : {"create"}, s : Sessions, kids : PassLists, at : Nat, cap : Nat]
    \cup [op : {"renew"}, b : Bookings, s : Sessions, at : Nat, cap : Nat, pay : BOOLEAN]
    \cup [op : {"picked"}, b : Bookings, s : Sessions, cap : Nat]
    \cup [op : {"book"}, b : Bookings, s : Sessions, at : Nat, cap : Nat, paid : BOOLEAN]
    \cup [op : {"credit"}, b : Bookings]
    \cup [op : {"offer"}, s : Sessions, at : Nat]
    \cup [op : {"accept"}, s : Sessions, kind : {"backup", "second_group"}, at : Nat]
    \cup [op : {"send", "unsent"}, spots : (SUBSET Entries) \ {{}}]
    \cup [op : {"move"}, b : Bookings, s : Sessions, to : Sessions, at : Nat]
    \cup [op : {"close"}, s : Sessions]
    \cup [op : {"cancel"}, left : SUBSET Bookings]
    \cup [op : {"edit"}, cap : Nat]

----------------------------------------------------------------------------
(* What the queries count, for a transaction whose now() is at. *)

Capacity(s) == IF session[s].override # 0 THEN session[s].override ELSE typeCap

Pool(s) == IF session[s].overflowOf # None THEN session[s].overflowOf ELSE s

Live(bk, b, at) == bk[b].status = "pending" /\ bk[b].hold > at

TakesSpot(bk, b, at) == bk[b].status = "booked" \/ Live(bk, b, at)

TakenIn(bk, s, at) == {b \in Bookings : bk[b].session = s /\ TakesSpot(bk, b, at)}

Taken(s, at) == TakenIn(booking, s, at)

PhoneOf(b) == Phone[booking[b].child]

PendingOf(phone) == {b \in Bookings : booking[b].status = "pending" /\ PhoneOf(b) = phone}

InPass(b) == {c \in Bookings : booking[c].pass = booking[b].pass}

PendingPass(b) == {c \in InPass(b) : booking[c].status = "pending"}

LineOf(pool) == {w \in Entries : wait[w].state = "waiting" /\ wait[w].session = pool}

WaitingFor(s) == LineOf(Pool(s))

Kept(s, phone) == Cardinality({w \in WaitingFor(s) : Phone[wait[w].child] # phone})

(* The waitlist after the children of the bookings bs are booked in s. *)
OffTheLine(s, bs) ==
    [w \in Entries |->
        IF w \in WaitingFor(s) /\ wait[w].child \in {booking[b].child : b \in bs}
        THEN [wait[w] EXCEPT !.state = "booked"] ELSE wait[w]]

Go(k, j) == job' = [job EXCEPT ![k] = j]

----------------------------------------------------------------------------
Init ==
    /\ clock = 0
    /\ typeCap = TypeCapacity
    /\ session = [s \in Sessions |->
                    [status |-> IF s \in FirstSessions THEN "scheduled" ELSE "unopened",
                     override |-> 0, overflowOf |-> None]]
    /\ booking = [b \in Bookings |-> NoBooking]
    /\ serial = 0
    /\ wait = [w \in Entries |-> NoEntry]
    /\ job = [k \in Workers |-> Idle]

(* Time passes, unless a transaction would then have waited longer than    *)
(* LockWait.  A message is answered, or given up, long before a hold ends. *)
Tick ==
    /\ clock < MaxTime
    /\ \A k \in Workers : /\ job[k].op \in InTransaction => clock - job[k].at < LockWait
                          /\ job[k].op \notin {"send", "unsent"}
    /\ clock' = clock + 1
    /\ UNCHANGED <<typeCap, session, booking, serial, wait, job>>

----------------------------------------------------------------------------
(* The booking form: createPendingBooking. *)

BeginCreate(k, s, kids) ==
    /\ job[k] = Idle
    /\ session[s].status = "scheduled"
    /\ Go(k, CreateJob(s, kids, clock, Capacity(s)))
    /\ UNCHANGED <<clock, typeCap, session, booking, serial, wait>>

NewIds(n) == (serial + 1)..(serial + n)

(* Broken on purpose: the form counts the spots and forgets the people waiting. *)
CreateFitsPastTheLine(j) ==
    /\ session[j.s].status = "scheduled"
    /\ Cardinality(Taken(j.s, j.at) \ PendingOf(Phone[j.kids[1]])) + Len(j.kids) <= j.cap

CreateFits(j) ==
    LET phone == Phone[j.kids[1]]
    IN  /\ session[j.s].status = "scheduled"
        /\ Cardinality(Taken(j.s, j.at) \ PendingOf(phone)) + Kept(j.s, phone) + Len(j.kids) <= j.cap

NewHold(j, b) ==
    [status |-> "pending", session |-> j.s, child |-> j.kids[b - serial], pass |-> serial + 1,
     hold |-> j.at + HoldTime, charged |-> FALSE, link |-> TRUE]

(* The phone's earlier holds on the session end, and the pass is added. *)
AfterCreate(j) ==
    [b \in Bookings |->
        IF b \in NewIds(Len(j.kids)) THEN NewHold(j, b)
        ELSE IF b \in Taken(j.s, j.at) \cap PendingOf(Phone[j.kids[1]])
             THEN [booking[b] EXCEPT !.hold = j.at] ELSE booking[b]]

Create(k) ==
    /\ job[k].op = "create"
    /\ IF CreateFits(job[k])
       THEN /\ serial + Len(job[k].kids) <= MaxBookings
            /\ serial' = serial + Len(job[k].kids)
            /\ booking' = AfterCreate(job[k])
       ELSE UNCHANGED <<serial, booking>>
    /\ Go(k, Idle)
    /\ UNCHANGED <<clock, typeCap, session, wait>>

----------------------------------------------------------------------------
(* The checkout page: renewHold, then, for a credit or a free session,     *)
(* bookPendingBooking in the same request; otherwise the parent goes off   *)
(* to pay, and bookPendingBooking comes with the paid event.               *)

BeginRenew(k, b, pay) ==
    /\ job[k] = Idle
    /\ booking[b].status = "pending" /\ booking[b].link
    /\ Go(k, RenewJob(b, booking[b].session, clock, Capacity(booking[b].session), pay))
    /\ UNCHANGED <<clock, typeCap, session, booking, serial, wait>>

AllLive(bs, at) == \A c \in bs : Live(booking, c, at)

RenewFits(j) ==
    LET pass == PendingPass(j.b)
    IN  /\ session[j.s].status = "scheduled" /\ pass # {}
        /\ \/ AllLive(pass, j.at)
           \/ Cardinality(Taken(j.s, j.at) \ InPass(j.b)) + Kept(j.s, PhoneOf(j.b))
                + Cardinality(pass) <= j.cap

AfterRenew(j) ==
    [c \in Bookings |-> IF c \in PendingPass(j.b)
                        THEN [booking[c] EXCEPT !.hold = j.at + HoldTime] ELSE booking[c]]

Renew(k) ==
    /\ job[k].op = "renew"
    /\ LET j == job[k]
       IN  IF RenewFits(j)
           THEN booking' = AfterRenew(j) /\ Go(k, IF j.pay THEN Idle ELSE PickedJob(j.b, j.s, j.cap))
           ELSE UNCHANGED booking /\ Go(k, Idle)
    /\ UNCHANGED <<clock, typeCap, session, serial, wait>>

BeginBook(k) ==
    /\ job[k].op = "picked"
    /\ Go(k, BookJob(job[k].b, job[k].s, clock, job[k].cap, FALSE))
    /\ UNCHANGED <<clock, typeCap, session, booking, serial, wait>>

(* A paid event names the first booking of its pass.  It may come at any   *)
(* time after the parent saw the checkout page, late or never.             *)
BeginPaid(k, b) ==
    /\ job[k] = Idle
    /\ booking[b].status = "pending" /\ booking[b].link /\ booking[b].pass = b
    /\ Go(k, IF session[booking[b].session].status = "cancelled" THEN CreditJob(b)
             ELSE BookJob(b, booking[b].session, clock, Capacity(booking[b].session), TRUE))
    /\ UNCHANGED <<clock, typeCap, session, booking, serial, wait>>

(* Broken on purpose: the sale does not look at the session's status again. *)
SessionOpenUnread(j) == TRUE

SessionOpen(j) == session[j.s].status = "scheduled"

(* Broken on purpose: whatever was held is sold, however late the payment. *)
BookFitsUncounted(j) == SessionOpen(j) /\ PendingPass(j.b) # {}

BookFits(j) ==
    LET pass == PendingPass(j.b)
        others == (Taken(j.s, j.at) \ InPass(j.b)) \ PendingOf(PhoneOf(j.b))
        kept == IF j.paid THEN 0 ELSE Kept(j.s, PhoneOf(j.b))
    IN  /\ SessionOpen(j) /\ pass # {}
        /\ AllLive(pass, j.at) \/ Cardinality(others) + kept + Cardinality(pass) <= j.cap

(* Broken on purpose: the sale books the child the event names, not its pass. *)
AfterSaleOfOne(j) ==
    [booking EXCEPT ![j.b].status = "booked", ![j.b].charged = j.paid]

AfterSale(j) ==
    [c \in Bookings |-> IF c \in PendingPass(j.b)
                        THEN [booking[c] EXCEPT !.status = "booked", !.charged = j.paid] ELSE booking[c]]

(* The phone's other holds, which end when the sale leaves too few spots. *)
GivesWay(j) ==
    IF Cardinality(TakenIn(AfterSale(j), j.s, j.at)) > j.cap
    THEN (Taken(j.s, j.at) \cap PendingOf(PhoneOf(j.b))) \ InPass(j.b) ELSE {}

AfterBook(j) ==
    [c \in Bookings |-> IF c \in GivesWay(j) THEN [booking[c] EXCEPT !.hold = j.at] ELSE AfterSale(j)[c]]

Book(k) ==
    /\ job[k].op = "book"
    /\ LET j == job[k]
       IN  /\ IF BookFits(j)
              THEN booking' = AfterBook(j) /\ wait' = OffTheLine(j.s, InPass(j.b))
              ELSE UNCHANGED <<booking, wait>>
           /\ Go(k, IF ~SessionOpen(j) /\ PendingPass(j.b) # {} /\ j.paid THEN CreditJob(j.b) ELSE Idle)
    /\ UNCHANGED <<clock, typeCap, session, serial>>

(* creditCancelledBooking: the payment of a session cancelled meanwhile. *)
Credit(k) ==
    /\ job[k].op = "credit"
    /\ booking' = IF booking[job[k].b].status = "pending"
                  THEN [c \in Bookings |->
                          IF c \in PendingPass(job[k].b)
                          THEN [booking[c] EXCEPT !.status = "cancelled", !.charged = TRUE]
                          ELSE booking[c]]
                  ELSE booking
    /\ Go(k, Idle)
    /\ UNCHANGED <<clock, typeCap, session, serial, wait>>

----------------------------------------------------------------------------
(* The waitlist. *)

(* The form is for a session without a spot for each child named.  Its     *)
(* last call, offerOpenSpots, is a BeginOffer, as every other caller's is. *)
Join(s, kids) ==
    LET used == Cardinality({w \in Entries : wait[w].state # "none"})
        new  == (used + 1)..(used + Len(kids))
    IN  /\ session[s].status = "scheduled"
        /\ Capacity(s) - Cardinality(Taken(s, clock)) - Cardinality(WaitingFor(s)) < Len(kids)
        /\ new \subseteq Entries
        /\ wait' = [w \in Entries |->
                      IF w \in new
                      THEN [state |-> "waiting", session |-> Pool(s), child |-> kids[w - used],
                            offer |-> None, retry |-> 0]
                      ELSE wait[w]]
        /\ UNCHANGED <<clock, typeCap, session, booking, serial, job>>

BeginOffer(k, s) ==
    /\ job[k] = Idle
    /\ session[s].status = "scheduled" /\ WaitingFor(s) # {}
    /\ Go(k, OfferJob(s, clock))
    /\ UNCHANGED <<clock, typeCap, session, booking, serial, wait>>

(* holdSpotsForWaitlist walks the line of session s, in the order they     *)
(* joined, up to the first who rests after an offer that did not go out.   *)
(* With cap spots there and now() = at, it gives each free spot to the     *)
(* next who can be told, and strikes out those it meets who cannot.        *)
Met(pool, at) == {w \in LineOf(pool) : \A v \in LineOf(pool) : v <= w => wait[v].retry <= at}

Tellable(pool, at) == {w \in Met(pool, at) : wait[w].child \notin Unreachable}

Before(w, pool, at) == Cardinality({v \in Tellable(pool, at) : v < w})

(* Broken on purpose: holds under way count as free spots. *)
HeldPastHolds(s, pool, cap, at) ==
    {w \in Tellable(pool, at) :
        Before(w, pool, at) < cap - Cardinality({b \in Taken(s, at) : booking[b].status = "booked"})}

Held(s, pool, cap, at) ==
    {w \in Tellable(pool, at) : Before(w, pool, at) < cap - Cardinality(Taken(s, at))}

Struck(s, pool, cap, at) ==
    {w \in Met(pool, at) \ Tellable(pool, at) :
        Before(w, pool, at) < cap - Cardinality(Taken(s, at))}

Spot(w, pool, at) == serial + 1 + Before(w, pool, at)

HeldRow(s, w, b, at) ==
    [status |-> "pending", session |-> s, child |-> wait[w].child, pass |-> b,
     hold |-> at + HoldTime, charged |-> FALSE, link |-> FALSE]

HoldSpots(k, s, pool, cap, at) ==
    LET held == Held(s, pool, cap, at)
        struck == Struck(s, pool, cap, at)
    IN  /\ serial + Cardinality(held) <= MaxBookings
        /\ serial' = serial + Cardinality(held)
        /\ booking' = [b \in Bookings |->
              IF \E w \in held : b = Spot(w, pool, at)
              THEN HeldRow(s, CHOOSE w \in held : b = Spot(w, pool, at), b, at) ELSE booking[b]]
        /\ wait' = [w \in Entries |->
              IF w \in held THEN [wait[w] EXCEPT !.state = "offered", !.offer = Spot(w, pool, at)]
              ELSE IF w \in struck THEN [wait[w] EXCEPT !.state = "unreachable"] ELSE wait[w]]
        /\ Go(k, IF held = {} THEN Idle ELSE SendJob(held))

Offer(k) ==
    /\ job[k].op = "offer"
    /\ LET j == job[k]
       IN  IF session[j.s].status = "scheduled"
           THEN HoldSpots(k, j.s, Pool(j.s), Capacity(j.s), j.at)
           ELSE Go(k, Idle) /\ UNCHANGED <<booking, serial, wait>>
    /\ UNCHANGED <<clock, typeCap, session>>

(* acceptOffer's part in this: a backup coach's spots are added to the     *)
(* session, or a second group opens; the spots go to the line at once, or  *)
(* at 8am.  One offer is accepted for a session.                           *)
Accepted(s) == session[s].override # 0 \/ \E t \in Sessions : session[t].overflowOf = s

BeginAccept(k, s, kind) ==
    /\ job[k] = Idle
    /\ session[s].status = "scheduled" /\ ~Accepted(s)
    /\ Go(k, AcceptJob(s, kind, clock))
    /\ UNCHANGED <<clock, typeCap, session, booking, serial, wait>>

BackupJoins(k, s, at) ==
    LET cap == Capacity(s) + typeCap
    IN  /\ session' = [session EXCEPT ![s].override = cap]
        /\ \/ HoldSpots(k, s, Pool(s), cap, at)
           \/ Go(k, Idle) /\ UNCHANGED <<booking, serial, wait>>

SecondGroupOpens(k, s, at) ==
    \E t \in Sessions :
        /\ session[t].status = "unopened"
        /\ session' = [session EXCEPT ![t] =
              [status |-> "scheduled", override |-> session[s].override, overflowOf |-> s]]
        /\ \/ HoldSpots(k, t, s, Capacity(s), at)
           \/ Go(k, Idle) /\ UNCHANGED <<booking, serial, wait>>

Accept(k) ==
    /\ job[k].op = "accept"
    /\ LET j == job[k]
       IN  IF session[j.s].status # "scheduled" \/ Accepted(j.s)
           THEN Go(k, Idle) /\ UNCHANGED <<session, booking, serial, wait>>
           ELSE \/ j.kind = "backup" /\ BackupJoins(k, j.s, j.at)
                \/ j.kind = "second_group" /\ SecondGroupOpens(k, j.s, j.at)
    /\ UNCHANGED <<clock, typeCap>>

(***************************************************************************)
(* sendHeldSpots, one spot after the other.  The parent may have the link  *)
(* before the relay has answered; with LostAnswers, the answer for a       *)
(* message that went out may be an error all the same.                     *)
(***************************************************************************)
NextSpot(k) == CHOOSE w \in job[k].spots : \A v \in job[k].spots : w <= v

Sent(k) == LET left == job[k].spots \ {NextSpot(k)}
           IN  Go(k, IF left = {} THEN Idle ELSE SendJob(left))

Deliver(k) ==
    /\ job[k].op = "send"
    /\ LET b == wait[NextSpot(k)].offer
       IN  ~booking[b].link /\ booking' = [booking EXCEPT ![b].link = TRUE]
    /\ UNCHANGED <<clock, typeCap, session, serial, wait, job>>

AnsweredSent(k) ==
    /\ job[k].op = "send"
    /\ booking[wait[NextSpot(k)].offer].link
    /\ Sent(k)
    /\ UNCHANGED <<clock, typeCap, session, booking, serial, wait>>

(* It did not go out: the hold ends, and then the place in line changes. *)
LetSpotGo(k) ==
    /\ job[k].op = "send"
    /\ LET b == wait[NextSpot(k)].offer
       IN  /\ ~booking[b].link \/ LostAnswers
           /\ booking' = IF booking[b].status = "pending"
                         THEN [booking EXCEPT ![b].hold = clock] ELSE booking
    /\ Go(k, UnsentJob(job[k].spots))
    /\ UNCHANGED <<clock, typeCap, session, serial, wait>>

AnsweredUnreachable(k) ==
    /\ job[k].op = "unsent"
    /\ LET w == NextSpot(k)
       IN  wait' = IF wait[w].state = "offered"
                   THEN [wait EXCEPT ![w].state = "unreachable"] ELSE wait
    /\ Sent(k)
    /\ UNCHANGED <<clock, typeCap, session, booking, serial>>

AnsweredLater(k) ==
    /\ job[k].op = "unsent"
    /\ LET w == NextSpot(k)
       IN  wait' = IF wait[w].state = "offered"
                   THEN [wait EXCEPT ![w] = [@ EXCEPT !.state = "waiting", !.offer = None,
                                                      !.retry = clock + RetryTime]]
                   ELSE wait
    /\ Sent(k)
    /\ UNCHANGED <<clock, typeCap, session, booking, serial>>

(* The tick's first steps, in moveWaitlists; its last are BeginOffers. *)
SettleBooked(k) ==
    /\ job[k] = Idle
    /\ wait' = [w \in Entries |->
          IF wait[w].state = "offered" /\ booking[wait[w].offer].status = "booked"
          THEN [wait[w] EXCEPT !.state = "booked"] ELSE wait[w]]
    /\ Go(k, SettleJob)
    /\ UNCHANGED <<clock, typeCap, session, booking, serial>>

SettleLapsed(k) ==
    /\ job[k] = SettleJob
    /\ wait' = [w \in Entries |->
          IF wait[w].state = "offered" /\ ~TakesSpot(booking, wait[w].offer, clock)
          THEN [wait[w] EXCEPT !.state = "lapsed"] ELSE wait[w]]
    /\ Go(k, Idle)
    /\ UNCHANGED <<clock, typeCap, session, booking, serial>>

----------------------------------------------------------------------------
(* Cancels and moves. *)

CancelByParent(b) ==
    /\ booking[b].status = "booked"
    /\ booking' = [booking EXCEPT ![b].status = "cancelled"]
    /\ UNCHANGED <<clock, typeCap, session, serial, wait, job>>

(* cancelScheduledSession: the session closes first; then its bookings are *)
(* read, and cancelled one at a time.  It can be run again to finish.      *)
CloseSession(k, s) ==
    /\ job[k] = Idle
    /\ \/ session[s].status = "scheduled"
       \/ /\ session[s].status = "cancelled"
          /\ \E b \in Bookings : booking[b].session = s /\ booking[b].status = "booked"
    /\ session' = [session EXCEPT ![s].status = "cancelled"]
    /\ Go(k, CloseJob(s))
    /\ UNCHANGED <<clock, typeCap, booking, serial, wait>>

ListBookings(k) ==
    /\ job[k].op = "close"
    /\ Go(k, CancelJob({b \in Bookings : booking[b].session = job[k].s /\ booking[b].status = "booked"}))
    /\ UNCHANGED <<clock, typeCap, session, booking, serial, wait>>

NextToCancel(k) == CHOOSE b \in job[k].left : \A c \in job[k].left : b <= c

CancelBooking(k) ==
    /\ job[k].op = "cancel"
    /\ IF job[k].left = {}
       THEN Go(k, Idle) /\ UNCHANGED booking
       ELSE /\ booking' = IF booking[NextToCancel(k)].status = "booked"
                          THEN [booking EXCEPT ![NextToCancel(k)].status = "cancelled"] ELSE booking
            /\ Go(k, CancelJob(job[k].left \ {NextToCancel(k)}))
    /\ UNCHANGED <<clock, typeCap, session, serial, wait>>

(* moveByParent.  Its caller read which session the booking is in. *)
BeginMove(k, b, to) ==
    /\ job[k] = Idle
    /\ booking[b].status # "none" /\ booking[b].session # to
    /\ Go(k, MoveJob(b, booking[b].session, to, clock))
    /\ UNCHANGED <<clock, typeCap, session, booking, serial, wait>>

(* Broken on purpose: a move takes one child and leaves its siblings. *)
PaidTogetherAlone(b) == {b}

(* Every booking the payment bought here; a credit's booking goes alone. *)
PaidTogether(b) ==
    IF booking[b].charged
    THEN {c \in InPass(b) : booking[c].charged /\ booking[c].session = booking[b].session}
    ELSE {b}

(* Broken on purpose: a move out of a session that has closed. *)
MayMoveAnyTime(b, from) ==
    /\ booking[b].session = from
    /\ \A c \in PaidTogether(b) : booking[c].status = "booked"

MayMove(b, from) ==
    /\ booking[b].session = from
    /\ session[from].status = "scheduled"
    /\ \A c \in PaidTogether(b) : booking[c].status = "booked"

Move(k) ==
    /\ job[k].op = "move"
    /\ LET j == job[k]
           goes == PaidTogether(j.b)
           room == Cardinality(Taken(j.to, j.at)) + Kept(j.to, PhoneOf(j.b))
                     + Cardinality(goes) <= Capacity(j.to)
       IN  IF MayMove(j.b, j.s) /\ session[j.to].status = "scheduled" /\ room
           THEN /\ booking' = [c \in Bookings |->
                      IF c \in goes THEN [booking[c] EXCEPT !.session = j.to] ELSE booking[c]]
                /\ wait' = OffTheLine(j.to, goes)
           ELSE UNCHANGED <<booking, wait>>
    /\ Go(k, Idle)
    /\ UNCHANGED <<clock, typeCap, session, serial>>

----------------------------------------------------------------------------
(* The coach edits the type's capacity: checked, then written, no lock. *)

BeginEdit(k, cap) ==
    /\ job[k] = Idle
    /\ \A s \in Sessions :
          session[s].status = "scheduled" /\ session[s].override = 0
          => Cardinality(Taken(s, clock)) <= cap
    /\ Go(k, EditJob(cap))
    /\ UNCHANGED <<clock, typeCap, session, booking, serial, wait>>

Edit(k) ==
    /\ job[k].op = "edit"
    /\ typeCap' = job[k].cap
    /\ Go(k, Idle)
    /\ UNCHANGED <<clock, session, booking, serial, wait>>

(* A handler dies: its transaction is rolled back, the rest of it never runs. *)
Crash(k) ==
    /\ job[k] # Idle
    /\ Go(k, Idle)
    /\ UNCHANGED <<clock, typeCap, session, booking, serial, wait>>

----------------------------------------------------------------------------
Begin(k) ==
    \/ \E s \in Sessions, kids \in PassLists : BeginCreate(k, s, kids)
    \/ \E b \in Bookings, pay \in BOOLEAN : BeginRenew(k, b, pay)
    \/ BeginBook(k)
    \/ \E b \in Bookings : BeginPaid(k, b)
    \/ \E s \in Sessions : BeginOffer(k, s)
    \/ \E s \in Sessions, kind \in {"backup", "second_group"} : BeginAccept(k, s, kind)
    \/ \E b \in Bookings, to \in Sessions : BeginMove(k, b, to)
    \/ \E s \in Sessions : CloseSession(k, s)
    \/ \E cap \in CapacityEdits : BeginEdit(k, cap)

Step(k) ==
    \/ Create(k) \/ Renew(k) \/ Book(k) \/ Credit(k) \/ Offer(k) \/ Accept(k) \/ Move(k)
    \/ Deliver(k) \/ AnsweredSent(k) \/ LetSpotGo(k) \/ AnsweredUnreachable(k) \/ AnsweredLater(k)
    \/ SettleBooked(k) \/ SettleLapsed(k)
    \/ ListBookings(k) \/ CancelBooking(k) \/ Edit(k) \/ Crash(k)

Next ==
    \/ Tick
    \/ \E s \in Sessions, kids \in PassLists : Join(s, kids)
    \/ \E b \in Bookings : CancelByParent(b)
    \/ \E k \in Workers : Begin(k) \/ Step(k)

Spec == Init /\ [][Next]_vars

----------------------------------------------------------------------------
(* Rows of the three tables and handlers are what the code can write.       *)
TypeOK ==
    /\ clock \in Nat
    /\ typeCap \in Nat
    /\ session \in [Sessions -> Session]
    /\ booking \in [Bookings -> Booking]
    /\ serial \in 0..MaxBookings
    /\ wait \in [Entries -> Entry]
    /\ job \in [Workers -> Job]

(* The children of a pass are at checkout together or not at all, in one     *)
(* session, under one phone, on one hold: what lets bookPendingBooking count *)
(* every other booking as somebody else's.                                   *)
PassWhole ==
    \A b \in Bookings : booking[b].status = "pending" =>
        \A c \in InPass(b) : /\ booking[c].status = "pending"
                             /\ booking[c].session = booking[b].session
                             /\ booking[c].hold = booking[b].hold
                             /\ PhoneOf(c) = PhoneOf(b)

(* The bookings one payment bought stay in one session through cancels and   *)
(* moves, so that a refund of the payment finds all of them (moveBooking).   *)
PaidInOneSession ==
    \A b \in Bookings : booking[b].charged =>
        \A c \in InPass(b) : booking[c].charged => booking[c].session = booking[b].session

Acts(k) == job'[k] # job[k]

NewlyTaken(s) == Taken(s, clock)' \ Taken(s, clock)

Over(s) == Cardinality(Taken(s, clock)) > Capacity(s)

(* Where the code counts on something that may have changed while the        *)
(* transaction waited for its lock: holds that were under way at BEGIN have  *)
(* ended since, or the coach has lowered the capacity its caller read.       *)
RanOut(j) ==
    /\ j.op \in {"renew", "book"}
    /\ AllLive(PendingPass(j.b), j.at) /\ ~AllLive(PendingPass(j.b), clock)

OldCapacity(j) == j.op \in {"create", "renew", "book"} /\ j.cap > Capacity(j.s)

Lowers(j) == j.op = "edit" /\ j.cap < typeCap

(* A session comes to have more bookings sold and spots held than it has     *)
(* spots, or takes one more when it does already, only by a renewal or sale  *)
(* that the lock kept waiting past the end of its holds, by one that its     *)
(* caller sent off with a capacity the coach has lowered since, or by the    *)
(* lowering itself, which is checked apart. Otherwise lockSession and the    *)
(* counts taken under it keep every session within its capacity, also of     *)
(* transactions that waited.                                                 *)
NoOverbooking ==
    [][\A s \in Sessions :
         Over(s)' /\ (~Over(s) \/ NewlyTaken(s) # {})
         => \E k \in Workers :
               Acts(k) /\ (RanOut(job[k]) \/ OldCapacity(job[k]) \/ Lowers(job[k]))]_vars

(* The people waiting have first claim on an open spot: a new hold, a hold   *)
(* taken up again, a credit's booking or a move leaves a spot for each of    *)
(* the others in line (countKeptForWaitlist), unless it counted on a hold or *)
(* a capacity of before it waited. The parent's own other unpaid holds,      *)
(* which give way to what they book, do not count.                           *)
FirstClaim ==
    [][\A k \in Workers, s \in Sessions :
         /\ Acts(k) /\ ~RanOut(job[k]) /\ ~OldCapacity(job[k])
         /\ job[k].op \in {"create", "renew", "move"} \/ (job[k].op = "book" /\ ~job[k].paid)
         => \A b \in NewlyTaken(s) :
              LET rest == (PendingOf(PhoneOf(b)) \ InPass(b))'
              IN  Cardinality(Taken(s, clock)' \ rest) + Kept(s, PhoneOf(b)') <= Capacity(s)]_vars

(* Nothing takes a spot in a session its coach has cancelled, whatever was   *)
(* under way when it closed.                                                 *)
ClosedStaysClosed ==
    [][\A s \in Sessions : NewlyTaken(s) # {} => session'[s].status = "scheduled"]_vars

(* A coach's cancel, working through the list it read, never cancels a       *)
(* booking that is by then in a session that goes ahead.                     *)
CancelsOnlyItsSession ==
    [][\A k \in Workers, b \in Bookings :
         /\ Acts(k) /\ job[k].op = "cancel"
         /\ booking[b].status = "booked" /\ booking'[b].status = "cancelled"
         => session[booking[b].session].status = "cancelled"]_vars
=============================================================================
