------------------------------ MODULE Refunds ------------------------------
(***************************************************************************)
(* One payment after it bought its bookings: the coach refunds it through  *)
(* the relay, which answers, or not, and reports what became of it by      *)
(* store events, in any order and until they are handled.  Meanwhile the   *)
(* parent and the coach cancel the bookings, the coach gives no-shows and  *)
(* late cancels back, and the parent books with the credits this leaves.   *)
(*                                                                         *)
(* A refund is one row per payment.  It holds the payment's credits while  *)
(* it is on its way; when it goes through, once, the bookings end and the  *)
(* credits are withdrawn.                                                  *)
(***************************************************************************)
EXTENDS Integers, Sequences, FiniteSets, FiniteSetsExt

CONSTANTS
    Children,       \* the bookings the payment bought
    Kinds,          \* what it bought them as: "dropin", "pack"
    PackSessions,   \* sessions a package or a pack is worth
    Workers,        \* requests being handled at one time
    Outside,        \* refunds that may be made outside Coachatron: "whole", "part"
    MaxAttempts,    \* bound on the coach's tries
    MaxFaults       \* bound on handlers that stop

ASSUME ChildrenAssumption == IsFiniteSet(Children) /\ Children # {}
ASSUME KindsAssumption == Kinds \subseteq {"dropin", "pack"}
ASSUME PackAssumption == PackSessions \in Nat /\ PackSessions >= Cardinality(Children)
ASSUME BoundsAssumption == MaxAttempts \in Nat \ {0} /\ MaxFaults \in Nat
ASSUME OutsideAssumption == Outside \subseteq {"whole", "part"}

VARIABLES
    kind,       \* what the payment bought
    child,      \* child[c]: the booking of child c
    credit,     \* the credits the payment's bookings left, by id
    refund,     \* the payment's row in refund, or NoRefund
    session,    \* session.status
    started,    \* whether starts_at_utc has passed
    told,       \* refund notices sent to the parent
    relay,      \* relay[r]: what became of refund r at the relay
    reports,    \* store events raised and not yet handled
    job,        \* job[k]: what worker k is doing
    faults,
    freed,      \* history: a failure freed the credits of a refund asked for since
    twice       \* history: the bookings whose session came back twice

vars == <<kind, child, credit, refund, session, started, told, relay, reports, job, faults, freed, twice>>
bought == <<child, credit>>
world == <<kind, session, started>>
history == <<freed, twice>>

None == 0

(* Refund r at the relay: the coach's try r, or one made outside.          *)
Tries == 1..MaxAttempts
Whole == MaxAttempts + 1
Part  == MaxAttempts + 2
Refs  == 1..(MaxAttempts + 2)

Booking == [status : {"booked", "noshow", "cancelled", "refunded"}, late : BOOLEAN, waived : BOOLEAN, credit : Nat]

(* drawn is the number of other bookings that drew on it; held is refund_id. *)
Credit == [left : Nat, drawn : Nat, held : BOOLEAN, withdrawn : BOOLEAN]

(* unanswered is error_code 'unavailable', stale a requested_at long ago,  *)
(* asked from_app, applied refunded_at.                                    *)
Refund == [status : {"none", "requested", "pending", "refunded", "failed", "partial"}, attempt : Nat,
           ref : Refs \cup {None}, unanswered : BOOLEAN, stale : BOOLEAN, asked : BOOLEAN, applied : BOOLEAN]

RefundRow(status, ref, asked) ==
    [status |-> status, attempt |-> 1, ref |-> ref, unanswered |-> FALSE, stale |-> FALSE,
     asked |-> asked, applied |-> FALSE]

NoRefund == RefundRow("none", None, FALSE)

Report == [what : {"refunded", "failed"}, ref : Refs]
NoReport == [what |-> "none", ref |-> None]

----------------------------------------------------------------------------
(* What a worker does next: about refund r, for report e or (NoReport) for *)
(* the coach who asked.                                                    *)

Idle == [op |-> "idle"]
At(op, r, e) == [op |-> op, r |-> r, e |-> e]

Job == {Idle} \cup [op : {"call", "pending", "unanswered", "ref", "fail", "release", "insert", "apply", "tell", "finish"},
                    r : Refs, e : Report \cup {NoReport}]

Go(k, j) == job' = [job EXCEPT ![k] = j]

Done(k) == IF job[k].e = NoReport THEN Go(k, Idle) ELSE Go(k, At("finish", job[k].r, job[k].e))

----------------------------------------------------------------------------
(* What the payment bought, and what is left of it.                        *)

Live(c) == child[c].status \in {"booked", "noshow"}

UsesOwnSession(c) == (Live(c) \/ (child[c].status = "cancelled" /\ child[c].late)) /\ ~child[c].waived

Own == {c \in Children : UsesOwnSession(c)}

CreditIds == {child[c].credit : c \in Children} \ {None}

Unused == SumFunction([i \in CreditIds |-> credit[i].left])

AtLeastZero(n) == IF n > 0 THEN n ELSE 0

(* purchaseCredits. *)
UsedElsewhere ==
    IF kind = "dropin"
    THEN SumFunction([i \in CreditIds |->
            AtLeastZero(Cardinality({c \in Children \ Own : child[c].credit = i}) - credit[i].left)])
    ELSE AtLeastZero(PackSessions - Cardinality(Own) - Unused)

Holding(ids) == [i \in DOMAIN credit |-> IF i \in ids THEN [credit[i] EXCEPT !.held = TRUE] ELSE credit[i]]

Init ==
    /\ kind \in Kinds
    /\ child = [c \in Children |-> [status |-> "booked", late |-> FALSE, waived |-> FALSE,
                                    credit |-> IF kind = "pack" THEN 1 ELSE None]]
    /\ credit = IF kind = "pack"
                THEN <<[left |-> PackSessions - Cardinality(Children), drawn |-> 0, held |-> FALSE, withdrawn |-> FALSE]>>
                ELSE <<>>
    /\ refund = NoRefund
    /\ session = "scheduled" /\ started = FALSE
    /\ told = 0
    /\ relay = [r \in Refs |-> "none"]
    /\ reports = {}
    /\ job = [k \in Workers |-> Idle]
    /\ faults = 0
    /\ freed = FALSE /\ twice = {}

----------------------------------------------------------------------------
(* requestRefund: the coach taps Refund. *)

CanBeAsked ==
    \/ refund.status \in {"none", "failed"}
    \/ refund.status = "requested" /\ (refund.unanswered \/ refund.stale)

NextAttempt == IF refund.status = "failed" THEN refund.attempt + 1 ELSE refund.attempt

AtWork(ops) == \E k \in Workers : job[k].op \in ops

(* What somebody does for a try of the coach's, or for a failure.          *)
OfTry == {"call", "pending", "unanswered", "ref", "fail", "release"}

(* claimRefund: the row is claimed, and the credits are held, unless a     *)
(* session the payment bought was used.                                    *)
Claim(k) ==
    /\ job[k] = Idle
    /\ CanBeAsked
    /\ NextAttempt \in Tries
    /\ refund.applied \/ UsedElsewhere = 0
    /\ refund' = [refund EXCEPT !.status = "requested", !.attempt = NextAttempt, !.asked = TRUE,
                                !.unanswered = FALSE, !.stale = FALSE]
    /\ credit' = IF refund.applied THEN credit ELSE Holding(CreditIds)
    /\ freed' = FALSE
    /\ Go(k, At("call", NextAttempt, NoReport))
    /\ UNCHANGED <<child, told, relay, reports, faults, twice, world>>

(* STALE_REQUEST_MINUTES pass; a call is given up long before that.        *)
GrowStale ==
    /\ refund.status = "requested" /\ ~refund.stale
    /\ ~AtWork(OfTry)
    /\ refund' = [refund EXCEPT !.stale = TRUE]
    /\ UNCHANGED <<told, relay, reports, job, faults, bought, world, history>>

(* The relay, asked for refund a under its key: it refuses, or makes the   *)
(* refund unless the money is already on its way back, or says again what  *)
(* it made.  Its answer may not come.                                      *)
MoneyOut == {r \in Refs \ {Part} : relay[r] \in {"pending", "succeeded"}}

Reported(r, s) == IF s = "pending" THEN {} ELSE {[what |-> IF s = "succeeded" THEN "refunded" ELSE "failed", ref |-> r]}

(* Broken on purpose: a pending refund is taken for one that went through. *)
AnsweredAtOnce(r, s) == At(IF s = "failed" THEN "ref" ELSE "apply", r, NoReport)

Answered(r, s) ==
    At(IF s = "pending" THEN "pending" ELSE IF s = "succeeded" THEN "apply" ELSE "ref", r, NoReport)

Call(k) ==
    /\ job[k].op = "call"
    /\ LET a == job[k].r
       IN  \/ /\ relay[a] = "none"
              /\ Go(k, At("fail", a, NoReport))
              /\ UNCHANGED <<relay, reports>>
           \/ /\ Go(k, At("unanswered", a, NoReport))
              /\ UNCHANGED <<relay, reports>>
           \/ /\ relay[a] # "none"
              /\ Go(k, Answered(a, relay[a]))
              /\ UNCHANGED <<relay, reports>>
           \/ \E s \in {"pending", "succeeded", "failed"} :
                 /\ relay[a] = "none" /\ MoneyOut = {}
                 /\ relay' = [relay EXCEPT ![a] = s]
                 /\ reports' = reports \cup Reported(a, s)
                 /\ Go(k, Answered(a, s)) \/ Go(k, At("unanswered", a, NoReport))
    /\ UNCHANGED <<refund, told, faults, bought, world, history>>

(* Stripe confirms a refund, or it fails, even after it went through.      *)
Confirm(r, s) ==
    /\ \/ relay[r] = "pending" /\ s \in {"succeeded", "failed"}
       \/ relay[r] = "succeeded" /\ s = "bounced"
    /\ relay' = [relay EXCEPT ![r] = s]
    /\ reports' = reports \cup Reported(r, s)
    /\ UNCHANGED <<refund, told, job, faults, bought, world, history>>

RefundOutside(how) ==
    LET r == IF how = "whole" THEN Whole ELSE Part
    IN  /\ relay[r] = "none" /\ MoneyOut = {}
        /\ how = "whole" => relay[Part] = "none"
        /\ relay' = [relay EXCEPT ![r] = "succeeded"]
        /\ reports' = reports \cup Reported(r, "succeeded")
        /\ UNCHANGED <<refund, told, job, faults, bought, world, history>>

----------------------------------------------------------------------------
(* The answer is noted. *)

NotePending(k) ==
    /\ job[k].op = "pending"
    /\ refund' = IF refund.status = "requested" THEN [refund EXCEPT !.status = "pending", !.ref = job[k].r] ELSE refund
    /\ Go(k, Idle)
    /\ UNCHANGED <<told, relay, reports, faults, bought, world, history>>

NoteUnanswered(k) ==
    /\ job[k].op = "unanswered"
    /\ refund' = IF refund.status = "requested" THEN [refund EXCEPT !.unanswered = TRUE] ELSE refund
    /\ Go(k, Idle)
    /\ UNCHANGED <<told, relay, reports, faults, bought, world, history>>

NoteRef(k) ==
    /\ job[k].op = "ref"
    /\ refund' = [refund EXCEPT !.ref = job[k].r]
    /\ Go(k, At("fail", job[k].r, NoReport))
    /\ UNCHANGED <<told, relay, reports, faults, bought, world, history>>

(* markFailed: the row, and then, in a statement of its own, the credits.  *)
MayFail(k) == {"requested"} \cup IF job[k].e = NoReport THEN {} ELSE {"pending", "refunded"}

MarkFailed(k) ==
    /\ job[k].op = "fail"
    /\ IF refund.status \in MayFail(k)
       THEN /\ refund' = [refund EXCEPT !.status = "failed"]
            /\ IF refund.applied THEN Done(k) ELSE Go(k, At("release", job[k].r, job[k].e))
       ELSE Done(k) /\ UNCHANGED refund
    /\ UNCHANGED <<told, relay, reports, faults, bought, world, history>>

Release(k) ==
    /\ job[k].op = "release"
    /\ credit' = [i \in DOMAIN credit |-> IF credit[i].withdrawn THEN credit[i] ELSE [credit[i] EXCEPT !.held = FALSE]]
    /\ freed' = (freed \/ refund.status # "failed")
    /\ Done(k)
    /\ UNCHANGED <<child, refund, told, relay, reports, faults, twice, world>>

----------------------------------------------------------------------------
(* A store event is handled, until a handler of it gets to the end.        *)

(* applyRefunded and applyRefundFailed, up to the first thing they write.  *)
Handle(k, e) ==
    /\ job[k] = Idle
    /\ e \in reports
    /\ Go(k, At(IF refund.status = "none" THEN "insert"
                ELSE IF e.what = "failed" THEN IF refund.ref \in {None, e.ref} THEN "fail" ELSE "finish"
                ELSE IF refund.status = "partial" THEN "finish" ELSE "apply", e.ref, e))
    /\ UNCHANGED <<refund, told, relay, reports, faults, bought, world, history>>

(* A refund the app did not ask for; a row made meanwhile stands.          *)
Insert(k) ==
    /\ job[k].op = "insert"
    /\ LET e == job[k].e
           status == IF e.what = "failed" THEN "failed" ELSE IF e.ref = Part THEN "partial" ELSE "requested"
       IN  /\ refund' = IF refund.status = "none" THEN RefundRow(status, e.ref, FALSE) ELSE refund
           /\ Go(k, At(IF e.what = "failed" \/ refund'.status = "partial" THEN "finish" ELSE "apply", e.ref, e))
    /\ UNCHANGED <<told, relay, reports, faults, bought, world, history>>

(* Broken on purpose: the row is not looked at again under its lock. *)
ToApplyUnread == TRUE

ToApply == ~refund.applied

(* applyRefunded's transaction. *)
Apply(k) ==
    /\ job[k].op = "apply"
    /\ IF ToApply
       THEN /\ credit' = [i \in DOMAIN credit |->
                            IF i \in CreditIds THEN [credit[i] EXCEPT !.left = 0, !.held = TRUE, !.withdrawn = TRUE]
                            ELSE credit[i]]
            /\ child' = [c \in Children |-> [child[c] EXCEPT !.status = "refunded"]]
            /\ Go(k, At("tell", job[k].r, job[k].e))
       ELSE Done(k) /\ UNCHANGED bought
    /\ refund' = [refund EXCEPT !.status = "refunded", !.ref = job[k].r, !.unanswered = FALSE, !.applied = TRUE]
    /\ UNCHANGED <<told, relay, reports, faults, world, history>>

Tell(k) ==
    /\ job[k].op = "tell"
    /\ told' = told + 1
    /\ Done(k)
    /\ UNCHANGED <<refund, relay, reports, faults, bought, world, history>>

Finish(k) ==
    /\ job[k].op = "finish"
    /\ reports' = reports \ {job[k].e}
    /\ Go(k, Idle)
    /\ UNCHANGED <<refund, told, relay, faults, bought, world, history>>

(* Broken on purpose: an event is over once a handler began it. *)
CrashEndsIt(k) ==
    /\ job[k] # Idle /\ faults < MaxFaults
    /\ faults' = faults + 1
    /\ reports' = reports \ {job[k].e}
    /\ Go(k, Idle)
    /\ UNCHANGED <<refund, told, relay, bought, world, history>>

(* A handler stops, or fails: an event it was at comes again.              *)
Crash(k) ==
    /\ job[k] # Idle /\ faults < MaxFaults
    /\ faults' = faults + 1
    /\ Go(k, Idle)
    /\ UNCHANGED <<refund, told, relay, reports, bought, world, history>>

----------------------------------------------------------------------------
(* The bookings meanwhile. *)

Start ==
    /\ ~started
    /\ started' = TRUE
    /\ UNCHANGED <<kind, session, refund, told, relay, reports, job, faults, bought, history>>

MarkNoShow(c) ==
    /\ child[c].status = "booked"
    /\ child' = [child EXCEPT ![c].status = "noshow"]
    /\ UNCHANGED <<credit, refund, told, relay, reports, job, faults, world, history>>

(* Broken on purpose: withdrawn_at is not looked at. *)
RestoredBlindly(i) == [credit EXCEPT ![i].left = @ + 1]

(* restoreCredit. *)
Restored(i) == IF credit[i].withdrawn THEN credit ELSE [credit EXCEPT ![i].left = @ + 1]

(* Broken on purpose: holdCreditForRefund is not called. *)
HeldNever == FALSE

(* holdCreditForRefund. *)
HeldFromTheStart == refund.status \in {"requested", "pending"} /\ ~refund.applied

(* c's booking becomes b, and its session goes back to its credit; a paid  *)
(* drop-in becomes a credit of one session.                                *)
GiveBack(c, b) ==
    IF child[c].credit # None
    THEN credit' = Restored(child[c].credit) /\ child' = [child EXCEPT ![c] = b]
    ELSE /\ credit' = Append(credit, [left |-> 1, drawn |-> 0, held |-> HeldFromTheStart, withdrawn |-> FALSE])
         /\ child' = [child EXCEPT ![c] = [b EXCEPT !.credit = Len(credit) + 1]]

CancelByParent(c) ==
    /\ Live(c) /\ ~started
    /\ \/ /\ GiveBack(c, [child[c] EXCEPT !.status = "cancelled"])
          /\ twice' = IF child[c].waived THEN twice \cup {c} ELSE twice
       \/ /\ child' = [child EXCEPT ![c].status = "cancelled", ![c].late = TRUE]
          /\ UNCHANGED <<credit, twice>>
    /\ UNCHANGED <<refund, told, relay, reports, job, faults, freed, world>>

(* Broken on purpose: waived_at is not looked at. *)
WaivableTwice(c) == child[c].status = "noshow" \/ (child[c].status = "cancelled" /\ child[c].late)

Waivable(c) == ~child[c].waived /\ (child[c].status = "noshow" \/ (child[c].status = "cancelled" /\ child[c].late))

(* waiveBooking, from the session screen, and for each late cancel of a    *)
(* session the coach cancels.                                              *)
Waive(c) ==
    /\ Waivable(c)
    /\ GiveBack(c, [child[c] EXCEPT !.waived = TRUE])
    /\ UNCHANGED <<refund, told, relay, reports, job, faults, world, history>>

CancelSession ==
    /\ session = "scheduled" /\ ~started
    /\ session' = "cancelled"
    /\ UNCHANGED <<kind, started, refund, told, relay, reports, job, faults, bought, history>>

CancelSessionBooking(c) ==
    /\ session = "cancelled" /\ Live(c)
    /\ IF child[c].waived
       THEN child' = [child EXCEPT ![c].status = "cancelled"] /\ UNCHANGED credit
       ELSE GiveBack(c, [child[c] EXCEPT !.status = "cancelled"])
    /\ UNCHANGED <<refund, told, relay, reports, job, faults, world, history>>

(* Broken on purpose: what is left is not looked at. *)
UsableEmpty(i) == ~credit[i].held

Usable(i) == credit[i].left > 0 /\ ~credit[i].held

(* decrementCredit: another booking of the parent's draws on credit i.     *)
Draw(i) ==
    /\ i \in DOMAIN credit
    /\ Usable(i)
    /\ credit' = [credit EXCEPT ![i].left = @ - 1, ![i].drawn = @ + 1]
    /\ UNCHANGED <<child, refund, told, relay, reports, job, faults, world, history>>

(* That booking is cancelled. *)
Return(i) ==
    /\ i \in DOMAIN credit
    /\ credit[i].drawn > 0
    /\ credit' = [Restored(i) EXCEPT ![i].drawn = @ - 1]
    /\ UNCHANGED <<child, refund, told, relay, reports, job, faults, world, history>>

----------------------------------------------------------------------------
Step(k) ==
    \/ Call(k) \/ NotePending(k) \/ NoteUnanswered(k) \/ NoteRef(k) \/ MarkFailed(k) \/ Release(k)
    \/ Insert(k) \/ Apply(k) \/ Tell(k) \/ Finish(k)

Deliver(e) == \E k \in Workers : Handle(k, e)

Next ==
    \/ GrowStale \/ Start \/ CancelSession
    \/ \E k \in Workers : Claim(k) \/ Step(k) \/ Crash(k)
    \/ \E r \in Tries, s \in {"succeeded", "failed", "bounced"} : Confirm(r, s)
    \/ \E how \in Outside : RefundOutside(how)
    \/ \E e \in Report : Deliver(e)
    \/ \E c \in Children : MarkNoShow(c) \/ CancelByParent(c) \/ Waive(c) \/ CancelSessionBooking(c)
    \/ \E i \in DOMAIN credit : Draw(i) \/ Return(i)

(* The relay delivers an event until it is handled, and a handler goes on  *)
(* until it ends or stops.                                                 *)
Fairness ==
    /\ \A e \in Report : SF_vars(Deliver(e))
    /\ \A k \in Workers : WF_vars(Step(k))

Spec == Init /\ [][Next]_vars /\ Fairness

----------------------------------------------------------------------------
(* Rows, answers and handlers are what the code can write; no credit is     *)
(* drawn below zero (decrementCredit takes only what is left).              *)
TypeOK ==
    /\ kind \in Kinds
    /\ child \in [Children -> Booking]
    /\ credit \in Seq(Credit)
    /\ refund \in Refund
    /\ session \in {"scheduled", "cancelled"}
    /\ started \in BOOLEAN
    /\ told \in Nat
    /\ relay \in [Refs -> {"none", "pending", "succeeded", "failed", "bounced"}]
    /\ reports \subseteq Report
    /\ job \in [Workers -> Job]
    /\ faults \in 0..MaxFaults
    /\ freed \in BOOLEAN /\ twice \subseteq Children

(* "One set of effects": the parent is told of the refund at most once,      *)
(* whichever of the answer, the events and their redeliveries applies it.    *)
ToldOnce == told <= 1

(* "Withdrawn for good": once a refund is applied no booking of the payment  *)
(* stands, and no cancel of a booking that drew on its credits puts anything *)
(* back on them (restoreCredit).                                             *)
RefundedGivesNothing ==
    refund.applied => /\ \A c \in Children : ~Live(c)
                      /\ \A i \in DOMAIN credit : credit[i].left = 0

(* "Held from the moment its refund is asked for": while a refund the coach *)
(* asked for is on its way, every credit of the payment is held, those that  *)
(* come back meanwhile too, and no other booking uses a session it bought    *)
(* (claimRefund, holdCreditForRefund).  The hold is lost in one way only:    *)
(* markFailed, between its two statements, is overtaken by the next claim.   *)
HeldOnItsWay ==
    refund.asked /\ refund.status \in {"requested", "pending"} /\ ~refund.applied /\ ~freed =>
        /\ \A i \in DOMAIN credit : credit[i].held
        /\ UsedElsewhere = 0

(* The bookings end, and the credits go, only when the whole payment went    *)
(* back.  A refund of a part changes nothing (applyRefunded), unless the     *)
(* coach had asked for one before it was recorded: that row it finishes.     *)
AppliedMeansRefunded ==
    refund.applied => \/ \E r \in Refs \ {Part} : relay[r] \in {"succeeded", "bounced"}
                      \/ relay[Part] = "succeeded" /\ refund.asked

(* Sessions that bookings of the payment use, in hand as credit, or used by  *)
(* other bookings never come to more than the payment bought, and one more   *)
(* for each no-show that was given back and then cancelled in time, which    *)
(* can be one of a session that has not started: restoreCredit, waiveBooking *)
(* and cancelScheduledSession give nothing back twice, cancelByParent does.  *)
Bought == IF kind = "pack" THEN PackSessions ELSE Cardinality(Children)

NeverMoreThanBought ==
    Cardinality(Own) + SumFunction([i \in DOMAIN credit |-> credit[i].left + credit[i].drawn])
        <= Bought + Cardinality(twice)

(* A refund that went through is recorded, with crashes, lost answers and    *)
(* events in any order.                                                      *)
RefundIsRecorded == \A r \in Tries \cup {Whole} : (relay[r] = "succeeded") ~> refund.applied
=============================================================================
