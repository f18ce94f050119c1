-------------------------------- MODULE Texts --------------------------------
(* Every text Coachatron sends, and who may be sent one: the send path and   *)
(* its ceilings (src/src/domain/outbound.ts), consent and STOP               *)
(* (sms-consent.ts, routes/webhooks.ts), and the jobs that claim a text      *)
(* before they send it: the tick's reminders (jobs/tick.ts), the one reply a *)
(* day to a number we do not know, and the texts about a coach's payments    *)
(* (payments.ts).                                                            *)
(*                                                                           *)
(* Workers are the tick, which server.ts runs one at a time, and the         *)
(* requests beside it. Only a visitor's place in its budget is taken under a *)
(* lock; every other statement is a step of its own, and the process may     *)
(* stop between any two.                                                     *)
(*                                                                           *)
(* One UTC day: counts never restart, so an hour's limit and a day's are one *)
(* number, and so are a coach's ceiling and the product's, which stays what  *)
(* it is (productDailyCeiling works it out anew from the coaches there are   *)
(* at each text). Times of sessions are left out: a session in Sessions is   *)
(* one whose reminder is due. The coach's account is not a test one. A job   *)
(* that finds quiet hours does nothing, as if it had not started.            *)
EXTENDS Integers, FiniteSets, FiniteSetsExt

CONSTANTS
    Workers,
    Phones, CoachPhone,    \* people texted; one of them is the coach
    Bookings, Sessions,
    PhoneOf,               \* each booking's contact phone
    VisitorLimit,          \* a budget's own limit (visitorTextLimits)
    Reserve,               \* what visitors leave of the product's day
    Ceiling,               \* the product's day
    MaxFailures,           \* REMINDER_MAX_FAILURES
    MaxNudges,             \* REMINDER_AFTER_MS.length
    MaxOps, MaxMoves, MaxStops   \* bounds: handlers, moves, process stops

ASSUME TextsAssumption ==
    /\ CoachPhone \in Phones
    /\ PhoneOf \in [Bookings -> Phones]
    /\ {VisitorLimit, Reserve, Ceiling, MaxFailures, MaxNudges, MaxOps, MaxMoves, MaxStops} \subseteq Nat
    /\ Ceiling > 0 /\ Reserve <= Ceiling
    /\ IsFiniteSet(Phones) /\ IsFiniteSet(Workers)

Budgets == {"visitor", "inbound-reply"}

VARIABLES
    optOut,     \* table opt_out
    consent,    \* table sms_consent: "none", "on", "revoked"
    sent,       \* message_log rows that count, by phone and budget
    failed,     \* message_log rows of reminders that failed, by phone
    place,      \* booking.session_id, 0 when cancelled
    reminder,   \* table reminder_sent
    replied,    \* table inbound_auto_reply
    pay,        \* the coach's row of coach_payments
    job,
    ops, moves, stops,     \* handlers, moves and process stops so far
    told,       \* texts answered "sent": reminders by booking and move, replies by phone, ready, live
    stopped,    \* numbers with a STOP on record, not taken back since
    crossed     \* handlers a STOP came beside while they took one back

tables == <<optOut, consent, sent, failed, place, reminder, replied, pay>>
said   == <<told, stopped, crossed>>
vars   == <<optOut, consent, sent, failed, place, reminder, replied, pay,
            job, ops, moves, stops, told, stopped, crossed>>

Idle == [op |-> "idle", for |-> "none", then |-> "end", to |-> CoachPhone, budget |-> "none",
         b |-> 0, s |-> 0, here |-> 0, n |-> 0, list |-> {}, seen |-> 0, yes |-> FALSE,
         late |-> FALSE, tick |-> FALSE, out |-> "none"]

Go(k, j)    == job' = [job EXCEPT ![k] = j]
Step(k, op) == Go(k, [job[k] EXCEPT !.op = op])
Begin(k, j) == job[k] = Idle /\ ops < MaxOps /\ ops' = ops + 1 /\ Go(k, j)

----------------------------------------------------------------------------
(* Reads. *)

IsOptedOut(p)       == p \in optOut
HasActiveConsent(p) == ~IsOptedOut(p) /\ consent[p] = "on"

(* ONE_TIME_TEMPLATES: a code, and replies to a text they sent. *)
OneTime(for) == for \in {"code", "reply"}

Spent(budget) == SumFunction([p \in Phones |-> sent[p][budget]])
Total         == Spent("visitor") + Spent("inbound-reply") + Spent("none")

TextedBefore(p) == \E budget \in DOMAIN sent[p] : sent[p][budget] > 0

TickFree == \A k \in Workers : ~job[k].tick

----------------------------------------------------------------------------
(* sendText, called with the job's number, budget and purpose.               *)

Sending(k, for, to, budget) ==
    Go(k, [job[k] EXCEPT !.op = "check", !.for = for, !.to = to, !.budget = budget])

(* What the caller does with the outcome is its own next step, where it does *)
(* anything.                                                                 *)
Outcome(k, out) ==
    Go(k, IF job[k].for \in {"notice", "code", "nudge"} THEN Idle
          ELSE [job[k] EXCEPT !.op = "outcome", !.out = out])

RefusedStanding(k) == ~OneTime(job[k].for) /\ ~HasActiveConsent(job[k].to)

(* An opt-out stops every text; a standing text also needs consent.          *)
Refused(k) == IsOptedOut(job[k].to) \/ RefusedStanding(k)

CeilingHit == Total >= Ceiling

(* A form's text to a number texted before counts against no budget. *)
BudgetOf(p, budget) ==
    CASE budget # "new-number" -> budget
      [] budget = "new-number" /\ TextedBefore(p) -> "none"
      [] OTHER                 -> "visitor"

(* The opt-out, the consent, the ceilings, and which budget counts it. *)
Check(k) ==
    /\ job[k].op = "check"
    /\ LET p == job[k].to  counted == BudgetOf(p, job[k].budget) IN
           \/ Refused(k) /\ Outcome(k, "refused")
           \/ /\ ~Refused(k)
              /\ IF CeilingHit THEN Outcome(k, "capped")
                 ELSE Go(k, [job[k] EXCEPT !.budget = counted, !.late = p \in stopped,
                                           !.op = IF counted = "none" THEN "relay" ELSE "reserve"])
    /\ UNCHANGED <<tables, said, ops, moves, stops>>

BudgetSpentSent(budget) ==
    \/ Spent(budget) - Cardinality({k \in Workers : job[k].op = "relay" /\ job[k].budget = budget}) >= VisitorLimit
    \/ Total + Reserve >= Ceiling

(* budgetCeilingHit. *)
BudgetSpent(budget) == Spent(budget) >= VisitorLimit \/ Total + Reserve >= Ceiling

Counted(p, budget, by) == [sent EXCEPT ![p][budget] = @ + by]

(* reserveBudgetedText: under VISITOR_TEXT_LOCK the budget is read and the   *)
(* text's row is written, before it goes.                                    *)
ReserveText(k) ==
    /\ job[k].op = "reserve"
    /\ \/ BudgetSpent(job[k].budget) /\ Outcome(k, "busy") /\ UNCHANGED sent
       \/ /\ ~BudgetSpent(job[k].budget)
          /\ sent' = Counted(job[k].to, job[k].budget, 1)
          /\ Step(k, "relay")
    /\ UNCHANGED <<optOut, consent, failed, place, reminder, replied, pay, said, ops, moves, stops>>

(* The relay's answer. A "failed" may be a text that went out.               *)
Relay(k, out) ==
    /\ job[k].op = "relay"
    /\ Go(k, [job[k] EXCEPT !.op = IF out = "stopped" THEN "stop" ELSE "record", !.out = out])
    /\ told' = IF out # "sent" THEN told
               ELSE CASE job[k].for = "reminder" -> [told EXCEPT !.reminders[job[k].b][job[k].n] = @ + 1]
                      [] job[k].for = "reply"    -> [told EXCEPT !.replies[job[k].to] = @ + 1]
                      [] job[k].for \in {"ready", "live"} -> [told EXCEPT ![job[k].for] = @ + 1]
                      [] OTHER -> told
    /\ UNCHANGED <<tables, stopped, crossed, ops, moves, stops>>

ReservedAny(k) == TRUE

Reserved(k) == job[k].budget # "none"

(* record: on the reserved row, or on a row of its own; code 21610 has       *)
(* revoked the number's consent before.                                      *)
Record(k) ==
    /\ job[k].op = "record"
    /\ LET p == job[k].to  ok == job[k].out = "sent"  reserved == Reserved(k) IN
       /\ sent' = IF ok /\ ~reserved THEN Counted(p, "none", 1)
                  ELSE IF ~ok /\ reserved THEN Counted(p, job[k].budget, -1) ELSE sent
       /\ failed' = IF job[k].for = "reminder" /\ job[k].out \in {"failed", "busy"}
                    THEN [failed EXCEPT ![p] = @ + 1] ELSE failed
    /\ Outcome(k, IF job[k].out = "stopped" THEN "refused" ELSE job[k].out)
    /\ UNCHANGED <<optOut, consent, place, reminder, replied, pay, said, ops, moves, stops>>

----------------------------------------------------------------------------
(* Consent and STOP. *)

(* At work to delete k's number from opt_out. *)
Lifting(k) == job[k].op \in {"unstop", "upsert", "lift"}

(* A handler lifts the STOPs its number had when it began, and those that    *)
(* came beside it.                                                           *)
LiftedBy(k) == /\ stopped' = IF k \in crossed THEN stopped \ {job[k].to} ELSE stopped
               /\ crossed' = crossed \ {k}

(* A STOP by text, or the status callback's code 21610: revokeConsent's two  *)
(* statements.                                                               *)
Stop(k, p) ==
    /\ Begin(k, [Idle EXCEPT !.op = "stop", !.to = p])
    /\ UNCHANGED <<tables, said, moves, stops>>

UpsertOptOut(k) ==
    /\ job[k].op = "stop"
    /\ optOut' = optOut \cup {job[k].to}
    /\ stopped' = stopped \cup {job[k].to}
    /\ crossed' = crossed \cup {l \in Workers : Lifting(l) /\ job[l].to = job[k].to}
    /\ Step(k, "revoke")
    /\ UNCHANGED <<consent, sent, failed, place, reminder, replied, pay, told, ops, moves, stops>>

RevokeConsent(k) ==
    /\ job[k].op = "revoke"
    /\ consent' = [consent EXCEPT ![job[k].to] = IF @ = "on" THEN "revoked" ELSE @]
    /\ IF job[k].out = "stopped" THEN Step(k, "record") ELSE Go(k, Idle)
    /\ UNCHANGED <<optOut, sent, failed, place, reminder, replied, pay, said, ops, moves, stops>>

(* START: clearRevocation's two statements. *)
Start(k, p) ==
    /\ Begin(k, [Idle EXCEPT !.op = "unstop", !.to = p])
    /\ stopped' = stopped \ {p}
    /\ crossed' = crossed \ {k}
    /\ UNCHANGED <<tables, told, moves, stops>>

DeleteOptOut(k) ==
    /\ job[k].op = "unstop"
    /\ optOut' = optOut \ {job[k].to}
    /\ LiftedBy(k)
    /\ Step(k, "unrevoke")
    /\ UNCHANGED <<consent, sent, failed, place, reminder, replied, pay, told, ops, moves, stops>>

ClearRevoked(k) ==
    /\ job[k].op = "unrevoke"
    /\ consent' = [consent EXCEPT ![job[k].to] = IF @ = "revoked" THEN "on" ELSE @]
    /\ Go(k, Idle)
    /\ UNCHANGED <<optOut, sent, failed, place, reminder, replied, pay, said, ops, moves, stops>>

(* Broken on purpose: a code's box is taken without the look. *)
NoStopLookedFor(p) == TRUE

(* recordCodeConsent looks once, before it begins. *)
NoStopOnRecord(p) == ~IsOptedOut(p)

(* The texts box of someone who proved the number: a code texted to it, a    *)
(* YES from it, or the coach's own number. A code's box is passed over if a  *)
(* STOP is on record.                                                        *)
VerifiedConsent(k, p, code) ==
    /\ Begin(k, [Idle EXCEPT !.op = "upsert", !.to = p, !.yes = code])
    /\ code => NoStopOnRecord(p)
    /\ stopped' = IF code THEN stopped ELSE stopped \ {p}
    /\ crossed' = crossed \ {k}
    /\ UNCHANGED <<tables, told, moves, stops>>

UpsertConsent(k) ==
    /\ job[k].op = "upsert"
    /\ consent' = [consent EXCEPT ![job[k].to] = "on"]
    /\ Step(k, "lift")
    /\ UNCHANGED <<optOut, sent, failed, place, reminder, replied, pay, said, ops, moves, stops>>

LiftOptOut(k) ==
    /\ job[k].op = "lift"
    /\ optOut' = optOut \ {job[k].to}
    /\ LiftedBy(k)
    /\ Go(k, Idle)
    /\ UNCHANGED <<consent, sent, failed, place, reminder, replied, pay, told, ops, moves, stops>>

(* recordConsent for a number not proved: a consent on record, or revoked,   *)
(* stays as it is.                                                           *)
FormConsentOf(p) == IF consent[p] = "none" THEN "on" ELSE consent[p]

(* A box ticked on a form anyone can fill in (/sms, a booking); then the     *)
(* form's text goes.                                                         *)
FormConsent(k, p, always) ==
    /\ Begin(k, [Idle EXCEPT !.op = "form", !.to = p, !.budget = IF always THEN "visitor" ELSE "new-number"])
    /\ always => ~IsOptedOut(p)
    /\ UNCHANGED <<tables, said, moves, stops>>

InsertConsent(k) ==
    /\ job[k].op = "form"
    /\ LET p == job[k].to IN
       /\ consent' = [consent EXCEPT ![p] = FormConsentOf(p)]
       /\ Sending(k, "notice", p, job[k].budget)
    /\ UNCHANGED <<optOut, sent, failed, place, reminder, replied, pay, said, ops, moves, stops>>

(* A sign-in code, asked for from a form. *)
AskForCode(k, p) ==
    /\ Begin(k, [Idle EXCEPT !.op = "check", !.for = "code", !.to = p, !.budget = "visitor"])
    /\ UNCHANGED <<tables, said, moves, stops>>

----------------------------------------------------------------------------
(* Reminders: the tick reads who is due, then claims and texts one by one.   *)

Due(b) == place[b] # 0 /\ b \notin reminder /\ failed[PhoneOf[b]] < MaxFailures

SendDueReminders(k) ==
    /\ TickFree
    /\ Begin(k, [Idle EXCEPT !.op = "next", !.tick = TRUE,
                             !.list = {<<b, place[b]>> : b \in {c \in Bookings : Due(c)}}])
    /\ UNCHANGED <<tables, said, moves, stops>>

ClaimableAnywhere(b, s) == place[b] # 0 /\ b \notin reminder

(* Claimed only while the booking is booked in the session that was read.    *)
Claimable(b, s) == place[b] = s /\ b \notin reminder

ClaimReminder(k) ==
    /\ job[k].op = "next"
    /\ \/ /\ job[k].list = {} /\ Go(k, Idle)
          /\ UNCHANGED reminder
       \/ \E row \in job[k].list :
             LET b == row[1]  rest == job[k].list \ {row} IN
             \/ /\ Claimable(b, row[2])
                /\ reminder' = reminder \cup {b}
                /\ Go(k, [job[k] EXCEPT !.op = "check", !.for = "reminder", !.to = PhoneOf[b],
                                        !.budget = "none", !.b = b, !.s = row[2],
                                        !.here = place[b], !.n = moves[b], !.list = rest])
             \/ /\ ~Claimable(b, row[2])
                /\ Go(k, [job[k] EXCEPT !.list = rest])
                /\ UNCHANGED reminder
    /\ UNCHANGED <<optOut, consent, sent, failed, place, replied, pay, said, ops, moves, stops>>

Reminded(k) ==
    /\ job[k].op = "outcome" /\ job[k].for = "reminder"
    /\ reminder' = IF job[k].out \in {"failed", "busy"} THEN reminder \ {job[k].b} ELSE reminder
    /\ Go(k, [Idle EXCEPT !.op = "next", !.list = job[k].list, !.tick = TRUE])
    /\ UNCHANGED <<optOut, consent, sent, failed, place, replied, pay, said, ops, moves, stops>>

(* moveBooking: the booking and its reminder, in one transaction.            *)
MoveBooking(b, s) ==
    /\ place[b] \notin {0, s} /\ moves[b] < MaxMoves
    /\ place' = [place EXCEPT ![b] = s]
    /\ reminder' = reminder \ {b}
    /\ moves' = [moves EXCEPT ![b] = @ + 1]
    /\ UNCHANGED <<optOut, consent, sent, failed, replied, pay, job, said, ops, stops>>

CancelBooking(b) ==
    /\ place[b] # 0 /\ ops < MaxOps /\ ops' = ops + 1
    /\ place' = [place EXCEPT ![b] = 0]
    /\ UNCHANGED <<optOut, consent, sent, failed, reminder, replied, pay, job, said, moves, stops>>

----------------------------------------------------------------------------
(* The one reply a day: a start link to a number we do not know, or a word   *)
(* to a roster member or a parent (replyOnce).                               *)

InboundReply(k, p, link) ==
    /\ p \notin replied
    /\ Begin(k, [Idle EXCEPT !.op = "slot", !.to = p, !.yes = link])
    /\ UNCHANGED <<tables, said, moves, stops>>

(* takeDailyReplySlot: looked for, then inserted; the primary key turns a    *)
(* second one away, and the handler fails.                                   *)
TakeReplySlot(k) ==
    /\ job[k].op = "slot"
    /\ LET p == job[k].to IN
       IF p \in replied THEN Go(k, Idle)
       ELSE Sending(k, "reply", p, IF job[k].yes THEN "inbound-reply" ELSE "none")
    /\ replied' = replied \cup {job[k].to}
    /\ UNCHANGED <<optOut, consent, sent, failed, place, reminder, pay, said, ops, moves, stops>>

(* A start link that did not go gives the day's reply back.                  *)
Replied(k) ==
    /\ job[k].op = "outcome" /\ job[k].for = "reply"
    /\ replied' = IF job[k].yes /\ job[k].out \in {"busy", "capped", "failed"}
                  THEN replied \ {job[k].to} ELSE replied
    /\ Go(k, Idle)
    /\ UNCHANGED <<optOut, consent, sent, failed, place, reminder, pay, said, ops, moves, stops>>

----------------------------------------------------------------------------
(* A coach's payments: what the relay says of them, and the texts it brings. *)

CoachTextable == HasActiveConsent(CoachPhone)
Unpaid == <<optOut, consent, sent, failed, place, reminder, replied, said, ops, moves, stops>>

(* seller.updated and seller.disconnected. *)
SellerEvent(k, enabled) ==
    /\ Begin(k, [Idle EXCEPT !.op = "charges", !.yes = enabled])
    /\ UNCHANGED <<tables, said, moves, stops>>

PollPaymentAccounts(k) ==
    /\ TickFree /\ pay.charges # "yes"
    /\ Begin(k, [Idle EXCEPT !.op = "ask", !.tick = TRUE])
    /\ UNCHANGED <<tables, said, moves, stops>>

(* notePublished: the first publish is remembered, then the relay is asked.  *)
NotePublished(k) ==
    /\ Begin(k, [Idle EXCEPT !.op = "ask", !.then = "live"])
    /\ pay' = [pay EXCEPT !.published = TRUE]
    /\ UNCHANGED <<optOut, consent, sent, failed, place, reminder, replied, said, moves, stops>>

(* sendPaymentReminders: a day and three days after publishing, the times    *)
(* left out.                                                                 *)
SendPaymentReminders(k) ==
    /\ TickFree /\ CoachTextable
    /\ pay.published /\ pay.charges = "no" /\ pay.nudges < MaxNudges
    /\ Begin(k, [Idle EXCEPT !.op = "ask", !.then = "nudge", !.seen = pay.nudges, !.tick = TRUE])
    /\ UNCHANGED <<tables, said, moves, stops>>

(* refreshPaymentsStatus: the relay says yes or no, or does not answer.      *)
AskRelay(k, answer) ==
    /\ job[k].op = "ask"
    /\ Go(k, CASE answer # "none" -> [job[k] EXCEPT !.op = "charges", !.yes = (answer = "yes")]
               [] answer = "none" /\ job[k].then = "live" -> [job[k] EXCEPT !.op = "live"]
               [] OTHER -> Idle)
    /\ UNCHANGED <<tables, said, ops, moves, stops>>

(* recordChargesEnabled: the change owes one ready text, claimed before the  *)
(* new value is saved.                                                       *)
ReadyOwed == pay.charges = "no" /\ ~pay.due /\ ~pay.texted

ClaimTurnedOn(k) ==
    /\ job[k].op = "charges"
    /\ LET on == job[k].yes /\ ReadyOwed IN
       /\ pay' = IF on THEN [pay EXCEPT !.due = TRUE] ELSE pay
       /\ Go(k, [job[k] EXCEPT !.op = "save", !.late = on])
    /\ UNCHANGED Unpaid

SaveCharges(k) ==
    /\ job[k].op = "save"
    /\ pay' = [pay EXCEPT !.charges = IF job[k].yes THEN "yes" ELSE "no"]
    /\ Go(k, [job[k] EXCEPT !.op = IF job[k].late THEN "ready" ELSE "resume",
                            !.yes = FALSE, !.late = FALSE])
    /\ UNCHANGED Unpaid

(* sendDueReadyTexts: a ready text that waited for the morning.              *)
SendDueReadyTexts(k) ==
    /\ TickFree /\ pay.charges = "yes" /\ pay.due /\ ~pay.texted
    /\ Begin(k, [Idle EXCEPT !.op = "ready", !.tick = TRUE])
    /\ UNCHANGED <<tables, said, moves, stops>>

(* sendReadyTextIfDue: a coach who cannot be texted is not owed it any more; *)
(* at night it waits.                                                        *)
Ready(k) ==
    /\ job[k].op = "ready"
    /\ \/ /\ ~CoachTextable
          /\ pay' = [pay EXCEPT !.due = @ /\ pay.texted]
          /\ Step(k, "resume")
       \/ CoachTextable /\ UNCHANGED pay /\ Step(k, "resume")
       \/ CoachTextable /\ UNCHANGED pay /\ Step(k, "takeReady")
    /\ UNCHANGED Unpaid

ReadyUnsent == pay.charges = "yes" /\ pay.due /\ ~pay.texted

TakeReady(k) ==
    /\ job[k].op = "takeReady"
    /\ IF ReadyUnsent
       THEN pay' = [pay EXCEPT !.texted = TRUE] /\ Sending(k, "ready", CoachPhone, "none")
       ELSE UNCHANGED pay /\ Step(k, "resume")
    /\ UNCHANGED Unpaid

ReadyTexted(k) ==
    /\ job[k].op = "outcome" /\ job[k].for = "ready"
    /\ Step(k, "resume")
    /\ UNCHANGED <<tables, said, ops, moves, stops>>

(* What asked for the status goes on with the row as it is now.              *)
Resume(k) ==
    /\ job[k].op = "resume"
    /\ LET j == [Idle EXCEPT !.then = job[k].then, !.seen = job[k].seen, !.tick = job[k].tick] IN
       Go(k, CASE job[k].then = "live" -> [j EXCEPT !.op = "live"]
               [] job[k].then = "nudge" /\ pay.charges = "no" -> [j EXCEPT !.op = "nudge"]
               [] OTHER -> Idle)
    /\ UNCHANGED <<tables, said, ops, moves, stops>>

(* The rest of notePublished: one text that the coach is live; one that did  *)
(* not go is owed again at the next publish.                                 *)
TakeLive(k) ==
    /\ job[k].op = "live"
    /\ IF CoachTextable /\ ~pay.live
       THEN pay' = [pay EXCEPT !.live = TRUE] /\ Sending(k, "live", CoachPhone, "none")
       ELSE UNCHANGED pay /\ Go(k, Idle)
    /\ UNCHANGED Unpaid

LiveTexted(k) ==
    /\ job[k].op = "outcome" /\ job[k].for = "live"
    /\ pay' = IF job[k].out = "sent" THEN pay ELSE [pay EXCEPT !.live = FALSE]
    /\ Go(k, Idle)
    /\ UNCHANGED Unpaid

TakeNudge(k) ==
    /\ job[k].op = "nudge"
    /\ IF pay.nudges = job[k].seen
       THEN pay' = [pay EXCEPT !.nudges = @ + 1] /\ Sending(k, "nudge", CoachPhone, "none")
       ELSE UNCHANGED pay /\ Go(k, Idle)
    /\ UNCHANGED Unpaid

----------------------------------------------------------------------------
(* The process stops: every handler ends where it is. Bound: MaxStops. *)
ProcessStops ==
    /\ stops < MaxStops /\ \E k \in Workers : job[k] # Idle
    /\ stops' = stops + 1
    /\ job' = [k \in Workers |-> Idle]
    /\ UNCHANGED <<tables, said, ops, moves>>

(* The day has begun: nothing was sent yet, or all but the ceiling's last    *)
(* text. The coach is new, or went live unpaid with texts not wanted then;   *)
(* who was texted so often had asked for texts.                              *)
Init ==
    /\ optOut = {} /\ consent \in [Phones -> {"none", "on"}]
    /\ failed = [p \in Phones |-> 0]
    /\ place \in [Bookings -> Sessions]
    /\ reminder = {} /\ replied = {}
    /\ \E new \in BOOLEAN, already \in {0, Ceiling - 1} :
          /\ new \/ consent[CoachPhone] = "none"
          /\ already # 0 => consent[CoachPhone] = "on"
          /\ pay = [charges |-> IF new THEN "unknown" ELSE "no", due |-> FALSE, texted |-> FALSE,
                    published |-> ~new, live |-> FALSE, nudges |-> 0]
          /\ sent = [p \in Phones |-> [budget \in Budgets \cup {"none"} |->
                                          IF p = CoachPhone /\ budget = "none" THEN already ELSE 0]]
    /\ job = [k \in Workers |-> Idle]
    /\ ops = 0 /\ moves = [b \in Bookings |-> 0] /\ stops = 0
    /\ told = [reminders |-> [b \in Bookings |-> [n \in 0 .. MaxMoves |-> 0]],
               replies |-> [p \in Phones |-> 0], ready |-> 0, live |-> 0]
    /\ stopped = {} /\ crossed = {}

SendSteps(k) ==
    \/ Check(k) \/ ReserveText(k) \/ Record(k)
    \/ \E out \in {"sent", "busy", "failed", "stopped"} : Relay(k, out)

ConsentSteps(k) ==
    \/ UpsertOptOut(k) \/ RevokeConsent(k) \/ DeleteOptOut(k) \/ ClearRevoked(k)
    \/ UpsertConsent(k) \/ LiftOptOut(k) \/ InsertConsent(k)
    \/ \E p \in Phones :
          \/ Stop(k, p) \/ Start(k, p) \/ AskForCode(k, p)
          \/ \E yes \in BOOLEAN : VerifiedConsent(k, p, yes) \/ FormConsent(k, p, yes) \/ InboundReply(k, p, yes)

JobSteps(k) ==
    \/ SendDueReminders(k) \/ ClaimReminder(k) \/ Reminded(k)
    \/ TakeReplySlot(k) \/ Replied(k)
    \/ PollPaymentAccounts(k) \/ NotePublished(k) \/ SendPaymentReminders(k) \/ SendDueReadyTexts(k)
    \/ \E enabled \in BOOLEAN : SellerEvent(k, enabled)
    \/ \E answer \in {"none", "no", "yes"} : AskRelay(k, answer)
    \/ ClaimTurnedOn(k) \/ SaveCharges(k) \/ Ready(k) \/ TakeReady(k) \/ ReadyTexted(k)
    \/ Resume(k) \/ TakeLive(k) \/ LiveTexted(k) \/ TakeNudge(k)

Next ==
    \/ \E k \in Workers : SendSteps(k) \/ ConsentSteps(k) \/ JobSteps(k)
    \/ \E b \in Bookings : CancelBooking(b) \/ \E s \in Sessions : MoveBooking(b, s)
    \/ ProcessStops

Spec == Init /\ [][Next]_vars

----------------------------------------------------------------------------
(* What each table may hold.                                                 *)
TypeOK ==
    /\ optOut \subseteq Phones /\ stopped \subseteq Phones /\ replied \subseteq Phones
    /\ consent \in [Phones -> {"none", "on", "revoked"}]
    /\ sent \in [Phones -> [Budgets \cup {"none"} -> Nat]]
    /\ failed \in [Phones -> Nat]
    /\ place \in [Bookings -> Sessions \cup {0}] /\ reminder \subseteq Bookings
    /\ pay \in [charges : {"unknown", "no", "yes"}, due : BOOLEAN, texted : BOOLEAN,
                published : BOOLEAN, live : BOOLEAN, nudges : 0 .. MaxNudges]

(* Texts set off by people who are not signed in stay within their budget,   *)
(* and leave the reserve for everyone else's, however many are asked for at  *)
(* once and wherever the process stops: a text takes its place before it     *)
(* goes (reserveBudgetedText, outbound.ts). Every other text is checked and  *)
(* written down apart, so the product's ceiling is passed by fewer texts     *)
(* than there are requests at work.                                          *)
CeilingsKept ==
    /\ \A budget \in Budgets : Spent(budget) \in 0 .. VisitorLimit
    /\ Spent("visitor") + Spent("inbound-reply") <= Ceiling - Reserve
    /\ Total <= Ceiling + Cardinality(Workers) - 1

(* From the statement that records a STOP on, also one that was already      *)
(* being handled when it came, its number has no standing consent and no     *)
(* text to it passes its checks, until its owner takes the STOP back: by a   *)
(* START or a proof of the number begun after it. No form, callback, tick or *)
(* text in hand lifts it (sms-consent.ts: "a number that opted out opts back *)
(* in by texting START"). Only a START, proof or code already at work on the *)
(* number when the STOP was recorded can delete that STOP with the older     *)
(* ones (crossed); a code begun after it cannot.                             *)
StopHolds ==
    /\ \A p \in stopped : ~HasActiveConsent(p)
    /\ \A k \in Workers : job[k].op \in {"reserve", "relay"} => ~job[k].late

(* Each notice goes once. A booking gets one reminder for the time it was    *)
(* booked at and one more after each move, never for a session it had left   *)
(* when the tick claimed it (jobs/tick.ts: "so the text names the right      *)
(* time"); a number gets one reply a day (webhooks.ts); a coach hears once   *)
(* that payments are ready and once that they are live (payments.ts). A text *)
(* the relay failed is given back and may go again.                          *)
SaidOnce ==
    /\ \A b \in Bookings, n \in 0 .. MaxMoves : told.reminders[b][n] <= 1
    /\ \A k \in Workers : job[k].for = "reminder" => job[k].s = job[k].here
    /\ \A p \in Phones : told.replies[p] <= 1
    /\ told.ready <= 1 /\ told.live <= 1
=============================================================================
