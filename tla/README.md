# Coachatron in TLA+

Coachatron takes bookings and payments for independent coaches: a parent picks
a session, holds its spots while paying, and is booked by a payment event from
the store relay. A coach runs it from a schedule page and by text. Everything
shared lives in Postgres; request handlers, the relay's webhooks and the
once-a-minute tick act on the same rows, each in transactions or single
statements of its own, with texts, emails, model and relay calls in between.
This directory models the parts where that is hard to get right, checks them
with TLC on small instances, and proves the most important facts with TLAPS for
every instance.

| file | what it is |
|---|---|
| `SpotHolds.tla` | the spots of sessions: holds, bookings, waitlist, second groups, moves, cancels |
| `MCSpotHolds.tla`, `spots_*.cfg` | its small instances |
| `SpotHolds_proofs.tla` | theorems about it |
| `PaymentOnce.tla` | what the app promises of a booking's payments (abstract) |
| `PaidEvents.tla` | the store webhook's handling of a paid event, credits and cancels around it |
| `MCPaidEvents.tla`, `paid_*.cfg` | its small instances |
| `PaidEvents_proofs.tla` | theorems about it, the refinement of `PaymentOnce` among them |
| `Refunds.tla` | the refund of one payment: the coach's tries, the relay, its events, the credits it holds |
| `MCRefunds.tla`, `refunds*.cfg` | its small instances |
| `Refunds_proofs.tla` | theorems about it |
| `OverflowCascade.tla` | a full session's question to its coach, and the offers to the roster, under three row locks |
| `MCOverflow.tla`, `overflow*.cfg` | its small instances |
| `OverflowCascade_proofs.tla` | theorems about it |
| `SignIn.tla` | codes, links, accounts and the contacts they prove |
| `MCSignIn.tla`, `sign_in.cfg` | its small instance |
| `SignIn_proofs.tla` | theorems about it |
| `CoachWeek.tla` | a coach's calendar and all that writes it: assistant, setup by text, weekly times, the tick |
| `MCCoachWeek.tla`, `coach_week.cfg` | its small instance |
| `CoachWeek_proofs.tla` | theorems about it |
| `Texts.tla` | every text: ceilings, STOP and consent, reminders, the daily reply, the payments texts |
| `MCTexts.tla`, `texts.cfg` | its small instance |
| `Texts_proofs.tla` | theorems about it |
| `SumLemmas.tla` | facts about sums over finite sets, for the proofs that count |
| `PROJECT.json` | components, runs, mutants, the map from definitions to source lines, hazards, theorems |

Paths below are relative to the application, `src/` meaning its `src/`
directory (`src/src/` in `PROJECT.json`).

## 1. Inventory

For each component: its state, its operations, who it talks to, what is hard
about it, and what makes it correct.

**Spots and holds** (`domain/pricing.ts`, checkout in `routes/public.ts`).
State: `session` (status, capacity override, `overflow_of`), `booking` (status,
pass, hold). Operations: `createPendingBooking`, `renewHold`,
`bookPendingBooking`, `creditCancelledBooking`. Called by checkout, by paid
events, by the waitlist. Hard: several handlers race for the last spot; holds
run out while a payment is being made; `now()` is fixed at BEGIN while the lock
is granted later; the children of one pass must stay together. Correct when no
session is overbooked, nobody goes past the line, a pass stays whole.

**Waitlist** (`domain/waitlist.ts`). State: `waitlist` (state, offer, retry).
Operations: join, `holdSpotsForWaitlist`, `sendHeldSpots`, `moveWaitlists` in
the tick. Hard: hold, send and the note of the send are three steps with a
crash or a lost answer in between; `for update skip locked` when a session and
its second group share one line. Correct when spots go in order, nobody loses a
place without having been told, a bought child leaves the line, and the line
never stalls for good.

**Moves, cancels, capacity edits** (`domain/moveBooking.ts`, `policy.ts`,
`cancelSession.ts`, `routes/coach.ts`). State: the same rows, `late_cancel`,
`waived_at`, `cancel_notice`. Hard: a coach's cancel is a close followed by one
transaction per booking, with bookings and moves under way. Correct when a
closed session takes nobody, a payment's bookings stay in one session, and what
is given back is given back once.

**Overflow: second groups and backup coaches** (`domain/cascade.ts`). State:
`overflow_ask`, `overflow_offer`. Operations: ask the coach, offer to roster
members in turn, accept, decline, expire, withdraw. Hard: two members accept,
the tick expires, the coach cancels and answers again, all over three row locks
and statements in between. Correct when a job is taken once, one offer is out at
a time, a question is asked once and its no kept, handlers never wait for each
other in a ring, and every ask ends.

**Paid events** (`routes/store-webhook.ts`, `domain/paymentAttention.ts`).
State: `store_event` (claim, processed), `payment_attention`. Operations: claim,
take over a stale claim, handle, finish, release. Hard: deliveries repeat,
claims outlive and are outlived by their handlers, a handler stops between two
of its transactions, two payments come for one booking. Correct when a booking
takes one payment, its purchase is granted once, its parent is told once, and
no payment disappears.

**Credits** (`domain/pricing.ts`, `policy.ts`). State: `credit` (remaining,
expiry, hold for a refund). Operations: grant, take one by one, put back, give
back at a cancel, waive. Hard: taken and restored in autocommit statements,
given back by three different functions. Correct when no session is made out of
nothing and none is given back twice.

**Refunds** (`domain/refunds.ts`, `relay/seller.ts`). State: `refund` (status,
attempt, claim, ref), the credits it holds. Operations: check, claim, call the
relay, apply its answer and its later events, record disputes. Hard: an
unanswered call is retried under the same key; an old attempt's failure comes
after a new attempt's start; `markFailed` is two statements. Correct when a
payment is refunded once and a credit is never both usable and refunded.

**Reminders and the tick** (`jobs/tick.ts`, `server.ts`). State:
`reminder_sent`. One tick at a time calls the waitlist, the cascades, the
weekly slots, the payments texts and the reminders. Hard: a reminder is claimed
before its send, the booking moves or is cancelled between the read and the
claim, the process stops after the claim. Correct when a parent is reminded at
most once for a time, and of the right time.

**Outbound ceilings** (`domain/outbound.ts`). State: `message_log`. Hard:
strangers' texts take their place under a lock, all others count, then send,
then write. Correct when what strangers set off stays within its budget and
leaves the reserve, however many ask at once, and the rest pass the ceiling by
no more than the requests at work.

**Sign-in codes and request limits** (`domain/auth.ts`, `startLink.ts`,
`requestLimits.ts`). State: `otp_code`, `start_link`, `coach`, `coach_session`.
Hard: tries at the same moment, a new code while an old one is tried, two
accounts after one email or phone. Correct when the tries of a code are bounded,
a code or link is used once, a session opens only the account whose own contact
was proved, and no account loses its last way in.

**Texting assistant** (`domain/assistant.ts`, `assistantPending.ts`,
`modelBudget.ts`, `routes/webhooks.ts`). State: `assistant_pending`,
`assistant_last_reply`, `assistant_model_call`. Hard: a text and a tap answer
one question, a page shows an old one, a question of another kind takes its
place. Correct when a yes runs a question once and only while it stands.

**Setup by text, start links** (`domain/setup.ts`, `startLink.ts`). State:
`setup_draft`. Hard: Publish tapped twice, a message that changes the draft
while it is published. Correct when a draft's weekly times come once.

**Weekly scheduling** (`domain/scheduling.ts`). State: `weekly_slot`, the
sessions it makes. Hard: the tick, Publish and a saved weekly time fill the same
day at once, while sessions are moved and cancelled. Correct when a weekly time
puts one session on a day and does not bring back one that was cancelled.

**SMS consent and opt-out** (`domain/sms-consent.ts`, `routes/webhooks.ts`).
State: `opt_out`, `sms_consent`. Hard: STOP and START are two statements each,
and forms, callbacks and ticks are under way meanwhile. Correct when nothing
goes to a number after its STOP until it asks again.

**Payment readiness** (`domain/payments.ts`, seller events). State:
`coach_payments`. Hard: event and poll record one change at once; each text
after it must go once. **Money** (`domain/money.ts`), **pages and routing**,
**relay clients**, **model calls**, **store client**: reads, rendering or I/O.

They interact through the tables. Checkout, paid events, the waitlist and the
coach meet at the session's row lock; paid events, cancels and refunds meet at
a booking's row lock and at `credit`; an accepted backup offer adds a second
group to a session (`AcceptOffer` in `OverflowCascade`, `Accept` in
`SpotHolds`); the assistant's question and the overflow question give way to
each other (`AskOverflow` in `CoachWeek`); a move takes a booking's reminder
back (`MoveBooking` in `Texts`); every send passes `sendText`.

`PROJECT.json` lists the hazards of this code, each at its line, with the
properties that cover it or the reason none does.

## 2. SpotHolds

**State.** `session[s]`, `booking[b]`, `wait[w]` are the rows of the three
tables, reduced to the columns that decide anything; ids are given in order
(`serial`). `clock` is the database's time. `job[k]` is what worker k (a
request, a webhook, a tick) is in the middle of.

**Actions.** A transaction that counts spots is two actions: `Begin…` is the
caller's read of the capacity and the BEGIN that fixes `now()`; the action named
for the function (`Create`, `Renew`, `Book`, `Credit`, `Offer`, `Accept`,
`Move`) is everything from the grant of the session's lock to the commit.
`Deliver`, `AnsweredSent`, `LetSpotGo`, `AnsweredUnreachable`, `AnsweredLater`
are `sendHeldSpots` message by message; `SettleBooked` and `SettleLapsed` the
tick's `moveWaitlists`; `CloseSession`, `ListBookings`, `CancelBooking` the
coach's cancel; `BeginEdit` and `Edit` the capacity edit, which takes no lock.
`Crash` ends any handler where it is.

**Abstractions.** One session type of one coach. `LockWait` bounds how much
time may pass while a transaction waits for a lock. The wait before a failed
offer is retried is a constant, not doubled. A session's start, quiet hours,
prices and tokens are left out. The line of a session and its second group is
taken as a whole: what `skip locked` does when both offer at once is left to a
later module. `Tick` waits while a worker is between sending and noting an
offer, so a hold does not run out in the middle of its own send.

**Runs.** Ids are bounded, so the system really does come to an end
(`CHECK_DEADLOCK FALSE`), and there is no fairness: these are safety runs.
Workers are symmetric.

| run | instance | shows |
|---|---|---|
| `spots_checkout` | one session, 2 booking ids, one place in line, capacity edits to one and two, two workers at checkout or editing | `NoOverbooking`, `FirstClaim` |
| `spots_coach` | two sessions, passes of two, moves, cancels, capacity edits, paid events, two workers | `PassWhole`, `PaidInOneSession`, `ClosedStaysClosed`, `CancelsOnlyItsSession` |
| `spots_line` | a session and a second group, offers with lost answers and an unreachable parent, two workers | `NoOverbooking` |

Each run follows the handlers its `CONSTRAINT` names; between them they
follow all of them. Two workers are enough for two transactions to interleave,
and two bookings for a capacity of one are the contended case: every count is
compared with it. The clock takes two values, one hold's length: a hold that ran
out and one that did not exist together. In every run `LockWait` is that length
too, so a transaction may begin before a hold's end and get its lock after it.

`NoOverbooking` and `FirstClaim` are about steps, and name the steps the code
gets wrong: `RanOut` (a renewal or sale whose holds ended while it waited for the
lock), `OldCapacity` (one sent off with a capacity that was lowered since), and,
for the first, `Lowers` (the capacity edit itself, checked and written apart).
All three happen in `spots_checkout`; with any of them taken out of
`NoOverbooking` TLC overbooks the session there. Whatever else waits, and
whatever else is edited, stays within the capacity.

**What is proved** (`SpotHolds_proofs`), for every number of sessions, ids,
children, workers and every hold time:

- `Typing`: `Spec => []TypeOK`. It needs `RowsFilled`, because some actions
  write what they read from rows that must exist.
- `PassesWhole`: `Spec => []PassWhole`. `PassWhole` alone is not inductive: a
  new id could join an old pass, and a spot held for the line could join a pass
  of two. `Shape` adds `IdsInOrder` and `OffersAlone`.
- `NeverOverbooked`: `Spec => NoOverbooking`, with any `LockWait` and any capacity
  edits. `SpotInv` says that the time of a BEGIN is no later than now (`InTime`):
  what takes a spot now took one then (`TakenSince`), so a count made at an old
  `now()` misses nothing, and a step that takes a spot leaves the session within
  the capacity it was given (`WithinRoom`), unless it counted on holds of its own
  that ended meanwhile. `UnopenedAreBare` adds that a second group opens without
  an override, hence with the type's capacity.
- `PurchasesTogether`: `Spec => []PaidInOneSession`. It rests on `Shape`: a
  payment books the whole pass while it is pending, so all it charges is in one
  session and nothing of that pass was charged before (`PassCharged`); and a
  move takes all that is charged, in whatever state it is by then.
- `ClosedTakesNobody`: `Spec => ClosedStaysClosed`, and `OnlyItsSession`:
  `Spec => CancelsOnlyItsSession`. `JobsAim` is what the two need of handlers under
  way: a checkout or payment of a booking still pending has the session that
  booking is in, and the list of a coach's cancel holds bookings whose session is
  closed, unless they are cancelled by then.
  `RowByRow` says what any step may do to a row: leave its session and its claim
  to a spot as they are or end it, or give it a spot in a session that goes
  ahead, and never move it out of a cancelled one.
- `LineGoesFirst`: `Spec => FirstClaim`. The counts are those of
  `NeverOverbooked`, with the places kept for the line; a move also needs that a
  pass is one phone's (`OnePhone`), since `PassWhole` says so only of pending
  ones.

## 3. PaymentOnce and PaidEvents

`PaymentOnce` is the promise: `owner` is the payment a booking took, `granted`
the credits given for its purchase, `kept` the events on Money, `answered` the
events the relay was told are handled. A payment is taken once and for good, a
grant is made once, and an event is answered only if its payment is the
booking's or it is kept.

`PaidEvents` is the code. **State.** `row[e]` is the event's row in
`store_event` (`"claimed"` and `"stale"` differ by `STALE_CLAIM_MINUTES`),
`kept[e]` its row in `payment_attention`, `child[c]` the bookings of one pass
(status, `charge_id`, `credit_id`), `credit` the rows of credit by id,
`answered` the events answered 2xx, `told[c]` the confirmations sent for c,
`names[e]` and `order[p]` what the relay reported. `job[k]` is the point a
handler has reached: each value is one statement or transaction still to come.

**Actions.** `Claim`, `AnswerAgain`, `GrowStale`, `Finish`, `Answer`, `Fail` and
`Crash` are `handledOnce` with `claimEvent`, `finishEvent`, `releaseEvent`.
`Look` is the reads of `handlePaid`; `Book`, `Grant`, `Confirm`,
`CreditInstead`, `Settle`, `Keep` its steps, each a transaction. `Fail` releases
the claim, whoever holds it by then; `Crash` leaves it. `Checkout`, `Take`,
`Spend`, `PutBack` are a checkout with session credits. `CancelByParent`,
`Waive`, `CancelSession`, `CancelSessionBooking` are the cancels and what they
give back.

**Abstractions.** One booking pass, and the credits one parent uses for it.
Whether the session has room is `SpotHolds`' subject, so a booking may find it
full or not. A late cancel is a status of its own until it is given back, and
whether a cancel is late is a choice. Packages and packs (plans) are one mode.
What is wrong with an order is fixed by the payment. The reads of `handlePaid`
are one step: what they decide is looked at again under a lock, or is about the
payment. Left out: attended and no-show, expiry and the order in which credits
are used, refunds' holds on credits, free sessions, the renewal of the hold
before a checkout, the message that tells a parent of a credit, and the
seller, refund and dispute events that share the claim.

**Runs.** Payments and events are finite, so a run may end
(`CHECK_DEADLOCK FALSE`).

| run | instance | shows |
|---|---|---|
| `paid_events` | two events, of one payment for a pack or of two payments (the second a drop-in, of the wrong amount, or naming no booking), one child, two workers, one fault | `TypeOK`, `ConfirmedOnce`, `NeverMoreThanPaid`, `AnsweredIsSettled`, `PaidOnce` (the refinement) |
| `paid_live` | one event, a pass of two children, a pack of three, two credits of the parent's own, two workers, one fault | `EveryPaidEventSettled` |

Two workers let a claim be taken over while the first handler is still at work,
which needs no fault: a claim only has to grow stale. One fault (`MaxFaults`: a
crash, a failed statement, or a needless redelivery) on top of that is enough
for every property's mutant to be caught. Two events show one payment twice and
two payments for one booking.

**Fairness** (`paid_live`). The relay delivers an event again until it is
answered 2xx: strong fairness of a delivery of an unanswered event, because the
few workers of the instance may be taken by checkouts again and again, which in
the program only delays a request. Five minutes pass: weak fairness of
`GrowStale`. A handler goes on until it ends or stops: weak fairness of each
worker's next step. Faults are bounded and need not happen; parents and coach
need do nothing.

**What is proved** (`PaidEvents_proofs`), for every number of children,
payments, events and workers, any bound on faults, and packages of any size
that hold a session for each child:

- `Typing`: `Spec => []TypeOK`; among the rest, no credit is drawn below zero.
- `Settles`: `Spec => []AnsweredIsSettled`.
- `Implements`: `Spec => PaidOnce`, that is `Promise!Spec`: the initial states
  map to initial states, and each step is a step of `PaymentOnce` or a stutter.
- `ToldOnce`: `Spec => []ConfirmedOnce`.

The argument: `Stays` says that no step undoes the payment a booking took, an
event's place on Money, or what an event is about; so what a handler found
(`JobTrue`) stays true however long it waits and whoever takes its claim over.
`Inv` is `JobTrue` of every worker, with `Together` (the children of a pass stop
being pending together), `Unclaimed` (until then there is neither payment nor
credit on the booking) and `GrantTied` (once a purchase is granted the booking
has a credit, which is what `grantBookingCredit` looks at under its lock).
`AnsweredIsSettled` is not inductive without them: a handler about to finish
relies on what it saw before. `TellInv` adds that the one handler that booked
the pass is the only one telling the parent. The claim in `store_event` is not
used by any of these proofs: the row locks alone make a takeover harmless.

- `NothingFromNothing`: `Spec => []NeverMoreThanPaid`, for a finite number of
  workers and children. The sum over bookings, credits in hand and credits a
  checkout has taken is not kept by a step that books a pack whose rest is not
  granted yet; `SpentInv` counts what is still owed (`Owed`) as well, and adds
  that a handler about to grant does so for a pack and that a checkout books
  with a credit for each child. Every other step moves a session from one term
  of the sum to another (`SumLemmas`).

## 4. Refunds

**State.** One payment that bought its bookings, as a drop-in or as a pack.
`child[c]` are those bookings (status, `late_cancel`, `waived_at`, `credit_id`),
`credit` the credits they left, by id (`left`, `held` for `refund_id`,
`withdrawn` for `withdrawn_at`, `drawn` the number of other bookings that drew
on it), `refund` the payment's row in `refund`. `relay[r]` is what became of
refund r at the relay: the coach's try r under its idempotency key, or one made
outside, of the whole payment or of a part. `reports` are the store events not
handled yet, `told` counts the notices to the parent, and `job[k]` is the next
statement or transaction of a request or an event's handler. `freed` and `twice`
are history, for the properties: a failure freed the credits of a refund asked
for since, and the bookings whose session came back twice.

**Actions.** `Claim` is `checkRefund` with `claimRefund`, which looks at
everything again under its locks. `Call` is the call with every answer it can
get, none included; `NotePending`, `NoteUnanswered`, `NoteRef`, `MarkFailed`,
`Release` are the statements after it, each autocommitted, so `markFailed` is
two steps; a claim waits for nobody at work on an earlier try, nor for its
failure report. `Handle`, `Insert`, `Apply`, `Tell`, `Finish` are `applyRefunded` and
`applyRefundFailed`: a read, then an insert, then one transaction, then the
notice. `CancelByParent`, `Waive`, `CancelSession`, `CancelSessionBooking` give
back as `PaidEvents` has it, with the credit held when a refund is on its way;
`Draw` and `Return` are another booking that uses a credit and its cancel.
`Confirm` and `RefundOutside` are the world's: the relay makes a refund only
when the money is not already on its way back, and its events come in any
order. `MarkNoShow` does not look at the session's start, as the route does not.

**Abstractions.** Two workers may handle one event at once; the claim that makes
this rare is in `PaidEvents`. Whether a cancel is late is a choice. Whether a
report covers the payment is which refund it is about, not a sum in cents. Two
minutes without an answer pass only when nobody is at work on the try, because a
call is given up after 15 seconds. Left out: attended, expiry, moves, a payment
kept on Money without a booking, the spot offered on afterwards, disputes.

| run | instance | shows |
|---|---|---|
| `refunds` | a drop-in of one child, two tries, a refund of the whole payment or of a part outside, two workers | `TypeOK`, `ToldOnce`, `RefundedGivesNothing`, `HeldOnItsWay`, `AppliedMeansRefunded` |
| `refunds_pack` | a pack of two that booked one child, one try, the same refunds outside, one worker, one fault | `NeverMoreThanBought`, `RefundIsRecorded` |

Two tries are one failure and what follows it, the late or repeated report of
that failure among them; two workers are a request and an event, or two events,
at the same time, which is all that `HeldOnItsWay`'s interleaving of a failure and
the next claim needs. The pack's second session is in hand as a credit: it may be
drawn on and returned, held and withdrawn, beside the one that is booked, given
back and cancelled. `refunds` has no fault and neither cancel nor start of the
session (`Upcoming`; a start only ends what may be cancelled, so what happens after
it happens before it too), `refunds_pack` has all three. The session, the tries and
the credits end, so a run may (`CHECK_DEADLOCK FALSE`).

**Fairness** (`refunds_pack`). The relay delivers an event until it is handled:
strong fairness of `Deliver`, since the one worker may be taken by the coach's
requests again and again. A handler goes on: weak fairness of its next step.
Faults are bounded and need not happen; nobody need ask, confirm or cancel.

**What is proved** (`Refunds_proofs`), for every number of bookings, workers and
tries, every set of refunds made outside and any bound on faults:

- `Typing`: `Spec => []TypeOK`.
- `ParentToldOnce`: `Spec => []ToldOnce`.
- `NothingAfterRefund`: `Spec => []RefundedGivesNothing`.
- `RefundedWentBack`: `Spec => []AppliedMeansRefunded`.
- `NoSessionTwice`: `Spec => []NeverMoreThanBought`.
- `HeldWhileAsked`: `Spec => []HeldOnItsWay`.

`ToldOnce` is not inductive: `TellsOnce` adds that the one worker about to tell
is the one that applied the refund, before which nobody told or is telling.
`RefundedGivesNothing` rests on `AllGone` (every credit is withdrawn as well as
empty, every booking is `refunded`) and on `Named`: every credit is that of one
of the payment's bookings, so the refund's transaction finds them all.
`RefundedWentBack` rests on `Truth`: a refund that went through stays so at the
relay; each event, and each worker about to apply a refund, is about one that
did; and a part of the payment is applied only by a row the coach asked for.

`NeverMoreThanBought` counts one session more for each booking that came back
twice, which one order of steps does (section 9), and says that no other does.
Its invariant `SessionsInv` adds `Fresh` (a booking still booked was neither
cancelled late nor given back) and `TwiceAreOver`: what came back twice is
cancelled or refunded, so it comes back no third time. `HeldOnItsWay` rests on
`HeldInv`: while a refund is asked for, and no failure freed its credits since,
every credit is held and none of the payment's sessions is used elsewhere
(`NoneUsed`). The claim sees to both under its locks, what is given back later is
held at once, and nothing draws on what is held.

## 5. OverflowCascade

**State.** `session[s]` is whether a session is cancelled and how many jobs were
taken on it, `full` the sessions whose bookings call for a question. `ask[a]` is
a row of `overflow_ask` (`kind` is null until the coach chooses; `asked` and
`told` are what was texted), `offer[a][m]` the row of `overflow_offer` for a
member, `reach` the members who may be texted. `job[k]` is a handler's next
statement, with the row locks of the transaction it is in (`locks`), whether it
asks about the next full session afterwards (`more`), and the sessions a tick
has still to advance (`todo`).

**Actions.** `CheckOverflow`, `AskCoach`, `AskAboutNextFullSession` are
`checkOverflow` and its insert; `AnswerAsk`, `AnswerNo`, `AskMyRoster` the coach's
answers. `StartCascade`, `RunningAsk`, `ChooseKind`, `RereadAsk` are `startCascade`
a statement at a time. `LockAsk` and `OfferToNextMember` are the transaction of
`offerToNextMember`, `SendOffer`, `MarkUnsent`, `TellCoachExhausted` what follows
its commit. `BeginAccept`, `TakeLock` (twice) and `AcceptOffer` are the
transaction of `acceptOffer`, which takes the ask's row, the offer's and the
session's. `CancelSession`, `WithdrawOffers`, `EndOverflow` are the coach's
cancel; `TickEnds`, `TickExpires` the tick. `Crash` ends a handler anywhere and
lets its locks go. A handler that needs a row another has is `Blocked`;
`WaitsFor` says by whom, so `NoLockRing` is about the order in which the code
takes its locks.

**Abstractions.** Whether a session is full is a choice of `CheckOverflow`: the
count is `SpotHolds`'. The texts and the roster's pages are left out, and the
codes in them, which name one offer. A text is answered before the offer in it
runs out, and an accept that began just before its offer's end waits less than
one step of the clock for its locks. `RoomForChoice` keeps an ask id for every
handler that may insert one.

| run | instance | shows |
|---|---|---|
| `overflow` | two sessions that start one after the other, a roster of two, three asks, two workers; the first session may be answered no or backup, and its roster be started by text as well; the second is asked about and not answered | `TypeOK`, `TakenOnce`, `OneOfferOut`, `QuestionKept`, `NoLockRing`, `Moving` |
| `overflow_live` | one session, one member who opts in while the cascade runs, two asks, one handler that dies, two workers | `EveryAskEnds` |

Two workers are two members who accept, or an accept against the tick, the
cancel, or another answer; three asks let one session have a second one, begun
by text, beside the question of the other. An offer lasts one step of a clock of
three, so it runs out before the session starts. A lock ring needs no more than
two handlers here: no handler waits for a row while it holds any but an ask's
and an offer's. Second groups run through the same code; `RunningAsk` carries
either kind and the instance answers with one.

**Fairness** (`overflow_live`). A handler goes on while it lives (strong, since a
row may be locked again and again by others). The tick comes round: server.ts
starts it every minute whatever the requests do, and it waits for none of them;
in an instance of two workers requests may occupy both again and again, hence
strong fairness of `TickEnds`, `TickExpires` and of the clock. Coach and members
need do nothing.

**What is proved** (`OverflowCascade_proofs`), for every roster and every number
of sessions, asks and workers, wherever handlers die:

- `Typing`: `Spec => []TypeOK`. `TypeInv` adds that a row not there yet is empty
  (`RowsFit`) and that a handler's session, ask and member are there (`JobFits`).
- `JobTakenOnce`: `Spec => []TakenOnce`; `OneOffer`: `Spec => []OneOfferOut`;
  `AskedAndAnswered`: `Spec => []QuestionKept`; `NoRing`: `Spec => []NoLockRing`.
- `NeverStuck`: `Spec => []Moving`.

None of the first four is inductive by itself. `CascadeInv` is, with `TypeInv`. Of the
rows it says that nothing was offered before a kind was chosen or after a no,
that one ask of a session was asked and one is open, that one offer of an ask is
out and only of an open ask or a session that is over, and that `extra` counts
the acceptance. Of the handlers it says that one holds an ask's row at a time,
that an offer whose row is held is still sent, that a cascade's ask keeps its
kind, and that a session being ended is over. The step that needs all of it is
`AcceptOffer`: it closes every other offer of the session, and an accept that
holds one of them would be one that waits for it, so it is not there
(`AloneInSession`). `NoRing` follows from the same invariant: a handler that
holds rows waits for nobody, so there is no ring of any length.

`Moving` does not say which handler carries a cascade on, so a step of one that
merely names the session could seem to drop it. `MoveInv` says it (`Carried`):
while no handler died, each running cascade of a session nobody took has an
offer out, or its session is still in the list of a tick, or a
handler is at the statement that will look at the ask again or is offering it;
and an ask that ran out has told its coach or has a handler about to
(`EndTold`). Two facts carry the proof: what a handler drops it passes on to its
next statement (`MovesOn`), and an offer ends only at the hands of a handler
that then carries its ask (`PassIf`).

## 6. SignIn

**State.** `coach[c]` is an account (phone, email, `proved` for
`email_verified_at`), `proof[i]` a row of `otp_code` or `start_link`, `session`
the open sessions with the proof that opened each, `unlocked` the phones a
booking's checkout proved. Beside its columns a proof has `wrong` (wrong codes
held against it), `by` and `uses`, which the properties need.

**Actions.** `SendCode`, `ExpireEarlier`, `InsertCode` are `createOtp`. `CheckCode` and
`GiveBack` are `checkOtp`: a try is counted before the code is compared, and given
back in a statement of its own when it was right. `FindCoach`, `Consume`,
`ReleaseUnprovedEmail`, `CreateCoach`, `CreateCoachSession` go on to a session;
`MarkEmailVerified`, `LookForPhone`, `SetCoachPhone`, `MarkPhoneVerified` are what a
code proves beside that. `CreateStartLink`, `OpenStartLink`, `ReopenStartLink` are
the links. Statements commit one by one; a handler that dies is one that takes no
more steps, and keeps its worker.

**Abstractions.** `requestLimits.ts` and a failed send only refuse a request,
which is a handler that never began. The link to the payments page
(`/p/:token`, `routes/coach.ts:548-559`) opens a session of the coach it was texted
to and proves nothing; it is left out. Times are left out: `Expire` ends a code or a
link whenever it likes. Whether the code typed is right is a choice.

`sign_in` has one phone, one email, two accounts, three codes or links, one try allowed, two workers: enough for a code that is replaced while it is tried, two
tries at once, an email that moves from one account to the other, and a number
added to an account that another has by then. It checks `TypeOK`, `TriesBounded`, `UsedOnce`,
`OwnAccount`, `NoOneLockedOut`. No fairness: these are safety properties, and ids
are bounded, so a run may end (`CHECK_DEADLOCK FALSE`, as in the two modules
after this).

**What is proved** (`SignIn_proofs`), for every number of phones, emails,
accounts, proofs, tries and workers (a finite number of workers):

- `Typing`: `Spec => []TypeOK`. `TypeInv` adds `Fits`: a handler past the first
  statements has the row it works on, and an account that a row or a handler
  names has joined.
- `TriesCounted`: `Spec => []TriesBounded`. The count is taken before the code is
  looked at, so `TriesInv` says that a row's tries are the wrong codes and the
  handlers about to give one back; the conditional update keeps that sum at or
  under the limit.
- `OneUse`: `Spec => []UsedOnce`. `UseInv`: a used row is in the hands of the one
  handler that used it, or done with, and opened nothing before.
- `OwnersOnly`: `Spec => []OwnAccount`. `OwnInv`: the account a handler found was
  found by the contact its code went to, and stays that contact's.
- `WayInKept`: `Spec => []NoOneLockedOut`: an account only loses an email it
  never proved, and changes its phone only for another.

## 7. CoachWeek

**State.** The coach's tables as sequences, their index the id: `session`
(`born` is the start it was added at, `left` whether it was moved to another
day), `slot` (`weekly_slot`), `draft` (`setup_draft`), `question`
(`assistant_pending`); `types`, `offers`, `calls` count rows; `shown` is the
question of the last reply. `job[k]` is a handler's next statement; `now` is the
week, and a handler keeps the one it began with.

**Actions.** `Message` and `Confirm` are `handleCoachMessage` and the schedule's
buttons; `Consume`, `MarkReasked`, `DropReasked`, `Retire`, `Unlink`, `Ask` the
statements of `assistantPending.ts`; `Run`, `Add`, `Move` what a yes runs; `Route`,
`CountCalls`, `RecordCall`, `Judge` the reading of a message. `SetupMessage`,
`SaveDraft`, `Discard`, `Publish`, `FindType` to `AddOffer` are setup by text.
`GenerateWeek`, `FindSlot`, `AddSlot`, `Fill`, `TopUp`, `Remove`, `Sweep` are the
weekly times: `Fill` is `ensureSlotSessions` for one day, a read and an insert in
one statement with the unique index behind it.

**Abstractions.** Weeks and days are positions in a row; time zones and daylight
saving (`lib/time.ts`) are left out. What a message or a model says is a choice
among the readings the parsers let through (`PatternReadings`, `ModelReadings`).
One session type and one price-list entry stand for all. Who is booked in a
session that is swept is a choice.

`coach_week` has two handlers at a time and four in all, a week of three times on
two days, one week ahead, one model call a day, three sessions, two slots, two
questions, one draft. Two handlers are a text and a tap on one question, two taps
on one Publish, or the tick beside either; four let a question be asked,
replaced, answered and answered again. It checks `TypeOK` (with the bound on model
calls, which the count-then-write passes by at most the other workers),
`AnsweredOnce` and `OncePerDay`.

**What is proved** (`CoachWeek_proofs`), for every finite set of handlers and
every week, set of times, number of rows and cap on model calls, wherever
handlers stop:

- `Typing`: `Spec => []TypeOK`. `TypeInv` adds that what a handler carries is
  there (`Fits`: its question, its draft, the slots it fills), and `CallsInv`:
  the calls recorded and the handlers about to record one are together under the
  cap plus the other handlers. That sum, and not the count of rows alone, is what
  each step keeps.
- `ActedOnOnce`: `Spec => []AnsweredOnce`. `QuestionsInv` says that a question that
  ran or ended is used, so that the guarded update of `assistantPending.ts` cannot
  take it again. `PublishInv` follows a draft from its claim: one handler
  publishes it, it stays published, and the times it has still to do have no slot
  of that draft yet.
- `FilledOnce`: `Spec => []OncePerDay`. `SessionsInv` keeps by each session the day
  it was added for: a session not moved away is on it, and no two of one slot
  share it unless one was moved away.

## 8. Texts

**State.** `optOut`, `consent`, `reminder`, `replied`, `pay` are the tables
`opt_out`, `sms_consent`, `reminder_sent`, `inbound_auto_reply`, `coach_payments`;
`sent[p][budget]` and `failed[p]` count rows of `message_log`; `place[b]` is a
booking's session, 0 when cancelled. `told` counts texts the relay answered
"sent", `stopped` holds the numbers with a STOP on record that nobody took back, from the
statement that records it; `crossed` the handlers at work to lift a number's STOPs
when one more was recorded. The properties need all three. `job[k]` is a handler's next statement.

**Actions.** `Check`, `ReserveText`, `Relay`, `Record` are `sendText`, used by every
job; only `ReserveText`, under its advisory lock, is more than one statement.
`Stop`, `Start` and their statements, `VerifiedConsent`, `FormConsent` are
consent. `SendDueReminders`, `ClaimReminder`, `Reminded` are the tick's reminders,
`MoveBooking` and `CancelBooking` what happens to them meanwhile. `InboundReply` to
`Replied` are the one reply a day, `SellerEvent` to `TakeNudge` the payments texts.
`ProcessStops` ends every handler where it is.

**Abstractions.** One day, so an hour's limit and a day's are one number, and a
coach's ceiling and the product's one, a constant, which the code works out anew
from the coaches there are at each text (`domain/outbound.ts:297-305`); `TickFree` is server.ts' one tick at a
time; a reminder is due or not, by the session. Quiet hours, email, the keyword
table and test accounts are left out.

`texts` has one number that is a parent's and the coach's, one booking, two
sessions it may be in, limits of one, a ceiling of three with one in reserve,
three handlers, two at a time, one move and one stop of the process. It starts on
an empty day or one text short of the ceiling. Limits of one make every second
text the contended one; the one move is what separates "once" from "once for each
time"; three handlers are a STOP, what it overtakes, and what might undo it. It
checks `TypeOK`, `CeilingsKept`, `StopHolds`, `SaidOnce`.

**What is proved** (`Texts_proofs`), for every finite set of numbers and of
handlers, every set of bookings and sessions and every limit, with a ceiling
above zero and a reserve no larger (config.ts: the product's is at least 500, the
reserve 100 unless set), wherever the process stops:

- `Typing`: `Spec => []TypeOK`. `TypeInv` adds how a handler's fields go together
  (`Flow`) and `RowsHeld`: each text on its way has its row among those its budget
  counts, so a row taken back was there.
- `CeilingsAreKept`: `Spec => []CeilingsKept`. Rows alone are not kept under the
  ceiling, since most texts are counted only after they went: `CeilingsInv`
  counts those on their way beside the budgets (`Beside`), which are fewer than
  the workers when one of them counts.
- `StopIsKept`: `Spec => []StopHolds`, whatever STOP, START, proofs, forms and
  texts overlap. `StopInv` adds that a number with a standing STOP is in
  `opt_out`, and that who is at work to delete it from there began before the STOP
  was recorded (`crossed`): the one way a STOP goes that its owner did not take
  back, and the one the code has (section 9).
- `EachIsSaidOnce`: `Spec => []SaidOnce`. `OneNotice`, of each notice: it was told
  once at most, one that was told or is being sent is claimed in its table, one
  handler has it, and that one gives it back only if the relay did not say
  "sent". `TickInv` adds that one tick works at a time and that a reminder of an
  earlier time of its booking never meets a claim of the present one.

## 9. Seen while modelling

Where the code does other than a comment says, or than a reader would expect.
The first six are steps that break what one would like to state; the models take
them, and each property names its step and says that nothing else does it:

- a renewal or sale whose holds end while it waits for the session's lock still
  counts them as its own, since `now()` is the time of BEGIN
  (`domain/pricing.ts:356-370`, `:436`), so two parents get the last spot: `RanOut` in
  `NoOverbooking` and `FirstClaim`;
- a capacity edit is checked and written in two statements (`routes/coach.ts:760`),
  and a checkout goes by the capacity its caller read: `Lowers` and `OldCapacity`;
- a partial refund made outside is applied as a whole one when the coach had asked
  for a refund of the payment (`domain/refunds.ts:676-698`): the second case of
  `AppliedMeansRefunded`;
- a no-show marked before the session starts (`routes/coach.ts:1853-1878` looks at no
  start) and given back, then cancelled in time by the parent, is given back twice
  (`domain/policy.ts:151`): `twice` in `NeverMoreThanBought`;
- the next claim of a refund may come between the two statements of `markFailed`,
  the second of which then frees the credits the claim has held
  (`domain/refunds.ts:547-558`): `freed` in `HeldOnItsWay`;
- a STOP recorded after `recordCodeConsent` looked for one is deleted by the consent
  it goes on to write, against "A STOP sent since then stands"
  (`routes/coach.ts:300-305`); a START or another proof of the number then at work
  does so too: `crossed` in `StopHolds`.

One more is taken by the model and concerns no property: a failure report of an
earlier try, late or repeated, fails the try that is on its way, because the row
still names the earlier try's ref (`domain/refunds.ts:783-784`). The coach may then
try again under a new key while that try is at the relay, which refuses a second
refund of one payment.

Paid events: when the grant of a package fails and the parent cancels before the
retry, the retry is silent (`routes/store-webhook.ts:232`); a handler that stops
after the booking never sends its confirmation; one that stops between the
credit for a cancelled session and its Money row leaves no Money row; an event
kept as `session_full` whose handler stops before finishing may be booked by its
redelivery and stay under "Payments to resolve". Waitlist: a stop between holding
a spot and sending it lets the offer lapse unsent, against
`domain/waitlist.ts:47-49`; an offer answered with an error after it went out, and
bought from its link, goes back in line. Refunds: a stop between the two
statements of `markFailed` leaves the credits held though the refund failed; a
second try's failure report that comes before its answer is noted is dropped; a
cancel that reads the refund as on its way just before it fails leaves its new
credit held; a package's grant that is retried after a refund was asked for is
not held for it.

Overflow: two handlers that each find no question open both ask, so a coach may
have two questions waiting, against the comment at `domain/cascade.ts:193-194`
(`QuestionKept` says what does hold: one for each session); a roster started by
text reads `HasAccepted` before an acceptance commits, and opens another ask for a
session taken meanwhile (`:325-327`), whose offers can no longer be accepted.

Sign-in: two `createOtp` at once leave two live codes, each with its own tries
(`domain/auth.ts:77-79`); a new account whose phone or email is taken between the
search and the insert fails with its code already used (`:116-119`).

Coach's week: two texts at once leave two live questions, and a second Y then runs
the older one (`domain/assistantPending.ts:87-95`); Publish writes the plan as it
is when claimed, which a text may have changed since the preview
(`domain/setup.ts:12-16`), and a text saved after it rewrites the published row;
two first messages make two drafts; the tick's list of slots may be older than a
removal, and so adds a session for a slot just removed; a weekly session moved to
another day is put back by the tick on its first day; two saves of one weekly time
at once make two slots (no unique index); a move that meets the unique index
leaves its question used and the session unmoved.

Texts: a stop between the reminder's claim and its send loses the reminder,
against "at least once" (`jobs/tick.ts:25`); a STOP and a START at once may leave no
opt-out and a revoked consent.

## 10. Proved, checked, out of reach

Proved for all instances: thirty-six theorems, listed in `PROJECT.json`. Among them
are all the invariants and all the action properties that the runs check, and
the refinement of `PaymentOnce`. None assumes anything of the environment but what
its section says of the constants: times, waits, edits, failures and refunds made
outside are whatever they may be.

Only model-checked: the three liveness properties, `EveryPaidEventSettled`,
`RefundIsRecorded` and `EveryAskEnds`. They speak of what fair handlers come to do;
fairness is about ENABLED, which the prover does not reason about. No module uses a RECURSIVE operator.

The mutants in `PROJECT.json` break one definition at a time the way a bug
would (a count not made, a lock's re-check dropped, a credit given back twice, a
budget counted after the send); each property has one that violates it.

**Not modelled, and why.** The Money screen only reads. Pages and routing render,
and the routes' own state changes are in the module of what they change. Relay,
store and model clients are I/O: the modules take every answer they can give.
Time zones and the recurrence arithmetic of `lib/time.ts` are pure functions with
tests of their own; the modules take their results as positions. Request limits
only refuse. Migrations run before anything else. Left out of modelled parts, as
each section says: attendance, expiry and order of credits, disputes, `for update
skip locked` over the line of a session and its second group, quiet hours, the
purge and the monthly and weekly messages of the tick.

## 11. What comes next

1. `WaitlistLine`: the line row by row with `skip locked`, retry times, and
   liveness of the line under a fair tick.
2. A move of a paid booking with its credit, over `PaidEvents` and `SpotHolds`.
3. `SpotHolds` as an implementation of an abstract seat count, in the manner of
   `PaymentOnce`, with the refinement proved.

## 12. Running

`tlc -workers 2 -config spots_checkout.cfg MCSpotHolds`, and likewise
`spots_*.cfg` with `MCSpotHolds`, `paid_*.cfg` with `MCPaidEvents`, `refunds*.cfg`
with `MCRefunds`, `overflow*.cfg` with `MCOverflow`, `sign_in.cfg` with `MCSignIn`,
`coach_week.cfg` with `MCCoachWeek`, `texts.cfg` with `MCTexts`; `tlapm X.tla` for
each proof module. The runs take one to three minutes each, the proofs one to
six.
