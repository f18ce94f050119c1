------------------------------ MODULE CoachWeek ------------------------------
(* One coach's calendar and everything that writes it: the texting assistant *)
(* and its Y or N (src/src/domain/assistant.ts, assistantPending.ts), setup  *)
(* by text and its Publish (setup.ts), the weekly times, the tick that keeps *)
(* them filled (scheduling.ts), and the model calls they share               *)
(* (modelBudget.ts).                                                         *)
(*                                                                           *)
(* Handlers run in Workers: a text and a tap on the schedule screen, or two  *)
(* texts, may be answered at once, and the tick runs beside them. Nothing    *)
(* here is inside a transaction, so each statement is a step. A handler's    *)
(* `now` is read once, at its start (job.at); the clock may pass it.         *)
(*                                                                           *)
(* Time is counted in weeks. A start is [week, pos]; positions of one        *)
(* DayOf are on one calendar day. A weekly slot has a position, so one start *)
(* in each week. A start is over once its week is the clock's. Both the      *)
(* minutes a question waits and the week a draft waits end at the clock's    *)
(* next step.                                                                *)
(*                                                                           *)
(* One session type, which may not exist yet, stands for them all, and one   *)
(* price-list entry for packages and plans, which are added the same way.    *)
(* A handler that dies is one that takes no more steps.                      *)
EXTENDS Integers, Sequences, FiniteSets

CONSTANTS
    Workers,      \* handlers and ticks running at once
    Positions,    \* the times of a week a session may start at
    DayOf,        \* the day of the week of each position
    Ahead,        \* weeks the calendar is kept filled: SLOT_HORIZON_DAYS
    CallCap,      \* ASSISTANT_MODEL_DAILY_CAP
    Named,        \* the starts the coach's messages name
    Weeklies,     \* the sets of weekly times the coach names
    MaxNow, MaxSessions, MaxSlots, MaxQuestions, MaxDrafts, MaxOps  \* bounds

ASSUME WeekAssumption ==
    /\ \A p \in Positions : p \in DOMAIN DayOf
    /\ Ahead \in Nat \ {0} /\ CallCap \in Nat
    /\ Named \subseteq [week : Nat, pos : Positions]
    /\ Weeklies \subseteq SUBSET Positions
    /\ {MaxNow, MaxSessions, MaxSlots, MaxQuestions, MaxDrafts, MaxOps} \subseteq Nat
    /\ IsFiniteSet(Workers) /\ Workers # {}

VARIABLES
    now,        \* the week of the clock
    session,    \* table session: a sequence, its index the id
    slot,       \* table weekly_slot
    types,      \* table session_type: rows of the one name
    offers,     \* tables package and plan: rows of the one name
    draft,      \* table setup_draft
    question,   \* table assistant_pending
    shown,      \* assistant_last_reply.pending_id, 0 for null
    calls,      \* table assistant_model_call: rows of the day
    job,        \* what each worker is doing
    ops         \* handlers started so far (bound)

rows == <<session, slot, types, offers, draft, question, shown, calls>>
vars == <<now, session, slot, types, offers, draft, question, shown, calls, job, ops>>

Weeks  == 0 .. MaxNow + Ahead
Starts == [week : Weeks, pos : Positions]

Unknown == [intent |-> "unknown"]
Plans   == [weekly : Weeklies, priced : BOOLEAN]

Idle == [op |-> "idle", at |-> 0, sms |-> FALSE, id |-> 0, yes |-> FALSE,
         what |-> Unknown, todo |-> {}, fill |-> {}, draft |-> 0, tick |-> FALSE]

Go(k, j)    == job' = [job EXCEPT ![k] = j]
Step(k, op) == Go(k, [job[k] EXCEPT !.op = op])

(* Bounds: handlers started, and rows of each table. *)
Room == ops < MaxOps /\ ops' = ops + 1

----------------------------------------------------------------------------
(* Reads. *)

SameDay(a, b) == a.week = b.week /\ DayOf[a.pos] = DayOf[b.pos]

Over(start, at) == start.week <= at

(* listUpcomingSessions: what a message can be about. *)
Upcoming(at) ==
    {i \in DOMAIN session : /\ session[i].status = "scheduled"
                            /\ ~Over(session[i].start, at)
                            /\ session[i].start.week <= at + Ahead}

ActiveSlots == {i \in DOMAIN slot : slot[i].active}

CoachHasSchedule(at) ==
    \/ \E i \in DOMAIN session : session[i].status = "scheduled" /\ ~Over(session[i].start, at)
    \/ ActiveSlots # {}

(* A question waits for its Y or N at a handler whose now is `at`. *)
Live(q, at) == ~question[q].used /\ question[q].asked >= at

GetLivePending(at) ==
    LET live == {q \in DOMAIN question : Live(q, at)}
    IN  IF live = {} THEN 0 ELSE CHOOSE q \in live : \A r \in live : r <= q

OpenDrafts(at) == {d \in DOMAIN draft : /\ draft[d].state = "open"
                                        /\ draft[d].at >= at}
GetOpenDraft(at) ==
    IF OpenDrafts(at) = {} THEN 0
    ELSE CHOOSE d \in OpenDrafts(at) : \A e \in OpenDrafts(at) : e <= d

(* Why a new start cannot be used: over, too far ahead, or taken by another *)
(* scheduled session of the type.                                            *)
StartProblem(start, at, moving) ==
    \/ Over(start, at)
    \/ start.week > at + Ahead
    \/ \E i \in DOMAIN session : /\ session[i].status = "scheduled"
                                 /\ session[i].start = start /\ i # moving

DayTakenScheduled(s, start) ==
    \E i \in DOMAIN session : /\ session[i].slot = s /\ SameDay(session[i].start, start)
                              /\ session[i].status = "scheduled"

(* A day that has a session of the slot is left alone, whatever its time and *)
(* state; and the unique index turns away a second one at one time.          *)
DayTaken(s, start) ==
    \E i \in DOMAIN session : session[i].slot = s /\ SameDay(session[i].start, start)

----------------------------------------------------------------------------
(* What a message may be read as. *)

(* A pattern reads a cancel of the one session matched, a question about the *)
(* week, or gives up as ambiguous.                                           *)
PatternReadings(listed) ==
    {Unknown, [intent |-> "read"]} \cup {[intent |-> "session.cancel", id |-> i] : i \in listed}

(* The model may answer anything; what stays is an intent whose session is   *)
(* listed and whose time is an instant.                                      *)
ModelReadings(listed) ==
    PatternReadings(listed)
    \cup {[intent |-> "session.add", start |-> t] : t \in Named}
    \cup {[intent |-> "session.move", id |-> i, start |-> t] : i \in listed, t \in Named}
    \cup {[intent |-> "send", id |-> i] : i \in listed}

(* checkNewStart and renderConfirm: the reading is put to the coach. *)
Refused(c, at) ==
    \/ c.intent \in {"unknown", "read"}
    \/ c.intent = "session.add"  /\ StartProblem(c.start, at, 0)
    \/ c.intent = "session.move" /\ StartProblem(c.start, at, c.id)

----------------------------------------------------------------------------
(* A new coach, or one with a weekly time that the tick has yet to fill. *)
Init ==
    /\ now = 0
    /\ \/ types = 0 /\ slot = <<>>
       \/ /\ types = 1
          /\ \E p \in UNION Weeklies : slot = <<[pos |-> p, active |-> TRUE, draft |-> 0]>>
    /\ session = <<>> /\ offers = 0
    /\ draft = <<>> /\ question = <<>> /\ shown = 0 /\ calls = 0
    /\ job = [k \in Workers |-> Idle]
    /\ ops = 0

(* handleCoachMessage, by text or on the schedule screen: the live question  *)
(* is read first, and a word other than Y and N is asked about once.         *)
Message(k, word, sms) ==
    /\ job[k] = Idle /\ Room
    /\ LET q == GetLivePending(now)
           j == [Idle EXCEPT !.at = now, !.sms = sms /\ word = "other", !.id = q]
       IN  \/ /\ word # "other" /\ q # 0
              /\ Go(k, [j EXCEPT !.op = "consume", !.yes = (word = "yes")])
           \/ /\ word = "other" /\ q # 0 /\ ~question[q].reasked
              /\ Go(k, [j EXCEPT !.op = "reask"])
           \/ /\ word = "other" /\ q # 0 /\ question[q].reasked
              /\ Go(k, [j EXCEPT !.op = "drop"])
           \/ /\ q = 0
              /\ Go(k, [j EXCEPT !.op = "route"])
    /\ UNCHANGED <<now, rows>>

(* /app/schedule/confirm: the question by its id, from a page that may be    *)
(* older than the question's end.                                            *)
Confirm(k, q, yes) ==
    /\ job[k] = Idle /\ Room
    /\ Go(k, [Idle EXCEPT !.op = IF Live(q, now) THEN "consume" ELSE "reply",
                          !.at = now, !.yes = yes, !.id = IF Live(q, now) THEN q ELSE 0])
    /\ UNCHANGED <<now, rows>>

(* setLastReply, with the question it shows, if any; then the answer is sent.*)
Reply(k) ==
    /\ job[k].op = "reply"
    /\ shown' = job[k].id
    /\ Go(k, Idle)
    /\ UNCHANGED <<now, session, slot, types, offers, draft, question, calls, ops>>

Answered(k, q) == Go(k, [Idle EXCEPT !.op = "reply", !.id = q])

MarkReasked(k) ==
    /\ job[k].op = "reask"
    /\ question' = [question EXCEPT ![job[k].id].reasked = TRUE]
    /\ Answered(k, job[k].id)
    /\ UNCHANGED <<now, session, slot, types, offers, draft, shown, calls, ops>>

ConsumableRead(q, at) == TRUE

(* consumePending: one statement ends a question that still waits. *)
Consumable(q, at) == Live(q, at)

(* A second word that is no answer ends the question, and is then a message. *)
DropReasked(k) ==
    /\ job[k].op = "drop"
    /\ question' = [question EXCEPT ![job[k].id] =
                      IF Consumable(job[k].id, job[k].at)
                      THEN [@ EXCEPT !.used = TRUE, !.ended = TRUE] ELSE @]
    /\ Go(k, [job[k] EXCEPT !.op = "route", !.id = 0])
    /\ UNCHANGED <<now, session, slot, types, offers, draft, shown, calls, ops>>

(* A Y or N: whoever ends the question acts on it. *)
Consume(k) ==
    /\ job[k].op = "consume"
    /\ LET q == job[k].id IN
       \/ /\ ~Consumable(q, job[k].at)
          /\ Answered(k, 0)
          /\ UNCHANGED question
       \/ /\ Consumable(q, job[k].at)
          /\ question' = [question EXCEPT ![q].used = TRUE,
                                          ![q].ended = @ \/ ~job[k].yes,
                                          ![q].runs = IF job[k].yes THEN @ + 1 ELSE @]
          /\ IF job[k].yes THEN Go(k, [job[k] EXCEPT !.op = "run", !.what = question[q].what])
                           ELSE Answered(k, 0)
    /\ UNCHANGED <<now, session, slot, types, offers, draft, shown, calls, ops>>

----------------------------------------------------------------------------
(* executeWrite. *)

Cancelled(i) == [session EXCEPT ![i].status = "cancelled"]

(* A cancel (cancelScheduledSession takes the session's lock) and a text to  *)
(* athletes or to the roster are over at once; an add and a move check the   *)
(* new start again, and write it in a statement of their own.                *)
Run(k) ==
    /\ job[k].op = "run"
    /\ LET c == job[k].what IN
       \/ /\ c.intent = "session.cancel"
          /\ IF session[c.id].status = "scheduled" /\ ~Over(session[c.id].start, now)
             THEN session' = Cancelled(c.id) ELSE UNCHANGED session
          /\ Answered(k, 0)
       \/ /\ c.intent = "send"
          /\ Answered(k, 0)
          /\ UNCHANGED session
       \/ /\ c.intent = "session.add"
          /\ IF StartProblem(c.start, job[k].at, 0) THEN Answered(k, 0) ELSE Step(k, "add")
          /\ UNCHANGED session
       \/ /\ c.intent = "session.move"
          /\ IF \/ session[c.id].status # "scheduled"
                \/ StartProblem(c.start, job[k].at, c.id)
             THEN Answered(k, 0) ELSE Step(k, "move")
          /\ UNCHANGED session
    /\ UNCHANGED <<now, slot, types, offers, draft, question, shown, calls, ops>>

(* A session's row, the start it was added at, and whether it was ever moved *)
(* off that day (the last two are kept for the properties only).             *)
Scheduled(start, s) ==
    [start |-> start, slot |-> s, status |-> "scheduled", born |-> start, left |-> FALSE]

Add(k) ==
    /\ job[k].op = "add" /\ Len(session) < MaxSessions
    /\ session' = Append(session, Scheduled(job[k].what.start, 0))
    /\ Answered(k, 0)
    /\ UNCHANGED <<now, slot, types, offers, draft, question, shown, calls, ops>>

(* The unique index on a slot's starts may turn the move away: the handler   *)
(* fails with its question used.                                             *)
Move(k) ==
    /\ job[k].op = "move"
    /\ LET c == job[k].what
           clash == \E i \in DOMAIN session : /\ i # c.id /\ session[i].slot # 0
                                              /\ session[i].slot = session[c.id].slot
                                              /\ session[i].start = c.start
       IN  \/ clash /\ Go(k, Idle) /\ UNCHANGED session
           \/ ~clash /\ session' = [session EXCEPT ![c.id].start = c.start,
                                             ![c.id].left = @ \/ ~SameDay(c.start, session[c.id].born)]
              /\ Answered(k, 0)
    /\ UNCHANGED <<now, slot, types, offers, draft, question, shown, calls, ops>>

----------------------------------------------------------------------------
(* A message that is not an answer. *)

(* A coach with nothing on the calendar who texts is setting up; any other   *)
(* message is read by a pattern, or by the model within the day's calls.     *)
Route(k) ==
    /\ job[k].op = "route"
    /\ IF job[k].sms /\ ~CoachHasSchedule(job[k].at)
       THEN Go(k, [job[k] EXCEPT !.op = "countSetup", !.draft = GetOpenDraft(job[k].at)])
       ELSE \/ \E c \in PatternReadings(Upcoming(job[k].at)) :
                  Go(k, [job[k] EXCEPT !.op = "judge", !.what = c])
            \/ \E c \in ModelReadings(Upcoming(job[k].at)) :
                  Go(k, [job[k] EXCEPT !.op = "count", !.what = c])
    /\ UNCHANGED <<now, rows, ops>>

CallsUpToCap == calls <= CallCap

(* reserveModelCall: the calls are counted, then the call is written down.   *)
CallsLeft == calls < CallCap

CountCalls(k) ==
    /\ job[k].op \in {"count", "countSetup"}
    /\ \/ /\ CallsLeft
          /\ Step(k, IF job[k].op = "count" THEN "record" ELSE "recordSetup")
       \/ /\ ~CallsLeft
          /\ IF job[k].op = "countSetup" /\ ~job[k].sms THEN Go(k, Idle) ELSE Answered(k, 0)
    /\ UNCHANGED <<now, rows, ops>>

(* The call is made. For setup, the model may fail; the answer it gave for a *)
(* message is the reading chosen in Route.                                   *)
RecordCall(k) ==
    /\ job[k].op \in {"record", "recordSetup"}
    /\ calls' = calls + 1
    /\ \/ job[k].op = "record" /\ Step(k, "judge")
       \/ job[k].op = "recordSetup" /\ Step(k, "save")
       \/ /\ job[k].op = "recordSetup"
          /\ IF job[k].sms THEN Answered(k, 0) ELSE Go(k, Idle)
    /\ UNCHANGED <<now, session, slot, types, offers, draft, question, shown, ops>>

(* applyClassified: a reading that changes nothing, or cannot be, is         *)
(* answered; a write becomes a question.                                     *)
Judge(k) ==
    /\ job[k].op = "judge"
    /\ \/ Refused(job[k].what, job[k].at) /\ Answered(k, 0)
       \/ ~Refused(job[k].what, job[k].at) /\ Step(k, "retire")
    /\ UNCHANGED <<now, rows, ops>>

RetiredAt(at) ==
    [q \in DOMAIN question |-> IF Live(q, at)
                               THEN [question[q] EXCEPT !.used = TRUE, !.ended = TRUE]
                               ELSE question[q]]

(* expireLivePendingForCoach, first statement: older questions are ended. *)
Retire(k) ==
    /\ job[k].op = "retire"
    /\ question' = RetiredAt(job[k].at)
    /\ Step(k, "unlink")
    /\ UNCHANGED <<now, session, slot, types, offers, draft, shown, calls, ops>>

(* Its second statement: no question is shown. *)
Unlink(k) ==
    /\ job[k].op = "unlink"
    /\ shown' = 0
    /\ IF job[k].what = Unknown THEN Go(k, Idle) ELSE Step(k, "ask")
    /\ UNCHANGED <<now, session, slot, types, offers, draft, question, calls, ops>>

(* createPending: the question is written; Reply shows it. *)
Ask(k) ==
    /\ job[k].op = "ask" /\ Len(question) < MaxQuestions
    /\ question' = Append(question, [what |-> job[k].what, asked |-> job[k].at, used |-> FALSE,
                                     reasked |-> FALSE, ended |-> FALSE, runs |-> 0])
    /\ Answered(k, Len(question) + 1)
    /\ UNCHANGED <<now, session, slot, types, offers, draft, shown, calls, ops>>

(* checkOverflow asks about a full session by text, and ends the assistant's *)
(* question first (cascade.ts), so that a bare N answers the overflow ask.   *)
AskOverflow(k) ==
    /\ job[k] = Idle /\ Room
    /\ Go(k, [Idle EXCEPT !.op = "retire", !.at = now])
    /\ UNCHANGED <<now, rows>>

----------------------------------------------------------------------------
(* Setup by text. *)

(* /app/setup: the open draft is read before the model is asked. *)
SetupMessage(k) ==
    /\ job[k] = Idle /\ Room
    /\ Go(k, [Idle EXCEPT !.op = "countSetup", !.at = now, !.draft = GetOpenDraft(now)])
    /\ UNCHANGED <<now, rows>>

(* validateSetupPlan: a price not said, or no weekly time, is a question. *)
AsksSomething(plan) == ~plan.priced \/ plan.weekly = {}

(* saveDraft: the draft read before the call is overwritten by its id,       *)
(* whatever became of it since; with none, one is added.                     *)
SaveDraft(k, plan) ==
    /\ job[k].op = "save"
    /\ LET d == job[k].draft IN
       \/ /\ d # 0
          /\ draft' = [draft EXCEPT ![d].plan = plan, ![d].asks = AsksSomething(plan),
                                    ![d].at = job[k].at]
       \/ /\ d = 0 /\ Len(draft) < MaxDrafts
          /\ draft' = Append(draft, [plan |-> plan, asks |-> AsksSomething(plan),
                                     at |-> job[k].at, state |-> "open"])
    /\ IF job[k].sms THEN Answered(k, 0) ELSE Go(k, Idle)
    /\ UNCHANGED <<now, session, slot, types, offers, question, shown, calls, ops>>

Discard(d) ==
    /\ Room
    /\ draft[d].state # "published"
    /\ draft' = [draft EXCEPT ![d].state = "discarded"]
    /\ UNCHANGED <<now, session, slot, types, offers, question, shown, calls, job>>

(* publishSetupPlan's claim, which also reads the plan. *)
Claimable(d) == draft[d].state = "open" /\ ~draft[d].asks

Publish(k, d) ==
    /\ job[k] = Idle /\ Room
    /\ Claimable(d)
    /\ draft' = [draft EXCEPT ![d].state = "published"]
    /\ Go(k, [Idle EXCEPT !.op = "type", !.at = now, !.todo = draft[d].plan.weekly, !.draft = d])
    /\ UNCHANGED <<now, session, slot, types, offers, question, shown, calls>>

(* A type of the name is used if there is one; else it is added. *)
FindType(k) ==
    /\ job[k].op = "type"
    /\ Step(k, IF types > 0 THEN "skip" ELSE "newType")
    /\ UNCHANGED <<now, rows, ops>>

AddType(k) ==
    /\ job[k].op = "newType"
    /\ types' = types + 1
    /\ Step(k, "skip")
    /\ UNCHANGED <<now, session, slot, offers, draft, question, shown, calls, ops>>

Held(p) == {s \in ActiveSlots : slot[s].pos = p}

(* The weekly times the type has already are left out of the plan. *)
SkipHeld(k) ==
    /\ job[k].op = "skip"
    /\ Go(k, [job[k] EXCEPT !.op = "slot", !.todo = {p \in @ : Held(p) = {}}])
    /\ UNCHANGED <<now, rows, ops>>

(* The packages and plans come last: one of the name is not added again. *)
FindOffer(k) ==
    /\ job[k].op = "offer"
    /\ IF offers > 0 THEN Go(k, Idle) ELSE Step(k, "newOffer")
    /\ UNCHANGED <<now, rows, ops>>

AddOffer(k) ==
    /\ job[k].op = "newOffer"
    /\ offers' = offers + 1
    /\ Go(k, Idle)
    /\ UNCHANGED <<now, session, slot, types, draft, question, shown, calls, ops>>

----------------------------------------------------------------------------
(* The weekly times. *)

(* /app/session-types/:id/generate-week. *)
GenerateWeek(k, positions) ==
    /\ job[k] = Idle /\ Room
    /\ types > 0 /\ positions # {}
    /\ Go(k, [Idle EXCEPT !.op = "slot", !.at = now, !.todo = positions])
    /\ UNCHANGED <<now, rows>>

WeeksAhead(at) == at + 1 .. at + Ahead

Filling(k, p, s) ==
    Go(k, [job[k] EXCEPT !.op = "fill", !.todo = @ \ {p}, !.fill = {s} \X WeeksAhead(job[k].at)])

(* createWeeklySlots: the slot that is there is kept and filled; a time with *)
(* none gets one.                                                            *)
FindSlot(k) ==
    /\ job[k].op = "slot"
    /\ \/ /\ job[k].todo = {}
          /\ IF job[k].draft # 0 THEN Step(k, "offer") ELSE Go(k, Idle)
       \/ \E p \in job[k].todo :
             IF Held(p) # {} THEN Filling(k, p, CHOOSE s \in Held(p) : \A t \in Held(p) : s <= t)
             ELSE Go(k, [job[k] EXCEPT !.op = "newSlot", !.id = p])
    /\ UNCHANGED <<now, rows, ops>>

AddSlot(k) ==
    /\ job[k].op = "newSlot" /\ Len(slot) < MaxSlots
    /\ slot' = Append(slot, [pos |-> job[k].id, active |-> TRUE, draft |-> job[k].draft])
    /\ Filling(k, job[k].id, Len(slot) + 1)
    /\ UNCHANGED <<now, session, types, offers, draft, question, shown, calls, ops>>

(* ensureSlotSessions, one day: the session is added unless the day is taken.*)
Fill(k) ==
    /\ job[k].op = "fill"
    /\ \E f \in job[k].fill :
          LET start == [week |-> f[2], pos |-> slot[f[1]].pos]
          IN  /\ \/ /\ DayTaken(f[1], start)
                    /\ UNCHANGED session
                 \/ /\ ~DayTaken(f[1], start) /\ Len(session) < MaxSessions
                    /\ session' = Append(session, Scheduled(start, f[1]))
              /\ Go(k, [job[k] EXCEPT !.fill = @ \ {f}, !.id = 0,
                                     !.op = IF job[k].fill = {f} THEN "slot" ELSE "fill"])
    /\ UNCHANGED <<now, slot, types, offers, draft, question, shown, calls, ops>>

(* The tick's topUpAllSlots: the active slots are read once, then filled.    *)
(* server.ts runs one tick at a time.                                        *)
TopUp(k) ==
    /\ job[k] = Idle /\ Room
    /\ \A w \in Workers : ~job[w].tick
    /\ ActiveSlots # {}
    /\ Go(k, [Idle EXCEPT !.op = "fill", !.at = now, !.tick = TRUE, !.fill = ActiveSlots \X WeeksAhead(now)])
    /\ UNCHANGED <<now, rows>>

(* deactivateSlot: the slot stops; then its coming sessions with nobody      *)
(* booked are cancelled. Who is booked is outside.                           *)
Remove(k, s) ==
    /\ job[k] = Idle /\ Room
    /\ slot' = [slot EXCEPT ![s].active = FALSE]
    /\ Go(k, [Idle EXCEPT !.op = "sweep", !.at = now, !.id = s])
    /\ UNCHANGED <<now, session, types, offers, draft, question, shown, calls>>

Sweep(k, booked) ==
    /\ job[k].op = "sweep"
    /\ session' = [i \in DOMAIN session |->
                      IF /\ session[i].slot = job[k].id /\ session[i].status = "scheduled"
                         /\ ~Over(session[i].start, job[k].at) /\ i \notin booked
                      THEN [session[i] EXCEPT !.status = "cancelled"] ELSE session[i]]
    /\ Go(k, Idle)
    /\ UNCHANGED <<now, slot, types, offers, draft, question, shown, calls, ops>>

(* The coach cancels on the session's screen. *)
CancelOnScreen(i) ==
    /\ Room
    /\ session[i].status = "scheduled" /\ ~Over(session[i].start, now)
    /\ session' = Cancelled(i)
    /\ UNCHANGED <<now, slot, types, offers, draft, question, shown, calls, job>>

(* The next week. Bound: MaxNow. *)
NextWeek ==
    /\ now < MaxNow
    /\ now' = now + 1
    /\ UNCHANGED <<rows, job, ops>>

----------------------------------------------------------------------------
Assistant(k) ==
    \/ \E word \in {"yes", "no", "other"}, sms \in BOOLEAN : Message(k, word, sms)
    \/ \E q \in DOMAIN question, yes \in BOOLEAN : Confirm(k, q, yes)
    \/ Reply(k) \/ MarkReasked(k) \/ DropReasked(k) \/ Consume(k)
    \/ Run(k) \/ Add(k) \/ Move(k)
    \/ Route(k) \/ CountCalls(k) \/ RecordCall(k) \/ Judge(k)
    \/ Retire(k) \/ Unlink(k) \/ Ask(k) \/ AskOverflow(k)

Setup(k) ==
    \/ SetupMessage(k)
    \/ \E plan \in Plans : SaveDraft(k, plan)
    \/ \E d \in DOMAIN draft : Publish(k, d)
    \/ FindType(k) \/ AddType(k) \/ SkipHeld(k) \/ FindOffer(k) \/ AddOffer(k)

Weekly(k) ==
    \/ \E positions \in Weeklies : GenerateWeek(k, positions)
    \/ FindSlot(k) \/ AddSlot(k) \/ Fill(k) \/ TopUp(k)
    \/ \E s \in ActiveSlots : Remove(k, s)
    \/ \E booked \in SUBSET DOMAIN session : Sweep(k, booked)

Next ==
    \/ \E k \in Workers : Assistant(k) \/ Setup(k) \/ Weekly(k)
    \/ \E d \in DOMAIN draft : Discard(d)
    \/ \E i \in DOMAIN session : CancelOnScreen(i)
    \/ NextWeek

Spec == Init /\ [][Next]_vars
----------------------------------------------------------------------------
(* Rows and handlers are what the code can write, and the calls of a day     *)
(* pass the cap by at most one for each other handler: reserveModelCall      *)
(* counts, then writes (modelBudget.ts).                                     *)
TypeOK ==
    /\ now \in 0 .. MaxNow /\ ops \in 0 .. MaxOps
    /\ session \in Seq([start : Starts, slot : 0 .. Len(slot), born : Starts,
                        status : {"scheduled", "cancelled"}, left : BOOLEAN])
    /\ slot \in Seq([pos : Positions, active : BOOLEAN, draft : 0 .. Len(draft)])
    /\ types \in Nat /\ offers \in Nat
    /\ draft \in Seq([plan : Plans, asks : BOOLEAN, at : 0 .. MaxNow,
                      state : {"open", "published", "discarded"}])
    /\ \A q \in DOMAIN question :
          question[q].what.intent \in {"session.add", "session.move", "session.cancel", "send"}
    /\ shown \in 0 .. Len(question)
    /\ calls \in 0 .. CallCap + Cardinality(Workers) - 1

(* A Y, an N, a tap and a Publish take effect once. A question runs at most  *)
(* once, and never when an N, a second unclear word or a newer question has  *)
(* ended it (consumePending in assistantPending.ts: whoever ends it acts on  *)
(* it), though texts and taps come together and pages are old. A draft, tapped *)
(* twice, gives each of its weekly times one slot (setup.ts: "the draft is   *)
(* claimed first, so a double tap publishes once").                          *)
AnsweredOnce ==
    /\ \A q \in DOMAIN question : question[q].runs <= 1 /\ (question[q].runs = 1 => ~question[q].ended)
    /\ \A s, t \in DOMAIN slot :
          slot[s].draft # 0 /\ slot[s].draft = slot[t].draft /\ slot[s].pos = slot[t].pos => s = t

(* A weekly slot puts one session on a day, however many ticks, Publish taps *)
(* and saved weekly times fill it at once, and does not put back one that    *)
(* was cancelled or moved to another hour of its day; only one moved to      *)
(* another day may be followed by a second (ensureSlotSessions,              *)
(* scheduling.ts).                                                           *)
OncePerDay ==
    \A i, j \in DOMAIN session :
        /\ i # j /\ session[i].slot # 0 /\ session[i].slot = session[j].slot
        /\ SameDay(session[i].born, session[j].born)
        => session[i].left \/ session[j].left

=============================================================================
