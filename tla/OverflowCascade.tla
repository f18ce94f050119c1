--------------------------- MODULE OverflowCascade ---------------------------
(***************************************************************************)
(* A full session: the one question its coach is asked, and the cascade    *)
(* that offers the job to the coach's roster, one member at a time, until  *)
(* somebody takes it, everybody was asked, or the session is over.         *)
(* Requests, texts and the tick act on the same rows, most of them in      *)
(* statements of their own; choosing the next member and accepting are     *)
(* transactions that lock rows.  What an acceptance does to the session's  *)
(* spots and its waitlist is AcceptOffer of SpotHolds.                     *)
(***************************************************************************)
EXTENDS Integers, FiniteSets, Sequences

CONSTANTS
    Sessions,     \* the sessions of one coach
    Starts,       \* Starts[s]: when session s starts
    NMembers,     \* the roster: members 1..NMembers, in order of priority
    OptedIn,      \* members who get texts at the start
    Joining,      \* members who may opt in later
    Answers,      \* Answers[s]: what the coach may answer about s
    MaxAsks,      \* bound: ask ids are 1..MaxAsks
    OfferTime,    \* OVERFLOW_OFFER_TTL_MINUTES
    Workers,      \* requests, texts and ticks being handled at one time
    RosterByText, \* sessions the coach may also start the roster for by text
    MaxFaults,    \* bound: handlers that die half way
    MaxTime       \* bound on the clock

ASSUME OverflowAssumption ==
    /\ IsFiniteSet(Sessions) /\ 0 \notin Sessions
    /\ NMembers \in Nat /\ MaxAsks \in Nat /\ OptedIn \subseteq 1..NMembers
    /\ Answers \in [Sessions -> SUBSET {"no", "second_group", "backup"}]
    /\ OfferTime \in Nat \ {0} /\ MaxTime \in Nat /\ MaxFaults \in Nat
    /\ Starts \in [Sessions -> Nat]
    /\ RosterByText \subseteq Sessions

VARIABLES
    clock,
    session,    \* session[s]: [cancelled, extra], extra the jobs taken on it
    full,       \* sessions whose bookings and waitlist call for a question
    reach,      \* members who get texts: consent and no opt-out
    ask,        \* ask[a]: a row of overflow_ask, or NoAsk
    offer,      \* offer[a][m]: the offer of ask a to member m
    job,        \* job[k]: what process k is doing
    faults      \* handlers that died

vars == <<clock, session, full, reach, ask, offer, job, faults>>

Members == 1..NMembers
Asks    == 1..MaxAsks
None    == 0
Kinds   == {"second_group", "backup"}

(* An ask is open while closed_at is null; kind is null until the coach    *)
(* chooses, which also resolves it.  asked: the coach was sent a question. *)
(* Ended stands for the outcomes cancelled and ended.                      *)
Ask == [session : Sessions \cup {None}, kind : Kinds \cup {"none"},
        outcome : {"none", "open", "declined", "exhausted", "accepted", "ended"},
        asked : BOOLEAN, told : SUBSET {"unreachable", "exhausted"}]
NoAsk == [session |-> None, kind |-> "none", outcome |-> "none", asked |-> FALSE, told |-> {}]

(* An offer is over once it is declined, expired, withdrawn or unsent, and *)
(* its expires_at counts only while it is sent.                            *)
Offer == [state : {"none", "sent", "over", "accepted"}, expires : Int]
NoOffer == [state |-> "none", expires |-> 0]
OverOffer == [state |-> "over", expires |-> 0]
TakenOffer == [state |-> "accepted", expires |-> 0]

(* A handler: its next statement (op), the session, ask and member it      *)
(* works on, the coach's answer (kind), the time of its accept's BEGIN (at), the    *)
(* rows it has locked; then whether to ask about the next full session     *)
(* (more), and the sessions its tick has still to advance (todo).          *)
Job == [op : {"idle", "ask", "next", "answer", "start", "running", "choose", "reread",
              "offer", "offering", "send", "unsent", "exhausted",
              "withdraw", "close", "accept"},
        s : Sessions \cup {None}, a : Asks \cup {None}, m : Members \cup {None},
        kind : Kinds \cup {"none", "no"}, at : Int,
        locks : SUBSET {"ask", "offer"}, more : BOOLEAN, todo : SUBSET Sessions]
Idle == [op |-> "idle", s |-> None, a |-> None, m |-> None, kind |-> "none", at |-> 0,
         locks |-> {}, more |-> FALSE, todo |-> {}]

----------------------------------------------------------------------------
SessionOpen(s) == ~session[s].cancelled /\ Starts[s] > clock

LiveAsks(s) == {a \in Asks : ask[a].session = s /\ ask[a].outcome = "open"}

AskedAbout(s) == \E a \in Asks : ask[a].session = s

Unanswered(a) == ask[a].outcome = "open" /\ ask[a].kind = "none"

(* openAsk: unanswered, on a session still open. *)
OpenAsks == {a \in Asks : Unanswered(a) /\ SessionOpen(ask[a].session)}

HasAccepted(s) == \E a \in Asks, m \in Members :
                     ask[a].session = s /\ offer[a][m].state = "accepted"

FreeAsks == {a \in Asks : ask[a] = NoAsk}
NewAsk   == CHOOSE a \in FreeAsks : \A b \in FreeAsks : a <= b

(* Bound: a choice that may insert an ask is made while an id is left for  *)
(* it, beside one for the question of each session not asked about yet.    *)
RoomForChoice ==
    Cardinality(FreeAsks) > Cardinality({s \in Sessions : ~AskedAbout(s)})
                            + Cardinality({k \in Workers : job[k].kind \in Kinds /\ job[k].a = None})

Sent(a) == {m \in Members : offer[a][m].state = "sent"}

Go(k, j) == job' = [job EXCEPT ![k] = j]

Step(k, op) == Go(k, [job[k] EXCEPT !.op = op])

AfterFirstOnly(j) == IF j.more THEN [Idle EXCEPT !.op = "next", !.todo = j.todo] ELSE Idle
AfterHolding(j) == IF j.more THEN [j EXCEPT !.op = "next", !.more = FALSE] ELSE [j EXCEPT !.op = "idle"]

(* Where a handler goes when a cascade's step is over. *)
After(j) ==
    IF j.more THEN [Idle EXCEPT !.op = "next", !.todo = j.todo]
    ELSE IF j.todo = {} THEN Idle
    ELSE LET s == CHOOSE s \in j.todo : TRUE
         IN  [Idle EXCEPT !.op = "start", !.s = s, !.todo = j.todo \ {s}]

Done(k) == Go(k, After(job[k]))

NewRow(s, kind, asked) ==
    [ask EXCEPT ![NewAsk] =
        [NoAsk EXCEPT !.session = s, !.kind = kind, !.outcome = "open", !.asked = asked]]

(* The offers with those of ps over. *)
Ending(ps) == [a \in Asks |-> [m \in Members |->
                  IF <<a, m>> \in ps THEN OverOffer ELSE offer[a][m]]]

CloseAsk(a, outcome) == ask' = [ask EXCEPT ![a].outcome = outcome]

----------------------------------------------------------------------------
(* Row locks.  Accepting takes the ask's row, the offer's, then the        *)
(* session's; choosing the next member takes the ask's, then those of its  *)
(* expired offers.  An accept that has its two rows takes the session's    *)
(* and, if the job is still open, goes on to every other offer out for it, *)
(* so of two that got as far each would wait for the other.                *)
StillOpenToAll(j) == SessionOpen(j.s) /\ ask[j.a].outcome = "open"
StillOpen(j) == SessionOpen(j.s) /\ ~HasAccepted(j.s) /\ ask[j.a].outcome = "open"

OfferFirst == <<"offer", "ask">>
AcceptOrder == <<"ask", "offer">>

NextLock(j) == AcceptOrder[Cardinality(j.locks) + 1]

HasLock(k, lock, a) == lock \in job[k].locks /\ job[k].a = a

OfferLocked(a, m) == \E j \in Workers : HasLock(j, "offer", a) /\ job[j].m = m

Overdue(a, at) == {m \in Sent(a) : offer[a][m].expires <= at}

(* k cannot go on before j lets a row go. *)
WaitsFor(k, j) ==
    /\ k # j
    /\ \/ /\ job[k].op = "accept" /\ Cardinality(job[k].locks) < 2
          /\ HasLock(j, NextLock(job[k]), job[k].a)
          /\ NextLock(job[k]) = "offer" => job[j].m = job[k].m
       \/ job[k].op = "offer" /\ HasLock(j, "ask", job[k].a)
       \/ /\ job[k].op = "offering" /\ HasLock(j, "offer", job[k].a)
          /\ job[j].m \in Overdue(job[k].a, clock)
       \/ /\ job[k].op = "accept" /\ Cardinality(job[k].locks) = 2
          /\ "offer" \in job[j].locks /\ job[j].s = job[k].s
          /\ StillOpen(job[k]) \/ StillOpen(job[j])

Blocked(k) == \E j \in Workers : WaitsFor(k, j)

----------------------------------------------------------------------------
Init ==
    /\ clock = 0
    /\ session = [s \in Sessions |-> [cancelled |-> FALSE, extra |-> 0]]
    /\ full = {}
    /\ reach = OptedIn
    /\ ask = [a \in Asks |-> NoAsk]
    /\ offer = [a \in Asks |-> [m \in Members |-> NoOffer]]
    /\ job = [k \in Workers |-> Idle]
    /\ faults = 0

(* Time passes.  A text is answered well within the time an offer is out,  *)
(* and so is a lock granted, though an accept that began just before its   *)
(* offer ran out may still be waiting for one just after.                  *)
Tick ==
    /\ clock < MaxTime
    /\ \A k \in Workers : /\ job[k].op # "send"
                      /\ job[k].op # "offering"
                      /\ job[k].op = "accept" => job[k].at = clock
    /\ clock' = clock + 1
    /\ UNCHANGED <<session, full, reach, ask, offer, job, faults>>

(* The opt-in link of the roster.  A member who replies STOP is refused    *)
(* by the text that would reach them: SendOffer.                           *)
RosterOptIn(m) ==
    /\ m \in Joining \ reach
    /\ reach' = reach \cup {m}
    /\ UNCHANGED <<clock, session, full, ask, offer, job, faults>>

----------------------------------------------------------------------------
(* The coach's question: what is read first, then the insert. *)
MayAsk(s) == /\ SessionOpen(s) /\ NMembers > 0
             /\ ~AskedAbout(s) /\ OpenAsks = {}

(* A booking or a waitlist join leaves session s full with people waiting, *)
(* and its handler calls checkOverflow, which reads all that.              *)
CheckOverflow(k, s) ==
    /\ job[k] = Idle
    /\ full' = full \cup {s}
    /\ IF MayAsk(s) THEN Go(k, [Idle EXCEPT !.op = "ask", !.s = s]) ELSE UNCHANGED job
    /\ UNCHANGED <<clock, session, reach, ask, offer, faults>>

InsertsUnlessLive(s) == LiveAsks(s) = {}
InsertsAsk(s) == ~AskedAbout(s)

AskCoach(k) ==
    /\ job[k].op = "ask" /\ (InsertsAsk(job[k].s) => FreeAsks # {})
    /\ ask' = IF InsertsAsk(job[k].s) THEN NewRow(job[k].s, "none", TRUE) ELSE ask
    /\ Done(k)
    /\ UNCHANGED <<clock, session, full, reach, offer, faults>>

AskAboutNextFullSession(k) ==
    /\ job[k].op = "next"
    /\ LET candidates == {s \in full : MayAsk(s)} IN
       \/ candidates = {} /\ Done(k)
       \/ \E s \in candidates :
             /\ \A r \in candidates : Starts[s] <= Starts[r]
             /\ Go(k, [job[k] EXCEPT !.op = "ask", !.s = s])
    /\ UNCHANGED <<clock, session, full, reach, ask, offer, faults>>

(* The coach's 1, 2 or N, by text or on the schedule. *)
AnswerAsk(k, answer) ==
    /\ job[k] = Idle /\ (answer # "no" => RoomForChoice)
    /\ \E a \in OpenAsks :
         /\ answer \in Answers[ask[a].session]
         /\ Go(k, [Idle EXCEPT !.op = IF answer = "no" THEN "answer" ELSE "start",
                               !.s = ask[a].session, !.kind = answer, !.more = TRUE,
                               !.a = IF answer = "no" THEN a ELSE None])
    /\ UNCHANGED <<clock, session, full, reach, ask, offer, faults>>

AnswerNo(k) ==
    /\ job[k].op = "answer"
    /\ IF Unanswered(job[k].a) THEN CloseAsk(job[k].a, "declined") ELSE UNCHANGED ask
    /\ Done(k)
    /\ UNCHANGED <<clock, session, full, reach, offer, faults>>

(* "Ask my roster", confirmed by text: the cascade starts with no question. *)
AskMyRoster(k, s) ==
    /\ s \in RosterByText
    /\ job[k] = Idle /\ RoomForChoice
    /\ Go(k, [Idle EXCEPT !.op = "start", !.s = s, !.kind = "backup"])
    /\ UNCHANGED <<clock, session, full, reach, ask, offer, faults>>

----------------------------------------------------------------------------
(* startCascade and runningAsk, a statement at a time. *)
StartCascade(k) ==
    /\ job[k].op = "start"
    /\ IF ~SessionOpen(job[k].s) THEN Step(k, "withdraw")
       ELSE IF HasAccepted(job[k].s) THEN Done(k)
       ELSE Step(k, "running")
    /\ UNCHANGED <<clock, session, full, reach, ask, offer, faults>>

RunningAsk(k) ==
    /\ job[k].op = "running"
    /\ LET live == LiveAsks(job[k].s) IN
       \/ \E a \in live : /\ ask[a].kind # "none"
                          /\ Go(k, [job[k] EXCEPT !.op = "offer", !.a = a, !.kind = "none"])
       \/ /\ \A a \in live : ask[a].kind = "none"
          /\ IF job[k].kind = "none" THEN Done(k)
             ELSE Go(k, [job[k] EXCEPT !.op = "choose",
                            !.a = IF live = {} THEN None ELSE CHOOSE a \in live : TRUE])
    /\ UNCHANGED <<clock, session, full, reach, ask, offer, faults>>

(* The choice is written on the ask that was read, or a row of its own is  *)
(* inserted, unless the session has a live one by now.                     *)
ChooseKind(k) ==
    /\ job[k].op = "choose"
    /\ LET a == job[k].a
           inserts == a = None /\ LiveAsks(job[k].s) = {} IN
       /\ inserts => FreeAsks # {}
       /\ ask' = IF inserts THEN NewRow(job[k].s, job[k].kind, FALSE)
                 ELSE IF a # None /\ ask[a].kind = "none" THEN [ask EXCEPT ![a].kind = job[k].kind]
                 ELSE ask
    /\ Step(k, "reread")
    /\ UNCHANGED <<clock, session, full, reach, offer, faults>>

(* Read again: who began a cascade tells the coach who cannot be asked. *)
RereadAsk(k) ==
    /\ job[k].op = "reread"
    /\ LET running == {a \in LiveAsks(job[k].s) : ask[a].kind # "none"} IN
       \/ running = {} /\ Done(k) /\ UNCHANGED ask
       \/ \E a \in running :
             /\ ask' = IF reach # Members /\ reach # {}
                       THEN [ask EXCEPT ![a].told = @ \cup {"unreachable"}] ELSE ask
             /\ Go(k, [job[k] EXCEPT !.op = "offer", !.a = a, !.kind = "none"])
    /\ UNCHANGED <<clock, session, full, reach, offer, faults>>

----------------------------------------------------------------------------
(* offerToNextMember: BEGIN and the lock of the ask's row; then the offer  *)
(* that ran out is closed, the next member chosen and offered, and COMMIT. *)
LockAsk(k) ==
    /\ job[k].op = "offer" /\ ~Blocked(k)
    /\ IF ask[job[k].a].outcome # "open" THEN Done(k)
       ELSE Go(k, [job[k] EXCEPT !.op = "offering", !.locks = {"ask"}])
    /\ UNCHANGED <<clock, session, full, reach, ask, offer, faults>>

NothingOut(a) == {}
StillOut(a) == Sent(a) \ Overdue(a, clock)

(* Not offered this job yet, whatever became of it, and getting texts. *)
NextMembers(a) == {m \in reach : offer[a][m].state = "none"}

OfferToNextMember(k) ==
    /\ job[k].op = "offering" /\ ~Blocked(k)
    /\ LET a == job[k].a
           left == Ending({a} \X Overdue(a, clock)) IN
       \/ /\ StillOut(a) # {}
          /\ offer' = left /\ Done(k) /\ UNCHANGED ask
       \/ /\ StillOut(a) = {} /\ NextMembers(a) = {}
          /\ offer' = left /\ CloseAsk(a, "exhausted")
          /\ Go(k, [job[k] EXCEPT !.op = "exhausted", !.locks = {}])
       \/ /\ StillOut(a) = {}
          /\ \E m \in NextMembers(a) :
                /\ \A n \in NextMembers(a) : m <= n
                /\ offer' = [left EXCEPT ![a][m] =
                                [state |-> "sent", expires |-> clock + OfferTime]]
                /\ Go(k, [job[k] EXCEPT !.op = "send", !.m = m, !.locks = {}])
          /\ UNCHANGED ask
    /\ UNCHANGED <<clock, session, full, reach, faults>>

(* The text, after the COMMIT: sent, or answered with anything else.       *)
SendOffer(k) ==
    /\ job[k].op = "send"
    /\ Done(k) \/ Step(k, "unsent")
    /\ UNCHANGED <<clock, session, full, reach, ask, offer, faults>>

MarkUnsent(k) ==
    /\ job[k].op = "unsent" /\ ~OfferLocked(job[k].a, job[k].m)
    /\ LET a == job[k].a   m == job[k].m IN
       offer' = IF offer[a][m].state = "sent" THEN [offer EXCEPT ![a][m] = OverOffer] ELSE offer
    /\ Go(k, [job[k] EXCEPT !.op = "offer", !.m = None])
    /\ UNCHANGED <<clock, session, full, reach, ask, faults>>

TellCoachExhausted(k) ==
    /\ job[k].op = "exhausted"
    /\ ask' = [ask EXCEPT ![job[k].a].told = @ \cup {"exhausted"}]
    /\ Done(k)
    /\ UNCHANGED <<clock, session, full, reach, offer, faults>>

----------------------------------------------------------------------------
(* A member's answer, by text or on the offer page. *)
DeclineOffer(k, a, m) ==
    /\ job[k] = Idle /\ offer[a][m].state = "sent" /\ ~OfferLocked(a, m)
    /\ offer' = [offer EXCEPT ![a][m] = OverOffer]
    /\ Go(k, [Idle EXCEPT !.op = "start", !.s = ask[a].session])
    /\ UNCHANGED <<clock, session, full, reach, ask, faults>>

BeginAccept(k, a, m) ==
    /\ job[k] = Idle /\ offer[a][m].state = "sent"
    /\ Go(k, [Idle EXCEPT !.op = "accept", !.s = ask[a].session, !.a = a, !.m = m, !.at = clock])
    /\ UNCHANGED <<clock, session, full, reach, ask, offer, faults>>

Claimable(j) == offer[j.a][j.m].state = "sent" /\ offer[j.a][j.m].expires > j.at

TakeLock(k) ==
    /\ job[k].op = "accept" /\ Cardinality(job[k].locks) < 2 /\ ~Blocked(k)
    /\ IF NextLock(job[k]) = "offer" /\ ~Claimable(job[k]) THEN Go(k, Idle)
       ELSE Go(k, [job[k] EXCEPT !.locks = @ \cup {NextLock(job[k])}])
    /\ UNCHANGED <<clock, session, full, reach, ask, offer, faults>>

(* Every other offer of the session is withdrawn when m takes the job of a. *)
TakenBy(a, m) ==
    [b \in Asks |-> [n \in Members |->
        IF b = a /\ n = m THEN TakenOffer
        ELSE IF ask[b].session = ask[a].session /\ offer[b][n].state = "sent"
        THEN OverOffer ELSE offer[b][n]]]

AcceptOffer(k) ==
    /\ job[k].op = "accept" /\ Cardinality(job[k].locks) = 2 /\ ~Blocked(k)
    /\ LET a == job[k].a   m == job[k].m IN
       IF StillOpen(job[k])
       THEN /\ offer' = TakenBy(a, m)
            /\ CloseAsk(a, "accepted")
            /\ session' = [session EXCEPT ![job[k].s].extra = @ + 1]
       ELSE /\ offer' = [offer EXCEPT ![a][m] = OverOffer]
            /\ UNCHANGED <<ask, session>>
    /\ Go(k, Idle)
    /\ UNCHANGED <<clock, full, reach, faults>>

----------------------------------------------------------------------------
(* The coach's cancel closes the session, then ends its overflow in two    *)
(* statements, as does a cascade that finds its session over.              *)
CancelSession(k, s) ==
    /\ job[k] = Idle /\ SessionOpen(s)
    /\ session' = [session EXCEPT ![s].cancelled = TRUE]
    /\ Go(k, [Idle EXCEPT !.op = "withdraw", !.s = s])
    /\ UNCHANGED <<clock, full, reach, ask, offer, faults>>

OutFor(s) == {p \in Asks \X Members :
                 ask[p[1]].session = s /\ offer[p[1]][p[2]].state = "sent"}

WithdrawOffers(k) ==
    /\ job[k].op = "withdraw"
    /\ \A p \in OutFor(job[k].s) : ~OfferLocked(p[1], p[2])
    /\ offer' = Ending(OutFor(job[k].s))
    /\ Step(k, "close")
    /\ UNCHANGED <<clock, session, full, reach, ask, faults>>

EndOverflow(k) ==
    /\ job[k].op = "close"
    /\ \A a \in LiveAsks(job[k].s), j \in Workers : ~HasLock(j, "ask", a)
    /\ ask' = [a \in Asks |-> IF a \in LiveAsks(job[k].s)
                              THEN [ask[a] EXCEPT !.outcome = "ended"] ELSE ask[a]]
    /\ Done(k)
    /\ UNCHANGED <<clock, session, full, reach, offer, faults>>

(* The tick: a session that is over and still has an ask, one at a time;   *)
(* then the offers that ran out, those being accepted just now skipped.    *)
OverByCancel(s) == session[s].cancelled
OverNow(s) == ~SessionOpen(s)

TickEnds(k) ==
    /\ job[k] = Idle
    /\ \E s \in Sessions :
          /\ OverNow(s) /\ LiveAsks(s) # {}
          /\ Go(k, [Idle EXCEPT !.op = "withdraw", !.s = s, !.more = TRUE])
    /\ UNCHANGED <<clock, session, full, reach, ask, offer, faults>>

RanOut == {p \in Asks \X Members : p[2] \in Overdue(p[1], clock) /\ ~OfferLocked(p[1], p[2])}

TickExpires(k) ==
    /\ job[k] = Idle /\ RanOut # {}
    /\ offer' = Ending(RanOut)
    /\ Go(k, After([Idle EXCEPT !.todo = {ask[p[1]].session : p \in RanOut}]))
    /\ UNCHANGED <<clock, session, full, reach, ask, faults>>

(* A handler dies between two statements, or in a transaction, which rolls *)
(* back.                                                                   *)
Crash(k) ==
    /\ faults < MaxFaults /\ job[k] # Idle
    /\ faults' = faults + 1
    /\ Go(k, Idle)
    /\ UNCHANGED <<clock, session, full, reach, ask, offer>>

----------------------------------------------------------------------------
Work(k) ==
    \/ AskCoach(k) \/ AskAboutNextFullSession(k) \/ AnswerNo(k)
    \/ StartCascade(k) \/ RunningAsk(k) \/ ChooseKind(k) \/ RereadAsk(k)
    \/ LockAsk(k) \/ OfferToNextMember(k)
    \/ SendOffer(k) \/ MarkUnsent(k) \/ TellCoachExhausted(k)
    \/ TakeLock(k) \/ AcceptOffer(k) \/ WithdrawOffers(k) \/ EndOverflow(k)

Request(k) ==
    \/ \E s \in Sessions : CheckOverflow(k, s) \/ AskMyRoster(k, s) \/ CancelSession(k, s)
    \/ \E answer \in Kinds \cup {"no"} : AnswerAsk(k, answer)
    \/ \E a \in Asks, m \in Members : DeclineOffer(k, a, m) \/ BeginAccept(k, a, m)

Next ==
    \/ Tick
    \/ \E m \in Members : RosterOptIn(m)
    \/ \E k \in Workers : Request(k) \/ TickEnds(k) \/ TickExpires(k) \/ Work(k) \/ Crash(k)

(* A handler goes on while it lives, the tick comes round however busy     *)
(* the requests are (it waits for no worker), and time passes.             *)
Fairness ==
    /\ SF_vars(Tick)
    /\ SF_vars(\E k \in Workers : TickEnds(k))
    /\ SF_vars(\E k \in Workers : TickExpires(k))
    /\ \A k \in Workers : SF_vars(Work(k))

Spec == Init /\ [][Next]_vars /\ Fairness

----------------------------------------------------------------------------
(* Questions, offers and sessions are rows the code can write, and a        *)
(* handler holds locks only inside a transaction.                           *)
TypeOK ==
    /\ clock \in 0..MaxTime
    /\ session \in [Sessions -> [cancelled : BOOLEAN, extra : Nat]]
    /\ full \subseteq Sessions
    /\ reach \subseteq Members
    /\ ask \in [Asks -> Ask]
    /\ offer \in [Asks -> [Members -> Offer]]
    /\ job \in [Workers -> Job]
    /\ \A k \in Workers : job[k].locks # {} => job[k].op \in {"accept", "offering"}
    /\ faults \in 0..MaxFaults

Accepted(s) == {p \in Asks \X Members :
                   ask[p[1]].session = s /\ offer[p[1]][p[2]].state = "accepted"}

(* The job of a session is taken once: of two members who answer at the    *)
(* same moment, in whatever ask, one gets it, and the session grows for    *)
(* that one acceptance only (acceptOffer, cascade.ts).                     *)
TakenOnce == \A s \in Sessions : /\ Cardinality(Accepted(s)) <= 1
                                 /\ session[s].extra = Cardinality(Accepted(s))

(* One offer of an ask is out at a time, however many handlers move the    *)
(* cascade on at the same moment, and none is out of an ask that is over,  *)
(* unless its session is over too (offerToNextMember, acceptOffer).        *)
OneOfferOut ==
    \A a \in Asks :
        /\ Cardinality(Sent(a)) <= 1
        /\ Sent(a) # {} => \/ ask[a].outcome = "open"
                           \/ ~SessionOpen(ask[a].session)

(* A question is asked once and its answer kept: a session's coach is not  *)
(* asked about it again, however many bookings and joins fill it at once,  *)
(* and after their no nobody on the roster is offered the job, just as a   *)
(* cascade under way is not ended by a no that came late (checkOverflow,   *)
(* answerAsk).                                                             *)
QuestionKept ==
    /\ \A s \in Sessions : Cardinality({a \in Asks : ask[a].session = s /\ ask[a].asked}) <= 1
    /\ \A a \in Asks : ask[a].outcome = "declined" => \A m \in Members : offer[a][m] = NoOffer

(* Handlers that take several rows never wait for each other in a ring:    *)
(* the ask's row is taken before any offer's (acceptOffer's comment).      *)
NoLockRing == \A k \in Workers, j \in Workers : ~(WaitsFor(k, j) /\ WaitsFor(j, k))

(* A cascade under way on an open session always has an offer out or a     *)
(* handler about to send one, and one that ran out of members has told its *)
(* coach or is about to, as long as no handler died half way.              *)
Moving ==
    faults = 0 =>
        \A a \in Asks :
            /\ ask[a].outcome = "open" /\ ask[a].kind # "none"
               /\ SessionOpen(ask[a].session) /\ ~HasAccepted(ask[a].session) =>
                  \/ Sent(a) # {}
                  \/ \E k \in Workers : ask[a].session \in job[k].todo \cup {job[k].s}
            /\ ask[a].outcome = "exhausted" =>
                  \/ "exhausted" \in ask[a].told
                  \/ \E k \in Workers : job[k].op = "exhausted" /\ job[k].a = a

(* Every question and every cascade comes to an end, even when handlers    *)
(* die in it: taken, nobody left, the coach's no, or the session's start.  *)
EveryAskEnds == \A a \in Asks : ask[a].outcome = "open" ~> ask[a].outcome # "open"
=============================================================================
