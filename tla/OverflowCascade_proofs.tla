----------------------- MODULE OverflowCascade_proofs -----------------------
(* What holds of OverflowCascade for every number of sessions, members,     *)
(* asks and handlers, wherever a handler dies.                              *)
EXTENDS OverflowCascade, WellFoundedInduction, FiniteSetTheorems, TLAPS

(* A handler that works on an ask whose kind was chosen. *)
Cascading(j) == j.op \in {"offer", "offering", "send", "unsent", "exhausted", "accept"}

(* What a handler carries is there, and its locks are those of the         *)
(* transaction it is in.                                                   *)
JobFits(j) ==
    /\ j.op \in {"ask", "start", "running", "choose", "reread", "withdraw", "close"} => j.s \in Sessions
    /\ j.op = "answer" => j.a \in Asks
    /\ Cascading(j) => j.a \in Asks /\ ask[j.a].session \in Sessions
    /\ j.op = "accept" => ask[j.a].session = j.s
    /\ j.op \in {"send", "unsent", "accept"} => j.m \in Members
    /\ j.op \in {"start", "running"} => j.kind # "no"
    /\ j.op = "choose" => /\ j.kind \in Kinds
                          /\ j.a # None => ask[j.a].session \in Sessions
    /\ j.op = "offering" => j.locks = {"ask"}
    /\ j.op = "accept" => j.locks \in {{}, {"ask"}, {"ask", "offer"}}
    /\ j.op \notin {"offering", "accept"} => j.locks = {}

(* A row that is not there yet is empty. *)
RowsFit ==
    \A a \in Asks : ask[a].session = None =>
        ask[a] = NoAsk /\ \A m \in Members : offer[a][m] = NoOffer

RowsTyped ==
    /\ clock \in 0..MaxTime
    /\ session \in [Sessions -> [cancelled : BOOLEAN, extra : Nat]]
    /\ full \subseteq Sessions
    /\ reach \subseteq Members
    /\ ask \in [Asks -> Ask]
    /\ offer \in [Asks -> [Members -> Offer]]
    /\ faults \in 0..MaxFaults

TypeInv == /\ RowsTyped /\ RowsFit
           /\ job \in [Workers -> Job]
           /\ \A k \in Workers : JobFits(job[k])

----------------------------------------------------------------------------
LEMMA IdleIsJob == Idle \in Job
BY DEF Idle, Job

LEMMA IdleFits == JobFits(Idle)
BY DEF JobFits, Idle, Cascading

LEMMA Smallest ==
    ASSUME NEW S, S \subseteq Nat, S # {}
    PROVE  \E n \in S : \A m \in S : n <= m
<1> DEFINE R == OpToRel(<, Nat)
<1>1. IsWellFoundedOn(R, Nat)
  BY NatLessThanWellFounded
<1> HIDE DEF R
<1>2. PICK x \in S : \A y \in S : ~(<<y, x>> \in R)
  BY <1>1, WFMin
<1>3. \A y \in S : y < x => <<y, x>> \in R
  BY DEF R, OpToRel
<1>4. \A y \in S : ~(y < x)
  BY <1>2, <1>3, Zenon
<1>5. QED
  BY <1>4

LEMMA NewAskIsFree ==
    ASSUME FreeAsks # {}
    PROVE  NewAsk \in Asks /\ ask[NewAsk] = NoAsk
<1>1. FreeAsks \subseteq Nat /\ FreeAsks \subseteq Asks
  BY OverflowAssumption DEF FreeAsks, Asks
<1>2. \E n \in FreeAsks : \A m \in FreeAsks : n <= m
  BY <1>1, Smallest
<1>3. NewAsk \in FreeAsks
  BY <1>2 DEF NewAsk
<1>4. QED
  BY <1>1, <1>3 DEF FreeAsks

LEMMA Zeros == 0 \notin Sessions /\ 0 \notin Asks /\ 0 \notin Members
BY OverflowAssumption DEF Asks, Members

(* The locks an accept has taken say which comes next. *)
LEMMA LockCount ==
    /\ Cardinality({}) = 0
    /\ Cardinality({"ask"}) = 1
    /\ Cardinality({"ask", "offer"}) = 2
<1>1. IsFiniteSet({}) /\ Cardinality({}) = 0
  BY FS_EmptySet
<1>2. IsFiniteSet({"ask"}) /\ Cardinality({"ask"}) = 1
  BY FS_Singleton
<1>3. {"ask", "offer"} = {"ask"} \cup {"offer"} /\ "offer" \notin {"ask"}
  OBVIOUS
<1>4. Cardinality({"ask"} \cup {"offer"}) = Cardinality({"ask"}) + 1
  BY <1>2, <1>3, FS_AddElement
<1>5. QED
  BY <1>1, <1>2, <1>3, <1>4

LEMMA LockNext ==
    ASSUME NEW j \in Job, j.locks \in {{}, {"ask"}, {"ask", "offer"}}
    PROVE  /\ Cardinality(j.locks) < 2 => \/ j.locks = {} /\ NextLock(j) = "ask"
                                          \/ j.locks = {"ask"} /\ NextLock(j) = "offer"
           /\ Cardinality(j.locks) = 2 <=> j.locks = {"ask", "offer"}
<1>1. AcceptOrder[1] = "ask" /\ AcceptOrder[2] = "offer"
  BY DEF AcceptOrder
<1>2. CASE j.locks = {}
  <2>1. Cardinality(j.locks) = 0 /\ Cardinality(j.locks) + 1 = 1
    BY <1>2, LockCount
  <2>2. NextLock(j) = "ask"
    BY <1>1, <2>1 DEF NextLock
  <2>3. QED
    BY <1>2, <2>1, <2>2
<1>3. CASE j.locks = {"ask"}
  <2>1. Cardinality(j.locks) = 1 /\ Cardinality(j.locks) + 1 = 2
    BY <1>3, LockCount
  <2>2. NextLock(j) = "offer"
    BY <1>1, <2>1 DEF NextLock
  <2>3. QED
    BY <1>3, <2>1, <2>2
<1>4. CASE j.locks = {"ask", "offer"}
  BY <1>4, LockCount
<1>5. QED
  BY <1>2, <1>3, <1>4

LEMMA AfterIs ==
    ASSUME NEW j \in Job
    PROVE  /\ After(j) \in Job
           /\ After(j).op \in {"idle", "next", "start"}
           /\ After(j).locks = {} /\ After(j).kind = "none" /\ After(j).a = None
           /\ After(j).op = "start" => After(j).s \in Sessions
<1>1. CASE j.more
  <2>1. j.todo \subseteq Sessions
    BY DEF Job
  <2>2. [Idle EXCEPT !.op = "next", !.todo = j.todo] \in Job
    BY <2>1, IdleIsJob DEF Job
  <2>3. After(j) = [Idle EXCEPT !.op = "next", !.todo = j.todo]
    BY <1>1 DEF After
  <2>4. QED
    BY <2>2, <2>3 DEF Idle
<1>2. CASE ~j.more /\ j.todo = {}
  BY <1>2 DEF After, Idle, Job
<1>3. CASE ~j.more /\ j.todo # {}
  <2>1. PICK s : s = (CHOOSE r \in j.todo : TRUE)
    OBVIOUS
  <2>2. s \in j.todo /\ j.todo \subseteq Sessions
    BY <1>3, <2>1 DEF Job
  <2>3. After(j) = [Idle EXCEPT !.op = "start", !.s = s, !.todo = j.todo \ {s}]
    BY <1>3, <2>1 DEF After
  <2>4. [Idle EXCEPT !.op = "start", !.s = s, !.todo = j.todo \ {s}] \in Job
    BY <2>2, IdleIsJob DEF Job
  <2>5. QED
    BY <2>2, <2>3, <2>4 DEF Idle
<1>4. QED
  BY <1>1, <1>2, <1>3

LEMMA AfterFits ==
    ASSUME NEW j \in Job
    PROVE  After(j) \in Job /\ JobFits(After(j)) /\ ~Cascading(After(j)) /\ After(j).locks = {}
BY AfterIs DEF JobFits, Cascading

(* Every row that is there stays that session's. *)
Stays == \A a \in Asks : ask[a].session # None => ask'[a].session = ask[a].session

RowsGoOn == RowsTyped' /\ RowsFit' /\ Stays

LEMMA Jobs ==
    ASSUME job \in [Workers -> Job], NEW k \in Workers, NEW j \in Job, Go(k, j)
    PROVE  job' \in [Workers -> Job] /\ \A l \in Workers : job'[l] = IF l = k THEN j ELSE job[l]
BY DEF Go

LEMMA StillFits ==
    ASSUME TypeInv, Stays, NEW j \in Job, JobFits(j)
    PROVE  JobFits(j)'
<1>1. j.a \in Asks \cup {None}
  BY DEF Job
<1>2. \A a \in Asks : ask[a].session \in Sessions => ask'[a].session = ask[a].session
  BY Zeros DEF Stays, None
<1>3. QED
  BY <1>1, <1>2 DEF JobFits, Cascading

LEMMA AnyStep ==
    ASSUME TypeInv, NEW k \in Workers, NEW j \in Job, Go(k, j), JobFits(j)', RowsGoOn
    PROVE  TypeInv'
<1>1. job' \in [Workers -> Job] /\ \A l \in Workers : job'[l] = IF l = k THEN j ELSE job[l]
  BY Jobs DEF TypeInv
<1>2. \A l \in Workers : JobFits(job[l])'
  BY <1>1, StillFits DEF TypeInv, RowsGoOn
<1>3. QED
  BY <1>1, <1>2 DEF TypeInv, RowsGoOn

LEMMA JobsKept ==
    ASSUME TypeInv, RowsGoOn, UNCHANGED job
    PROVE  TypeInv'
<1>1. \A l \in Workers : JobFits(job[l])'
  BY StillFits DEF TypeInv, RowsGoOn
<1>2. QED
  BY <1>1 DEF TypeInv, RowsGoOn

LEMMA OneJob ==
    ASSUME TypeInv, NEW k \in Workers, NEW j \in Job, Go(k, j), JobFits(j), RowsGoOn
    PROVE  TypeInv'
BY StillFits, AnyStep DEF RowsGoOn

LEMMA DoneStep ==
    ASSUME TypeInv, NEW k \in Workers, Done(k), RowsGoOn
    PROVE  TypeInv'
<1>1. job[k] \in Job
  BY DEF TypeInv
<1>2. PICK j \in Job : j = After(job[k]) /\ JobFits(j)
  BY <1>1, AfterFits
<1>3. QED
  BY <1>2, OneJob DEF Done

LEMMA SameRows ==
    ASSUME TypeInv, UNCHANGED <<session, ask, offer>>, clock' \in 0..MaxTime, faults' \in 0..MaxFaults,
           full' \subseteq Sessions, reach' \subseteq Members
    PROVE  RowsGoOn
BY DEF TypeInv, RowsTyped, RowsFit, RowsGoOn, Stays

LEMMA NothingMoves ==
    ASSUME TypeInv, UNCHANGED <<clock, session, full, reach, ask, offer, faults>>
    PROVE  RowsGoOn
BY SameRows DEF TypeInv, RowsTyped

(* One ask that is there goes on. *)
LEMMA AskMoves ==
    ASSUME TypeInv, NEW a \in Asks, NEW row \in Ask, row.session = ask[a].session,
           ask[a].session # None, ask' = [ask EXCEPT ![a] = row],
           UNCHANGED <<clock, session, full, reach, offer, faults>>
    PROVE  RowsGoOn
BY DEF TypeInv, RowsTyped, RowsFit, RowsGoOn, Stays

(* Only offers of asks that are there change. *)
LEMMA OffersMove ==
    ASSUME TypeInv, offer' \in [Asks -> [Members -> Offer]],
           \A a \in Asks, m \in Members : ask[a].session = None => offer'[a][m] = offer[a][m],
           UNCHANGED <<clock, session, full, reach, ask, faults>>
    PROVE  RowsGoOn
BY DEF TypeInv, RowsTyped, RowsFit, RowsGoOn, Stays

(* An ask that is open is there. *)
LEMMA OpenIsThere ==
    ASSUME TypeInv, NEW a \in Asks, ask[a].outcome # "none"
    PROVE  ask[a] \in Ask /\ ask[a].session \in Sessions /\ ask[a].session # None
BY Zeros DEF TypeInv, RowsTyped, RowsFit, NoAsk, Ask, None

LEMMA SentIsThere ==
    ASSUME TypeInv, NEW a \in Asks, NEW m \in Members, offer[a][m].state # "none"
    PROVE  ask[a] \in Ask /\ ask[a].session \in Sessions /\ ask[a].session # None
BY Zeros DEF TypeInv, RowsTyped, RowsFit, NoOffer, Ask, None

FreshAsk(s, kind, asked) == [NoAsk EXCEPT !.session = s, !.kind = kind, !.outcome = "open", !.asked = asked]

LEMMA FreshRow ==
    ASSUME NEW s \in Sessions, NEW kind \in Kinds \cup {"none"}, NEW asked \in BOOLEAN
    PROVE  /\ FreshAsk(s, kind, asked) \in Ask
           /\ NewRow(s, kind, asked) = [ask EXCEPT ![NewAsk] = FreshAsk(s, kind, asked)]
           /\ FreshAsk(s, kind, asked).session = s /\ FreshAsk(s, kind, asked).kind = kind
           /\ FreshAsk(s, kind, asked).asked = asked /\ FreshAsk(s, kind, asked).outcome = "open"
<1>1. FreshAsk(s, kind, asked) \in Ask
  BY DEF FreshAsk, NoAsk, Ask, Kinds
<1>2. /\ FreshAsk(s, kind, asked).session = s /\ FreshAsk(s, kind, asked).kind = kind
      /\ FreshAsk(s, kind, asked).asked = asked /\ FreshAsk(s, kind, asked).outcome = "open"
  BY DEF FreshAsk, NoAsk
<1>3. NewRow(s, kind, asked) = [ask EXCEPT ![NewAsk] = FreshAsk(s, kind, asked)]
  BY DEF NewRow, FreshAsk
<1>4. QED
  BY <1>1, <1>2, <1>3

LEMMA FreshMoves ==
    ASSUME TypeInv, FreeAsks # {}, NEW row \in Ask, row.session \in Sessions,
           ask' = [ask EXCEPT ![NewAsk] = row],
           UNCHANGED <<clock, session, full, reach, offer, faults>>
    PROVE  RowsGoOn
<1>1. NewAsk \in Asks /\ ask[NewAsk] = NoAsk
  BY NewAskIsFree
<1>2. ask[NewAsk].session = None /\ row.session # None
  BY <1>1, Zeros DEF NoAsk, None
<1>3. QED
  BY <1>1, <1>2 DEF TypeInv, RowsTyped, RowsFit, RowsGoOn, Stays
(* What Step writes: the same job at its next statement. *)
LEMMA NextStatement ==
    ASSUME TypeInv, NEW k \in Workers,
           NEW op \in {"running", "withdraw", "reread", "unsent", "close"}, Step(k, op)
    PROVE  \E j \in Job : /\ Go(k, j) /\ j.op = op
                          /\ j.s = job[k].s /\ j.a = job[k].a /\ j.m = job[k].m
                          /\ j.kind = job[k].kind /\ j.locks = job[k].locks
<1>1. job[k] \in Job
  BY DEF TypeInv
<1>2. [job[k] EXCEPT !.op = op] \in Job
  BY <1>1 DEF Job
<1>3. PICK j \in Job : j = [job[k] EXCEPT !.op = op]
  BY <1>2
<1>4. Go(k, j)
  BY <1>3 DEF Step
<1>5. QED
  BY <1>1, <1>3, <1>4 DEF Job

LEMMA TypeInit == Init => TypeInv
<1> SUFFICES ASSUME Init PROVE TypeInv
  OBVIOUS
<1>1. NoAsk \in Ask /\ NoOffer \in Offer
  BY DEF NoAsk, Ask, NoOffer, Offer
<1>2. RowsTyped
  BY <1>1, OverflowAssumption DEF Init, RowsTyped, Members
<1>3. RowsFit
  BY DEF Init, RowsFit
<1>4. QED
  BY <1>2, <1>3, IdleIsJob, IdleFits DEF Init, TypeInv

LEMMA TypeTick == ASSUME TypeInv, Tick PROVE TypeInv'
<1>1. clock' \in 0..MaxTime
  BY OverflowAssumption DEF Tick, TypeInv, RowsTyped
<1>2. RowsGoOn
  BY <1>1, SameRows DEF Tick, TypeInv, RowsTyped
<1>3. QED
  BY <1>2, JobsKept DEF Tick

LEMMA TypeRosterOptIn == ASSUME TypeInv, NEW m \in Members, RosterOptIn(m) PROVE TypeInv'
<1>1. RowsGoOn
  BY SameRows DEF RosterOptIn, TypeInv, RowsTyped
<1>2. QED
  BY <1>1, JobsKept DEF RosterOptIn

(* A handler that begins, or goes on to a statement of its session's. *)
LEMMA Plain ==
    ASSUME NEW j \in Job, j.op \in {"idle", "ask", "next", "start", "running", "reread", "withdraw", "close"},
           j.op \in {"idle", "next"} \/ j.s \in Sessions, j.kind # "no", j.locks = {}
    PROVE  JobFits(j) /\ ~Cascading(j)
BY DEF JobFits, Cascading

LEMMA TypeCheckOverflow ==
    ASSUME TypeInv, NEW k \in Workers, NEW s \in Sessions, CheckOverflow(k, s)
    PROVE  TypeInv'
<1>1. full' \subseteq Sessions
  BY DEF CheckOverflow, TypeInv, RowsTyped
<1>2. RowsGoOn
  BY <1>1, SameRows DEF CheckOverflow, TypeInv, RowsTyped
<1>3. CASE UNCHANGED job
  BY <1>2, <1>3, JobsKept
<1>4. CASE Go(k, [Idle EXCEPT !.op = "ask", !.s = s])
  <2>1. PICK j \in Job : j = [Idle EXCEPT !.op = "ask", !.s = s]
    BY IdleIsJob DEF Job
  <2>2. JobFits(j)
    BY <2>1, Plain DEF Idle
  <2>3. QED
    BY <1>2, <1>4, <2>1, <2>2, OneJob
<1>5. QED
  BY <1>3, <1>4 DEF CheckOverflow

LEMMA AskCoachRows ==
    ASSUME TypeInv, NEW k \in Workers, AskCoach(k)
    PROVE  RowsGoOn
<1>1. job[k].s \in Sessions
  BY DEF AskCoach, TypeInv, JobFits
<1>2. CASE ask' = ask
  BY <1>2, NothingMoves DEF AskCoach
<1>3. CASE FreeAsks # {} /\ ask' = NewRow(job[k].s, "none", TRUE)
  <2> "none" \in Kinds \cup {"none"} /\ TRUE \in BOOLEAN
    OBVIOUS
  <2>1. /\ FreshAsk(job[k].s, "none", TRUE) \in Ask /\ FreshAsk(job[k].s, "none", TRUE).session = job[k].s
        /\ ask' = [ask EXCEPT ![NewAsk] = FreshAsk(job[k].s, "none", TRUE)]
    BY <1>1, <1>3, FreshRow
  <2>2. QED
    BY <1>1, <1>3, <2>1, FreshMoves DEF AskCoach
<1>4. QED
  BY <1>2, <1>3 DEF AskCoach

LEMMA TypeAskCoach == ASSUME TypeInv, NEW k \in Workers, AskCoach(k) PROVE TypeInv'
BY AskCoachRows, DoneStep DEF AskCoach

LEMMA TypeAskNext == ASSUME TypeInv, NEW k \in Workers, AskAboutNextFullSession(k) PROVE TypeInv'
<1>1. RowsGoOn
  BY NothingMoves DEF AskAboutNextFullSession
<1>2. CASE Done(k)
  BY <1>1, <1>2, DoneStep
<1>3. ASSUME NEW s \in full, Go(k, [job[k] EXCEPT !.op = "ask", !.s = s])
      PROVE  TypeInv'
  <2>1. job[k] \in Job /\ s \in Sessions /\ job[k].op = "next"
    BY <1>3 DEF AskAboutNextFullSession, TypeInv, RowsTyped
  <2>2. PICK j \in Job : j = [job[k] EXCEPT !.op = "ask", !.s = s]
    BY <2>1 DEF Job
  <2>3. JobFits(j)
    BY <2>1, <2>2 DEF JobFits, Cascading, TypeInv, Job
  <2>4. QED
    BY <1>1, <1>3, <2>2, <2>3, OneJob
<1>4. QED
  BY <1>2, <1>3 DEF AskAboutNextFullSession

LEMMA TypeAnswerAsk ==
    ASSUME TypeInv, NEW k \in Workers, NEW answer \in Kinds \cup {"no"}, AnswerAsk(k, answer)
    PROVE  TypeInv'
<1>1. RowsGoOn
  BY NothingMoves DEF AnswerAsk
<1>2. PICK a \in OpenAsks : Go(k, [Idle EXCEPT !.op = IF answer = "no" THEN "answer" ELSE "start",
                               !.s = ask[a].session, !.kind = answer, !.more = TRUE,
                               !.a = IF answer = "no" THEN a ELSE None])
  BY DEF AnswerAsk
<1>3. a \in Asks /\ ask[a].session \in Sessions
  BY OpenIsThere DEF OpenAsks, Unanswered
<1>4. PICK j \in Job : j = [Idle EXCEPT !.op = IF answer = "no" THEN "answer" ELSE "start",
                               !.s = ask[a].session, !.kind = answer, !.more = TRUE,
                               !.a = IF answer = "no" THEN a ELSE None]
  BY <1>3, IdleIsJob DEF Job
<1>5. JobFits(j)
  BY <1>3, <1>4 DEF JobFits, Cascading, Idle
<1>6. QED
  BY <1>1, <1>2, <1>4, <1>5, OneJob

LEMMA AnswerNoRows == ASSUME TypeInv, NEW k \in Workers, AnswerNo(k) PROVE RowsGoOn
<1>1. job[k].a \in Asks
  BY DEF AnswerNo, TypeInv, JobFits
<1>2. CASE UNCHANGED ask
  BY <1>2, NothingMoves DEF AnswerNo
<1>3. CASE Unanswered(job[k].a) /\ CloseAsk(job[k].a, "declined")
  <2>1. ask[job[k].a] \in Ask /\ ask[job[k].a].session # None
    BY <1>1, <1>3, OpenIsThere DEF Unanswered
  <2>2. [ask[job[k].a] EXCEPT !.outcome = "declined"] \in Ask
    BY <2>1 DEF Ask
  <2>3. PICK row \in Ask : row = [ask[job[k].a] EXCEPT !.outcome = "declined"]
    BY <2>2
  <2>4. row.session = ask[job[k].a].session
    BY <2>1, <2>3 DEF Ask
  <2>5. ask' = [ask EXCEPT ![job[k].a] = row]
    BY <1>3, <2>3 DEF CloseAsk
  <2>6. QED
    BY <1>1, <2>1, <2>4, <2>5, AskMoves DEF AnswerNo
<1>4. QED
  BY <1>2, <1>3 DEF AnswerNo

LEMMA TypeAnswerNo == ASSUME TypeInv, NEW k \in Workers, AnswerNo(k) PROVE TypeInv'
BY AnswerNoRows, DoneStep DEF AnswerNo

LEMMA TypeAskMyRoster ==
    ASSUME TypeInv, NEW k \in Workers, NEW s \in Sessions, AskMyRoster(k, s)
    PROVE  TypeInv'
<1>1. RowsGoOn
  BY NothingMoves DEF AskMyRoster
<1>2. PICK j \in Job : j = [Idle EXCEPT !.op = "start", !.s = s, !.kind = "backup"]
  BY IdleIsJob DEF Job, Kinds
<1>3. JobFits(j)
  BY <1>2, Plain DEF Idle
<1>4. QED
  BY <1>1, <1>2, <1>3, OneJob DEF AskMyRoster

LEMMA TypeStartCascade == ASSUME TypeInv, NEW k \in Workers, StartCascade(k) PROVE TypeInv'
<1>1. RowsGoOn
  BY NothingMoves DEF StartCascade
<1>2. CASE Done(k)
  BY <1>1, <1>2, DoneStep
<1>3. ASSUME NEW op \in {"withdraw", "running"}, Step(k, op) PROVE TypeInv'
  <2>1. PICK j \in Job : Go(k, j) /\ j.op = op /\ j.s = job[k].s /\ j.kind = job[k].kind /\ j.locks = job[k].locks
    BY <1>3, NextStatement
  <2>2. JobFits(j)
    BY <2>1, Plain DEF TypeInv, JobFits, StartCascade
  <2>3. QED
    BY <1>1, <2>1, <2>2, OneJob
<1>4. QED
  BY <1>2, <1>3 DEF StartCascade

LEMMA TypeRunningAsk == ASSUME TypeInv, NEW k \in Workers, RunningAsk(k) PROVE TypeInv'
<1>1. RowsGoOn
  BY NothingMoves DEF RunningAsk
<1>2. job[k] \in Job /\ job[k].s \in Sessions /\ job[k].kind # "no" /\ job[k].locks = {}
  BY DEF TypeInv, JobFits, RunningAsk
<1>3. CASE Done(k)
  BY <1>1, <1>3, DoneStep
<1>4. ASSUME NEW a \in LiveAsks(job[k].s), Go(k, [job[k] EXCEPT !.op = "offer", !.a = a, !.kind = "none"])
      PROVE  TypeInv'
  <2>1. a \in Asks /\ ask[a].session = job[k].s
    BY <1>4 DEF LiveAsks
  <2>2. PICK j \in Job : j = [job[k] EXCEPT !.op = "offer", !.a = a, !.kind = "none"]
    BY <1>2, <2>1 DEF Job
  <2>3. JobFits(j)
    BY <1>2, <2>1, <2>2 DEF JobFits, Job
  <2>4. QED
    BY <1>1, <1>4, <2>2, <2>3, OneJob
<1>5. ASSUME job[k].kind # "none", NEW a \in LiveAsks(job[k].s) \cup {None},
             Go(k, [job[k] EXCEPT !.op = "choose", !.a = a])
      PROVE  TypeInv'
  <2> a = None \/ (a \in Asks /\ ask[a].session = job[k].s)
    BY DEF LiveAsks
  <2>1. PICK j \in Job : j = [job[k] EXCEPT !.op = "choose", !.a = a]
    BY <1>2, <1>5 DEF Job
  <2>2. JobFits(j)
    BY <1>2, <1>5, <2>1 DEF JobFits, Job, Cascading
  <2>3. QED
    BY <1>1, <1>5, <2>1, <2>2, OneJob
<1>6. (IF LiveAsks(job[k].s) = {} THEN None ELSE CHOOSE a \in LiveAsks(job[k].s) : TRUE) \in LiveAsks(job[k].s) \cup {None}
  OBVIOUS
<1>7. QED
  BY <1>3, <1>4, <1>5, <1>6 DEF RunningAsk

LEMMA ChooseKindRows == ASSUME TypeInv, NEW k \in Workers, ChooseKind(k) PROVE RowsGoOn
<1>1. job[k] \in Job /\ job[k].s \in Sessions /\ job[k].kind \in Kinds
  BY DEF ChooseKind, TypeInv, JobFits
<1>2. CASE ask' = ask
  BY <1>2, NothingMoves DEF ChooseKind
<1>3. CASE FreeAsks # {} /\ ask' = NewRow(job[k].s, job[k].kind, FALSE)
  <2> job[k].kind \in Kinds \cup {"none"} /\ FALSE \in BOOLEAN
    BY <1>1
  <2>1. /\ FreshAsk(job[k].s, job[k].kind, FALSE) \in Ask /\ FreshAsk(job[k].s, job[k].kind, FALSE).session = job[k].s
        /\ ask' = [ask EXCEPT ![NewAsk] = FreshAsk(job[k].s, job[k].kind, FALSE)]
    BY <1>1, <1>3, FreshRow
  <2>2. QED
    BY <1>1, <1>3, <2>1, FreshMoves DEF ChooseKind
<1>4. CASE job[k].a # None /\ ask' = [ask EXCEPT ![job[k].a].kind = job[k].kind]
  <2>1. job[k].a \in Asks
    BY <1>1, <1>4 DEF Job
  <2>2. ask[job[k].a] \in Ask /\ ask[job[k].a].session # None
    BY <1>4, <2>1, Zeros DEF ChooseKind, TypeInv, RowsTyped, JobFits, None
  <2>3. PICK row \in Ask : row = [ask[job[k].a] EXCEPT !.kind = job[k].kind]
    BY <1>1, <2>2 DEF Ask
  <2>4. row.session = ask[job[k].a].session
    BY <2>2, <2>3 DEF Ask
  <2>5. ask' = [ask EXCEPT ![job[k].a] = row]
    BY <1>4, <2>3
  <2>6. QED
    BY <2>1, <2>2, <2>4, <2>5, AskMoves DEF ChooseKind
<1>5. QED
  BY <1>2, <1>3, <1>4 DEF ChooseKind

LEMMA TypeChooseKind == ASSUME TypeInv, NEW k \in Workers, ChooseKind(k) PROVE TypeInv'
<1>1. PICK j \in Job : Go(k, j) /\ j.op = "reread" /\ j.s = job[k].s /\ j.kind = job[k].kind /\ j.locks = job[k].locks
  BY NextStatement DEF ChooseKind
<1>2. JobFits(j)
  BY <1>1, Plain DEF TypeInv, JobFits, ChooseKind, Kinds, Cascading
<1>3. QED
  BY <1>1, <1>2, ChooseKindRows, OneJob

LEMMA Told ==
    ASSUME TypeInv, NEW a \in Asks, ask[a].session # None, NEW what \in {"unreachable", "exhausted"},
           ask' = [ask EXCEPT ![a].told = @ \cup {what}],
           UNCHANGED <<clock, session, full, reach, offer, faults>>
    PROVE  RowsGoOn
<1>1. ask[a] \in Ask
  BY DEF TypeInv, RowsTyped
<1>2. ask[a].told \cup {what} \subseteq {"unreachable", "exhausted"}
  BY <1>1 DEF Ask
<1>3. [ask[a] EXCEPT !.told = @ \cup {what}] \in Ask
  BY <1>1, <1>2 DEF Ask
<1>4. [ask[a] EXCEPT !.told = @ \cup {what}].session = ask[a].session
  BY <1>1 DEF Ask
<1>5. ask' = [ask EXCEPT ![a] = [ask[a] EXCEPT !.told = @ \cup {what}]]
  OBVIOUS
<1>6. QED
  BY <1>3, <1>4, <1>5, AskMoves

LEMMA TypeRereadAsk == ASSUME TypeInv, NEW k \in Workers, RereadAsk(k) PROVE TypeInv'
<1>1. CASE Done(k) /\ UNCHANGED ask
  BY <1>1, NothingMoves, DoneStep DEF RereadAsk
<1>2. ASSUME NEW a \in LiveAsks(job[k].s),
             ask' = IF reach # Members /\ reach # {}
                    THEN [ask EXCEPT ![a].told = @ \cup {"unreachable"}] ELSE ask,
             Go(k, [job[k] EXCEPT !.op = "offer", !.a = a, !.kind = "none"])
      PROVE  TypeInv'
  <2>1. a \in Asks /\ ask[a].session = job[k].s /\ ask[a].outcome = "open"
    BY DEF LiveAsks
  <2>2. ask[a].session \in Sessions /\ ask[a].session # None
    BY <2>1, OpenIsThere
  <2>3. RowsGoOn
    <3>1. CASE ask' = ask
      BY <3>1, NothingMoves DEF RereadAsk
    <3>2. CASE ask' = [ask EXCEPT ![a].told = @ \cup {"unreachable"}]
      BY <2>1, <2>2, <3>2, Told DEF RereadAsk
    <3>3. QED
      BY <1>2, <3>1, <3>2
  <2>4. job[k] \in Job /\ job[k].locks = {}
    BY DEF TypeInv, JobFits, RereadAsk
  <2>5. PICK j \in Job : j = [job[k] EXCEPT !.op = "offer", !.a = a, !.kind = "none"]
    BY <2>1, <2>4 DEF Job
  <2>6. JobFits(j)
    BY <2>1, <2>2, <2>4, <2>5 DEF JobFits, Job
  <2>7. QED
    BY <1>2, <2>3, <2>5, <2>6, OneJob
<1>3. QED
  BY <1>1, <1>2 DEF RereadAsk

LEMMA TypeLockAsk == ASSUME TypeInv, NEW k \in Workers, LockAsk(k) PROVE TypeInv'
<1>1. RowsGoOn
  BY NothingMoves DEF LockAsk
<1>2. CASE Done(k)
  BY <1>1, <1>2, DoneStep
<1>3. CASE Go(k, [job[k] EXCEPT !.op = "offering", !.locks = {"ask"}])
  <2>1. job[k] \in Job /\ JobFits(job[k]) /\ job[k].op = "offer"
    BY DEF TypeInv, LockAsk
  <2>2. PICK j \in Job : j = [job[k] EXCEPT !.op = "offering", !.locks = {"ask"}]
    BY <2>1 DEF Job
  <2>3. JobFits(j)
    BY <2>1, <2>2 DEF JobFits, Job, Cascading
  <2>4. QED
    BY <1>1, <1>3, <2>2, <2>3, OneJob
<1>4. QED
  BY <1>2, <1>3 DEF LockAsk

(* The offers with some of those that are out over. *)
LEMMA EndingIs ==
    ASSUME TypeInv, NEW ps
    PROVE  /\ Ending(ps) \in [Asks -> [Members -> Offer]]
           /\ \A a \in Asks, m \in Members :
                 Ending(ps)[a][m] = IF <<a, m>> \in ps THEN OverOffer ELSE offer[a][m]
BY DEF TypeInv, RowsTyped, Ending, OverOffer, Offer

LEMMA OverIsOffer == OverOffer \in Offer /\ TakenOffer \in Offer
BY DEF OverOffer, TakenOffer, Offer

(* One step of the cascade, in its three outcomes. *)
LEMMA OfferParts ==
    ASSUME TypeInv, NEW k \in Workers, OfferToNextMember(k)
    PROVE  /\ job[k] \in Job /\ JobFits(job[k]) /\ job[k].op = "offering"
           /\ job[k].a \in Asks /\ ask[job[k].a].session \in Sessions /\ job[k].locks = {"ask"}
           /\ \/ offer' = Ending({job[k].a} \X Overdue(job[k].a, clock)) /\ Done(k) /\ UNCHANGED ask
              \/ /\ StillOut(job[k].a) = {}
                 /\ offer' = Ending({job[k].a} \X Overdue(job[k].a, clock))
                 /\ CloseAsk(job[k].a, "exhausted")
                 /\ Go(k, [job[k] EXCEPT !.op = "exhausted", !.locks = {}])
              \/ /\ StillOut(job[k].a) = {} /\ UNCHANGED ask
                 /\ \E m \in NextMembers(job[k].a) :
                       /\ offer' = [Ending({job[k].a} \X Overdue(job[k].a, clock)) EXCEPT ![job[k].a][m] =
                                       [state |-> "sent", expires |-> clock + OfferTime]]
                       /\ Go(k, [job[k] EXCEPT !.op = "send", !.m = m, !.locks = {}])
           /\ UNCHANGED <<clock, session, full, reach, faults>>
<1>1. job[k] \in Job /\ JobFits(job[k]) /\ job[k].op = "offering"
  BY DEF TypeInv, OfferToNextMember
<1>2. QED
  BY <1>1 DEF OfferToNextMember, JobFits, Cascading

LEMMA NewOffer ==
    ASSUME TypeInv, NEW a \in Asks, NEW m \in Members, NEW ps,
           offer' = [Ending(ps) EXCEPT ![a][m] = [state |-> "sent", expires |-> clock + OfferTime]]
    PROVE  /\ offer' \in [Asks -> [Members -> Offer]]
           /\ offer'[a][m].state = "sent"
           /\ \A b \in Asks, n \in Members : <<b, n>> # <<a, m>> => offer'[b][n] = Ending(ps)[b][n]
<1>1. clock + OfferTime \in Int
  BY OverflowAssumption DEF TypeInv, RowsTyped
<1>2. PICK new \in Offer : new = [state |-> "sent", expires |-> clock + OfferTime]
  BY <1>1 DEF Offer
<1>3. offer' = [Ending(ps) EXCEPT ![a][m] = new]
  BY <1>2
<1>4. Ending(ps) \in [Asks -> [Members -> Offer]]
  BY EndingIs
<1>5. QED
  BY <1>2, <1>3, <1>4

LEMMA TypeOfferToNextMember == ASSUME TypeInv, NEW k \in Workers, OfferToNextMember(k) PROVE TypeInv'
<1> PICK a \in Asks : a = job[k].a
  BY OfferParts
<1>a. PICK ps : ps = {a} \X Overdue(a, clock)
  OBVIOUS
<1>b. PICK left : left = Ending(ps)
  OBVIOUS
<1>c. left = Ending({a} \X Overdue(a, clock))
  BY <1>a, <1>b
<1>1. job[k] \in Job /\ JobFits(job[k]) /\ job[k].op = "offering" /\ ask[a].session \in Sessions
  BY OfferParts
<1>2. ask[a].session # None /\ ask[a] \in Ask
  BY <1>1, Zeros DEF None, TypeInv, RowsTyped
<1>3. /\ left \in [Asks -> [Members -> Offer]]
      /\ \A b \in Asks, m \in Members : b # a => left[b][m] = offer[b][m]
  <2>1. \A b \in Asks, m \in Members : b # a => <<b, m>> \notin ps
    BY <1>a
  <2>2. /\ Ending(ps) \in [Asks -> [Members -> Offer]]
        /\ \A b \in Asks, m \in Members :
              Ending(ps)[b][m] = IF <<b, m>> \in ps THEN OverOffer ELSE offer[b][m]
    BY EndingIs
  <2>3. \A b \in Asks, m \in Members : b # a => left[b][m] = offer[b][m]
    BY <1>b, <2>1, <2>2
  <2>4. QED
    BY <1>b, <2>2, <2>3
<1>4. CASE offer' = left /\ Done(k) /\ UNCHANGED ask
  <2>1. RowsGoOn
    BY <1>2, <1>3, <1>4, OfferParts, OffersMove
  <2>2. QED
    BY <1>4, <2>1, DoneStep
<1>5. CASE /\ offer' = left /\ CloseAsk(a, "exhausted")
           /\ Go(k, [job[k] EXCEPT !.op = "exhausted", !.locks = {}])
  <2>1. PICK row \in Ask : row = [ask[a] EXCEPT !.outcome = "exhausted"]
    BY <1>2 DEF Ask
  <2>2. row.session = ask[a].session
    BY <1>2, <2>1 DEF Ask
  <2>3. ask' = [ask EXCEPT ![a] = row]
    BY <1>5, <2>1 DEF CloseAsk
  <2>4. /\ ask' \in [Asks -> Ask]
        /\ \A b \in Asks : /\ ask'[b].session = ask[b].session
                           /\ b # a => ask'[b] = ask[b]
    BY <1>1, <2>2, <2>3 DEF TypeInv, RowsTyped
  <2>5. RowsGoOn
    <3>1. UNCHANGED <<clock, session, full, reach, faults>>
      BY OfferParts
    <3>2. RowsTyped'
      BY <1>3, <1>5, <2>4, <3>1 DEF TypeInv, RowsTyped
    <3>3. \A b \in Asks : ask'[b].session = None =>
             ask[b].session = None /\ b # a /\ ask'[b] = ask[b] /\ \A m \in Members : offer'[b][m] = offer[b][m]
      BY <1>2, <1>3, <1>5, <2>4
    <3>4. RowsFit'
      BY <3>3 DEF TypeInv, RowsFit
    <3>5. QED
      BY <2>4, <3>2, <3>4 DEF RowsGoOn, Stays
  <2>6. PICK j \in Job : j = [job[k] EXCEPT !.op = "exhausted", !.locks = {}]
    BY <1>1 DEF Job
  <2>7. JobFits(j)
    BY <1>1, <2>6 DEF JobFits, Job, Cascading
  <2>8. QED
    BY <1>5, <2>5, <2>6, <2>7, OneJob
<1>6. ASSUME NEW m \in Members, UNCHANGED ask,
             offer' = [left EXCEPT ![a][m] = [state |-> "sent", expires |-> clock + OfferTime]],
             Go(k, [job[k] EXCEPT !.op = "send", !.m = m, !.locks = {}])
      PROVE  TypeInv'
  <2>1. /\ offer' \in [Asks -> [Members -> Offer]]
        /\ \A b \in Asks, n \in Members : b # a => offer'[b][n] = left[b][n]
    BY <1>b, <1>6, NewOffer
  <2>2. \A b \in Asks, n \in Members : ask[b].session = None => offer'[b][n] = offer[b][n]
    <3> TAKE b \in Asks, n \in Members
    <3> HAVE ask[b].session = None
    <3>1. b # a
      BY <1>2
    <3>2. QED
      BY <1>3, <2>1, <3>1
  <2>3. RowsGoOn
    BY <1>6, <2>1, <2>2, OfferParts, OffersMove
  <2>6. PICK j \in Job : j = [job[k] EXCEPT !.op = "send", !.m = m, !.locks = {}]
    BY <1>1 DEF Job
  <2>7. JobFits(j)
    BY <1>1, <2>6 DEF JobFits, Job, Cascading
  <2>8. QED
    BY <1>6, <2>3, <2>6, <2>7, OneJob
<1>7. NextMembers(a) \subseteq Members
  BY DEF NextMembers, TypeInv, RowsTyped
<1>8. QED
  BY <1>4, <1>5, <1>6, <1>7, <1>c, OfferParts

LEMMA TypeSendOffer == ASSUME TypeInv, NEW k \in Workers, SendOffer(k) PROVE TypeInv'
<1>1. RowsGoOn
  BY NothingMoves DEF SendOffer
<1>2. CASE Done(k)
  BY <1>1, <1>2, DoneStep
<1>3. CASE Step(k, "unsent")
  <2>1. PICK j \in Job : Go(k, j) /\ j.op = "unsent" /\ j.a = job[k].a /\ j.m = job[k].m /\ j.locks = job[k].locks
    BY <1>3, NextStatement
  <2>2. JobFits(job[k]) /\ job[k].op = "send"
    BY DEF TypeInv, SendOffer
  <2>3. JobFits(j)
    BY <2>1, <2>2 DEF JobFits, Cascading
  <2>4. QED
    BY <1>1, <2>1, <2>3, OneJob
<1>4. QED
  BY <1>2, <1>3 DEF SendOffer

(* One offer that is out is over. *)
LEMMA OneOver ==
    ASSUME TypeInv, NEW a \in Asks, NEW m \in Members, ask[a].session # None,
           offer' = [offer EXCEPT ![a][m] = OverOffer],
           UNCHANGED <<clock, session, full, reach, ask, faults>>
    PROVE  /\ RowsGoOn
           /\ offer' \in [Asks -> [Members -> Offer]]
           /\ offer'[a][m] = OverOffer
           /\ \A b \in Asks, n \in Members : <<b, n>> # <<a, m>> => offer'[b][n] = offer[b][n]
<1>1. offer \in [Asks -> [Members -> Offer]]
  BY DEF TypeInv, RowsTyped
<1>2. /\ offer' \in [Asks -> [Members -> Offer]]
      /\ offer'[a][m] = OverOffer
      /\ \A b \in Asks, n \in Members : <<b, n>> # <<a, m>> => offer'[b][n] = offer[b][n]
  BY <1>1, OverIsOffer
<1>3. \A b \in Asks, n \in Members : ask[b].session = None => offer'[b][n] = offer[b][n]
  BY <1>2
<1>4. QED
  BY <1>2, <1>3, OffersMove

LEMMA TypeMarkUnsent == ASSUME TypeInv, NEW k \in Workers, MarkUnsent(k) PROVE TypeInv'
<1>1. job[k] \in Job /\ JobFits(job[k]) /\ job[k].op = "unsent"
  BY DEF TypeInv, MarkUnsent
<1>2. job[k].a \in Asks /\ job[k].m \in Members /\ ask[job[k].a].session \in Sessions /\ job[k].locks = {}
  BY <1>1 DEF JobFits, Cascading
<1>3. ask[job[k].a].session # None
  BY <1>2, Zeros DEF None
<1>4. RowsGoOn
  <2>1. CASE offer' = offer
    BY <2>1, NothingMoves DEF MarkUnsent
  <2>2. CASE offer' = [offer EXCEPT ![job[k].a][job[k].m] = OverOffer]
    BY <1>2, <1>3, <2>2, OneOver DEF MarkUnsent
  <2>3. QED
    BY <2>1, <2>2 DEF MarkUnsent
<1>5. PICK j \in Job : j = [job[k] EXCEPT !.op = "offer", !.m = None]
  BY <1>1 DEF Job
<1>6. JobFits(j)
  BY <1>1, <1>2, <1>5 DEF JobFits, Job, Cascading
<1>7. QED
  BY <1>4, <1>5, <1>6, OneJob DEF MarkUnsent

LEMMA TypeTellExhausted == ASSUME TypeInv, NEW k \in Workers, TellCoachExhausted(k) PROVE TypeInv'
<1>1. job[k].a \in Asks /\ ask[job[k].a].session \in Sessions
  BY DEF TypeInv, JobFits, Cascading, TellCoachExhausted
<1>2. ask[job[k].a].session # None
  BY <1>1, Zeros DEF None
<1>3. RowsGoOn
  BY <1>1, <1>2, Told DEF TellCoachExhausted
<1>4. QED
  BY <1>3, DoneStep DEF TellCoachExhausted

LEMMA TypeDeclineOffer ==
    ASSUME TypeInv, NEW k \in Workers, NEW a \in Asks, NEW m \in Members, DeclineOffer(k, a, m)
    PROVE  TypeInv'
<1>1. ask[a].session \in Sessions /\ ask[a].session # None
  BY SentIsThere DEF DeclineOffer
<1>2. RowsGoOn
  BY <1>1, OneOver DEF DeclineOffer
<1>3. PICK j \in Job : j = [Idle EXCEPT !.op = "start", !.s = ask[a].session]
  BY <1>1, IdleIsJob DEF Job
<1>4. JobFits(j)
  BY <1>1, <1>3, Plain DEF Idle
<1>5. QED
  BY <1>2, <1>3, <1>4, OneJob DEF DeclineOffer

LEMMA TypeBeginAccept ==
    ASSUME TypeInv, NEW k \in Workers, NEW a \in Asks, NEW m \in Members, BeginAccept(k, a, m)
    PROVE  TypeInv'
<1>1. ask[a].session \in Sessions
  BY SentIsThere DEF BeginAccept
<1>2. RowsGoOn
  BY NothingMoves DEF BeginAccept
<1>3. clock \in Int
  BY OverflowAssumption DEF TypeInv, RowsTyped
<1>4. PICK j \in Job : j = [Idle EXCEPT !.op = "accept", !.s = ask[a].session, !.a = a, !.m = m, !.at = clock]
  BY <1>1, <1>3, IdleIsJob DEF Job
<1>5. JobFits(j)
  BY <1>1, <1>4 DEF Idle, JobFits, Cascading
<1>6. QED
  BY <1>2, <1>4, <1>5, OneJob DEF BeginAccept

LEMMA TypeTakeLock == ASSUME TypeInv, NEW k \in Workers, TakeLock(k) PROVE TypeInv'
<1>1. RowsGoOn
  BY NothingMoves DEF TakeLock
<1>2. CASE Go(k, Idle)
  BY <1>1, <1>2, IdleIsJob, IdleFits, OneJob
<1>3. CASE Go(k, [job[k] EXCEPT !.locks = @ \cup {NextLock(job[k])}])
  <2>1. job[k] \in Job /\ JobFits(job[k]) /\ job[k].op = "accept" /\ Cardinality(job[k].locks) < 2
    BY DEF TypeInv, TakeLock
  <2>2. job[k].locks \cup {NextLock(job[k])} \in {{"ask"}, {"ask", "offer"}}
    BY <2>1, LockNext DEF JobFits
  <2>3. PICK locks \in {{"ask"}, {"ask", "offer"}} : locks = job[k].locks \cup {NextLock(job[k])}
    BY <2>2
  <2>4. PICK j \in Job : j = [job[k] EXCEPT !.locks = locks]
    BY <2>1, <2>3 DEF Job
  <2>5. JobFits(j)
    BY <2>1, <2>3, <2>4 DEF JobFits, Job, Cascading
  <2>6. Go(k, j)
    BY <1>3, <2>3, <2>4
  <2>7. QED
    BY <1>1, <2>5, <2>6, OneJob
<1>4. QED
  BY <1>2, <1>3 DEF TakeLock

(* What an accept that has its rows works on. *)
LEMMA Accepting ==
    ASSUME TypeInv, NEW k \in Workers, job[k].op = "accept"
    PROVE  /\ job[k].a \in Asks /\ job[k].m \in Members /\ job[k].s \in Sessions
           /\ ask[job[k].a] \in Ask /\ ask[job[k].a].session = job[k].s
           /\ ask[job[k].a].session # None
BY Zeros DEF TypeInv, RowsTyped, JobFits, Cascading, None

LEMMA TakenIs ==
    ASSUME TypeInv, NEW a \in Asks, NEW m \in Members
    PROVE  /\ TakenBy(a, m) \in [Asks -> [Members -> Offer]]
           /\ \A b \in Asks, n \in Members :
                 TakenBy(a, m)[b][n] = IF b = a /\ n = m THEN TakenOffer
                                       ELSE IF ask[b].session = ask[a].session /\ offer[b][n].state = "sent"
                                       THEN OverOffer ELSE offer[b][n]
BY OverIsOffer DEF TypeInv, RowsTyped, TakenBy

LEMMA Closing ==
    ASSUME TypeInv, NEW a \in Asks, ask[a].session # None,
           NEW outcome \in {"declined", "exhausted", "accepted", "ended"}, CloseAsk(a, outcome)
    PROVE  /\ ask' \in [Asks -> Ask]
           /\ \A b \in Asks : /\ ask'[b].session = ask[b].session /\ ask'[b].kind = ask[b].kind
                              /\ ask'[b].asked = ask[b].asked
                              /\ b # a => ask'[b] = ask[b]
           /\ ask'[a].outcome = outcome
<1>1. ask[a] \in Ask
  BY DEF TypeInv, RowsTyped
<1>2. PICK row \in Ask : row = [ask[a] EXCEPT !.outcome = outcome]
  BY <1>1 DEF Ask
<1>3. row.session = ask[a].session /\ row.kind = ask[a].kind /\ row.asked = ask[a].asked /\ row.outcome = outcome
  BY <1>1, <1>2 DEF Ask
<1>4. ask' = [ask EXCEPT ![a] = row]
  BY <1>2 DEF CloseAsk
<1>5. QED
  BY <1>3, <1>4 DEF TypeInv, RowsTyped

LEMMA TypeAcceptOffer == ASSUME TypeInv, NEW k \in Workers, AcceptOffer(k) PROVE TypeInv'
<1> PICK a, m, s : a = job[k].a /\ m = job[k].m /\ s = job[k].s
  OBVIOUS
<1>1. a \in Asks /\ m \in Members /\ s \in Sessions /\ ask[a].session = s /\ ask[a].session # None
  BY Accepting DEF AcceptOffer
<1>2. UNCHANGED <<clock, full, reach, faults>> /\ Go(k, Idle)
  BY DEF AcceptOffer
<1>3. CASE /\ offer' = TakenBy(a, m) /\ CloseAsk(a, "accepted")
           /\ session' = [session EXCEPT ![s].extra = @ + 1]
  <2>1. /\ offer' \in [Asks -> [Members -> Offer]]
        /\ \A b \in Asks, n \in Members :
                 offer'[b][n] = IF b = a /\ n = m THEN TakenOffer
                                       ELSE IF ask[b].session = ask[a].session /\ offer[b][n].state = "sent"
                                       THEN OverOffer ELSE offer[b][n]
    BY <1>1, <1>3, TakenIs
  <2>2. /\ ask' \in [Asks -> Ask]
        /\ \A b \in Asks : /\ ask'[b].session = ask[b].session
                           /\ b # a => ask'[b] = ask[b]
    BY <1>1, <1>3, Closing
  <2>3. session' \in [Sessions -> [cancelled : BOOLEAN, extra : Nat]]
    BY <1>1, <1>3 DEF TypeInv, RowsTyped
  <2>4. \A b \in Asks : ask'[b].session = None =>
           ask[b].session = None /\ ask'[b] = ask[b] /\ \A n \in Members : offer'[b][n] = offer[b][n]
    BY <1>1, <2>1, <2>2
  <2>5. RowsTyped' /\ RowsFit' /\ Stays
    BY <1>2, <2>1, <2>2, <2>3, <2>4 DEF TypeInv, RowsTyped, RowsFit, Stays
  <2>6. QED
    BY <1>2, <2>5, IdleIsJob, IdleFits, OneJob DEF RowsGoOn
<1>4. CASE offer' = [offer EXCEPT ![a][m] = OverOffer] /\ UNCHANGED <<ask, session>>
  BY <1>1, <1>2, <1>4, OneOver, IdleIsJob, IdleFits, OneJob
<1>5. QED
  BY <1>3, <1>4 DEF AcceptOffer

LEMMA TypeCancelSession ==
    ASSUME TypeInv, NEW k \in Workers, NEW s \in Sessions, CancelSession(k, s)
    PROVE  TypeInv'
<1>1. session' \in [Sessions -> [cancelled : BOOLEAN, extra : Nat]]
  BY DEF CancelSession, TypeInv, RowsTyped
<1>2. RowsGoOn
  BY <1>1 DEF CancelSession, TypeInv, RowsTyped, RowsFit, RowsGoOn, Stays
<1>3. PICK j \in Job : j = [Idle EXCEPT !.op = "withdraw", !.s = s]
  BY IdleIsJob DEF Job
<1>4. JobFits(j)
  BY <1>3, Plain DEF Idle
<1>5. QED
  BY <1>2, <1>3, <1>4, OneJob DEF CancelSession

LEMMA OnlySentEnd ==
    ASSUME TypeInv, NEW ps, \A a \in Asks, m \in Members : <<a, m>> \in ps => offer[a][m].state = "sent",
           offer' = Ending(ps), UNCHANGED <<clock, session, full, reach, ask, faults>>
    PROVE  /\ RowsGoOn
           /\ \A a \in Asks, m \in Members :
                 offer'[a][m] = IF <<a, m>> \in ps THEN OverOffer ELSE offer[a][m]
<1>1. /\ offer' \in [Asks -> [Members -> Offer]]
      /\ \A a \in Asks, m \in Members :
                 offer'[a][m] = IF <<a, m>> \in ps THEN OverOffer ELSE offer[a][m]
  BY EndingIs
<1>2. \A a \in Asks, m \in Members : ask[a].session = None => offer'[a][m] = offer[a][m]
  BY <1>1, SentIsThere
<1>3. QED
  BY <1>1, <1>2, OffersMove

LEMMA OutIsSent ==
    ASSUME NEW s
    PROVE  \A a \in Asks, m \in Members :
              <<a, m>> \in OutFor(s) <=> ask[a].session = s /\ offer[a][m].state = "sent"
BY DEF OutFor

LEMMA TypeWithdrawOffers == ASSUME TypeInv, NEW k \in Workers, WithdrawOffers(k) PROVE TypeInv'
<1>1. PICK ps : ps = OutFor(job[k].s)
  OBVIOUS
<1>2. \A a \in Asks, m \in Members : <<a, m>> \in ps => offer[a][m].state = "sent"
  BY <1>1, OutIsSent
<1>3. RowsGoOn
  BY <1>1, <1>2, OnlySentEnd DEF WithdrawOffers
<1>4. PICK j \in Job : Go(k, j) /\ j.op = "close" /\ j.s = job[k].s /\ j.kind = job[k].kind /\ j.locks = job[k].locks
  BY NextStatement DEF WithdrawOffers
<1>5. JobFits(j)
  BY <1>4 DEF TypeInv, JobFits, WithdrawOffers, Cascading
<1>6. QED
  BY <1>3, <1>4, <1>5, OneJob

LEMMA EndedIs ==
    ASSUME TypeInv, NEW k \in Workers, EndOverflow(k)
    PROVE  /\ ask' \in [Asks -> Ask]
           /\ \A b \in Asks : /\ ask'[b].session = ask[b].session /\ ask'[b].kind = ask[b].kind
                              /\ ask'[b].asked = ask[b].asked
                              /\ b \notin LiveAsks(job[k].s) => ask'[b] = ask[b]
                              /\ b \in LiveAsks(job[k].s) => ask'[b].outcome = "ended"
<1>1. ask \in [Asks -> Ask]
  BY DEF TypeInv, RowsTyped
<1>2. \A b \in Asks : [ask[b] EXCEPT !.outcome = "ended"] \in Ask
  BY <1>1 DEF Ask
<1>3. \A b \in Asks : /\ ask'[b] = IF b \in LiveAsks(job[k].s) THEN [ask[b] EXCEPT !.outcome = "ended"] ELSE ask[b]
  BY DEF EndOverflow
<1>4. ask' \in [Asks -> Ask]
  BY <1>1, <1>2 DEF EndOverflow
<1>5. \A b \in Asks : /\ [ask[b] EXCEPT !.outcome = "ended"].session = ask[b].session
                      /\ [ask[b] EXCEPT !.outcome = "ended"].kind = ask[b].kind
                      /\ [ask[b] EXCEPT !.outcome = "ended"].asked = ask[b].asked
                      /\ [ask[b] EXCEPT !.outcome = "ended"].outcome = "ended"
  BY <1>1 DEF Ask
<1>6. QED
  BY <1>3, <1>4, <1>5

LEMMA TypeEndOverflow == ASSUME TypeInv, NEW k \in Workers, EndOverflow(k) PROVE TypeInv'
<1>1. /\ ask' \in [Asks -> Ask]
      /\ \A b \in Asks : /\ ask'[b].session = ask[b].session
                         /\ b \notin LiveAsks(job[k].s) => ask'[b] = ask[b]
  BY EndedIs
<1>2. \A b \in Asks : ask[b].session = None => b \notin LiveAsks(job[k].s)
  BY OpenIsThere DEF LiveAsks
<1>3. UNCHANGED <<clock, session, full, reach, offer, faults>> /\ Done(k)
  BY DEF EndOverflow
<1>4. RowsTyped' /\ RowsFit' /\ Stays
  BY <1>1, <1>2, <1>3 DEF TypeInv, RowsTyped, RowsFit, Stays
<1>5. QED
  BY <1>3, <1>4, DoneStep DEF RowsGoOn

LEMMA TypeTickEnds == ASSUME TypeInv, NEW k \in Workers, TickEnds(k) PROVE TypeInv'
<1>1. RowsGoOn
  BY NothingMoves DEF TickEnds
<1>2. PICK s \in Sessions : Go(k, [Idle EXCEPT !.op = "withdraw", !.s = s, !.more = TRUE])
  BY DEF TickEnds
<1>3. PICK j \in Job : j = [Idle EXCEPT !.op = "withdraw", !.s = s, !.more = TRUE]
  BY IdleIsJob DEF Job
<1>4. JobFits(j)
  BY <1>3, Plain DEF Idle
<1>5. QED
  BY <1>1, <1>2, <1>3, <1>4, OneJob

LEMMA RanOutIsSent ==
    \A a \in Asks, m \in Members : <<a, m>> \in RanOut <=>
        offer[a][m].state = "sent" /\ offer[a][m].expires <= clock /\ ~OfferLocked(a, m)
BY DEF RanOut, Overdue, Sent

LEMMA TypeTickExpires == ASSUME TypeInv, NEW k \in Workers, TickExpires(k) PROVE TypeInv'
<1>1. \A a \in Asks, m \in Members : <<a, m>> \in RanOut => offer[a][m].state = "sent"
  BY RanOutIsSent
<1>2. RowsGoOn
  <2>1. PICK ps : ps = RanOut
    OBVIOUS
  <2>2. QED
    BY <1>1, <2>1, OnlySentEnd DEF TickExpires
<1>3. {ask[p[1]].session : p \in RanOut} \subseteq Sessions
  <2> SUFFICES ASSUME NEW p \in RanOut PROVE ask[p[1]].session \in Sessions
    OBVIOUS
  <2>1. PICK a \in Asks, m \in Members : p = <<a, m>>
    BY DEF RanOut
  <2>2. QED
    BY <1>1, <2>1, SentIsThere
<1>4. PICK todo \in SUBSET Sessions : todo = {ask[p[1]].session : p \in RanOut}
  BY <1>3
<1>5. [Idle EXCEPT !.todo = todo] \in Job
  BY IdleIsJob DEF Job
<1>6. PICK j \in Job : j = After([Idle EXCEPT !.todo = todo]) /\ JobFits(j)
  BY <1>5, AfterFits
<1>7. Go(k, j)
  BY <1>4, <1>6 DEF TickExpires
<1>8. QED
  BY <1>2, <1>6, <1>7, OneJob

LEMMA TypeCrash == ASSUME TypeInv, NEW k \in Workers, Crash(k) PROVE TypeInv'
<1>1. faults' \in 0..MaxFaults
  BY OverflowAssumption DEF Crash, TypeInv, RowsTyped
<1>2. RowsGoOn
  BY <1>1, SameRows DEF Crash, TypeInv, RowsTyped
<1>3. QED
  BY <1>2, IdleIsJob, IdleFits, OneJob DEF Crash

LEMMA TypeWork == ASSUME TypeInv, NEW k \in Workers, Work(k) PROVE TypeInv'
BY TypeAskCoach, TypeAskNext, TypeAnswerNo, TypeStartCascade, TypeRunningAsk, TypeChooseKind, TypeRereadAsk,
   TypeLockAsk, TypeOfferToNextMember, TypeSendOffer, TypeMarkUnsent, TypeTellExhausted, TypeTakeLock,
   TypeAcceptOffer, TypeWithdrawOffers, TypeEndOverflow DEF Work

LEMMA TypeRequest == ASSUME TypeInv, NEW k \in Workers, Request(k) PROVE TypeInv'
BY TypeCheckOverflow, TypeAskMyRoster, TypeCancelSession, TypeAnswerAsk, TypeDeclineOffer, TypeBeginAccept
   DEF Request

LEMMA TypeStep == TypeInv /\ [Next]_vars => TypeInv'
<1> SUFFICES ASSUME TypeInv, [Next]_vars PROVE TypeInv'
  OBVIOUS
<1>1. CASE Next
  BY <1>1, TypeTick, TypeRosterOptIn, TypeRequest, TypeTickEnds, TypeTickExpires, TypeWork, TypeCrash DEF Next
<1>2. CASE UNCHANGED vars
  BY <1>2, NothingMoves, JobsKept DEF vars
<1>3. QED
  BY <1>1, <1>2

(* Questions, offers and sessions are rows the code can write, however the *)
(* handlers are interleaved and wherever they die, and a handler holds     *)
(* locks only inside the transactions of offerToNextMember and acceptOffer.*)
THEOREM Typing == Spec => []TypeOK
<1>1. TypeInv => TypeOK
  BY DEF TypeInv, RowsTyped, TypeOK, JobFits
<1>2. QED
  BY <1>1, TypeInit, TypeStep, PTL DEF Spec


----------------------------------------------------------------------------
(* Nothing is offered before a kind is chosen, nor after the coach's no.   *)
NoOffersYet ==
    \A a \in Asks : ask[a].kind = "none" \/ ask[a].outcome = "declined" =>
        \A m \in Members : offer[a][m] = NoOffer

AskedOnce ==
    \A a, b \in Asks : ask[a].asked /\ ask[b].asked /\ ask[a].session = ask[b].session => a = b

LiveOnce ==
    \A a, b \in Asks :
        ask[a].outcome = "open" /\ ask[b].outcome = "open" /\ ask[a].session = ask[b].session => a = b

OneOut ==
    \A a \in Asks, m, n \in Members :
        offer[a][m].state = "sent" /\ offer[a][n].state = "sent" => m = n

OutOpen ==
    \A a \in Asks, m \in Members : offer[a][m].state = "sent" =>
        ask[a].outcome = "open" \/ ~SessionOpen(ask[a].session)

TakenBefore(s) ==
    /\ \A a, b \in Asks, m, n \in Members :
          ask[a].session = s /\ offer[a][m].state = "accepted"
          /\ ask[b].session = s /\ offer[b][n].state = "accepted" => a = b /\ m = n
    /\ session[s].extra = IF HasAccepted(s) THEN 1 ELSE 0

RowsInv == /\ NoOffersYet /\ AskedOnce /\ LiveOnce
           /\ OneOut /\ OutOpen
           /\ \A s \in Sessions : TakenBefore(s)

(* A cascade's ask keeps its kind, what is locked stays what it was, and a *)
(* session being ended is over.                                            *)
Going(j) == Cascading(j) => ask[j.a].kind # "none" /\ ask[j.a].outcome # "declined"

Held(j) ==
    /\ "offer" \in j.locks => offer[j.a][j.m].state = "sent"
    /\ j.op = "offering" => ask[j.a].outcome = "open"
    /\ j.op \in {"withdraw", "close"} => ~SessionOpen(j.s)

OneHolder ==
    \A k, l \in Workers :
        "ask" \in job[k].locks /\ "ask" \in job[l].locks /\ job[k].a = job[l].a => k = l

JobsInv == OneHolder /\ \A k \in Workers : Going(job[k]) /\ Held(job[k])

(* The rows that are there keep what the invariants are about. *)
AskKeeps ==
    \A a \in Asks :
        /\ ask'[a].session = ask[a].session /\ ask'[a].asked = ask[a].asked
        /\ ask[a].kind # "none" => ask'[a].kind # "none"
        /\ ask'[a].outcome = "open" => ask[a].outcome = "open"
        /\ ask'[a].outcome = "declined" =>
              ask[a].outcome = "declined" \/ (ask[a].kind = "none" /\ ask'[a].kind = "none")

OnlyEnds ==
    \A a \in Asks, m \in Members :
        offer'[a][m] = offer[a][m] \/ (offer[a][m].state = "sent" /\ offer'[a][m].state = "over")

NothingReopens == \A s \in Sessions : SessionOpen(s)' => SessionOpen(s)

SameJobsTaken == \A s \in Sessions : session'[s].extra = session[s].extra

(* An ask that an offer of an open session is out of stays open. *)
StaysOpen ==
    \A a \in Asks, m \in Members :
        offer'[a][m].state = "sent" /\ ask[a].outcome = "open" /\ ask'[a].outcome # "open" =>
            ~SessionOpen(ask[a].session)

LEMMA SameAsks == ASSUME UNCHANGED ask PROVE AskKeeps /\ StaysOpen
BY DEF AskKeeps, StaysOpen

LEMMA SameOffers == ASSUME UNCHANGED offer PROVE OnlyEnds
BY DEF OnlyEnds

LEMMA SameSessions ==
    ASSUME UNCHANGED <<clock, session>>
    PROVE  NothingReopens /\ SameJobsTaken /\ \A s \in Sessions : SessionOpen(s)' <=> SessionOpen(s)
BY DEF NothingReopens, SameJobsTaken, SessionOpen

LEMMA StillSent ==
    ASSUME TypeInv, OnlyEnds, NEW a \in Asks, NEW m \in Members,
           offer'[a][m].state \in {"sent", "accepted"}
    PROVE  offer[a][m].state = offer'[a][m].state /\ ask[a].session \in Sessions
<1>1. offer'[a][m] = offer[a][m]
  BY DEF OnlyEnds
<1>2. QED
  BY <1>1, SentIsThere

(* The rows after a step that ends offers and closes asks only. *)
LEMMA RowsStay ==
    ASSUME TypeInv, RowsInv, AskKeeps, OnlyEnds, NothingReopens, SameJobsTaken, StaysOpen
    PROVE  RowsInv'
<1>1. NoOffersYet'
  BY DEF RowsInv, NoOffersYet, AskKeeps, OnlyEnds, NoOffer
<1>2. AskedOnce' /\ LiveOnce'
  BY DEF RowsInv, AskedOnce, LiveOnce, AskKeeps
<1>3. OneOut'
  BY StillSent DEF RowsInv, OneOut
<1>4. OutOpen'
  <2> SUFFICES ASSUME NEW a \in Asks, NEW m \in Members, offer'[a][m].state = "sent", ask'[a].outcome # "open"
               PROVE  ~SessionOpen(ask[a].session)'
    BY DEF OutOpen, AskKeeps, SessionOpen
  <2>1. offer[a][m].state = "sent" /\ ask[a].session \in Sessions
    BY StillSent
  <2>2. ~SessionOpen(ask[a].session)
    BY <2>1 DEF RowsInv, OutOpen, StaysOpen
  <2>3. PICK s \in Sessions : s = ask[a].session
    BY <2>1
  <2>4. ask'[a].session = s
    BY <2>3 DEF AskKeeps
  <2>5. ~SessionOpen(s)'
    BY <2>2, <2>3 DEF NothingReopens
  <2>6. QED
    BY <2>4, <2>5, <2>3 DEF SessionOpen
<1>5. ASSUME NEW s \in Sessions PROVE TakenBefore(s)'
  <2>1. \A a \in Asks, m \in Members :
           ask'[a].session = s /\ offer'[a][m].state = "accepted" <=>
           ask[a].session = s /\ offer[a][m].state = "accepted"
    BY DEF AskKeeps, OnlyEnds
  <2>2. HasAccepted(s)' <=> HasAccepted(s)
    BY <2>1 DEF HasAccepted
  <2>3. TakenBefore(s) /\ session'[s].extra = session[s].extra
    BY DEF RowsInv, SameJobsTaken
  <2>4. QED
    BY <2>1, <2>2, <2>3 DEF TakenBefore
<1>6. QED
  BY <1>1, <1>2, <1>3, <1>4, <1>5 DEF RowsInv

(* A handler that goes on to a statement outside any transaction. *)
Free(j) == /\ j \in Job /\ j.locks = {} /\ j.op # "offering"
           /\ Going(j)
           /\ j.op \in {"withdraw", "close"} => j.s \in Sessions /\ ~SessionOpen(j.s)

(* What the others have locked stays as it is. *)
OthersKept(k) ==
    \A l \in Workers \ {k} :
        /\ "offer" \in job[l].locks => offer'[job[l].a][job[l].m].state = "sent"
        /\ job[l].op = "offering" => ask'[job[l].a].outcome = "open"

(* Chosen kinds stay chosen, and no late no ends a cascade. *)
GoingKeeps ==
    \A a \in Asks : ask[a].kind # "none" =>
        ask'[a].kind # "none" /\ (ask'[a].outcome = "declined" => ask[a].outcome = "declined")

LEMMA KeepsGoing == ASSUME AskKeeps PROVE GoingKeeps
BY DEF AskKeeps, GoingKeeps

LEMMA IdleIsFree == Free(Idle)
BY IdleIsJob DEF Free, Going, Idle, Cascading

LEMMA AfterIsFree == ASSUME NEW j \in Job PROVE Free(After(j))
BY AfterIs, AfterFits DEF Free, Going

LEMMA GoingGoesOn ==
    ASSUME GoingKeeps, NEW j, JobFits(j), Going(j)
    PROVE  Going(j)'
<1> SUFFICES ASSUME Cascading(j) PROVE ask'[j.a].kind # "none" /\ ask'[j.a].outcome # "declined"
  BY DEF Going, Cascading
<1>1. j.a \in Asks
  BY DEF JobFits
<1>2. QED
  BY <1>1 DEF Going, GoingKeeps

LEMMA FreeGoesOn ==
    ASSUME GoingKeeps, NothingReopens, NEW j, Free(j), JobFits(j)
    PROVE  Going(j)' /\ Held(j)'
<1>1. Held(j)'
  BY DEF Free, Held, NothingReopens, SessionOpen
<1>2. QED
  BY <1>1, GoingGoesOn DEF Free

LEMMA OtherGoesOn ==
    ASSUME TypeInv, JobsInv, GoingKeeps, NothingReopens,
           NEW k \in Workers, OthersKept(k), NEW l \in Workers, l # k, NEW j, j = job[l]
    PROVE  Going(j)' /\ Held(j)'
<1>1. JobFits(j) /\ Going(j) /\ Held(j)
  BY DEF TypeInv, JobsInv
<1>2. "offer" \in j.locks => offer'[j.a][j.m].state = "sent"
  BY DEF OthersKept
<1>3. j.op = "offering" => ask'[j.a].outcome = "open"
  BY DEF OthersKept
<1>4. ASSUME j.op \in {"withdraw", "close"} PROVE ~SessionOpen(j.s)'
  <2>1. j.s \in Sessions /\ ~SessionOpen(j.s)
    BY <1>1, <1>4 DEF JobFits, Held
  <2>2. QED
    BY <2>1 DEF NothingReopens
<1>5. Held(j)'
  BY <1>2, <1>3, <1>4 DEF Held, SessionOpen
<1>6. QED
  BY <1>1, <1>5, GoingGoesOn

(* A handler that goes on outside any transaction. *)
LEMMA JobsStep ==
    ASSUME TypeInv, JobsInv, GoingKeeps, NothingReopens, NEW k \in Workers, OthersKept(k),
           NEW j \in Job, Go(k, j), j.locks = {}, Going(j)', Held(j)'
    PROVE  JobsInv'
<1>1. job' \in [Workers -> Job] /\ \A l \in Workers : job'[l] = IF l = k THEN j ELSE job[l]
  BY Jobs DEF TypeInv
<1>2. OneHolder'
  BY <1>1 DEF JobsInv, OneHolder
<1>3. \A l \in Workers : (Going(job[l]) /\ Held(job[l]))'
  <2> TAKE l \in Workers
  <2>1. CASE l = k
    BY <1>1, <2>1 DEF Going, Held
  <2>2. CASE l # k
    <3>1. PICK i : i = job[l]
      OBVIOUS
    <3>2. Going(i)' /\ Held(i)'
      BY <2>2, <3>1, OtherGoesOn
    <3>3. job'[l] = i
      BY <1>1, <2>2, <3>1
    <3>4. QED
      BY <3>2, <3>3 DEF Going, Held
  <2>3. QED
    BY <2>1, <2>2
<1>4. QED
  BY <1>2, <1>3 DEF JobsInv

LEMMA FreeStep ==
    ASSUME TypeInv, JobsInv, GoingKeeps, NothingReopens, NEW k \in Workers, OthersKept(k),
           NEW j \in Job, Go(k, j), Free(j), JobFits(j)
    PROVE  JobsInv'
BY FreeGoesOn, JobsStep DEF Free

LEMMA DoneFree ==
    ASSUME TypeInv, JobsInv, GoingKeeps, NothingReopens, NEW k \in Workers, OthersKept(k), Done(k)
    PROVE  JobsInv'
<1>1. job[k] \in Job
  BY DEF TypeInv
<1>2. PICK j \in Job : j = After(job[k]) /\ JobFits(j) /\ Free(j)
  BY <1>1, AfterFits, AfterIsFree
<1>3. QED
  BY <1>2, FreeStep DEF Done

LEMMA IdleFree ==
    ASSUME TypeInv, JobsInv, GoingKeeps, NothingReopens, NEW k \in Workers, OthersKept(k), Go(k, Idle)
    PROVE  JobsInv'
BY IdleIsJob, IdleIsFree, IdleFits, FreeStep


CascadeInv == RowsInv /\ JobsInv

LEMMA CascadeInit == Init => CascadeInv
<1> SUFFICES ASSUME Init PROVE CascadeInv
  OBVIOUS
<1>1. /\ \A a \in Asks : ask[a] = NoAsk /\ \A m \in Members : offer[a][m] = NoOffer
      /\ \A s \in Sessions : session[s].extra = 0
      /\ \A k \in Workers : job[k] = Idle
  BY DEF Init
<1>2. NoOffersYet /\ AskedOnce /\ LiveOnce /\ OneOut /\ OutOpen
  BY <1>1 DEF NoOffersYet, AskedOnce, LiveOnce, OneOut, OutOpen, NoAsk, NoOffer
<1>3. \A s \in Sessions : TakenBefore(s)
  BY <1>1 DEF TakenBefore, HasAccepted, NoOffer
<1>4. JobsInv
  BY <1>1 DEF JobsInv, OneHolder, Going, Held, Cascading, Idle
<1>5. QED
  BY <1>2, <1>3, <1>4 DEF CascadeInv, RowsInv

(* A step that changes neither asks, offers nor sessions. *)
LEMMA Quiet ==
    ASSUME TypeInv, CascadeInv, UNCHANGED <<ask, offer>>, NothingReopens, SameJobsTaken
    PROVE  RowsInv' /\ GoingKeeps /\ \A k \in Workers : OthersKept(k)
<1>1. RowsInv'
  BY RowsStay, SameAsks, SameOffers DEF CascadeInv
<1>2. \A k \in Workers : OthersKept(k)
  BY DEF OthersKept, CascadeInv, JobsInv, Held
<1>3. QED
  BY <1>1, <1>2, SameAsks, KeepsGoing

LEMMA QuietFree ==
    ASSUME TypeInv, CascadeInv, UNCHANGED <<clock, session, ask, offer>>,
           NEW k \in Workers, NEW j \in Job, Go(k, j), Free(j), JobFits(j)
    PROVE  CascadeInv'
BY Quiet, SameSessions, FreeStep DEF CascadeInv

LEMMA QuietDone ==
    ASSUME TypeInv, CascadeInv, UNCHANGED <<clock, session, ask, offer>>, NEW k \in Workers, Done(k)
    PROVE  CascadeInv'
BY Quiet, SameSessions, DoneFree DEF CascadeInv

LEMMA QuietIdle ==
    ASSUME TypeInv, CascadeInv, UNCHANGED <<clock, session, ask, offer>>, NEW k \in Workers, Go(k, Idle)
    PROVE  CascadeInv'
BY Quiet, SameSessions, IdleFree DEF CascadeInv

(* Nobody's work moves. *)
LEMMA QuietJobs ==
    ASSUME TypeInv, CascadeInv, UNCHANGED <<ask, offer, job>>, NothingReopens, SameJobsTaken
    PROVE  CascadeInv'
<1>1. RowsInv'
  BY Quiet
<1>2. OneHolder'
  BY DEF CascadeInv, JobsInv, OneHolder
<1>3. \A l \in Workers : (Going(job[l]) /\ Held(job[l]))'
  <2> TAKE l \in Workers
  <2>1. JobFits(job[l]) /\ Going(job[l]) /\ Held(job[l])
    BY DEF TypeInv, CascadeInv, JobsInv
  <2>2. Going(job[l])'
    BY <2>1 DEF Going, Cascading
  <2>3. job[l].op \in {"withdraw", "close"} => ~SessionOpen(job[l].s)'
    BY <2>1 DEF JobFits, Held, NothingReopens
  <2>4. QED
    BY <2>1, <2>2, <2>3 DEF Held, SessionOpen
<1>4. QED
  BY <1>1, <1>2, <1>3 DEF CascadeInv, JobsInv

LEMMA InvTick == ASSUME TypeInv, CascadeInv, Tick PROVE CascadeInv'
<1>1. clock \in Nat /\ clock' = clock + 1 /\ UNCHANGED session
  BY OverflowAssumption DEF Tick, TypeInv, RowsTyped
<1>2. \A s \in Sessions : Starts[s] \in Nat
  BY OverflowAssumption
<1>3. NothingReopens /\ SameJobsTaken
  BY <1>1, <1>2 DEF NothingReopens, SameJobsTaken, SessionOpen
<1>4. QED
  BY <1>3, QuietJobs DEF Tick

LEMMA InvRosterOptIn == ASSUME TypeInv, CascadeInv, NEW m \in Members, RosterOptIn(m) PROVE CascadeInv'
BY SameSessions, QuietJobs DEF RosterOptIn

(* A handler that begins, or goes on, where no ask is named. *)
LEMMA PlainFree ==
    ASSUME NEW j \in Job,
           j.op \in {"idle", "ask", "next", "start", "running", "reread", "withdraw", "close", "answer", "choose"},
           j.locks = {}, j.op \in {"withdraw", "close"} => j.s \in Sessions /\ ~SessionOpen(j.s)
    PROVE  Free(j)
BY DEF Free, Going, Cascading

LEMMA InvCheckOverflow ==
    ASSUME TypeInv, CascadeInv, NEW k \in Workers, NEW s \in Sessions, CheckOverflow(k, s)
    PROVE  CascadeInv'
<1>1. CASE UNCHANGED job
  BY <1>1, SameSessions, QuietJobs DEF CheckOverflow
<1>2. CASE Go(k, [Idle EXCEPT !.op = "ask", !.s = s])
  <2>1. PICK j \in Job : j = [Idle EXCEPT !.op = "ask", !.s = s]
    BY IdleIsJob DEF Job
  <2>2. JobFits(j) /\ Free(j)
    BY <2>1, Plain, PlainFree DEF Idle
  <2>3. QED
    BY <1>2, <2>1, <2>2, QuietFree DEF CheckOverflow
<1>3. QED
  BY <1>1, <1>2 DEF CheckOverflow

LEMMA InvAskNext ==
    ASSUME TypeInv, CascadeInv, NEW k \in Workers, AskAboutNextFullSession(k)
    PROVE  CascadeInv'
<1>1. CASE Done(k)
  BY <1>1, QuietDone DEF AskAboutNextFullSession
<1>2. ASSUME NEW s \in full, Go(k, [job[k] EXCEPT !.op = "ask", !.s = s])
      PROVE  CascadeInv'
  <2>1. job[k] \in Job /\ s \in Sessions /\ job[k].op = "next" /\ JobFits(job[k])
    BY <1>2 DEF AskAboutNextFullSession, TypeInv, RowsTyped
  <2>2. PICK j \in Job : j = [job[k] EXCEPT !.op = "ask", !.s = s]
    BY <2>1 DEF Job
  <2>3. JobFits(j) /\ j.op = "ask" /\ j.locks = {}
    BY <2>1, <2>2 DEF JobFits, Cascading, Job
  <2>4. Free(j)
    BY <2>3, PlainFree
  <2>5. QED
    BY <1>2, <2>2, <2>3, <2>4, QuietFree DEF AskAboutNextFullSession
<1>3. QED
  BY <1>1, <1>2 DEF AskAboutNextFullSession

LEMMA InvAnswerAsk ==
    ASSUME TypeInv, CascadeInv, NEW k \in Workers, NEW answer \in Kinds \cup {"no"}, AnswerAsk(k, answer)
    PROVE  CascadeInv'
<1>2. PICK a \in OpenAsks : Go(k, [Idle EXCEPT !.op = IF answer = "no" THEN "answer" ELSE "start",
                               !.s = ask[a].session, !.kind = answer, !.more = TRUE,
                               !.a = IF answer = "no" THEN a ELSE None])
  BY DEF AnswerAsk
<1>3. a \in Asks /\ ask[a].session \in Sessions
  BY OpenIsThere DEF OpenAsks, Unanswered
<1>4. PICK j \in Job : j = [Idle EXCEPT !.op = IF answer = "no" THEN "answer" ELSE "start",
                               !.s = ask[a].session, !.kind = answer, !.more = TRUE,
                               !.a = IF answer = "no" THEN a ELSE None]
  BY <1>3, IdleIsJob DEF Job
<1>5. JobFits(j)
  BY <1>3, <1>4 DEF JobFits, Cascading, Idle
<1>6. Free(j)
  BY <1>4, PlainFree DEF Idle
<1>7. QED
  BY <1>2, <1>4, <1>5, <1>6, QuietFree DEF AnswerAsk

LEMMA InvAskMyRoster ==
    ASSUME TypeInv, CascadeInv, NEW k \in Workers, NEW s \in Sessions, AskMyRoster(k, s)
    PROVE  CascadeInv'
<1>1. PICK j \in Job : j = [Idle EXCEPT !.op = "start", !.s = s, !.kind = "backup"]
  BY IdleIsJob DEF Job, Kinds
<1>2. JobFits(j) /\ Free(j)
  BY <1>1, Plain, PlainFree DEF Idle
<1>3. QED
  BY <1>1, <1>2, QuietFree DEF AskMyRoster

LEMMA InvStartCascade == ASSUME TypeInv, CascadeInv, NEW k \in Workers, StartCascade(k) PROVE CascadeInv'
<1>1. CASE Done(k)
  BY <1>1, QuietDone DEF StartCascade
<1>2. ASSUME NEW op \in {"withdraw", "running"}, Step(k, op), op = "withdraw" => ~SessionOpen(job[k].s)
      PROVE  CascadeInv'
  <2>1. PICK j \in Job : Go(k, j) /\ j.op = op /\ j.s = job[k].s /\ j.kind = job[k].kind /\ j.locks = job[k].locks
    BY <1>2, NextStatement
  <2>2. job[k].s \in Sessions /\ job[k].locks = {} /\ job[k].kind # "no"
    BY DEF TypeInv, JobFits, StartCascade
  <2>3. JobFits(j) /\ Free(j)
    BY <1>2, <2>1, <2>2, Plain, PlainFree
  <2>4. QED
    BY <2>1, <2>3, QuietFree DEF StartCascade
<1>3. QED
  BY <1>1, <1>2 DEF StartCascade

(* A cascade that goes on with an ask whose kind was chosen. *)
LEMMA OfferJob ==
    ASSUME NEW i \in Job, i.locks = {}, NEW a \in Asks, ask[a].session \in Sessions,
           ask[a].kind # "none", ask[a].outcome = "open"
    PROVE  \E j \in Job : /\ j = [i EXCEPT !.op = "offer", !.a = a, !.kind = "none"]
                          /\ JobFits(j) /\ Free(j)
<1>1. PICK j \in Job : j = [i EXCEPT !.op = "offer", !.a = a, !.kind = "none"]
  BY DEF Job
<1>2. j.op = "offer" /\ j.a = a /\ j.locks = {}
  BY <1>1 DEF Job
<1>3. JobFits(j)
  BY <1>2 DEF JobFits
<1>4. Free(j)
  BY <1>2 DEF Free, Going
<1>5. QED
  BY <1>1, <1>3, <1>4

LEMMA InvRunningAsk == ASSUME TypeInv, CascadeInv, NEW k \in Workers, RunningAsk(k) PROVE CascadeInv'
<1>1. job[k] \in Job /\ job[k].s \in Sessions /\ job[k].kind # "no" /\ job[k].locks = {}
  BY DEF TypeInv, JobFits, RunningAsk
<1>2. CASE Done(k)
  BY <1>2, QuietDone DEF RunningAsk
<1>3. ASSUME NEW a \in LiveAsks(job[k].s), ask[a].kind # "none",
             Go(k, [job[k] EXCEPT !.op = "offer", !.a = a, !.kind = "none"])
      PROVE  CascadeInv'
  <2>1. a \in Asks /\ ask[a].session = job[k].s /\ ask[a].outcome = "open"
    BY <1>3 DEF LiveAsks
  <2>2. PICK j \in Job : /\ j = [job[k] EXCEPT !.op = "offer", !.a = a, !.kind = "none"]
                         /\ JobFits(j) /\ Free(j)
    BY <1>1, <1>3, <2>1, OfferJob
  <2>3. QED
    BY <1>3, <2>2, QuietFree DEF RunningAsk
<1>4. ASSUME job[k].kind # "none", NEW a \in LiveAsks(job[k].s) \cup {None},
             Go(k, [job[k] EXCEPT !.op = "choose", !.a = a])
      PROVE  CascadeInv'
  <2> a = None \/ (a \in Asks /\ ask[a].session = job[k].s)
    BY DEF LiveAsks
  <2>1. PICK j \in Job : j = [job[k] EXCEPT !.op = "choose", !.a = a]
    BY <1>1, <1>4 DEF Job
  <2>2. JobFits(j) /\ j.op = "choose" /\ j.locks = {}
    BY <1>1, <1>4, <2>1 DEF JobFits, Job, Cascading
  <2>3. Free(j)
    BY <2>2, PlainFree
  <2>4. QED
    BY <1>4, <2>1, <2>2, <2>3, QuietFree DEF RunningAsk
<1>5. (IF LiveAsks(job[k].s) = {} THEN None ELSE CHOOSE a \in LiveAsks(job[k].s) : TRUE) \in LiveAsks(job[k].s) \cup {None}
  OBVIOUS
<1>6. QED
  BY <1>2, <1>3, <1>4, <1>5 DEF RunningAsk

LEMMA InvSendOffer == ASSUME TypeInv, CascadeInv, NEW k \in Workers, SendOffer(k) PROVE CascadeInv'
<1>1. CASE Done(k)
  BY <1>1, QuietDone DEF SendOffer
<1>2. CASE Step(k, "unsent")
  <2>1. PICK j \in Job : Go(k, j) /\ j.op = "unsent" /\ j.a = job[k].a /\ j.m = job[k].m /\ j.locks = job[k].locks
    BY <1>2, NextStatement
  <2>2. JobFits(job[k]) /\ job[k].op = "send" /\ Going(job[k])
    BY DEF TypeInv, SendOffer, CascadeInv, JobsInv
  <2>3. JobFits(j) /\ Free(j)
    BY <2>1, <2>2 DEF JobFits, Cascading, Free, Going
  <2>4. QED
    BY <2>1, <2>3, QuietFree DEF SendOffer
<1>3. QED
  BY <1>1, <1>2 DEF SendOffer

LEMMA InvBeginAccept ==
    ASSUME TypeInv, CascadeInv, NEW k \in Workers, NEW a \in Asks, NEW m \in Members, BeginAccept(k, a, m)
    PROVE  CascadeInv'
<1>1. ask[a].session \in Sessions
  BY SentIsThere DEF BeginAccept
<1>2. clock \in Int
  BY OverflowAssumption DEF TypeInv, RowsTyped
<1>3. PICK j \in Job : j = [Idle EXCEPT !.op = "accept", !.s = ask[a].session, !.a = a, !.m = m, !.at = clock]
  BY <1>1, <1>2, IdleIsJob DEF Job
<1>4. JobFits(j) /\ j.op = "accept" /\ j.a = a /\ j.locks = {}
  BY <1>1, <1>3 DEF Idle, JobFits, Cascading
<1>5. ask[a].kind # "none" /\ ask[a].outcome # "declined"
  BY DEF BeginAccept, CascadeInv, RowsInv, NoOffersYet, NoOffer
<1>6. Free(j)
  BY <1>4, <1>5 DEF Free, Going
<1>7. QED
  BY <1>3, <1>4, <1>6, QuietFree DEF BeginAccept

LEMMA InvTickEnds == ASSUME TypeInv, CascadeInv, NEW k \in Workers, TickEnds(k) PROVE CascadeInv'
<1>1. PICK s \in Sessions : ~SessionOpen(s) /\ Go(k, [Idle EXCEPT !.op = "withdraw", !.s = s, !.more = TRUE])
  BY DEF TickEnds, OverNow
<1>2. PICK j \in Job : j = [Idle EXCEPT !.op = "withdraw", !.s = s, !.more = TRUE]
  BY IdleIsJob DEF Job
<1>3. JobFits(j) /\ Free(j)
  BY <1>1, <1>2, Plain, PlainFree DEF Idle
<1>4. QED
  BY <1>1, <1>2, <1>3, QuietFree DEF TickEnds

LEMMA InvCrash == ASSUME TypeInv, CascadeInv, NEW k \in Workers, Crash(k) PROVE CascadeInv'
BY QuietIdle DEF Crash


(* A handler that takes a row's lock. *)
LEMMA LockStep ==
    ASSUME TypeInv, CascadeInv, UNCHANGED <<clock, session, ask, offer>>,
           NEW k \in Workers, NEW j \in Job, Go(k, j), JobFits(j), Going(j), Held(j), Cascading(j),
           \A l \in Workers : l # k => ~("ask" \in job[l].locks /\ job[l].a = j.a)
    PROVE  CascadeInv'
<1>1. job' \in [Workers -> Job] /\ \A l \in Workers : job'[l] = IF l = k THEN j ELSE job[l]
  BY Jobs DEF TypeInv
<1>2. RowsInv' /\ GoingKeeps /\ NothingReopens /\ OthersKept(k)
  BY Quiet, SameSessions
<1>3. OneHolder'
  BY <1>1 DEF CascadeInv, JobsInv, OneHolder
<1>4. \A l \in Workers : (Going(job[l]) /\ Held(job[l]))'
  <2> TAKE l \in Workers
  <2>1. CASE l = k
    <3>1. Going(j)'
      BY <1>2, GoingGoesOn
    <3>2. Held(j)'
      BY DEF Held, Cascading
    <3>3. QED
      BY <1>1, <2>1, <3>1, <3>2 DEF Going, Held
  <2>2. CASE l # k
    <3>1. PICK i : i = job[l]
      OBVIOUS
    <3>2. Going(i)' /\ Held(i)'
      BY <1>2, <2>2, <3>1, OtherGoesOn DEF CascadeInv
    <3>3. job'[l] = i
      BY <1>1, <2>2, <3>1
    <3>4. QED
      BY <3>2, <3>3 DEF Going, Held
  <2>3. QED
    BY <2>1, <2>2
<1>5. QED
  BY <1>2, <1>3, <1>4 DEF CascadeInv, JobsInv

LEMMA InvLockAsk == ASSUME TypeInv, CascadeInv, NEW k \in Workers, LockAsk(k) PROVE CascadeInv'
<1>1. CASE Done(k)
  BY <1>1, QuietDone DEF LockAsk
<1>2. CASE ask[job[k].a].outcome = "open" /\ Go(k, [job[k] EXCEPT !.op = "offering", !.locks = {"ask"}])
  <2>1. job[k] \in Job /\ JobFits(job[k]) /\ job[k].op = "offer" /\ Going(job[k])
    BY DEF TypeInv, LockAsk, CascadeInv, JobsInv
  <2>2. PICK j \in Job : j = [job[k] EXCEPT !.op = "offering", !.locks = {"ask"}]
    BY <2>1 DEF Job
  <2>3. j.op = "offering" /\ j.locks = {"ask"} /\ j.a = job[k].a
    BY <2>1, <2>2 DEF Job
  <2>4. JobFits(j) /\ Cascading(j)
    BY <2>1, <2>2 DEF JobFits, Job, Cascading
  <2>5. Going(j) /\ Held(j)
    BY <1>2, <2>1, <2>3 DEF Going, Held, Cascading
  <2>6. \A l \in Workers : l # k => ~("ask" \in job[l].locks /\ job[l].a = j.a)
    BY <2>1, <2>3 DEF LockAsk, Blocked, WaitsFor, HasLock
  <2>7. QED
    BY <1>2, <2>2, <2>4, <2>5, <2>6, LockStep DEF LockAsk
<1>3. QED
  BY <1>1, <1>2 DEF LockAsk

LEMMA InvTakeLock == ASSUME TypeInv, CascadeInv, NEW k \in Workers, TakeLock(k) PROVE CascadeInv'
<1>1. CASE Go(k, Idle)
  BY <1>1, QuietIdle DEF TakeLock
<1>2. CASE /\ NextLock(job[k]) = "offer" => Claimable(job[k])
           /\ Go(k, [job[k] EXCEPT !.locks = @ \cup {NextLock(job[k])}])
  <2>1. /\ job[k] \in Job /\ JobFits(job[k]) /\ job[k].op = "accept" /\ Cardinality(job[k].locks) < 2
        /\ Going(job[k])
    BY DEF TypeInv, TakeLock, CascadeInv, JobsInv
  <2>2. \/ job[k].locks = {} /\ NextLock(job[k]) = "ask"
        \/ job[k].locks = {"ask"} /\ NextLock(job[k]) = "offer"
    BY <2>1, LockNext DEF JobFits
  <2>3. PICK locks \in {{"ask"}, {"ask", "offer"}} : locks = job[k].locks \cup {NextLock(job[k])}
    BY <2>2
  <2>4. PICK j \in Job : j = [job[k] EXCEPT !.locks = locks]
    BY <2>1, <2>3 DEF Job
  <2>5. j.op = "accept" /\ j.locks = locks /\ j.a = job[k].a /\ j.m = job[k].m
    BY <2>1, <2>4 DEF Job
  <2>6. JobFits(j) /\ Cascading(j)
    BY <2>1, <2>3, <2>4 DEF JobFits, Job, Cascading
  <2>7. Going(j)
    BY <2>1, <2>5 DEF Going, Cascading
  <2>8. Held(j)
    <3>1. CASE NextLock(job[k]) = "ask"
      BY <2>2, <2>3, <2>5, <3>1 DEF Held
    <3>2. CASE NextLock(job[k]) = "offer"
      BY <1>2, <2>5, <3>2 DEF Held, Claimable
    <3>3. QED
      BY <2>2, <3>1, <3>2
  <2>9. ASSUME NEW l \in Workers, l # k, "ask" \in job[l].locks, job[l].a = j.a PROVE FALSE
    <3>1. CASE NextLock(job[k]) = "ask"
      <4>1. HasLock(l, NextLock(job[k]), job[k].a)
        BY <2>5, <2>9, <3>1 DEF HasLock
      <4>2. WaitsFor(k, l)
        BY <2>1, <2>9, <3>1, <4>1 DEF WaitsFor
      <4>3. QED
        BY <4>2 DEF TakeLock, Blocked
    <3>2. CASE job[k].locks = {"ask"}
      BY <2>5, <2>9, <3>2 DEF CascadeInv, JobsInv, OneHolder
    <3>3. QED
      BY <2>2, <3>1, <3>2
  <2>10. Go(k, j)
    BY <1>2, <2>3, <2>4
  <2>11. QED
    BY <2>6, <2>7, <2>8, <2>9, <2>10, LockStep DEF TakeLock
<1>3. QED
  BY <1>1, <1>2 DEF TakeLock

LEMMA InvCancelSession ==
    ASSUME TypeInv, CascadeInv, NEW k \in Workers, NEW s \in Sessions, CancelSession(k, s)
    PROVE  CascadeInv'
<1>1. PICK now : now = [session EXCEPT ![s].cancelled = TRUE]
  OBVIOUS
<1>2. /\ \A r \in Sessions : now[r].extra = session[r].extra /\ (session[r].cancelled => now[r].cancelled)
      /\ now[s].cancelled
  BY <1>1 DEF TypeInv, RowsTyped
<1>3. session' = now /\ clock' = clock
  BY <1>1 DEF CancelSession
<1>4. NothingReopens /\ SameJobsTaken /\ ~SessionOpen(s)'
  BY <1>2, <1>3 DEF NothingReopens, SameJobsTaken, SessionOpen
<1>5. RowsInv' /\ GoingKeeps /\ OthersKept(k)
  BY <1>4, Quiet DEF CancelSession
<1>6. PICK j \in Job : j = [Idle EXCEPT !.op = "withdraw", !.s = s]
  BY IdleIsJob DEF Job
<1>7. j.op = "withdraw" /\ j.s = s /\ j.locks = {}
  BY <1>6 DEF Idle
<1>8. Going(j)' /\ Held(j)'
  BY <1>4, <1>7 DEF Going, Held, Cascading, SessionOpen
<1>9. QED
  BY <1>4, <1>5, <1>6, <1>7, <1>8, JobsStep DEF CancelSession, CascadeInv

----------------------------------------------------------------------------
(* A step that changes asks and no offer. *)
LEMMA AsksMove ==
    ASSUME TypeInv, CascadeInv, UNCHANGED <<clock, session, offer>>, AskKeeps, StaysOpen, NEW k \in Workers,
           \A l \in Workers : l # k /\ job[l].op = "offering" => ask'[job[l].a].outcome = "open"
    PROVE  RowsInv' /\ GoingKeeps /\ NothingReopens /\ OthersKept(k)
<1>1. OthersKept(k)
  BY DEF OthersKept, CascadeInv, JobsInv, Held
<1>2. QED
  BY <1>1, SameSessions, SameOffers, RowsStay, KeepsGoing DEF CascadeInv

(* A new row, for a session with no live ask. *)
LEMMA FreshRows ==
    ASSUME TypeInv, CascadeInv, FreeAsks # {}, NEW s \in Sessions, NEW kind \in Kinds \cup {"none"},
           NEW asked \in BOOLEAN, ask' = NewRow(s, kind, asked), UNCHANGED <<clock, session, offer>>,
           LiveAsks(s) = {}, asked => ~AskedAbout(s), NEW k \in Workers
    PROVE  RowsInv' /\ GoingKeeps /\ NothingReopens /\ OthersKept(k)
<1> PICK a \in Asks : a = NewAsk /\ ask[a] = NoAsk
  BY NewAskIsFree
<1> PICK row \in Ask : row = FreshAsk(s, kind, asked)
  BY FreshRow
<1>1. row.session = s /\ row.asked = asked /\ row.kind = kind /\ row.outcome = "open"
  BY FreshRow
<1>2. ask' = [ask EXCEPT ![a] = row]
  BY FreshRow
<1>3. ask'[a] = row /\ \A b \in Asks : b # a => ask'[b] = ask[b]
  BY <1>2 DEF TypeInv, RowsTyped
<1>4. \A m \in Members : offer[a][m] = NoOffer
  BY DEF TypeInv, RowsFit, NoAsk
<1>5. ask[a].session = None /\ ask[a].kind = "none" /\ ask[a].outcome = "none" /\ s # None
  BY Zeros DEF NoAsk, None
<1>6. NoOffersYet'
  BY <1>3, <1>4 DEF NoOffersYet, CascadeInv, RowsInv
<1>7. AskedOnce'
  BY <1>1, <1>3 DEF AskedOnce, CascadeInv, RowsInv, AskedAbout
<1>8. LiveOnce'
  BY <1>1, <1>3 DEF LiveOnce, CascadeInv, RowsInv, LiveAsks
<1>9. OneOut'
  BY DEF OneOut, CascadeInv, RowsInv
<1>10. OutOpen'
  BY <1>1, <1>3, SameSessions DEF OutOpen, CascadeInv, RowsInv, SessionOpen
<1>11. ASSUME NEW r \in Sessions PROVE TakenBefore(r)'
  <2>1. \A b \in Asks, m \in Members :
           ask'[b].session = r /\ offer'[b][m].state = "accepted" <=>
           ask[b].session = r /\ offer[b][m].state = "accepted"
    BY <1>3, <1>4 DEF NoOffer
  <2>2. HasAccepted(r)' <=> HasAccepted(r)
    BY <2>1 DEF HasAccepted
  <2>3. QED
    BY <2>1, <2>2 DEF TakenBefore, CascadeInv, RowsInv
<1>12. GoingKeeps
  BY <1>3, <1>5 DEF GoingKeeps
<1>13. OthersKept(k)
  <2>1. \A l \in Workers : job[l].op = "offering" => ask'[job[l].a].outcome = "open"
    BY <1>1, <1>3 DEF CascadeInv, JobsInv, Held, TypeInv, JobFits, Cascading
  <2>2. QED
    BY <2>1 DEF OthersKept, CascadeInv, JobsInv, Held
<1>14. QED
  BY <1>6, <1>7, <1>8, <1>9, <1>10, <1>11, <1>12, <1>13, SameSessions DEF RowsInv

LEMMA NoneLive == ASSUME NEW s, ~AskedAbout(s) PROVE LiveAsks(s) = {}
BY DEF AskedAbout, LiveAsks

LEMMA InvAskCoach == ASSUME TypeInv, CascadeInv, NEW k \in Workers, AskCoach(k) PROVE CascadeInv'
<1>1. CASE UNCHANGED ask
  BY <1>1, QuietDone DEF AskCoach
<1>2. CASE FreeAsks # {} /\ ~AskedAbout(job[k].s) /\ ask' = NewRow(job[k].s, "none", TRUE)
  <2>1. job[k].s \in Sessions
    BY DEF AskCoach, TypeInv, JobFits
  <2>2. LiveAsks(job[k].s) = {} /\ "none" \in Kinds \cup {"none"} /\ TRUE \in BOOLEAN
    BY <1>2, NoneLive
  <2>3. RowsInv' /\ GoingKeeps /\ NothingReopens /\ OthersKept(k)
    BY <1>2, <2>1, <2>2, FreshRows DEF AskCoach
  <2>4. QED
    BY <2>3, DoneFree DEF AskCoach, CascadeInv
<1>3. QED
  BY <1>1, <1>2 DEF AskCoach, InsertsAsk

LEMMA InvAnswerNo == ASSUME TypeInv, CascadeInv, NEW k \in Workers, AnswerNo(k) PROVE CascadeInv'
<1>1. CASE UNCHANGED ask
  BY <1>1, QuietDone DEF AnswerNo
<1>2. CASE Unanswered(job[k].a) /\ CloseAsk(job[k].a, "declined")
  <2>1. PICK a \in Asks : a = job[k].a
    BY DEF AnswerNo, TypeInv, JobFits
  <2>2. ask[a].session # None /\ ask[a].kind = "none" /\ ask[a].outcome = "open"
    BY <1>2, <2>1, OpenIsThere DEF Unanswered
  <2>3. /\ \A b \in Asks : /\ ask'[b].session = ask[b].session /\ ask'[b].kind = ask[b].kind
                           /\ ask'[b].asked = ask[b].asked
                           /\ b # a => ask'[b] = ask[b]
        /\ ask'[a].outcome = "declined"
    BY <1>2, <2>1, <2>2, Closing
  <2>4. AskKeeps
    BY <2>2, <2>3 DEF AskKeeps
  <2>5. StaysOpen
    BY <2>2, <2>3 DEF StaysOpen, AnswerNo, CascadeInv, RowsInv, NoOffersYet, NoOffer
  <2>6. \A l \in Workers : job[l].op = "offering" => ask'[job[l].a].outcome = "open"
    BY <2>2, <2>3 DEF CascadeInv, JobsInv, Held, Going, TypeInv, JobFits, Cascading
  <2>7. RowsInv' /\ GoingKeeps /\ NothingReopens /\ OthersKept(k)
    BY <2>4, <2>5, <2>6, AsksMove DEF AnswerNo
  <2>8. QED
    BY <2>7, DoneFree DEF AnswerNo, CascadeInv
<1>3. QED
  BY <1>1, <1>2 DEF AnswerNo

LEMMA InvChooseKind == ASSUME TypeInv, CascadeInv, NEW k \in Workers, ChooseKind(k) PROVE CascadeInv'
<1>1. job[k] \in Job /\ job[k].s \in Sessions /\ job[k].kind \in Kinds /\ job[k].locks = {}
  BY DEF ChooseKind, TypeInv, JobFits
<1>2. PICK j \in Job : Go(k, j) /\ j.op = "reread" /\ j.s = job[k].s /\ j.kind = job[k].kind /\ j.locks = job[k].locks
  BY NextStatement DEF ChooseKind
<1>3. JobFits(j) /\ Free(j)
  BY <1>1, <1>2, Plain, PlainFree DEF Kinds
<1>4. CASE UNCHANGED ask
  BY <1>2, <1>3, <1>4, QuietFree DEF ChooseKind
<1>5. ASSUME RowsInv', GoingKeeps, NothingReopens, OthersKept(k) PROVE CascadeInv'
  BY <1>2, <1>3, <1>5, FreeStep DEF CascadeInv
<1>6. CASE FreeAsks # {} /\ LiveAsks(job[k].s) = {} /\ ask' = NewRow(job[k].s, job[k].kind, FALSE)
  <2>1. job[k].kind \in Kinds \cup {"none"} /\ FALSE \in BOOLEAN
    BY <1>1
  <2>2. RowsInv' /\ GoingKeeps /\ NothingReopens /\ OthersKept(k)
    BY <1>1, <1>6, <2>1, FreshRows DEF ChooseKind
  <2>3. QED
    BY <1>5, <2>2
<1>7. CASE job[k].a # None /\ ask[job[k].a].kind = "none" /\ ask' = [ask EXCEPT ![job[k].a].kind = job[k].kind]
  <2>1. PICK a \in Asks : a = job[k].a
    BY <1>1, <1>7 DEF Job
  <2>2. ask[a] \in Ask
    BY DEF TypeInv, RowsTyped
  <2>3. PICK row : row = [ask[a] EXCEPT !.kind = job[k].kind]
    OBVIOUS
  <2>4. /\ row.session = ask[a].session /\ row.asked = ask[a].asked /\ row.outcome = ask[a].outcome
        /\ row.kind # "none"
    BY <1>1, <2>2, <2>3 DEF Ask, Kinds
  <2>5. ask'[a] = row /\ \A b \in Asks : b # a => ask'[b] = ask[b]
    BY <1>7, <2>1, <2>3 DEF TypeInv, RowsTyped
  <2>6. AskKeeps /\ StaysOpen /\ \A b \in Asks : ask'[b].outcome = ask[b].outcome
    BY <2>4, <2>5 DEF AskKeeps, StaysOpen
  <2>7. \A l \in Workers : job[l].op = "offering" => ask'[job[l].a].outcome = "open"
    BY <2>6 DEF CascadeInv, JobsInv, Held, TypeInv, JobFits, Cascading
  <2>8. RowsInv' /\ GoingKeeps /\ NothingReopens /\ OthersKept(k)
    BY <2>6, <2>7, AsksMove DEF ChooseKind
  <2>9. QED
    BY <1>5, <2>8
<1>8. QED
  BY <1>4, <1>6, <1>7 DEF ChooseKind


LEMMA ToldIs ==
    ASSUME TypeInv, NEW a \in Asks, NEW what, ask' = [ask EXCEPT ![a].told = @ \cup {what}]
    PROVE  \A b \in Asks : /\ ask'[b].session = ask[b].session /\ ask'[b].kind = ask[b].kind
                           /\ ask'[b].asked = ask[b].asked /\ ask'[b].outcome = ask[b].outcome
<1>1. ask[a] \in Ask
  BY DEF TypeInv, RowsTyped
<1>2. PICK row : row = [ask[a] EXCEPT !.told = @ \cup {what}]
  OBVIOUS
<1>3. /\ row.session = ask[a].session /\ row.kind = ask[a].kind
      /\ row.asked = ask[a].asked /\ row.outcome = ask[a].outcome
  BY <1>1, <1>2 DEF Ask
<1>4. ask'[a] = row /\ \A b \in Asks : b # a => ask'[b] = ask[b]
  BY <1>2 DEF TypeInv, RowsTyped
<1>5. QED
  BY <1>3, <1>4

LEMMA Telling ==
    ASSUME TypeInv, CascadeInv, NEW a \in Asks, NEW what, NEW k \in Workers,
           ask' = [ask EXCEPT ![a].told = @ \cup {what}], UNCHANGED <<clock, session, offer>>
    PROVE  RowsInv' /\ GoingKeeps /\ NothingReopens /\ OthersKept(k)
<1>1. \A b \in Asks : /\ ask'[b].session = ask[b].session /\ ask'[b].kind = ask[b].kind
                      /\ ask'[b].asked = ask[b].asked /\ ask'[b].outcome = ask[b].outcome
  BY ToldIs
<1>2. AskKeeps /\ StaysOpen
  BY <1>1 DEF AskKeeps, StaysOpen
<1>3. \A l \in Workers : job[l].op = "offering" => ask'[job[l].a].outcome = "open"
  BY <1>1 DEF CascadeInv, JobsInv, Held, TypeInv, JobFits, Cascading
<1>4. QED
  BY <1>2, <1>3, AsksMove

LEMMA InvRereadAsk == ASSUME TypeInv, CascadeInv, NEW k \in Workers, RereadAsk(k) PROVE CascadeInv'
<1>1. CASE Done(k) /\ UNCHANGED ask
  BY <1>1, QuietDone DEF RereadAsk
<1>2. ASSUME NEW a \in LiveAsks(job[k].s), ask[a].kind # "none",
             ask' = IF reach # Members /\ reach # {}
                    THEN [ask EXCEPT ![a].told = @ \cup {"unreachable"}] ELSE ask,
             Go(k, [job[k] EXCEPT !.op = "offer", !.a = a, !.kind = "none"])
      PROVE  CascadeInv'
  <2>1. a \in Asks /\ ask[a].session = job[k].s /\ ask[a].outcome = "open"
    BY DEF LiveAsks
  <2>2. ask[a].session \in Sessions
    BY <2>1, OpenIsThere
  <2>3. job[k] \in Job /\ job[k].locks = {}
    BY DEF TypeInv, JobFits, RereadAsk
  <2>4. PICK j \in Job : /\ j = [job[k] EXCEPT !.op = "offer", !.a = a, !.kind = "none"]
                         /\ JobFits(j) /\ Free(j)
    BY <1>2, <2>1, <2>2, <2>3, OfferJob
  <2>5. RowsInv' /\ GoingKeeps /\ NothingReopens /\ OthersKept(k)
    <3>1. CASE ask' = ask
      BY <3>1, Quiet, SameSessions DEF RereadAsk
    <3>2. CASE ask' = [ask EXCEPT ![a].told = @ \cup {"unreachable"}]
      BY <2>1, <3>2, Telling DEF RereadAsk
    <3>3. QED
      BY <1>2, <3>1, <3>2
  <2>6. QED
    BY <1>2, <2>4, <2>5, FreeStep DEF CascadeInv
<1>3. QED
  BY <1>1, <1>2 DEF RereadAsk

LEMMA InvTellExhausted == ASSUME TypeInv, CascadeInv, NEW k \in Workers, TellCoachExhausted(k) PROVE CascadeInv'
<1>1. job[k].a \in Asks
  BY DEF TypeInv, JobFits, Cascading, TellCoachExhausted
<1>2. RowsInv' /\ GoingKeeps /\ NothingReopens /\ OthersKept(k)
  BY <1>1, Telling DEF TellCoachExhausted
<1>3. QED
  BY <1>2, DoneFree DEF TellCoachExhausted, CascadeInv

LEMMA InvEndOverflow == ASSUME TypeInv, CascadeInv, NEW k \in Workers, EndOverflow(k) PROVE CascadeInv'
<1> PICK s : s = job[k].s
  OBVIOUS
<1>1. s \in Sessions /\ ~SessionOpen(s)
  BY DEF EndOverflow, TypeInv, JobFits, CascadeInv, JobsInv, Held
<1>2. \A b \in Asks : /\ ask'[b].session = ask[b].session /\ ask'[b].kind = ask[b].kind
                      /\ ask'[b].asked = ask[b].asked
                      /\ b \notin LiveAsks(s) => ask'[b] = ask[b]
                      /\ b \in LiveAsks(s) => ask'[b].outcome = "ended"
  BY EndedIs
<1>3. AskKeeps
  BY <1>2 DEF AskKeeps
<1>4. StaysOpen
  BY <1>1, <1>2 DEF StaysOpen, LiveAsks
<1>5. \A l \in Workers : job[l].op = "offering" => ask'[job[l].a].outcome = "open"
  <2> SUFFICES ASSUME NEW l \in Workers, job[l].op = "offering" PROVE ask'[job[l].a].outcome = "open"
    OBVIOUS
  <2>1. job[l].a \in Asks /\ job[l].locks = {"ask"} /\ ask[job[l].a].outcome = "open"
    BY DEF TypeInv, JobFits, Cascading, CascadeInv, JobsInv, Held
  <2>2. job[l].a \notin LiveAsks(s)
    BY <2>1 DEF EndOverflow, HasLock
  <2>3. QED
    BY <1>2, <2>1, <2>2
<1>6. RowsInv' /\ GoingKeeps /\ NothingReopens /\ OthersKept(k)
  BY <1>3, <1>4, <1>5, AsksMove DEF EndOverflow
<1>7. QED
  BY <1>6, DoneFree DEF EndOverflow, CascadeInv

----------------------------------------------------------------------------
(* Who has an offer's row has its ask's too. *)
LEMMA OfferHolder ==
    ASSUME TypeInv, CascadeInv, NEW l \in Workers, "offer" \in job[l].locks
    PROVE  /\ job[l].op = "accept" /\ job[l].locks = {"ask", "offer"}
           /\ job[l].a \in Asks /\ job[l].m \in Members /\ ask[job[l].a].session = job[l].s
           /\ offer[job[l].a][job[l].m].state = "sent"
<1>1. JobFits(job[l]) /\ Held(job[l])
  BY DEF TypeInv, CascadeInv, JobsInv
<1>2. job[l].op = "accept" /\ job[l].locks = {"ask", "offer"}
  BY <1>1 DEF JobFits
<1>3. QED
  BY <1>1, <1>2 DEF JobFits, Cascading, Held

(* A step that ends offers nobody else has locked. *)
LEMMA OffersEnd ==
    ASSUME TypeInv, CascadeInv, UNCHANGED <<clock, session, ask>>, OnlyEnds, NEW k \in Workers,
           \A l \in Workers \ {k} : "offer" \in job[l].locks =>
               offer'[job[l].a][job[l].m] = offer[job[l].a][job[l].m]
    PROVE  RowsInv' /\ GoingKeeps /\ NothingReopens /\ OthersKept(k)
<1>1. OthersKept(k)
  BY DEF OthersKept, CascadeInv, JobsInv, Held
<1>2. QED
  BY <1>1, SameSessions, SameAsks, RowsStay, KeepsGoing DEF CascadeInv

(* One offer that was sent is over. *)
LEMMA OneEnds ==
    ASSUME TypeInv, CascadeInv, UNCHANGED <<clock, session, full, reach, ask, faults>>,
           NEW a \in Asks, NEW m \in Members, offer[a][m].state = "sent",
           offer' = [offer EXCEPT ![a][m] = OverOffer], NEW k \in Workers,
           \A l \in Workers \ {k} : "offer" \in job[l].locks => ~(job[l].a = a /\ job[l].m = m)
    PROVE  RowsInv' /\ GoingKeeps /\ NothingReopens /\ OthersKept(k)
<1>1. ask[a].session # None
  BY SentIsThere
<1>2. /\ offer'[a][m] = OverOffer
      /\ \A b \in Asks, n \in Members : <<b, n>> # <<a, m>> => offer'[b][n] = offer[b][n]
  BY <1>1, OneOver
<1>3. OnlyEnds
  BY <1>2 DEF OnlyEnds, OverOffer
<1>4. \A l \in Workers \ {k} : "offer" \in job[l].locks =>
               offer'[job[l].a][job[l].m] = offer[job[l].a][job[l].m]
  BY <1>2, OfferHolder
<1>5. QED
  BY <1>3, <1>4, OffersEnd

LEMMA NotLocked ==
    ASSUME NEW a, NEW m, ~OfferLocked(a, m)
    PROVE  \A l \in Workers : "offer" \in job[l].locks => ~(job[l].a = a /\ job[l].m = m)
BY DEF OfferLocked, HasLock

LEMMA InvMarkUnsent == ASSUME TypeInv, CascadeInv, NEW k \in Workers, MarkUnsent(k) PROVE CascadeInv'
<1>1. job[k] \in Job /\ JobFits(job[k]) /\ job[k].op = "unsent" /\ Going(job[k])
  BY DEF TypeInv, MarkUnsent, CascadeInv, JobsInv
<1>2. job[k].a \in Asks /\ job[k].m \in Members /\ ask[job[k].a].session \in Sessions /\ job[k].locks = {}
  BY <1>1 DEF JobFits, Cascading
<1>a. PICK a \in Asks, m \in Members : a = job[k].a /\ m = job[k].m
  BY <1>2
<1>3. RowsInv' /\ GoingKeeps /\ NothingReopens /\ OthersKept(k)
  <2>1. CASE offer' = offer
    BY <2>1, Quiet, SameSessions DEF MarkUnsent
  <2>2. CASE /\ offer[job[k].a][job[k].m].state = "sent"
             /\ offer' = [offer EXCEPT ![job[k].a][job[k].m] = OverOffer]
    <3>1. \A l \in Workers \ {k} : "offer" \in job[l].locks => ~(job[l].a = a /\ job[l].m = m)
      BY <1>a, NotLocked DEF MarkUnsent
    <3>a. offer[a][m].state = "sent" /\ offer' = [offer EXCEPT ![a][m] = OverOffer]
      BY <1>a, <2>2
    <3>2. UNCHANGED <<clock, session, full, reach, ask, faults>>
      BY DEF MarkUnsent
    <3>3. QED
      BY <3>1, <3>2, <3>a, OneEnds
  <2>3. QED
    BY <2>1, <2>2 DEF MarkUnsent
<1>4. PICK j \in Job : j = [job[k] EXCEPT !.op = "offer", !.m = None]
  BY <1>1 DEF Job
<1>5. j.op = "offer" /\ j.a = job[k].a /\ j.locks = {}
  BY <1>1, <1>2, <1>4 DEF Job
<1>6. JobFits(j) /\ Free(j)
  BY <1>1, <1>2, <1>5 DEF JobFits, Cascading, Free, Going
<1>7. QED
  BY <1>3, <1>4, <1>6, FreeStep DEF MarkUnsent, CascadeInv

LEMMA InvDeclineOffer ==
    ASSUME TypeInv, CascadeInv, NEW k \in Workers, NEW a \in Asks, NEW m \in Members, DeclineOffer(k, a, m)
    PROVE  CascadeInv'
<1>1. ask[a].session \in Sessions
  BY SentIsThere DEF DeclineOffer
<1>2. RowsInv' /\ GoingKeeps /\ NothingReopens /\ OthersKept(k)
  <2>1. \A l \in Workers \ {k} : "offer" \in job[l].locks => ~(job[l].a = a /\ job[l].m = m)
    BY NotLocked DEF DeclineOffer
  <2>2. /\ offer[a][m].state = "sent" /\ offer' = [offer EXCEPT ![a][m] = OverOffer]
        /\ UNCHANGED <<clock, session, full, reach, ask, faults>>
    BY DEF DeclineOffer
  <2>3. QED
    BY <2>1, <2>2, OneEnds
<1>3. PICK j \in Job : j = [Idle EXCEPT !.op = "start", !.s = ask[a].session]
  BY <1>1, IdleIsJob DEF Job
<1>4. JobFits(j) /\ Free(j)
  BY <1>1, <1>3, Plain, PlainFree DEF Idle
<1>5. QED
  BY <1>2, <1>3, <1>4, FreeStep DEF DeclineOffer, CascadeInv

(* Several offers that were sent are over. *)
LEMMA SomeEnd ==
    ASSUME TypeInv, CascadeInv, UNCHANGED <<clock, session, full, reach, ask, faults>>, NEW ps,
           \A a \in Asks, m \in Members : <<a, m>> \in ps => offer[a][m].state = "sent" /\ ~OfferLocked(a, m),
           offer' = Ending(ps), NEW k \in Workers
    PROVE  RowsInv' /\ GoingKeeps /\ NothingReopens /\ OthersKept(k)
<1>1. /\ offer' \in [Asks -> [Members -> Offer]]
      /\ \A a \in Asks, m \in Members : offer'[a][m] = IF <<a, m>> \in ps THEN OverOffer ELSE offer[a][m]
  BY EndingIs
<1>2. OnlyEnds
  <2>1. OverOffer.state = "over"
    BY DEF OverOffer
  <2>2. ASSUME NEW a \in Asks, NEW m \in Members
        PROVE  offer'[a][m] = offer[a][m] \/ (offer[a][m].state = "sent" /\ offer'[a][m].state = "over")
    <3>1. CASE <<a, m>> \in ps
      BY <1>1, <2>1, <3>1
    <3>2. CASE <<a, m>> \notin ps
      BY <1>1, <3>2
    <3>3. QED
      BY <3>1, <3>2
  <2>3. QED
    BY <2>2 DEF OnlyEnds
<1>3. ASSUME NEW l \in Workers \ {k}, "offer" \in job[l].locks
      PROVE  offer'[job[l].a][job[l].m] = offer[job[l].a][job[l].m]
  <2>1. PICK a \in Asks, m \in Members : a = job[l].a /\ m = job[l].m
    BY <1>3, OfferHolder
  <2>2. OfferLocked(a, m)
    BY <1>3, <2>1 DEF OfferLocked, HasLock
  <2>3. <<a, m>> \notin ps
    BY <2>2
  <2>4. QED
    BY <1>1, <2>1, <2>3
<1>4. QED
  BY <1>2, <1>3, OffersEnd

LEMMA InvWithdrawOffers == ASSUME TypeInv, CascadeInv, NEW k \in Workers, WithdrawOffers(k) PROVE CascadeInv'
<1>1. PICK ps : ps = OutFor(job[k].s)
  OBVIOUS
<1>2. \A a \in Asks, m \in Members : <<a, m>> \in ps => offer[a][m].state = "sent" /\ ~OfferLocked(a, m)
  <2> TAKE a \in Asks, m \in Members
  <2> HAVE <<a, m>> \in ps
  <2>1. ~OfferLocked(<<a, m>>[1], <<a, m>>[2])
    BY <1>1 DEF WithdrawOffers
  <2>2. QED
    BY <1>1, <2>1, OutIsSent
<1>3. RowsInv' /\ GoingKeeps /\ NothingReopens /\ OthersKept(k)
  BY <1>1, <1>2, SomeEnd DEF WithdrawOffers
<1>4. PICK j \in Job : Go(k, j) /\ j.op = "close" /\ j.s = job[k].s /\ j.kind = job[k].kind /\ j.locks = job[k].locks
  BY NextStatement DEF WithdrawOffers
<1>5. job[k].s \in Sessions /\ ~SessionOpen(job[k].s) /\ job[k].locks = {}
  BY DEF WithdrawOffers, TypeInv, JobFits, CascadeInv, JobsInv, Held
<1>6. JobFits(j) /\ Free(j)
  BY <1>4, <1>5, PlainFree DEF JobFits, Cascading
<1>7. QED
  BY <1>3, <1>4, <1>6, FreeStep DEF CascadeInv

LEMMA InvTickExpires == ASSUME TypeInv, CascadeInv, NEW k \in Workers, TickExpires(k) PROVE CascadeInv'
<1>1. PICK ps : ps = RanOut
  OBVIOUS
<1>2. \A a \in Asks, m \in Members : <<a, m>> \in ps => offer[a][m].state = "sent" /\ ~OfferLocked(a, m)
  BY <1>1, RanOutIsSent
<1>3. RowsInv' /\ GoingKeeps /\ NothingReopens /\ OthersKept(k)
  BY <1>1, <1>2, SomeEnd DEF TickExpires
<1>4. {ask[p[1]].session : p \in RanOut} \subseteq Sessions
  <2> SUFFICES ASSUME NEW p \in RanOut PROVE ask[p[1]].session \in Sessions
    OBVIOUS
  <2>1. PICK a \in Asks, m \in Members : p = <<a, m>>
    BY DEF RanOut
  <2>2. QED
    BY <1>1, <1>2, <2>1, SentIsThere
<1>5. PICK todo \in SUBSET Sessions : todo = {ask[p[1]].session : p \in RanOut}
  BY <1>4
<1>6. [Idle EXCEPT !.todo = todo] \in Job
  BY IdleIsJob DEF Job
<1>7. PICK j \in Job : j = After([Idle EXCEPT !.todo = todo]) /\ JobFits(j) /\ Free(j)
  BY <1>6, AfterFits, AfterIsFree
<1>8. Go(k, j)
  BY <1>5, <1>7 DEF TickExpires
<1>9. QED
  BY <1>3, <1>7, <1>8, FreeStep DEF CascadeInv


----------------------------------------------------------------------------
(* What another handler has locked is not an ask's that k has. *)
LEMMA OnlyHolder ==
    ASSUME TypeInv, CascadeInv, NEW k \in Workers, "ask" \in job[k].locks, NEW l \in Workers, l # k
    PROVE  /\ "offer" \in job[l].locks => job[l].a # job[k].a
           /\ job[l].op = "offering" => job[l].a # job[k].a
<1>1. "ask" \in job[l].locks => job[l].a # job[k].a
  BY DEF CascadeInv, JobsInv, OneHolder
<1>2. "offer" \in job[l].locks => "ask" \in job[l].locks
  BY OfferHolder
<1>3. job[l].op = "offering" => "ask" \in job[l].locks
  BY DEF TypeInv, JobFits
<1>4. QED
  BY <1>1, <1>2, <1>3

(* The offers that ran out are over, and nothing else moved. *)
Left(a) == Ending({a} \X Overdue(a, clock))

LEMMA LeftIs ==
    ASSUME TypeInv, NEW a \in Asks
    PROVE  /\ Left(a) \in [Asks -> [Members -> Offer]]
           /\ \A m \in Members :
                 \/ Left(a)[a][m] = offer[a][m]
                 \/ offer[a][m].state = "sent" /\ Left(a)[a][m].state = "over"
           /\ \A b \in Asks, m \in Members : b # a => Left(a)[b][m] = offer[b][m]
           /\ StillOut(a) = {} => \A m \in Members : Left(a)[a][m].state # "sent"
<1>1. PICK ps : ps = {a} \X Overdue(a, clock)
  OBVIOUS
<1>2. PICK left : left = Ending(ps)
  OBVIOUS
<1>3. /\ left \in [Asks -> [Members -> Offer]]
      /\ \A b \in Asks, m \in Members : left[b][m] = IF <<b, m>> \in ps THEN OverOffer ELSE offer[b][m]
  BY <1>2, EndingIs
<1>4. \A b \in Asks, m \in Members : <<b, m>> \in ps <=> b = a /\ m \in Overdue(a, clock)
  BY <1>1
<1>5. \A m \in Members : left[a][m] = IF m \in Overdue(a, clock) THEN OverOffer ELSE offer[a][m]
  <2> TAKE m \in Members
  <2>1. CASE m \in Overdue(a, clock)
    <3>1. <<a, m>> \in ps
      BY <1>4, <2>1
    <3>2. QED
      BY <1>3, <2>1, <3>1
  <2>2. CASE m \notin Overdue(a, clock)
    <3>1. <<a, m>> \notin ps
      BY <1>4, <2>2
    <3>2. QED
      BY <1>3, <2>2, <3>1
  <2>3. QED
    BY <2>1, <2>2
<1>6. \A b \in Asks, m \in Members : b # a => left[b][m] = offer[b][m]
  <2> TAKE b \in Asks, m \in Members
  <2> HAVE b # a
  <2>1. <<b, m>> \notin ps
    BY <1>4
  <2>2. QED
    BY <1>3, <2>1
<1>7. \A m \in Overdue(a, clock) : offer[a][m].state = "sent"
  BY DEF Overdue, Sent
<1>8. StillOut(a) = {} => \A m \in Members : offer[a][m].state = "sent" => m \in Overdue(a, clock)
  BY DEF StillOut, Sent
<1>9. OverOffer.state = "over"
  BY DEF OverOffer
<1>10. StillOut(a) = {} => \A m \in Members : left[a][m].state # "sent"
  BY <1>5, <1>8, <1>9
<1>11. \A m \in Members : left[a][m] = offer[a][m] \/ (offer[a][m].state = "sent" /\ left[a][m].state = "over")
  BY <1>5, <1>7, <1>9
<1>12. left = Left(a)
  BY <1>1, <1>2 DEF Left
<1>13. QED
  BY <1>3, <1>6, <1>10, <1>11, <1>12

(* The step that offers the job to m. *)
LEMMA OfferingRows ==
    ASSUME TypeInv, CascadeInv, NEW a \in Asks, NEW m \in Members, UNCHANGED <<clock, session, ask>>,
           ask[a].kind # "none", ask[a].outcome = "open", offer[a][m].state = "none", StillOut(a) = {},
           offer' = [Left(a) EXCEPT ![a][m] = [state |-> "sent", expires |-> clock + OfferTime]]
    PROVE  /\ RowsInv'
           /\ \A b \in Asks, n \in Members : b # a => offer'[b][n] = offer[b][n]
<1> PICK left : left = Left(a)
  OBVIOUS
<1> PICK new : new = [state |-> "sent", expires |-> clock + OfferTime]
  OBVIOUS
<1>1. left \in [Asks -> [Members -> Offer]]
  BY LeftIs
<1>2. /\ offer'[a][m] = new /\ \A n \in Members : n # m => offer'[a][n] = left[a][n]
      /\ \A b \in Asks, n \in Members : b # a => offer'[b][n] = left[b][n]
  BY <1>1
<1>3. \A b \in Asks, n \in Members : b # a => offer'[b][n] = offer[b][n]
  BY <1>2, LeftIs
<1>4. \A n \in Members : n # m => offer'[a][n].state # "sent"
  BY <1>2, LeftIs
<1>5. NoOffersYet'
  BY <1>3 DEF NoOffersYet, CascadeInv, RowsInv
<1>6. AskedOnce' /\ LiveOnce'
  BY DEF AskedOnce, LiveOnce, CascadeInv, RowsInv
<1>7. OneOut'
  <2> SUFFICES ASSUME NEW b \in Asks, NEW n1 \in Members, NEW n2 \in Members,
                      offer'[b][n1].state = "sent", offer'[b][n2].state = "sent"
               PROVE  n1 = n2
    BY DEF OneOut
  <2>1. CASE b = a
    BY <1>4, <2>1
  <2>2. CASE b # a
    BY <1>3, <2>2 DEF CascadeInv, RowsInv, OneOut
  <2>3. QED
    BY <2>1, <2>2
<1>8. OutOpen'
  <2> SUFFICES ASSUME NEW b \in Asks, NEW n \in Members, offer'[b][n].state = "sent", ask[b].outcome # "open"
               PROVE  ~SessionOpen(ask[b].session)
    BY DEF OutOpen, SessionOpen
  <2>1. offer[b][n].state = "sent"
    BY <1>3
  <2>2. QED
    BY <2>1 DEF CascadeInv, RowsInv, OutOpen
<1>9. \A b \in Asks, n \in Members : offer'[b][n].state = "accepted" <=> offer[b][n].state = "accepted"
  <2> TAKE b \in Asks, n \in Members
  <2>1. CASE b # a
    BY <1>3, <2>1
  <2>2. CASE b = a /\ n = m
    <3>1. new.state = "sent"
      OBVIOUS
    <3>2. QED
      BY <1>2, <2>2, <3>1
  <2>3. CASE b = a /\ n # m
    <3>1. left[a][n] = offer[a][n] \/ (offer[a][n].state = "sent" /\ left[a][n].state = "over")
      BY LeftIs
    <3>2. offer'[a][n] = left[a][n]
      BY <1>2, <2>3
    <3>3. QED
      BY <2>3, <3>1, <3>2
  <2>4. QED
    BY <2>1, <2>2, <2>3
<1>10. ASSUME NEW s \in Sessions PROVE TakenBefore(s)'
  <2>1. HasAccepted(s)' <=> HasAccepted(s)
    BY <1>9 DEF HasAccepted
  <2>2. TakenBefore(s)
    BY DEF CascadeInv, RowsInv
  <2>3. QED
    BY <1>9, <2>1, <2>2 DEF TakenBefore
<1>11. QED
  BY <1>3, <1>5, <1>6, <1>7, <1>8, <1>10 DEF RowsInv

LEMMA InvOfferToNextMember ==
    ASSUME TypeInv, CascadeInv, NEW k \in Workers, OfferToNextMember(k)
    PROVE  CascadeInv'
<1> PICK a \in Asks : a = job[k].a
  BY OfferParts
<1> PICK left : left = Left(a)
  OBVIOUS
<1>a. \A m \in Members : left[a][m] = offer[a][m] \/ (offer[a][m].state = "sent" /\ left[a][m].state = "over")
  BY LeftIs
<1>b. \A b \in Asks, m \in Members : b # a => left[b][m] = offer[b][m]
  BY LeftIs
<1>c. StillOut(a) = {} => \A m \in Members : left[a][m].state # "sent"
  BY LeftIs
<1>1. ASSUME offer' = left PROVE OnlyEnds
  BY <1>a, <1>b, <1>1 DEF OnlyEnds
<1>2. /\ job[k] \in Job /\ JobFits(job[k]) /\ job[k].op = "offering" /\ job[k].locks = {"ask"}
      /\ ask[a].session \in Sessions /\ UNCHANGED <<clock, session, full, reach, faults>>
  BY OfferParts
<1>3. ask[a].kind # "none" /\ ask[a].outcome = "open"
  BY <1>2 DEF CascadeInv, JobsInv, Going, Held, Cascading
<1>4. \A l \in Workers \ {k} : "offer" \in job[l].locks =>
         job[l].a \in Asks \ {a} /\ job[l].m \in Members /\ offer[job[l].a][job[l].m].state = "sent"
  BY <1>2, OnlyHolder, OfferHolder
<1>5. \A l \in Workers \ {k} : job[l].op = "offering" =>
         job[l].a \in Asks \ {a} /\ ask[job[l].a].outcome = "open"
  BY <1>2, OnlyHolder DEF TypeInv, JobFits, Cascading, CascadeInv, JobsInv, Held
<1>d. ASSUME \A b \in Asks, n \in Members : b # a => offer'[b][n] = offer[b][n],
             \A b \in Asks : b # a => ask'[b] = ask[b]
      PROVE  OthersKept(k)
  BY <1>4, <1>5, <1>d DEF OthersKept
<1>6. CASE offer' = left /\ Done(k) /\ UNCHANGED ask
  <2>1. OthersKept(k)
    BY <1>b, <1>d, <1>6
  <2>2. RowsInv' /\ GoingKeeps /\ NothingReopens
    BY <1>1, <1>2, <1>6, SameSessions, SameAsks, RowsStay, KeepsGoing DEF CascadeInv
  <2>3. QED
    BY <1>6, <2>1, <2>2, DoneFree DEF CascadeInv
<1>7. CASE /\ StillOut(a) = {} /\ offer' = left /\ CloseAsk(a, "exhausted")
           /\ Go(k, [job[k] EXCEPT !.op = "exhausted", !.locks = {}])
  <2>1. ask[a].session # None
    BY <1>2, Zeros DEF None
  <2>2. /\ \A b \in Asks : /\ ask'[b].session = ask[b].session /\ ask'[b].kind = ask[b].kind
                           /\ ask'[b].asked = ask[b].asked
                           /\ b # a => ask'[b] = ask[b]
        /\ ask'[a].outcome = "exhausted"
    BY <1>7, <2>1, Closing
  <2>3. AskKeeps
    BY <2>2 DEF AskKeeps
  <2>4. StaysOpen
    BY <1>c, <1>7, <2>2 DEF StaysOpen
  <2>5. RowsInv' /\ GoingKeeps /\ NothingReopens
    BY <1>1, <1>2, <1>7, <2>3, <2>4, SameSessions, RowsStay, KeepsGoing DEF CascadeInv
  <2>6. OthersKept(k)
    BY <1>b, <1>d, <1>7, <2>2
  <2>7. PICK j \in Job : j = [job[k] EXCEPT !.op = "exhausted", !.locks = {}]
    BY <1>2 DEF Job
  <2>8. j.op = "exhausted" /\ j.a = a /\ j.locks = {}
    BY <1>2, <2>7 DEF Job
  <2>9. JobFits(j) /\ Free(j)
    BY <1>2, <1>3, <2>8 DEF JobFits, Cascading, Free, Going
  <2>10. QED
    BY <1>7, <2>5, <2>6, <2>7, <2>9, FreeStep DEF CascadeInv
<1>8. ASSUME NEW m \in Members, offer[a][m].state = "none", StillOut(a) = {}, UNCHANGED ask,
             offer' = [Left(a) EXCEPT ![a][m] = [state |-> "sent", expires |-> clock + OfferTime]],
             Go(k, [job[k] EXCEPT !.op = "send", !.m = m, !.locks = {}])
      PROVE  CascadeInv'
  <2>1. RowsInv' /\ \A b \in Asks, n \in Members : b # a => offer'[b][n] = offer[b][n]
    BY <1>2, <1>3, <1>8, OfferingRows
  <2>2. OthersKept(k)
    BY <1>d, <1>8, <2>1
  <2>3. GoingKeeps /\ NothingReopens
    BY <1>2, <1>8, SameAsks, KeepsGoing, SameSessions
  <2>4. PICK j \in Job : j = [job[k] EXCEPT !.op = "send", !.m = m, !.locks = {}]
    BY <1>2 DEF Job
  <2>5. j.op = "send" /\ j.a = a /\ j.m = m /\ j.locks = {}
    BY <1>2, <2>4 DEF Job
  <2>6. JobFits(j) /\ Free(j)
    BY <1>2, <1>3, <2>5 DEF JobFits, Cascading, Free, Going
  <2>7. QED
    BY <1>8, <2>1, <2>2, <2>3, <2>4, <2>6, FreeStep DEF CascadeInv
<1>9. \A m \in NextMembers(a) : m \in Members /\ offer[a][m].state = "none"
  BY DEF NextMembers, TypeInv, RowsTyped
<1>10. QED
  BY <1>6, <1>7, <1>8, <1>9, OfferParts DEF Left

(* An accept that has its rows while the job is open is the only one of    *)
(* its session that has an offer's row.                                    *)
LEMMA AloneInSession ==
    ASSUME TypeInv, CascadeInv, NEW k \in Workers, job[k].op = "accept", Cardinality(job[k].locks) = 2,
           ~Blocked(k), StillOpen(job[k]), NEW l \in Workers, l # k, "offer" \in job[l].locks
    PROVE  job[l].s # job[k].s
BY DEF Blocked, WaitsFor

LEMMA InvAcceptOffer == ASSUME TypeInv, CascadeInv, NEW k \in Workers, AcceptOffer(k) PROVE CascadeInv'
<1> PICK a, m, s : a = job[k].a /\ m = job[k].m /\ s = job[k].s
  OBVIOUS
<1>1. /\ a \in Asks /\ m \in Members /\ s \in Sessions /\ ask[a].session = s /\ ask[a].session # None
      /\ job[k].op = "accept" /\ Cardinality(job[k].locks) = 2 /\ ~Blocked(k)
  BY Accepting DEF AcceptOffer
<1>2. UNCHANGED <<clock, full, reach, faults>> /\ Go(k, Idle)
  BY DEF AcceptOffer
<1>3. job[k].locks = {"ask", "offer"} /\ offer[a][m].state = "sent"
  <2>1. job[k] \in Job /\ JobFits(job[k]) /\ Held(job[k])
    BY DEF TypeInv, CascadeInv, JobsInv
  <2>2. job[k].locks = {"ask", "offer"}
    BY <1>1, <2>1, LockNext DEF JobFits
  <2>3. QED
    BY <2>1, <2>2 DEF Held
<1>4. \A l \in Workers \ {k} : /\ "offer" \in job[l].locks => job[l].a \in Asks \ {a} /\ job[l].m \in Members
                               /\ job[l].op = "offering" => job[l].a \in Asks \ {a}
  BY <1>3, OnlyHolder, OfferHolder DEF TypeInv, JobFits, Cascading
<1>5. CASE StillOpen(job[k]) /\ offer' = TakenBy(a, m) /\ CloseAsk(a, "accepted")
           /\ session' = [session EXCEPT ![s].extra = @ + 1]
  <2>1. \A b \in Asks, n \in Members :
                 offer'[b][n] = IF b = a /\ n = m THEN TakenOffer
                                       ELSE IF ask[b].session = s /\ offer[b][n].state = "sent"
                                       THEN OverOffer ELSE offer[b][n]
    BY <1>1, <1>5, TakenIs
  <2>2. OverOffer.state = "over" /\ TakenOffer.state = "accepted"
    BY DEF OverOffer, TakenOffer
  <2>3. /\ \A b \in Asks : /\ ask'[b].session = ask[b].session /\ ask'[b].kind = ask[b].kind
                           /\ ask'[b].asked = ask[b].asked
                           /\ b # a => ask'[b] = ask[b]
        /\ ask'[a].outcome = "accepted"
    BY <1>1, <1>5, Closing
  <2>4. AskKeeps
    BY <2>3 DEF AskKeeps
  <2>5. /\ \A r \in Sessions : session'[r].cancelled = session[r].cancelled
        /\ \A r \in Sessions : r # s => session'[r].extra = session[r].extra
        /\ session'[s].extra = session[s].extra + 1
    BY <1>1, <1>5 DEF TypeInv, RowsTyped
  <2>6. NothingReopens /\ \A r \in Sessions : SessionOpen(r)' <=> SessionOpen(r)
    BY <1>2, <2>5 DEF NothingReopens, SessionOpen
  <2>7. ~HasAccepted(s)
    BY <1>5 DEF StillOpen
  <2>8. NoOffersYet'
    <3>1. ask[a].kind # "none"
      BY <1>1, <1>3 DEF CascadeInv, RowsInv, NoOffersYet, NoOffer
    <3>2. QED
      BY <2>1, <2>3, <3>1 DEF NoOffersYet, CascadeInv, RowsInv, NoOffer
  <2>9. AskedOnce' /\ LiveOnce'
    BY <2>4 DEF AskedOnce, LiveOnce, AskKeeps, CascadeInv, RowsInv
  <2>10. \A b \in Asks, n \in Members : offer'[b][n].state = "sent" =>
            offer[b][n].state = "sent" /\ ask[b].session # s /\ b # a
    BY <1>1, <2>1, <2>2
  <2>11. OneOut'
    BY <2>10 DEF OneOut, CascadeInv, RowsInv
  <2>12. OutOpen'
    <3> SUFFICES ASSUME NEW b \in Asks, NEW n \in Members, offer'[b][n].state = "sent", ask'[b].outcome # "open"
                 PROVE  ~SessionOpen(ask[b].session)'
      BY <2>3 DEF OutOpen, SessionOpen
    <3>1. PICK r \in Sessions : r = ask[b].session
      BY <2>10, SentIsThere
    <3>2. ~SessionOpen(r)
      BY <2>3, <2>10, <3>1 DEF CascadeInv, RowsInv, OutOpen
    <3>3. ~SessionOpen(r)'
      BY <2>6, <3>2
    <3>4. ask'[b].session = r
      BY <2>3, <3>1
    <3>5. QED
      BY <3>1, <3>3, <3>4, <2>10, <2>3 DEF SessionOpen
  <2>13. TakenBefore(s)'
    <3>1. \A b \in Asks, n \in Members :
             ask'[b].session = s /\ offer'[b][n].state = "accepted" <=> b = a /\ n = m
      <4> TAKE b \in Asks, n \in Members
      <4>1. ask[b].session = s => offer[b][n].state # "accepted"
        BY <2>7 DEF HasAccepted
      <4>2. CASE b = a /\ n = m
        BY <1>1, <2>1, <2>2, <2>3, <4>2
      <4>3. CASE ~(b = a /\ n = m)
        BY <2>1, <2>2, <2>3, <4>1, <4>3
      <4>4. QED
        BY <4>2, <4>3
    <3>2. HasAccepted(s)'
      BY <1>1, <3>1 DEF HasAccepted
    <3>3. session[s].extra = 0
      BY <1>1, <2>7 DEF CascadeInv, RowsInv, TakenBefore
    <3>4. QED
      BY <2>5, <3>1, <3>2, <3>3 DEF TakenBefore
  <2>14. ASSUME NEW r \in Sessions, r # s PROVE TakenBefore(r)'
    <3>1. \A b \in Asks, n \in Members :
             ask'[b].session = r /\ offer'[b][n].state = "accepted" <=>
             ask[b].session = r /\ offer[b][n].state = "accepted"
      BY <1>1, <2>1, <2>2, <2>3, <2>14
    <3>2. HasAccepted(r)' <=> HasAccepted(r)
      BY <3>1 DEF HasAccepted
    <3>3. QED
      BY <2>5, <2>14, <3>1, <3>2 DEF TakenBefore, CascadeInv, RowsInv
  <2>15. RowsInv'
    BY <2>8, <2>9, <2>11, <2>12, <2>13, <2>14 DEF RowsInv
  <2>16. ASSUME NEW l \in Workers \ {k}, "offer" \in job[l].locks
         PROVE  offer'[job[l].a][job[l].m].state = "sent"
    <3>1. ask[job[l].a].session # s /\ offer[job[l].a][job[l].m].state = "sent"
      BY <1>1, <1>5, <2>16, AloneInSession, OfferHolder
    <3>2. PICK b \in Asks, n \in Members : b = job[l].a /\ n = job[l].m /\ b # a
      BY <1>4, <2>16
    <3>3. QED
      BY <2>1, <3>1, <3>2
  <2>17. OthersKept(k)
    BY <1>4, <2>3, <2>16 DEF OthersKept, CascadeInv, JobsInv, Held
  <2>18. QED
    BY <1>2, <2>4, <2>6, <2>15, <2>17, KeepsGoing, IdleFree DEF CascadeInv
<1>6. CASE offer' = [offer EXCEPT ![a][m] = OverOffer] /\ UNCHANGED <<ask, session>>
  <2>1. \A l \in Workers \ {k} : "offer" \in job[l].locks => ~(job[l].a = a /\ job[l].m = m)
    BY <1>4
  <2>2. RowsInv' /\ GoingKeeps /\ NothingReopens /\ OthersKept(k)
    BY <1>1, <1>2, <1>3, <1>6, <2>1, OneEnds
  <2>3. QED
    BY <1>2, <2>2, IdleFree DEF CascadeInv
<1>7. QED
  BY <1>5, <1>6 DEF AcceptOffer

LEMMA InvWork == ASSUME TypeInv, CascadeInv, NEW k \in Workers, Work(k) PROVE CascadeInv'
BY InvAskCoach, InvAskNext, InvAnswerNo, InvStartCascade, InvRunningAsk, InvChooseKind, InvRereadAsk,
   InvLockAsk, InvOfferToNextMember, InvSendOffer, InvMarkUnsent, InvTellExhausted, InvTakeLock,
   InvAcceptOffer, InvWithdrawOffers, InvEndOverflow DEF Work

LEMMA InvRequest == ASSUME TypeInv, CascadeInv, NEW k \in Workers, Request(k) PROVE CascadeInv'
BY InvCheckOverflow, InvAskMyRoster, InvCancelSession, InvAnswerAsk, InvDeclineOffer, InvBeginAccept
   DEF Request

LEMMA CascadeStep == TypeInv /\ CascadeInv /\ [Next]_vars => CascadeInv'
<1> SUFFICES ASSUME TypeInv, CascadeInv, [Next]_vars PROVE CascadeInv'
  OBVIOUS
<1>1. CASE Next
  BY <1>1, InvTick, InvRosterOptIn, InvRequest, InvTickEnds, InvTickExpires, InvWork, InvCrash DEF Next
<1>2. CASE UNCHANGED vars
  BY <1>2, SameSessions, QuietJobs DEF vars
<1>3. QED
  BY <1>1, <1>2

LEMMA CascadeHolds == Spec => [](TypeInv /\ CascadeInv)
<1>1. Init => TypeInv /\ CascadeInv
  BY TypeInit, CascadeInit
<1>2. TypeInv /\ CascadeInv /\ [Next]_vars => (TypeInv /\ CascadeInv)'
  BY TypeStep, CascadeStep
<1>3. QED
  BY <1>1, <1>2, PTL DEF Spec


(* The job of a session is taken once, and the session grows for that one  *)
(* acceptance only, however many members answer at the same moment and     *)
(* wherever a handler of acceptOffer dies.                                 *)
THEOREM JobTakenOnce == Spec => []TakenOnce
<1>1. ASSUME TypeInv, CascadeInv, NEW s \in Sessions
      PROVE  Cardinality(Accepted(s)) <= 1 /\ session[s].extra = Cardinality(Accepted(s))
  <2>1. TakenBefore(s)
    BY <1>1 DEF CascadeInv, RowsInv
  <2>2. \A a \in Asks, m \in Members :
           <<a, m>> \in Accepted(s) <=> ask[a].session = s /\ offer[a][m].state = "accepted"
    BY DEF Accepted
  <2>3. CASE HasAccepted(s)
    <3>1. PICK a \in Asks, m \in Members : ask[a].session = s /\ offer[a][m].state = "accepted"
      BY <2>3 DEF HasAccepted
    <3>2. \A p \in Accepted(s) : p = <<a, m>>
      <4> TAKE p \in Accepted(s)
      <4>1. PICK b \in Asks, n \in Members : p = <<b, n>>
        BY DEF Accepted
      <4>2. a = b /\ m = n
        BY <2>1, <2>2, <3>1, <4>1 DEF TakenBefore
      <4>3. QED
        BY <4>1, <4>2
    <3>3. Accepted(s) = {<<a, m>>}
      BY <2>2, <3>1, <3>2
    <3>4. Cardinality(Accepted(s)) = 1
      BY <3>3, FS_Singleton
    <3>5. QED
      BY <2>1, <2>3, <3>4 DEF TakenBefore
  <2>4. CASE ~HasAccepted(s)
    <3>1. Accepted(s) = {}
      BY <2>4 DEF Accepted, HasAccepted
    <3>2. Cardinality(Accepted(s)) = 0
      BY <3>1, FS_EmptySet
    <3>3. QED
      BY <2>1, <2>4, <3>2 DEF TakenBefore
  <2>5. QED
    BY <2>3, <2>4
<1>2. TypeInv /\ CascadeInv => TakenOnce
  BY <1>1 DEF TakenOnce
<1>3. QED
  BY <1>2, CascadeHolds, PTL

(* One offer of an ask is out at a time, and none of an ask that is over,  *)
(* unless its session is over too, however many handlers move the cascade  *)
(* on at the same moment (offerToNextMember, acceptOffer, endOverflow).    *)
THEOREM OneOffer == Spec => []OneOfferOut
<1>1. ASSUME TypeInv, CascadeInv, NEW a \in Asks
      PROVE  /\ Cardinality(Sent(a)) <= 1
             /\ Sent(a) # {} => ask[a].outcome = "open" \/ ~SessionOpen(ask[a].session)
  <2>1. OneOut /\ OutOpen
    BY <1>1 DEF CascadeInv, RowsInv
  <2>2. CASE Sent(a) = {}
    <3>1. Cardinality(Sent(a)) = 0
      BY <2>2, FS_EmptySet
    <3>2. QED
      BY <2>2, <3>1
  <2>3. ASSUME NEW m \in Sent(a)
        PROVE  Cardinality(Sent(a)) = 1 /\ (ask[a].outcome = "open" \/ ~SessionOpen(ask[a].session))
    <3>1. m \in Members /\ offer[a][m].state = "sent"
      BY <2>3 DEF Sent
    <3>2. Sent(a) = {m}
      BY <2>1, <3>1 DEF Sent, OneOut
    <3>3. Cardinality(Sent(a)) = 1
      BY <3>2, FS_Singleton
    <3>4. QED
      BY <2>1, <3>1, <3>3 DEF OutOpen
  <2>4. QED
    BY <2>2, <2>3
<1>2. TypeInv /\ CascadeInv => OneOfferOut
  BY <1>1 DEF OneOfferOut
<1>3. QED
  BY <1>2, CascadeHolds, PTL

(* A coach is asked about a session once, however many bookings and joins  *)
(* fill it at once, and after their no nobody is offered the job           *)
(* (checkOverflow, answerAsk).                                             *)
THEOREM AskedAndAnswered == Spec => []QuestionKept
<1>1. ASSUME TypeInv, CascadeInv, NEW s \in Sessions
      PROVE  Cardinality({a \in Asks : ask[a].session = s /\ ask[a].asked}) <= 1
  <2>1. PICK asked : asked = {a \in Asks : ask[a].session = s /\ ask[a].asked}
    OBVIOUS
  <2>2. \A a, b \in asked : a = b
    BY <1>1, <2>1 DEF CascadeInv, RowsInv, AskedOnce
  <2>3. CASE asked = {}
    <3>1. Cardinality(asked) = 0
      BY <2>3, FS_EmptySet
    <3>2. QED
      BY <2>1, <3>1
  <2>4. ASSUME NEW a \in asked PROVE Cardinality(asked) = 1
    <3>1. asked = {a}
      BY <2>2
    <3>2. QED
      BY <3>1, FS_Singleton
  <2>5. QED
    BY <2>1, <2>3, <2>4
<1>2. ASSUME TypeInv, CascadeInv
      PROVE  \A a \in Asks : ask[a].outcome = "declined" => \A m \in Members : offer[a][m] = NoOffer
  BY <1>2 DEF CascadeInv, RowsInv, NoOffersYet
<1>3. TypeInv /\ CascadeInv => QuestionKept
  BY <1>1, <1>2 DEF QuestionKept
<1>4. QED
  BY <1>3, CascadeHolds, PTL

(* Two accepts that have their rows and whose job is open are of one ask,  *)
(* so they are one.                                                        *)
LEMMA OneAccepts ==
    ASSUME TypeInv, CascadeInv, NEW k \in Workers, NEW j \in Workers,
           "offer" \in job[k].locks, "offer" \in job[j].locks, job[j].s = job[k].s,
           SessionOpen(job[k].s)
    PROVE  k = j
<1>1. /\ job[k].a \in Asks /\ ask[job[k].a].session = job[k].s /\ "ask" \in job[k].locks
      /\ job[j].a \in Asks /\ ask[job[j].a].session = job[k].s /\ "ask" \in job[j].locks
      /\ job[k].m \in Members /\ offer[job[k].a][job[k].m].state = "sent"
      /\ job[j].m \in Members /\ offer[job[j].a][job[j].m].state = "sent"
  BY OfferHolder
<1>2. ask[job[k].a].outcome = "open" /\ ask[job[j].a].outcome = "open"
  BY <1>1 DEF CascadeInv, RowsInv, OutOpen
<1>3. job[k].a = job[j].a
  BY <1>1, <1>2 DEF CascadeInv, RowsInv, LiveOnce
<1>4. QED
  BY <1>1, <1>3 DEF CascadeInv, JobsInv, OneHolder

(* Who waits has fewer rows than the one it waits for, or both have an     *)
(* offer's.                                                                *)
LEMMA WaitsForMore ==
    ASSUME TypeInv, CascadeInv, NEW k \in Workers, NEW j \in Workers, WaitsFor(k, j)
    PROVE  /\ k # j
           /\ \/ job[k].locks = {} /\ job[j].locks # {}
              \/ job[k].locks = {"ask"} /\ "ask" \in job[k].locks /\ "offer" \in job[j].locks /\ job[j].a = job[k].a
              \/ /\ "offer" \in job[k].locks /\ "offer" \in job[j].locks /\ job[j].s = job[k].s
                 /\ SessionOpen(job[k].s)
<1>1. k # j /\ job[k] \in Job /\ JobFits(job[k])
  BY DEF WaitsFor, TypeInv
<1>2. CASE /\ job[k].op = "accept" /\ Cardinality(job[k].locks) < 2
           /\ HasLock(j, NextLock(job[k]), job[k].a)
  <2>1. \/ job[k].locks = {} /\ NextLock(job[k]) = "ask"
        \/ job[k].locks = {"ask"} /\ NextLock(job[k]) = "offer"
    BY <1>1, <1>2, LockNext DEF JobFits
  <2>2. QED
    BY <1>1, <1>2, <2>1 DEF HasLock
<1>3. CASE job[k].op = "offer" /\ HasLock(j, "ask", job[k].a)
  BY <1>1, <1>3 DEF JobFits, HasLock
<1>4. CASE job[k].op = "offering" /\ HasLock(j, "offer", job[k].a)
  BY <1>1, <1>4 DEF JobFits, HasLock
<1>5. CASE /\ job[k].op = "accept" /\ Cardinality(job[k].locks) = 2
           /\ "offer" \in job[j].locks /\ job[j].s = job[k].s
           /\ StillOpen(job[k]) \/ StillOpen(job[j])
  <2>1. job[k].locks = {"ask", "offer"}
    BY <1>1, <1>5, LockNext DEF JobFits
  <2>2. SessionOpen(job[k].s)
    BY <1>5 DEF StillOpen
  <2>3. QED
    BY <1>1, <1>5, <2>1, <2>2
<1>6. QED
  BY <1>2, <1>3, <1>4, <1>5 DEF WaitsFor

(* Handlers that take several rows never wait for each other in a ring:    *)
(* the ask's row is taken before any offer's (acceptOffer's comment), and  *)
(* of the accepts of one open session only one has an offer's row.         *)
THEOREM NoRing == Spec => []NoLockRing
<1>1. ASSUME TypeInv, CascadeInv, NEW k \in Workers, NEW j \in Workers,
             WaitsFor(k, j), WaitsFor(j, k)
      PROVE  FALSE
  <2>1. job[k].locks # {} /\ job[j].locks # {}
    BY <1>1, WaitsForMore
  <2>2. CASE job[k].locks = {"ask"} /\ "offer" \in job[j].locks /\ job[j].a = job[k].a
    BY <1>1, <2>2, OnlyHolder, WaitsForMore
  <2>3. CASE job[j].locks = {"ask"} /\ "offer" \in job[k].locks /\ job[j].a = job[k].a
    BY <1>1, <2>3, OnlyHolder, WaitsForMore
  <2>4. CASE /\ "offer" \in job[k].locks /\ "offer" \in job[j].locks /\ job[j].s = job[k].s
             /\ SessionOpen(job[k].s)
    BY <1>1, <2>4, OneAccepts, WaitsForMore
  <2>5. QED
    BY <1>1, <2>1, <2>2, <2>3, <2>4, WaitsForMore
<1>2. TypeInv /\ CascadeInv => NoLockRing
  BY <1>1 DEF NoLockRing
<1>3. QED
  BY <1>2, CascadeHolds, PTL



----------------------------------------------------------------------------
(* A cascade that is to go on: chosen, open, its session open and its job   *)
(* not taken.                                                              *)
Runs(a) == /\ ask[a].outcome = "open" /\ ask[a].kind # "none"
           /\ SessionOpen(ask[a].session) /\ ~HasAccepted(ask[a].session)

(* A handler that will come to ask a's next member: its session is one the *)
(* tick has still to advance, or being looked at, or a is being offered.   *)
Cares(j, a) ==
    \/ ask[a].session \in j.todo
    \/ j.op \in {"start", "running", "choose", "reread"} /\ ask[a].session = j.s
    \/ j.op \in {"offer", "offering", "unsent"} /\ j.a = a

Tells(j, a) == j.op = "exhausted" /\ j.a = a

Carried(a) == Runs(a) => Sent(a) # {} \/ \E k \in Workers : Cares(job[k], a)

EndTold(a) == ask[a].outcome = "exhausted" =>
                 "exhausted" \in ask[a].told \/ \E k \in Workers : Tells(job[k], a)

(* What a handler works on is its session's, and an accept has no tick's   *)
(* sessions to advance.                                                    *)
OwnRow(j) ==
    /\ j.op = "choose" /\ j.a # None => ask[j.a].session = j.s
    /\ j.op \in {"offer", "offering", "send", "unsent", "exhausted"} => ask[j.a].session = j.s
    /\ j.op = "accept" => j.todo = {}

MoveInv == /\ \A k \in Workers : OwnRow(job[k])
           /\ faults = 0 => \A a \in Asks : Carried(a) /\ EndTold(a)

(* What a step must do with ask a when handler k goes on as j. *)
PassesOn(k, j, a) ==
    Runs(a)' => \/ Sent(a)' # {}
                \/ Cares(j, a)'
                \/ Runs(a) /\ Sent(a) = {} /\ ~Cares(job[k], a)

TellsOn(k, j, a) ==
    ask'[a].outcome = "exhausted" =>
        \/ "exhausted" \in ask'[a].told
        \/ Tells(j, a)
        \/ /\ ask[a].outcome = "exhausted" /\ ask[a].told \subseteq ask'[a].told
           /\ ~Tells(job[k], a)

LEMMA RowStays ==
    ASSUME TypeInv, Stays, NEW i \in Job, JobFits(i), OwnRow(i)
    PROVE  OwnRow(i)'
<1>1. i.a \in Asks \cup {None}
  BY DEF Job
<1>2. \A a \in Asks : ask[a].session \in Sessions => ask'[a].session = ask[a].session
  BY Zeros DEF Stays, None
<1>3. QED
  BY <1>1, <1>2 DEF JobFits, OwnRow, Cascading

LEMMA SameCare ==
    ASSUME NEW i, NEW a, ask'[a].session = ask[a].session
    PROVE  Cares(i, a)' <=> Cares(i, a)
BY DEF Cares

LEMMA MovesOn ==
    ASSUME TypeInv, MoveInv, Stays, NEW k \in Workers, NEW j \in Job, Go(k, j), OwnRow(j)',
           UNCHANGED faults,
           faults = 0 => \A a \in Asks : PassesOn(k, j, a) /\ TellsOn(k, j, a)
    PROVE  MoveInv'
<1>1. \A l \in Workers : job'[l] = IF l = k THEN j ELSE job[l]
  BY Jobs DEF TypeInv
<1>2. ASSUME NEW l \in Workers PROVE OwnRow(job[l])'
  <2>1. CASE l = k
    <3>1. job'[l] = j
      BY <1>1, <2>1
    <3>2. QED
      BY <3>1 DEF OwnRow
  <2>2. CASE l # k
    <3>1. PICK i \in Job : i = job[l] /\ JobFits(i) /\ OwnRow(i)
      BY DEF TypeInv, MoveInv
    <3>2. OwnRow(i)'
      BY <3>1, RowStays
    <3>3. job'[l] = i
      BY <1>1, <2>2, <3>1
    <3>4. QED
      BY <3>2, <3>3 DEF OwnRow
  <2>3. QED
    BY <2>1, <2>2
<1>3. ASSUME faults = 0, NEW a \in Asks PROVE Carried(a)'
  <2>1. SUFFICES ASSUME Runs(a)', ~(Sent(a)' # {}) PROVE \E l \in Workers : Cares(job[l], a)'
    BY DEF Carried, Cares
  <2>2. CASE Cares(j, a)'
    <3>1. job'[k] = j
      BY <1>1
    <3>2. Cares(job[k], a)'
      BY <2>2, <3>1 DEF Cares
    <3>3. QED
      BY <3>2
  <2>3. CASE Runs(a) /\ Sent(a) = {} /\ ~Cares(job[k], a)
    <3>1. PICK l \in Workers : Cares(job[l], a)
      BY <1>3, <2>3 DEF MoveInv, Carried
    <3>2. l # k
      BY <2>3, <3>1
    <3>3. ask[a].session # None
      BY <2>3, OpenIsThere DEF Runs
    <3>4. ask'[a].session = ask[a].session
      BY <3>3 DEF Stays
    <3>5. PICK i : i = job[l]
      OBVIOUS
    <3>6. Cares(i, a)' /\ job'[l] = i
      BY <1>1, <3>1, <3>2, <3>4, <3>5, SameCare
    <3>7. Cares(job[l], a)'
      BY <3>6 DEF Cares
    <3>8. QED
      BY <3>7
  <2>4. QED
    BY <1>3, <2>1, <2>2, <2>3 DEF PassesOn
<1>4. ASSUME faults = 0, NEW a \in Asks PROVE EndTold(a)'
  <2>1. SUFFICES ASSUME ask'[a].outcome = "exhausted", "exhausted" \notin ask'[a].told
                 PROVE  \E l \in Workers : Tells(job'[l], a)
    BY DEF EndTold, Tells
  <2>2. CASE Tells(j, a)
    BY <1>1, <2>2
  <2>3. CASE ask[a].outcome = "exhausted" /\ ask[a].told \subseteq ask'[a].told /\ ~Tells(job[k], a)
    <3>1. PICK l \in Workers : Tells(job[l], a)
      BY <1>4, <2>1, <2>3 DEF MoveInv, EndTold
    <3>2. l # k
      BY <2>3, <3>1
    <3>3. QED
      BY <1>1, <3>1, <3>2
  <2>4. QED
    BY <1>4, <2>1, <2>2, <2>3 DEF TellsOn
<1>5. QED
  BY <1>2, <1>3, <1>4 DEF MoveInv

(* What was taken stays taken. *)
TakenStays == \A a \in Asks, m \in Members : offer[a][m].state = "accepted" => offer'[a][m].state = "accepted"

LEMMA RanBefore ==
    ASSUME TypeInv, Stays, NothingReopens, TakenStays, NEW a \in Asks, Runs(a)',
           ask[a].outcome = "open", ask[a].kind # "none"
    PROVE  Runs(a)
<1>1. PICK s \in Sessions : s = ask[a].session /\ s # None
  BY OpenIsThere
<1>2. ask'[a].session = s
  BY <1>1 DEF Stays
<1>3. SessionOpen(s)' /\ ~HasAccepted(s)'
  BY <1>2 DEF Runs, SessionOpen, HasAccepted
<1>4. SessionOpen(s)
  BY <1>3 DEF NothingReopens
<1>5. ~HasAccepted(s)
  BY <1>1, <1>3 DEF HasAccepted, TakenStays, Stays
<1>6. QED
  BY <1>1, <1>4, <1>5 DEF Runs

LEMMA SameRowsStay == ASSUME UNCHANGED <<ask, offer>> PROVE Stays /\ TakenStays
BY DEF Stays, TakenStays

(* Steps that write no row: who cared for a cascade that runs still does. *)
LEMMA NoRowMoves ==
    ASSUME TypeInv, MoveInv, UNCHANGED <<ask, offer, faults>>, NothingReopens,
           NEW k \in Workers, NEW j \in Job, Go(k, j), OwnRow(j),
           \A a \in Asks : Runs(a) /\ Cares(job[k], a) => Cares(j, a) \/ Sent(a) # {},
           \A a \in Asks : Tells(job[k], a) => Tells(j, a)
    PROVE  MoveInv'
<1>1. Stays /\ TakenStays
  BY SameRowsStay
<1>2. ASSUME NEW a \in Asks PROVE PassesOn(k, j, a)
  <2> SUFFICES ASSUME Runs(a)', ~(Sent(a)' # {}), ~Cares(j, a)'
               PROVE  Runs(a) /\ Sent(a) = {} /\ ~Cares(job[k], a)
    BY DEF PassesOn
  <2>1. ask[a].outcome = "open" /\ ask[a].kind # "none"
    BY DEF Runs
  <2>2. Runs(a)
    BY <1>1, <2>1, RanBefore
  <2>3. Sent(a)' = Sent(a)
    BY DEF Sent
  <2>4. ~Cares(j, a)
    BY SameCare
  <2>5. QED
    BY <2>2, <2>3, <2>4
<1>3. ASSUME NEW a \in Asks PROVE TellsOn(k, j, a)
  BY DEF TellsOn
<1>4. OwnRow(j)'
  BY DEF OwnRow
<1>5. QED
  BY <1>1, <1>2, <1>3, <1>4, MovesOn

LEMMA AfterCares ==
    ASSUME NEW i \in Job, NEW a, ask[a].session \in i.todo
    PROVE  Cares(After(i), a)
<1>1. CASE i.more
  BY <1>1 DEF After, Cares, Idle
<1>2. CASE ~i.more
  <2>1. PICK s : s = (CHOOSE r \in i.todo : TRUE)
    OBVIOUS
  <2>2. s \in i.todo
    BY <2>1
  <2>3. After(i) = [Idle EXCEPT !.op = "start", !.s = s, !.todo = i.todo \ {s}]
    BY <1>2, <2>1 DEF After
  <2>4. After(i).op = "start" /\ After(i).s = s /\ After(i).todo = i.todo \ {s}
    BY <2>3 DEF Idle
  <2>5. QED
    BY <2>2, <2>4 DEF Cares
<1>3. QED
  BY <1>1, <1>2

LEMMA AfterOwn == ASSUME NEW i \in Job PROVE OwnRow(After(i))
BY AfterIs DEF OwnRow

LEMMA IdleOwn == Idle \in Job /\ OwnRow(Idle) /\ \A a : ~Cares(Idle, a) /\ ~Tells(Idle, a)
BY IdleIsJob DEF OwnRow, Cares, Tells, Idle

LEMMA DoneMoves ==
    ASSUME TypeInv, MoveInv, UNCHANGED <<ask, offer, faults>>, NothingReopens,
           NEW k \in Workers, Done(k), job[k].op # "exhausted",
           \A a \in Asks : Runs(a) /\ Cares(job[k], a) => ask[a].session \in job[k].todo \/ Sent(a) # {}
    PROVE  MoveInv'
<1>1. job[k] \in Job
  BY DEF TypeInv
<1>2. PICK j \in Job : j = After(job[k]) /\ OwnRow(j)
  BY <1>1, AfterFits, AfterOwn
<1>3. \A a \in Asks : Runs(a) /\ Cares(job[k], a) => Cares(j, a) \/ Sent(a) # {}
  BY <1>1, <1>2, AfterCares
<1>4. \A a \in Asks : Tells(job[k], a) => Tells(j, a)
  BY DEF Tells
<1>5. Go(k, j)
  BY <1>2 DEF Done
<1>6. QED
  BY <1>2, <1>3, <1>4, <1>5, NoRowMoves

(* An idle handler takes up anything but another's cascade. *)
LEMMA BeginMoves ==
    ASSUME TypeInv, MoveInv, UNCHANGED <<ask, offer, faults>>, NothingReopens,
           NEW k \in Workers, job[k] = Idle, NEW j \in Job, Go(k, j), OwnRow(j)
    PROVE  MoveInv'
BY IdleOwn, NoRowMoves

LEMMA NoJobMoves ==
    ASSUME TypeInv, MoveInv, UNCHANGED <<ask, offer, job, faults>>, NothingReopens
    PROVE  MoveInv'
<1>1. Stays /\ TakenStays
  BY SameRowsStay
<1>2. ASSUME NEW l \in Workers PROVE OwnRow(job[l])'
  BY DEF MoveInv, OwnRow
<1>3. ASSUME faults = 0, NEW a \in Asks PROVE Carried(a)'
  <2> SUFFICES ASSUME Runs(a)' PROVE Sent(a)' # {} \/ \E k \in Workers : Cares(job[k], a)'
    BY DEF Carried, Cares
  <2>1. ask[a].outcome = "open" /\ ask[a].kind # "none"
    BY DEF Runs
  <2>2. Runs(a)
    BY <1>1, <2>1, RanBefore
  <2>3. QED
    BY <1>3, <2>2 DEF MoveInv, Carried, Sent, Cares
<1>4. ASSUME faults = 0, NEW a \in Asks PROVE EndTold(a)'
  BY <1>4 DEF MoveInv, EndTold, Tells
<1>5. QED
  BY <1>2, <1>3, <1>4 DEF MoveInv

(* What Step keeps beside the statement. *)
LEMMA StepKeeps ==
    ASSUME TypeInv, NEW k \in Workers,
           NEW op \in {"running", "withdraw", "reread", "unsent", "close"}, Step(k, op)
    PROVE  \E j \in Job : /\ Go(k, j) /\ j.op = op /\ j.s = job[k].s /\ j.a = job[k].a
                          /\ j.todo = job[k].todo
<1>1. job[k] \in Job
  BY DEF TypeInv
<1>2. [job[k] EXCEPT !.op = op] \in Job
  BY <1>1 DEF Job
<1>3. PICK j \in Job : j = [job[k] EXCEPT !.op = op]
  BY <1>2
<1>4. QED
  BY <1>1, <1>3 DEF Step, Job

----------------------------------------------------------------------------
LEMMA MoveInit == Init => MoveInv
<1> SUFFICES ASSUME Init PROVE MoveInv
  OBVIOUS
<1>1. \A k \in Workers : OwnRow(job[k])
  BY DEF Init, OwnRow, Idle
<1>2. \A a \in Asks : Carried(a) /\ EndTold(a)
  BY DEF Init, Carried, EndTold, Runs, NoAsk
<1>3. QED
  BY <1>1, <1>2 DEF MoveInv

LEMMA MoveTick == ASSUME TypeInv, CascadeInv, MoveInv, Tick PROVE MoveInv'
<1>1. NothingReopens
  <2>1. clock' = clock + 1 /\ session' = session /\ clock \in Int
    BY OverflowAssumption DEF Tick, TypeInv, RowsTyped
  <2>2. Starts \in [Sessions -> Nat]
    BY OverflowAssumption
  <2>3. QED
    BY <2>1, <2>2 DEF NothingReopens, SessionOpen
<1>2. QED
  BY <1>1, NoJobMoves DEF Tick

LEMMA MoveRosterOptIn ==
    ASSUME TypeInv, CascadeInv, MoveInv, NEW m \in Members, RosterOptIn(m) PROVE MoveInv'
BY SameSessions, NoJobMoves DEF RosterOptIn

LEMMA MoveCheckOverflow ==
    ASSUME TypeInv, CascadeInv, MoveInv, NEW k \in Workers, NEW s \in Sessions, CheckOverflow(k, s)
    PROVE  MoveInv'
<1>1. NothingReopens
  BY SameSessions DEF CheckOverflow
<1>2. CASE UNCHANGED job
  BY <1>1, <1>2, NoJobMoves DEF CheckOverflow
<1>3. CASE Go(k, [Idle EXCEPT !.op = "ask", !.s = s])
  <2>1. PICK j \in Job : j = [Idle EXCEPT !.op = "ask", !.s = s]
    BY IdleIsJob DEF Job
  <2>2. OwnRow(j)
    BY <2>1 DEF OwnRow, Idle
  <2>3. QED
    BY <1>1, <1>3, <2>1, <2>2, BeginMoves DEF CheckOverflow
<1>4. QED
  BY <1>2, <1>3 DEF CheckOverflow

LEMMA MoveAskNext ==
    ASSUME TypeInv, CascadeInv, MoveInv, NEW k \in Workers, AskAboutNextFullSession(k)
    PROVE  MoveInv'
<1>1. NothingReopens /\ job[k].op = "next" /\ job[k] \in Job
  BY SameSessions DEF AskAboutNextFullSession, TypeInv
<1>2. CASE Done(k)
  BY <1>1, <1>2, DoneMoves DEF AskAboutNextFullSession, Cares
<1>3. ASSUME NEW s \in full, Go(k, [job[k] EXCEPT !.op = "ask", !.s = s])
      PROVE  MoveInv'
  <2>1. s \in Sessions
    BY DEF TypeInv, RowsTyped
  <2>2. PICK j \in Job : j = [job[k] EXCEPT !.op = "ask", !.s = s]
    BY <1>1, <2>1 DEF Job
  <2>3. j.op = "ask" /\ j.todo = job[k].todo
    BY <1>1, <2>2 DEF Job
  <2>4. OwnRow(j) /\ \A a \in Asks : /\ Cares(job[k], a) => Cares(j, a)
                                     /\ Tells(job[k], a) => Tells(j, a)
    BY <1>1, <2>3 DEF OwnRow, Cares, Tells
  <2>5. QED
    BY <1>1, <1>3, <2>2, <2>4, NoRowMoves DEF AskAboutNextFullSession
<1>4. QED
  BY <1>2, <1>3 DEF AskAboutNextFullSession

LEMMA MoveAnswerAsk ==
    ASSUME TypeInv, CascadeInv, MoveInv, NEW k \in Workers, NEW answer \in Kinds \cup {"no"}, AnswerAsk(k, answer)
    PROVE  MoveInv'
<1>1. PICK a \in OpenAsks : Go(k, [Idle EXCEPT !.op = IF answer = "no" THEN "answer" ELSE "start",
                               !.s = ask[a].session, !.kind = answer, !.more = TRUE,
                               !.a = IF answer = "no" THEN a ELSE None])
  BY DEF AnswerAsk
<1>2. a \in Asks /\ ask[a].session \in Sessions
  BY OpenIsThere DEF OpenAsks, Unanswered
<1>3. PICK j \in Job : j = [Idle EXCEPT !.op = IF answer = "no" THEN "answer" ELSE "start",
                               !.s = ask[a].session, !.kind = answer, !.more = TRUE,
                               !.a = IF answer = "no" THEN a ELSE None]
  BY <1>2, IdleIsJob DEF Job
<1>4. OwnRow(j)
  BY <1>3 DEF OwnRow, Idle
<1>5. QED
  BY <1>1, <1>3, <1>4, SameSessions, BeginMoves DEF AnswerAsk

LEMMA MoveAskMyRoster ==
    ASSUME TypeInv, CascadeInv, MoveInv, NEW k \in Workers, NEW s \in Sessions, AskMyRoster(k, s)
    PROVE  MoveInv'
<1>1. PICK j \in Job : j = [Idle EXCEPT !.op = "start", !.s = s, !.kind = "backup"]
  BY IdleIsJob DEF Job, Kinds
<1>2. OwnRow(j)
  BY <1>1 DEF OwnRow, Idle
<1>3. QED
  BY <1>1, <1>2, SameSessions, BeginMoves DEF AskMyRoster

LEMMA MoveStartCascade ==
    ASSUME TypeInv, CascadeInv, MoveInv, NEW k \in Workers, StartCascade(k) PROVE MoveInv'
<1>1. NothingReopens /\ job[k].op = "start" /\ UNCHANGED <<ask, offer, faults>>
  BY SameSessions DEF StartCascade
<1>2. CASE Done(k) /\ HasAccepted(job[k].s)
  BY <1>1, <1>2, DoneMoves DEF Cares, Runs
<1>3. CASE Step(k, "withdraw") /\ ~SessionOpen(job[k].s)
  <2>1. PICK j \in Job : Go(k, j) /\ j.op = "withdraw" /\ j.todo = job[k].todo
    BY <1>3, StepKeeps
  <2>2. OwnRow(j) /\ \A a \in Asks : /\ Runs(a) /\ Cares(job[k], a) => Cares(j, a)
                                     /\ Tells(job[k], a) => Tells(j, a)
    BY <1>1, <1>3, <2>1 DEF OwnRow, Cares, Tells, Runs
  <2>3. QED
    BY <1>1, <2>1, <2>2, NoRowMoves
<1>4. CASE Step(k, "running")
  <2>1. PICK j \in Job : Go(k, j) /\ j.op = "running" /\ j.s = job[k].s /\ j.todo = job[k].todo
    BY <1>4, StepKeeps
  <2>2. OwnRow(j) /\ \A a \in Asks : /\ Cares(job[k], a) => Cares(j, a)
                                     /\ Tells(job[k], a) => Tells(j, a)
    BY <1>1, <2>1 DEF OwnRow, Cares, Tells
  <2>3. QED
    BY <1>1, <2>1, <2>2, NoRowMoves
<1>5. QED
  BY <1>2, <1>3, <1>4 DEF StartCascade

(* The ask that runs is the one its session's live ask is. *)
LEMMA RunsAlone ==
    ASSUME CascadeInv, NEW s, NEW a \in LiveAsks(s), NEW b \in Asks, Runs(b), ask[b].session = s
    PROVE  b = a
BY DEF CascadeInv, RowsInv, LiveOnce, LiveAsks, Runs

(* Going to the live ask of the session k was looking at. *)
LEMMA OfferCares ==
    ASSUME TypeInv, CascadeInv, NEW i \in Job, i.op \in {"running", "reread"},
           NEW a \in LiveAsks(i.s), NEW j \in Job,
           j.op = "offer", j.a = a, j.s = i.s, j.todo = i.todo
    PROVE  /\ OwnRow(j)
           /\ \A b \in Asks : /\ Runs(b) /\ Cares(i, b) => Cares(j, b)
                              /\ Tells(i, b) => Tells(j, b)
<1>2. ask[a].session = i.s
  BY DEF LiveAsks
<1>3. OwnRow(j)
  BY <1>2 DEF OwnRow
<1>4. ASSUME NEW b \in Asks, Runs(b), Cares(i, b) PROVE Cares(j, b)
  <2>1. CASE ask[b].session \in i.todo
    BY <2>1 DEF Cares
  <2>2. CASE ask[b].session = i.s
    <3>1. b = a
      BY <1>4, <2>2, RunsAlone
    <3>2. QED
      BY <3>1 DEF Cares
  <2>3. QED
    BY <1>4, <2>1, <2>2 DEF Cares
<1>5. \A b \in Asks : Tells(i, b) => Tells(j, b)
  BY DEF Tells
<1>6. QED
  BY <1>3, <1>4, <1>5

LEMMA MoveRunningAsk ==
    ASSUME TypeInv, CascadeInv, MoveInv, NEW k \in Workers, RunningAsk(k) PROVE MoveInv'
<1>1. /\ NothingReopens /\ job[k].op = "running" /\ job[k] \in Job /\ UNCHANGED <<ask, offer, faults>>
  BY SameSessions DEF RunningAsk, TypeInv
<1>2. CASE Done(k) /\ \A a \in LiveAsks(job[k].s) : ask[a].kind = "none"
  <2>1. ASSUME NEW a \in Asks, Runs(a), Cares(job[k], a) PROVE ask[a].session \in job[k].todo
    BY <1>1, <1>2, <2>1 DEF Cares, Runs, LiveAsks
  <2>2. QED
    BY <1>1, <1>2, <2>1, DoneMoves
<1>3. ASSUME NEW a \in LiveAsks(job[k].s), Go(k, [job[k] EXCEPT !.op = "offer", !.a = a, !.kind = "none"])
      PROVE  MoveInv'
  <2>1. a \in Asks
    BY DEF LiveAsks
  <2>2. PICK j \in Job : j = [job[k] EXCEPT !.op = "offer", !.a = a, !.kind = "none"]
    BY <1>1, <2>1 DEF Job
  <2>3. PICK i \in Job : i = job[k] /\ i.op \in {"running", "reread"} /\ a \in LiveAsks(i.s)
    BY <1>1
  <2>4. j.op = "offer" /\ j.a = a /\ j.s = i.s /\ j.todo = i.todo
    BY <2>2, <2>3 DEF Job
  <2>5. /\ OwnRow(j)
        /\ \A b \in Asks : /\ Runs(b) /\ Cares(i, b) => Cares(j, b)
                           /\ Tells(i, b) => Tells(j, b)
    BY <2>3, <2>4, OfferCares
  <2>6. QED
    BY <1>1, <1>3, <2>2, <2>3, <2>5, NoRowMoves
<1>4. ASSUME NEW a \in LiveAsks(job[k].s) \cup {None}, Go(k, [job[k] EXCEPT !.op = "choose", !.a = a])
      PROVE  MoveInv'
  <2>1. a \in Asks \cup {None} /\ (a # None => ask[a].session = job[k].s)
    BY DEF LiveAsks
  <2>2. PICK j \in Job : j = [job[k] EXCEPT !.op = "choose", !.a = a]
    BY <1>1, <2>1 DEF Job
  <2>3. j.op = "choose" /\ j.a = a /\ j.s = job[k].s /\ j.todo = job[k].todo
    BY <1>1, <2>2 DEF Job
  <2>4. OwnRow(j) /\ \A b \in Asks : /\ Cares(job[k], b) => Cares(j, b)
                                     /\ Tells(job[k], b) => Tells(j, b)
    BY <1>1, <2>1, <2>3 DEF OwnRow, Cares, Tells
  <2>5. QED
    BY <1>1, <1>4, <2>2, <2>4, NoRowMoves
<1>5. (IF LiveAsks(job[k].s) = {} THEN None ELSE CHOOSE a \in LiveAsks(job[k].s) : TRUE) \in LiveAsks(job[k].s) \cup {None}
  OBVIOUS
<1>6. QED
  BY <1>2, <1>3, <1>4, <1>5 DEF RunningAsk

LEMMA MoveLockAsk ==
    ASSUME TypeInv, CascadeInv, MoveInv, NEW k \in Workers, LockAsk(k) PROVE MoveInv'
<1>1. /\ NothingReopens /\ job[k].op = "offer" /\ job[k] \in Job /\ OwnRow(job[k]) /\ UNCHANGED <<ask, offer, faults>>
  BY SameSessions DEF LockAsk, TypeInv, MoveInv
<1>2. CASE Done(k) /\ ask[job[k].a].outcome # "open"
  BY <1>1, <1>2, DoneMoves DEF Cares, Runs
<1>3. CASE Go(k, [job[k] EXCEPT !.op = "offering", !.locks = {"ask"}])
  <2>1. PICK j \in Job : j = [job[k] EXCEPT !.op = "offering", !.locks = {"ask"}]
    BY <1>1 DEF Job
  <2>2. j.op = "offering" /\ j.a = job[k].a /\ j.s = job[k].s /\ j.todo = job[k].todo
    BY <1>1, <2>1 DEF Job
  <2>3. OwnRow(j) /\ \A b \in Asks : /\ Cares(job[k], b) => Cares(j, b)
                                     /\ Tells(job[k], b) => Tells(j, b)
    BY <1>1, <2>2 DEF OwnRow, Cares, Tells
  <2>4. QED
    BY <1>1, <1>3, <2>1, <2>3, NoRowMoves
<1>4. QED
  BY <1>2, <1>3 DEF LockAsk

LEMMA MoveSendOffer ==
    ASSUME TypeInv, CascadeInv, MoveInv, NEW k \in Workers, SendOffer(k) PROVE MoveInv'
<1>1. NothingReopens /\ job[k].op = "send" /\ OwnRow(job[k]) /\ UNCHANGED <<ask, offer, faults>>
  BY SameSessions DEF SendOffer, MoveInv
<1>2. CASE Done(k)
  BY <1>1, <1>2, DoneMoves DEF Cares
<1>3. CASE Step(k, "unsent")
  <2>1. PICK j \in Job : /\ Go(k, j) /\ j.op = "unsent" /\ j.a = job[k].a /\ j.s = job[k].s
                         /\ j.todo = job[k].todo
    BY <1>3, StepKeeps
  <2>2. OwnRow(j) /\ \A b \in Asks : /\ Cares(job[k], b) => Cares(j, b)
                                     /\ Tells(job[k], b) => Tells(j, b)
    BY <1>1, <2>1 DEF OwnRow, Cares, Tells
  <2>3. QED
    BY <1>1, <2>1, <2>2, NoRowMoves
<1>4. QED
  BY <1>2, <1>3 DEF SendOffer

LEMMA MoveBeginAccept ==
    ASSUME TypeInv, CascadeInv, MoveInv, NEW k \in Workers, NEW a \in Asks, NEW m \in Members, BeginAccept(k, a, m)
    PROVE  MoveInv'
<1>1. ask[a].session \in Sessions
  BY SentIsThere DEF BeginAccept
<1>2. clock \in Int
  BY DEF TypeInv, RowsTyped
<1>3. PICK j \in Job : j = [Idle EXCEPT !.op = "accept", !.s = ask[a].session, !.a = a, !.m = m, !.at = clock]
  BY <1>1, <1>2, IdleIsJob DEF Job
<1>4. OwnRow(j)
  BY <1>3 DEF OwnRow, Idle
<1>5. QED
  BY <1>3, <1>4, SameSessions, BeginMoves DEF BeginAccept

LEMMA MoveTakeLock ==
    ASSUME TypeInv, CascadeInv, MoveInv, NEW k \in Workers, TakeLock(k) PROVE MoveInv'
<1>1. /\ NothingReopens /\ job[k].op = "accept" /\ job[k] \in Job /\ OwnRow(job[k]) /\ UNCHANGED <<ask, offer, faults>>
  BY SameSessions DEF TakeLock, TypeInv, MoveInv
<1>2. \A b \in Asks : ~Cares(job[k], b) /\ ~Tells(job[k], b)
  BY <1>1 DEF OwnRow, Cares, Tells
<1>3. CASE Go(k, Idle)
  BY <1>1, <1>2, <1>3, IdleOwn, NoRowMoves
<1>4. CASE Go(k, [job[k] EXCEPT !.locks = @ \cup {NextLock(job[k])}])
  <2>1. PICK j : j = [job[k] EXCEPT !.locks = @ \cup {NextLock(job[k])}]
    OBVIOUS
  <2>2. j.op = "accept" /\ j.todo = job[k].todo
    BY <1>1, <2>1 DEF Job
  <2>3. job' = [job EXCEPT ![k] = j]
    BY <1>4, <2>1 DEF Go
  <2>4. j \in Job
    BY <2>3, TypeTakeLock DEF TypeInv
  <2>5. OwnRow(j)
    BY <1>1, <2>2 DEF OwnRow
  <2>6. QED
    BY <1>1, <1>2, <1>4, <2>1, <2>4, <2>5, NoRowMoves
<1>5. QED
  BY <1>3, <1>4 DEF TakeLock

LEMMA MoveCancelSession ==
    ASSUME TypeInv, CascadeInv, MoveInv, NEW k \in Workers, NEW s \in Sessions, CancelSession(k, s)
    PROVE  MoveInv'
<1>1. PICK now : now = [session EXCEPT ![s].cancelled = TRUE]
  OBVIOUS
<1>2. \A r \in Sessions : session[r].cancelled => now[r].cancelled
  BY <1>1 DEF TypeInv, RowsTyped
<1>3. session' = now /\ clock' = clock
  BY <1>1 DEF CancelSession
<1>4. NothingReopens
  BY <1>2, <1>3 DEF NothingReopens, SessionOpen
<1>5. PICK j \in Job : j = [Idle EXCEPT !.op = "withdraw", !.s = s]
  BY IdleIsJob DEF Job
<1>6. OwnRow(j)
  BY <1>5 DEF OwnRow, Idle
<1>7. QED
  BY <1>4, <1>5, <1>6, BeginMoves DEF CancelSession

LEMMA MoveTickEnds ==
    ASSUME TypeInv, CascadeInv, MoveInv, NEW k \in Workers, TickEnds(k) PROVE MoveInv'
<1>1. PICK s \in Sessions : Go(k, [Idle EXCEPT !.op = "withdraw", !.s = s, !.more = TRUE])
  BY DEF TickEnds
<1>2. PICK j \in Job : j = [Idle EXCEPT !.op = "withdraw", !.s = s, !.more = TRUE]
  BY IdleIsJob DEF Job
<1>3. OwnRow(j)
  BY <1>2 DEF OwnRow, Idle
<1>4. QED
  BY <1>1, <1>2, <1>3, SameSessions, BeginMoves DEF TickEnds

----------------------------------------------------------------------------
(* Ask a was open and chosen before, and k hands on what it cared for. *)
LEMMA PassIf ==
    ASSUME TypeInv, Stays, NothingReopens, TakenStays, NEW a \in Asks, NEW k \in Workers, NEW j,
           ask'[a].outcome = "open" => ask[a].outcome = "open",
           ask'[a].kind # "none" => ask[a].kind # "none",
           Runs(a) /\ (Sent(a) # {} \/ Cares(job[k], a)) => Sent(a)' # {} \/ Cares(j, a)
    PROVE  PassesOn(k, j, a)
<1> SUFFICES ASSUME Runs(a)', ~(Sent(a)' # {}), ~Cares(j, a)'
             PROVE  Runs(a) /\ Sent(a) = {} /\ ~Cares(job[k], a)
  BY DEF PassesOn
<1>1. ask[a].outcome = "open" /\ ask[a].kind # "none"
  BY DEF Runs
<1>2. Runs(a)
  BY <1>1, RanBefore
<1>3. ask'[a].session = ask[a].session
  BY <1>1, OpenIsThere DEF Stays
<1>4. ~Cares(j, a)
  BY <1>3, SameCare
<1>5. QED
  BY <1>2, <1>4

LEMMA TellsIf ==
    ASSUME NEW a, NEW k, NEW j, job[k].op # "exhausted",
           ask'[a].outcome = "exhausted" => ask[a].outcome = "exhausted" /\ ask'[a].told = ask[a].told
    PROVE  TellsOn(k, j, a)
BY DEF TellsOn, Tells

LEMMA SameSent ==
    ASSUME NEW a, \A m \in Members : offer'[a][m] = offer[a][m]
    PROVE  Sent(a)' = Sent(a)
BY DEF Sent

LEMMA AfterGoesOn ==
    ASSUME TypeInv, NEW k \in Workers
    PROVE  \E j \in Job : /\ j = After(job[k]) /\ OwnRow(j)' /\ OwnRow(j)
                          /\ \A a : ask[a].session \in job[k].todo => Cares(j, a)
<1>1. PICK i \in Job : i = job[k]
  BY DEF TypeInv
<1>2. PICK j \in Job : j = After(i) /\ j.op \in {"idle", "next", "start"}
  BY AfterIs
<1>3. OwnRow(j)' /\ OwnRow(j)
  BY <1>2 DEF OwnRow
<1>4. \A a : ask[a].session \in i.todo => Cares(j, a)
  BY <1>2, AfterCares
<1>5. QED
  BY <1>1, <1>2, <1>3, <1>4

(* Asks move and no offer does. *)
LEMMA AsksPass ==
    ASSUME TypeInv, MoveInv, Stays, UNCHANGED <<clock, session, offer, faults>>,
           NEW k \in Workers, NEW j \in Job, Go(k, j), OwnRow(j)', job[k].op # "exhausted",
           \A a \in Asks :
              \/ Runs(a)' => Cares(j, a)'
              \/ /\ ask'[a].outcome = "open" => ask[a].outcome = "open"
                 /\ ask'[a].kind # "none" => ask[a].kind # "none"
                 /\ Runs(a) /\ Cares(job[k], a) => Cares(j, a),
           \A a \in Asks :
              ask'[a].outcome = "exhausted" => ask[a].outcome = "exhausted" /\ ask'[a].told = ask[a].told
    PROVE  MoveInv'
<1>1. NothingReopens
  BY SameSessions
<1>2. TakenStays
  BY DEF TakenStays
<1>3. ASSUME NEW a \in Asks PROVE PassesOn(k, j, a)
  <2>1. Sent(a)' = Sent(a)
    BY SameSent
  <2>2. CASE Runs(a)' => Cares(j, a)'
    BY <2>2 DEF PassesOn
  <2>3. CASE /\ ask'[a].outcome = "open" => ask[a].outcome = "open"
             /\ ask'[a].kind # "none" => ask[a].kind # "none"
             /\ Runs(a) /\ Cares(job[k], a) => Cares(j, a)
    <3>1. Runs(a) /\ (Sent(a) # {} \/ Cares(job[k], a)) => Sent(a)' # {} \/ Cares(j, a)
      BY <2>1, <2>3
    <3>2. QED
      BY <1>1, <1>2, <2>3, <3>1, PassIf
  <2>4. QED
    BY <2>2, <2>3
<1>4. ASSUME NEW a \in Asks PROVE TellsOn(k, j, a)
  BY TellsIf
<1>5. QED
  BY <1>3, <1>4, MovesOn

LEMMA FreshIs ==
    ASSUME TypeInv, FreeAsks # {}, NEW s \in Sessions, NEW kind \in Kinds \cup {"none"}, NEW asked \in BOOLEAN,
           ask' = NewRow(s, kind, asked)
    PROVE  /\ NewAsk \in Asks
           /\ ask'[NewAsk].session = s /\ ask'[NewAsk].kind = kind /\ ask'[NewAsk].outcome = "open"
           /\ \A a \in Asks : a # NewAsk => ask'[a] = ask[a]
<1>1. PICK n \in Asks : n = NewAsk
  BY NewAskIsFree
<1>2. ask' = [ask EXCEPT ![n] = FreshAsk(s, kind, asked)]
  BY <1>1, FreshRow
<1>3. ask'[n] = FreshAsk(s, kind, asked) /\ \A a \in Asks : a # n => ask'[a] = ask[a]
  BY <1>2 DEF TypeInv, RowsTyped
<1>4. ask'[n].session = s /\ ask'[n].kind = kind /\ ask'[n].outcome = "open"
  BY <1>3, FreshRow
<1>5. QED
  BY <1>1, <1>3, <1>4

LEMMA MoveAskCoach ==
    ASSUME TypeInv, CascadeInv, MoveInv, NEW k \in Workers, AskCoach(k) PROVE MoveInv'
<1>1. job[k].op = "ask" /\ job[k].s \in Sessions /\ UNCHANGED <<clock, session, offer, faults>> /\ Stays
  BY AskCoachRows DEF AskCoach, TypeInv, JobFits, RowsGoOn
<1>2. PICK j \in Job : /\ j = After(job[k]) /\ OwnRow(j)'
                       /\ \A a : ask[a].session \in job[k].todo => Cares(j, a)
  BY AfterGoesOn
<1>3. Go(k, j)
  BY <1>2 DEF AskCoach, Done
<1>4. \A a \in Asks : Cares(job[k], a) => Cares(j, a)
  BY <1>1, <1>2 DEF Cares
<1>5. CASE ask' = ask
  BY <1>1, <1>2, <1>3, <1>4, <1>5, AsksPass
<1>6. CASE FreeAsks # {} /\ ask' = NewRow(job[k].s, "none", TRUE)
  <2>a. PICK s \in Sessions, kind \in Kinds \cup {"none"}, asked \in BOOLEAN :
           s = job[k].s /\ kind = "none" /\ asked = TRUE
    BY <1>1
  <2>b. ask' = NewRow(s, kind, asked)
    BY <1>6, <2>a
  <2>c. PICK n : n = NewAsk
    OBVIOUS
  <2>1. /\ n \in Asks /\ ask'[n].session = s /\ ask'[n].kind = kind /\ ask'[n].outcome = "open"
        /\ \A a \in Asks : a # n => ask'[a] = ask[a]
    BY <1>6, <2>b, <2>c, FreshIs
  <2>2. ASSUME NEW a \in Asks
        PROVE  \/ Runs(a)' => Cares(j, a)'
               \/ /\ ask'[a].outcome = "open" => ask[a].outcome = "open"
                  /\ ask'[a].kind # "none" => ask[a].kind # "none"
                  /\ Runs(a) /\ Cares(job[k], a) => Cares(j, a)
    <3>1. CASE a = n
      BY <2>a, <2>1, <3>1 DEF Runs
    <3>2. CASE a # n
      BY <1>4, <2>1, <3>2
    <3>3. QED
      BY <3>1, <3>2
  <2>3. \A a \in Asks :
          ask'[a].outcome = "exhausted" => ask[a].outcome = "exhausted" /\ ask'[a].told = ask[a].told
    BY <2>1
  <2>4. QED
    BY <1>1, <1>2, <1>3, <2>2, <2>3, AsksPass
<1>7. QED
  BY <1>5, <1>6 DEF AskCoach

LEMMA ClosedIs ==
    ASSUME TypeInv, NEW a \in Asks, NEW outcome, CloseAsk(a, outcome)
    PROVE  /\ ask'[a].outcome = outcome
           /\ \A b \in Asks : /\ b # a => ask'[b] = ask[b]
                              /\ ask'[b].session = ask[b].session /\ ask'[b].kind = ask[b].kind
                              /\ ask'[b].told = ask[b].told
<1>1. ask[a] \in Ask
  BY DEF TypeInv, RowsTyped
<1>2. PICK row : row = [ask[a] EXCEPT !.outcome = outcome]
  OBVIOUS
<1>3. /\ row.outcome = outcome /\ row.session = ask[a].session /\ row.kind = ask[a].kind
      /\ row.told = ask[a].told
  BY <1>1, <1>2 DEF Ask
<1>4. ask' = [ask EXCEPT ![a] = row]
  BY <1>2 DEF CloseAsk
<1>5. ask'[a] = row /\ \A b \in Asks : b # a => ask'[b] = ask[b]
  BY <1>4 DEF TypeInv, RowsTyped
<1>6. QED
  BY <1>3, <1>5

LEMMA MoveAnswerNo ==
    ASSUME TypeInv, CascadeInv, MoveInv, NEW k \in Workers, AnswerNo(k) PROVE MoveInv'
<1>1. job[k].op = "answer" /\ job[k].a \in Asks /\ UNCHANGED <<clock, session, offer, faults>> /\ Stays
  BY AnswerNoRows DEF AnswerNo, TypeInv, JobFits, RowsGoOn
<1>2. PICK j \in Job : /\ j = After(job[k]) /\ OwnRow(j)'
                       /\ \A a : ask[a].session \in job[k].todo => Cares(j, a)
  BY AfterGoesOn
<1>3. Go(k, j)
  BY <1>2 DEF AnswerNo, Done
<1>4. \A a \in Asks : Cares(job[k], a) => Cares(j, a)
  BY <1>1, <1>2 DEF Cares
<1>5. CASE ask' = ask
  BY <1>1, <1>2, <1>3, <1>4, <1>5, AsksPass
<1>6. CASE CloseAsk(job[k].a, "declined")
  <2>1. PICK a \in Asks : a = job[k].a
    BY <1>1
  <2>2. CloseAsk(a, "declined")
    BY <1>6, <2>1
  <2>3. /\ ask'[a].outcome = "declined"
        /\ \A b \in Asks : b # a => ask'[b] = ask[b]
    BY <2>2, ClosedIs
  <2>4. \A b \in Asks :
          ask'[b].outcome = "exhausted" => ask[b].outcome = "exhausted" /\ ask'[b].told = ask[b].told
    BY <2>3
  <2>5. ASSUME NEW b \in Asks
        PROVE  \/ Runs(b)' => Cares(j, b)'
               \/ /\ ask'[b].outcome = "open" => ask[b].outcome = "open"
                  /\ ask'[b].kind # "none" => ask[b].kind # "none"
                  /\ Runs(b) /\ Cares(job[k], b) => Cares(j, b)
    <3>1. CASE b = a
      BY <2>3, <3>1 DEF Runs
    <3>2. CASE b # a
      BY <1>4, <2>3, <3>2
    <3>3. QED
      BY <3>1, <3>2
  <2>6. QED
    BY <1>1, <1>2, <1>3, <2>4, <2>5, AsksPass
<1>7. QED
  BY <1>5, <1>6 DEF AnswerNo

LEMMA MoveChooseKind ==
    ASSUME TypeInv, CascadeInv, MoveInv, NEW k \in Workers, ChooseKind(k) PROVE MoveInv'
<1>1. /\ job[k].op = "choose" /\ job[k].s \in Sessions /\ job[k].kind \in Kinds
      /\ job[k].a \in Asks \cup {None} /\ OwnRow(job[k])
      /\ UNCHANGED <<clock, session, offer, faults>> /\ Stays
  BY ChooseKindRows DEF ChooseKind, TypeInv, JobFits, RowsGoOn, Job, MoveInv
<1>2. PICK j \in Job : Go(k, j) /\ j.op = "reread" /\ j.s = job[k].s /\ j.todo = job[k].todo
  BY StepKeeps DEF ChooseKind
<1>3. OwnRow(j)'
  BY <1>2 DEF OwnRow
<1>4. \A a \in Asks : Cares(job[k], a) => Cares(j, a)
  BY <1>1, <1>2 DEF Cares
<1>5. CASE ask' = ask
  BY <1>1, <1>2, <1>3, <1>4, <1>5, AsksPass
<1>6. ASSUME NEW n \in Asks, ask'[n].session = job[k].s, ask'[n].outcome # "exhausted",
             \A a \in Asks : a # n => ask'[a] = ask[a]
      PROVE  MoveInv'
  <2>1. ASSUME NEW a \in Asks
        PROVE  \/ Runs(a)' => Cares(j, a)'
               \/ /\ ask'[a].outcome = "open" => ask[a].outcome = "open"
                  /\ ask'[a].kind # "none" => ask[a].kind # "none"
                  /\ Runs(a) /\ Cares(job[k], a) => Cares(j, a)
    <3>1. CASE a = n
      BY <1>2, <1>6, <3>1 DEF Cares
    <3>2. CASE a # n
      BY <1>4, <1>6, <3>2
    <3>3. QED
      BY <3>1, <3>2
  <2>2. \A a \in Asks :
          ask'[a].outcome = "exhausted" => ask[a].outcome = "exhausted" /\ ask'[a].told = ask[a].told
    BY <1>6
  <2>3. QED
    BY <1>1, <1>2, <1>3, <2>1, <2>2, AsksPass
<1>7. CASE FreeAsks # {} /\ ask' = NewRow(job[k].s, job[k].kind, FALSE)
  <2>1. PICK s \in Sessions, kind \in Kinds \cup {"none"}, asked \in BOOLEAN :
           s = job[k].s /\ kind = job[k].kind /\ asked = FALSE
    BY <1>1
  <2>2. ask' = NewRow(s, kind, asked)
    BY <1>7, <2>1
  <2>c. PICK n : n = NewAsk
    OBVIOUS
  <2>3. /\ n \in Asks /\ ask'[n].session = s /\ ask'[n].kind = kind /\ ask'[n].outcome = "open"
        /\ \A a \in Asks : a # n => ask'[a] = ask[a]
    BY <1>7, <2>2, <2>c, FreshIs
  <2>4. QED
    BY <1>6, <2>1, <2>3
<1>8. CASE job[k].a # None /\ ask' = [ask EXCEPT ![job[k].a].kind = job[k].kind]
  <2>1. PICK n \in Asks : n = job[k].a /\ ask[n].session = job[k].s
    BY <1>1, <1>8 DEF OwnRow
  <2>2. ask[n] \in Ask
    BY DEF TypeInv, RowsTyped
  <2>3. PICK row : row = [ask[n] EXCEPT !.kind = job[k].kind]
    OBVIOUS
  <2>4. row.session = job[k].s /\ row.outcome = ask[n].outcome /\ row.told = ask[n].told
    BY <2>1, <2>2, <2>3 DEF Ask
  <2>5. ask' = [ask EXCEPT ![n] = row]
    BY <1>8, <2>1, <2>3
  <2>6. ask'[n] = row /\ \A a \in Asks : a # n => ask'[a] = ask[a]
    BY <2>5 DEF TypeInv, RowsTyped
  <2>7. ASSUME NEW a \in Asks
        PROVE  \/ Runs(a)' => Cares(j, a)'
               \/ /\ ask'[a].outcome = "open" => ask[a].outcome = "open"
                  /\ ask'[a].kind # "none" => ask[a].kind # "none"
                  /\ Runs(a) /\ Cares(job[k], a) => Cares(j, a)
    <3>1. CASE a = n
      BY <1>2, <2>4, <2>6, <3>1 DEF Cares
    <3>2. CASE a # n
      BY <1>4, <2>6, <3>2
    <3>3. QED
      BY <3>1, <3>2
  <2>8. \A a \in Asks :
          ask'[a].outcome = "exhausted" => ask[a].outcome = "exhausted" /\ ask'[a].told = ask[a].told
    BY <2>4, <2>6
  <2>9. QED
    BY <1>1, <1>2, <1>3, <2>7, <2>8, AsksPass
<1>9. QED
  BY <1>5, <1>7, <1>8 DEF ChooseKind

LEMMA ToldMore ==
    ASSUME TypeInv, NEW a \in Asks, NEW what, ask' = [ask EXCEPT ![a].told = @ \cup {what}]
    PROVE  /\ \A b \in Asks : /\ ask'[b].session = ask[b].session /\ ask'[b].kind = ask[b].kind
                              /\ ask'[b].outcome = ask[b].outcome /\ ask[b].told \subseteq ask'[b].told
           /\ what \in ask'[a].told
<1>1. ask[a] \in Ask
  BY DEF TypeInv, RowsTyped
<1>2. PICK row : row = [ask[a] EXCEPT !.told = @ \cup {what}]
  OBVIOUS
<1>3. /\ row.outcome = ask[a].outcome /\ row.session = ask[a].session /\ row.kind = ask[a].kind
      /\ row.told = ask[a].told \cup {what}
  BY <1>1, <1>2 DEF Ask
<1>4. ask' = [ask EXCEPT ![a] = row]
  BY <1>2
<1>5. ask'[a] = row /\ \A b \in Asks : b # a => ask'[b] = ask[b]
  BY <1>4 DEF TypeInv, RowsTyped
<1>6. QED
  BY <1>3, <1>5

(* A coach is told something. *)
LEMMA TellingMoves ==
    ASSUME TypeInv, MoveInv, UNCHANGED <<clock, session, offer, faults>>,
           NEW k \in Workers, NEW j \in Job, Go(k, j), OwnRow(j)',
           \A a \in Asks :
              /\ ask'[a].session = ask[a].session /\ ask'[a].kind = ask[a].kind
              /\ ask'[a].outcome = ask[a].outcome /\ ask[a].told \subseteq ask'[a].told,
           \A a \in Asks : /\ Runs(a) /\ Cares(job[k], a) => Cares(j, a)
                           /\ Tells(job[k], a) => "exhausted" \in ask'[a].told
    PROVE  MoveInv'
<1>1. NothingReopens
  BY SameSessions
<1>2. TakenStays /\ Stays
  BY DEF TakenStays, Stays
<1>3. ASSUME NEW a \in Asks PROVE PassesOn(k, j, a)
  <2>1. Sent(a)' = Sent(a)
    BY SameSent
  <2>2. Runs(a) /\ (Sent(a) # {} \/ Cares(job[k], a)) => Sent(a)' # {} \/ Cares(j, a)
    BY <2>1
  <2>3. QED
    BY <1>1, <1>2, <2>2, PassIf
<1>4. ASSUME NEW a \in Asks PROVE TellsOn(k, j, a)
  BY DEF TellsOn
<1>5. QED
  BY <1>2, <1>3, <1>4, MovesOn

LEMMA MoveRereadAsk ==
    ASSUME TypeInv, CascadeInv, MoveInv, NEW k \in Workers, RereadAsk(k) PROVE MoveInv'
<1>1. /\ NothingReopens /\ job[k].op = "reread" /\ job[k] \in Job /\ UNCHANGED <<clock, session, offer, faults>>
  BY SameSessions DEF RereadAsk, TypeInv
<1>2. CASE {a \in LiveAsks(job[k].s) : ask[a].kind # "none"} = {} /\ Done(k) /\ UNCHANGED ask
  <2>1. ASSUME NEW a \in Asks, Runs(a), Cares(job[k], a) PROVE ask[a].session \in job[k].todo
    BY <1>1, <1>2, <2>1 DEF Cares, Runs, LiveAsks
  <2>2. QED
    BY <1>1, <1>2, <2>1, DoneMoves
<1>3. ASSUME NEW a \in LiveAsks(job[k].s),
             ask' = IF reach # Members /\ reach # {}
                    THEN [ask EXCEPT ![a].told = @ \cup {"unreachable"}] ELSE ask,
             Go(k, [job[k] EXCEPT !.op = "offer", !.a = a, !.kind = "none"])
      PROVE  MoveInv'
  <2>1. a \in Asks
    BY DEF LiveAsks
  <2>2. PICK j \in Job : j = [job[k] EXCEPT !.op = "offer", !.a = a, !.kind = "none"]
    BY <1>1, <2>1 DEF Job
  <2>3. PICK i \in Job : i = job[k] /\ i.op \in {"running", "reread"} /\ a \in LiveAsks(i.s)
    BY <1>1
  <2>4. j.op = "offer" /\ j.a = a /\ j.s = i.s /\ j.todo = i.todo
    BY <2>2, <2>3 DEF Job
  <2>5. /\ OwnRow(j)
        /\ \A b \in Asks : /\ Runs(b) /\ Cares(i, b) => Cares(j, b)
                           /\ Tells(i, b) => Tells(j, b)
    BY <2>3, <2>4, OfferCares
  <2>6. \A b \in Asks :
           /\ ask'[b].session = ask[b].session /\ ask'[b].kind = ask[b].kind
           /\ ask'[b].outcome = ask[b].outcome /\ ask[b].told \subseteq ask'[b].told
    <3>1. CASE ask' = ask
      BY <3>1
    <3>2. CASE ask' = [ask EXCEPT ![a].told = @ \cup {"unreachable"}]
      BY <2>1, <3>2, ToldMore
    <3>3. QED
      BY <1>3, <3>1, <3>2
  <2>7. OwnRow(j)'
    BY <2>1, <2>4, <2>5, <2>6 DEF OwnRow
  <2>8. \A b \in Asks : ~Tells(job[k], b)
    BY <1>1 DEF Tells
  <2>9. QED
    BY <1>1, <1>3, <2>2, <2>3, <2>5, <2>6, <2>7, <2>8, TellingMoves
<1>4. QED
  BY <1>2, <1>3 DEF RereadAsk

LEMMA MoveTellExhausted ==
    ASSUME TypeInv, CascadeInv, MoveInv, NEW k \in Workers, TellCoachExhausted(k) PROVE MoveInv'
<1>1. /\ job[k].op = "exhausted" /\ UNCHANGED <<clock, session, offer, faults>>
  BY DEF TellCoachExhausted
<1>2. PICK a \in Asks : a = job[k].a
  BY DEF TypeInv, JobFits, Cascading, TellCoachExhausted
<1>3. ask' = [ask EXCEPT ![a].told = @ \cup {"exhausted"}]
  BY <1>2 DEF TellCoachExhausted
<1>4. PICK j \in Job : /\ j = After(job[k]) /\ OwnRow(j)'
                       /\ \A b : ask[b].session \in job[k].todo => Cares(j, b)
  BY AfterGoesOn
<1>5. Go(k, j)
  BY <1>4 DEF TellCoachExhausted, Done
<1>6. /\ \A b \in Asks : /\ ask'[b].session = ask[b].session /\ ask'[b].kind = ask[b].kind
                         /\ ask'[b].outcome = ask[b].outcome /\ ask[b].told \subseteq ask'[b].told
      /\ "exhausted" \in ask'[a].told
  BY <1>3, ToldMore
<1>7. \A b \in Asks : /\ Cares(job[k], b) => Cares(j, b)
                      /\ Tells(job[k], b) => "exhausted" \in ask'[b].told
  BY <1>1, <1>2, <1>4, <1>6 DEF Cares, Tells
<1>8. QED
  BY <1>1, <1>4, <1>5, <1>6, <1>7, TellingMoves

LEMMA MoveEndOverflow ==
    ASSUME TypeInv, CascadeInv, MoveInv, NEW k \in Workers, EndOverflow(k) PROVE MoveInv'
<1>1. job[k].op = "close" /\ UNCHANGED <<clock, session, offer, faults>>
  BY DEF EndOverflow
<1>2. PICK live : live = LiveAsks(job[k].s)
  OBVIOUS
<1>3. /\ \A b \in Asks : /\ ask'[b].session = ask[b].session
                         /\ b \notin live => ask'[b] = ask[b]
                         /\ b \in live => ask'[b].outcome = "ended"
  BY <1>2, EndedIs
<1>4. Stays
  BY <1>3 DEF Stays
<1>5. PICK j \in Job : /\ j = After(job[k]) /\ OwnRow(j)'
                       /\ \A b : ask[b].session \in job[k].todo => Cares(j, b)
  BY AfterGoesOn
<1>6. Go(k, j)
  BY <1>5 DEF EndOverflow, Done
<1>7. \A a \in Asks : Cares(job[k], a) => Cares(j, a)
  BY <1>1, <1>5 DEF Cares
<1>8. ASSUME NEW b \in Asks
      PROVE  \/ Runs(b)' => Cares(j, b)'
             \/ /\ ask'[b].outcome = "open" => ask[b].outcome = "open"
                /\ ask'[b].kind # "none" => ask[b].kind # "none"
                /\ Runs(b) /\ Cares(job[k], b) => Cares(j, b)
  <2>1. CASE b \in live
    BY <1>3, <2>1 DEF Runs
  <2>2. CASE b \notin live
    BY <1>3, <1>7, <2>2
  <2>3. QED
    BY <2>1, <2>2
<1>9. ASSUME NEW b \in Asks, ask'[b].outcome = "exhausted"
      PROVE  ask[b].outcome = "exhausted" /\ ask'[b].told = ask[b].told
  BY <1>3, <1>9
<1>10. QED
  BY <1>1, <1>4, <1>5, <1>6, <1>8, <1>9, AsksPass

----------------------------------------------------------------------------
(* Offers move and no ask does. *)
LEMMA OffersPass ==
    ASSUME TypeInv, MoveInv, UNCHANGED <<clock, session, ask, faults>>, TakenStays,
           NEW k \in Workers, NEW j \in Job, Go(k, j), OwnRow(j), job[k].op # "exhausted",
           \A a \in Asks :
              Runs(a) /\ (Sent(a) # {} \/ Cares(job[k], a)) => Sent(a)' # {} \/ Cares(j, a)
    PROVE  MoveInv'
<1>1. NothingReopens
  BY SameSessions
<1>2. Stays
  BY DEF Stays
<1>3. ASSUME NEW a \in Asks PROVE PassesOn(k, j, a)
  BY <1>1, <1>2, PassIf
<1>4. ASSUME NEW a \in Asks PROVE TellsOn(k, j, a)
  BY TellsIf
<1>5. OwnRow(j)'
  BY DEF OwnRow
<1>6. QED
  BY <1>2, <1>3, <1>4, <1>5, MovesOn

LEMMA OneOverIs ==
    ASSUME TypeInv, NEW a \in Asks, NEW m \in Members, offer[a][m].state = "sent",
           offer' = [offer EXCEPT ![a][m] = OverOffer]
    PROVE  TakenStays /\ \A b \in Asks : b # a => Sent(b)' = Sent(b)
<1>1. \A b \in Asks, n \in Members : offer'[b][n] = IF b = a /\ n = m THEN OverOffer ELSE offer[b][n]
  BY DEF TypeInv, RowsTyped
<1>2. TakenStays
  BY <1>1 DEF TakenStays
<1>3. QED
  BY <1>1, <1>2, SameSent

LEMMA MoveMarkUnsent ==
    ASSUME TypeInv, CascadeInv, MoveInv, NEW k \in Workers, MarkUnsent(k) PROVE MoveInv'
<1>1. /\ job[k].op = "unsent" /\ job[k] \in Job /\ OwnRow(job[k]) /\ job[k].a \in Asks /\ job[k].m \in Members
      /\ UNCHANGED <<clock, session, ask, faults>>
  BY DEF MarkUnsent, TypeInv, JobFits, Cascading, MoveInv
<1>2. PICK a \in Asks, m \in Members : a = job[k].a /\ m = job[k].m
  BY <1>1
<1>3. PICK j \in Job : j = [job[k] EXCEPT !.op = "offer", !.m = None]
  BY <1>1 DEF Job
<1>4. j.op = "offer" /\ j.a = a /\ j.s = job[k].s /\ j.todo = job[k].todo
  BY <1>1, <1>2, <1>3 DEF Job
<1>5. OwnRow(j) /\ Cares(j, a) /\ \A b \in Asks : Cares(job[k], b) => Cares(j, b)
  BY <1>1, <1>2, <1>4 DEF OwnRow, Cares
<1>6. TakenStays /\ \A b \in Asks : b # a => Sent(b)' = Sent(b)
  <2>1. CASE offer' = offer
    BY <2>1, SameSent DEF TakenStays
  <2>2. CASE offer[a][m].state = "sent" /\ offer' = [offer EXCEPT ![a][m] = OverOffer]
    BY <2>2, OneOverIs
  <2>3. QED
    BY <1>2, <2>1, <2>2 DEF MarkUnsent
<1>7. \A b \in Asks : Runs(b) /\ (Sent(b) # {} \/ Cares(job[k], b)) => Sent(b)' # {} \/ Cares(j, b)
  BY <1>5, <1>6
<1>8. Go(k, j)
  BY <1>3 DEF MarkUnsent
<1>9. QED
  BY <1>1, <1>5, <1>6, <1>7, <1>8, OffersPass

LEMMA MoveDeclineOffer ==
    ASSUME TypeInv, CascadeInv, MoveInv, NEW k \in Workers, NEW a \in Asks, NEW m \in Members, DeclineOffer(k, a, m)
    PROVE  MoveInv'
<1>1. /\ ask[a].session \in Sessions /\ job[k] = Idle /\ UNCHANGED <<clock, session, ask, faults>>
  BY SentIsThere DEF DeclineOffer
<1>2. PICK j \in Job : j = [Idle EXCEPT !.op = "start", !.s = ask[a].session]
  BY <1>1, IdleIsJob DEF Job
<1>3. OwnRow(j) /\ Cares(j, a)
  BY <1>2 DEF OwnRow, Cares, Idle
<1>4. TakenStays /\ \A b \in Asks : b # a => Sent(b)' = Sent(b)
  BY OneOverIs DEF DeclineOffer
<1>5. \A b \in Asks : Runs(b) /\ (Sent(b) # {} \/ Cares(job[k], b)) => Sent(b)' # {} \/ Cares(j, b)
  BY <1>1, <1>3, <1>4, IdleOwn
<1>6. Go(k, j) /\ job[k].op # "exhausted"
  BY <1>1, <1>2 DEF DeclineOffer, Idle
<1>7. QED
  BY <1>1, <1>2, <1>3, <1>4, <1>5, <1>6, OffersPass

LEMMA MoveWithdrawOffers ==
    ASSUME TypeInv, CascadeInv, MoveInv, NEW k \in Workers, WithdrawOffers(k) PROVE MoveInv'
<1>1. PICK s : s = job[k].s
  OBVIOUS
<1>2. /\ job[k].op = "withdraw" /\ UNCHANGED <<clock, session, ask, faults>> /\ offer' = Ending(OutFor(s))
      /\ ~SessionOpen(s)
  BY <1>1 DEF WithdrawOffers, CascadeInv, JobsInv, Held
<1>3. PICK j \in Job : Go(k, j) /\ j.op = "close" /\ j.todo = job[k].todo
  BY StepKeeps DEF WithdrawOffers
<1>4. OwnRow(j) /\ \A a \in Asks : Cares(job[k], a) => Cares(j, a)
  BY <1>2, <1>3 DEF OwnRow, Cares
<1>5. PICK ps : ps = OutFor(s)
  OBVIOUS
<1>6. \A a \in Asks, m \in Members :
         /\ <<a, m>> \in ps => ask[a].session = s /\ offer[a][m].state = "sent"
         /\ offer'[a][m] = IF <<a, m>> \in ps THEN OverOffer ELSE offer[a][m]
  <2>1. offer' = Ending(ps)
    BY <1>2, <1>5
  <2>2. \A a \in Asks, m \in Members : offer'[a][m] = IF <<a, m>> \in ps THEN OverOffer ELSE offer[a][m]
    <3>1. \A a \in Asks, m \in Members : Ending(ps)[a][m] = IF <<a, m>> \in ps THEN OverOffer ELSE offer[a][m]
      BY EndingIs
    <3>2. QED
      BY <2>1, <3>1
  <2>3. \A a \in Asks, m \in Members : <<a, m>> \in ps => ask[a].session = s /\ offer[a][m].state = "sent"
    BY <1>5, OutIsSent
  <2>4. QED
    BY <2>2, <2>3
<1>7. TakenStays
  BY <1>6 DEF TakenStays
<1>8. ASSUME NEW a \in Asks, Runs(a), Sent(a) # {} \/ Cares(job[k], a)
      PROVE  Sent(a)' # {} \/ Cares(j, a)
  <2>1. ask[a].session # s
    BY <1>2, <1>8 DEF Runs
  <2>2. Sent(a)' = Sent(a)
    BY <1>6, <2>1, SameSent
  <2>3. QED
    BY <1>4, <1>8, <2>2
<1>9. QED
  BY <1>2, <1>3, <1>4, <1>7, <1>8, OffersPass

LEMMA MoveTickExpires ==
    ASSUME TypeInv, CascadeInv, MoveInv, NEW k \in Workers, TickExpires(k) PROVE MoveInv'
<1>1. job[k] = Idle /\ UNCHANGED <<clock, session, ask, faults>> /\ offer' = Ending(RanOut)
  BY DEF TickExpires
<1>2. PICK ps : ps = RanOut
  OBVIOUS
<1>3. \A a \in Asks, m \in Members :
         /\ <<a, m>> \in ps => offer[a][m].state = "sent"
         /\ offer'[a][m] = IF <<a, m>> \in ps THEN OverOffer ELSE offer[a][m]
  BY <1>1, <1>2, RanOutIsSent, EndingIs
<1>4. {ask[p[1]].session : p \in RanOut} \subseteq Sessions
  <2> SUFFICES ASSUME NEW p \in RanOut PROVE ask[p[1]].session \in Sessions
    OBVIOUS
  <2>1. PICK a \in Asks, m \in Members : p = <<a, m>>
    BY DEF RanOut
  <2>2. QED
    BY <1>2, <1>3, <2>1, SentIsThere
<1>5. PICK todo \in SUBSET Sessions : todo = {ask[p[1]].session : p \in RanOut}
  BY <1>4
<1>6. PICK i \in Job : i = [Idle EXCEPT !.todo = todo]
  BY IdleIsJob DEF Job
<1>7. i.todo = todo
  BY <1>6 DEF Idle
<1>8. PICK j \in Job : j = After(i) /\ OwnRow(j)
  BY AfterIs, AfterOwn
<1>9. Go(k, j)
  BY <1>5, <1>6, <1>8 DEF TickExpires
<1>10. TakenStays
  BY <1>3 DEF TakenStays
<1>11. ASSUME NEW a \in Asks, Runs(a), Sent(a) # {} \/ Cares(job[k], a)
       PROVE  Sent(a)' # {} \/ Cares(j, a)
  <2>1. CASE \E m \in Members : <<a, m>> \in ps
    <3>1. PICK m \in Members : <<a, m>> \in RanOut
      BY <1>2, <2>1
    <3>2. ask[a].session = ask[<<a, m>>[1]].session
      OBVIOUS
    <3>3. ask[a].session \in i.todo
      BY <1>5, <1>7, <3>1, <3>2
    <3>4. QED
      BY <1>8, <3>3, AfterCares
  <2>2. CASE \A m \in Members : <<a, m>> \notin ps
    <3>1. Sent(a)' = Sent(a)
      BY <1>3, <2>2, SameSent
    <3>2. QED
      BY <1>1, <1>11, <3>1, IdleOwn
  <2>3. QED
    BY <2>1, <2>2
<1>12. job[k].op # "exhausted"
  BY <1>1 DEF Idle
<1>13. QED
  BY <1>1, <1>8, <1>9, <1>10, <1>11, <1>12, OffersPass

(* The next member's step: the old offer runs, nobody is left, or a new    *)
(* one is out.                                                             *)
LEMMA MoveOfferToNextMember ==
    ASSUME TypeInv, CascadeInv, MoveInv, NEW k \in Workers, OfferToNextMember(k) PROVE MoveInv'
<1>1. /\ job[k].op = "offering" /\ job[k] \in Job /\ job[k].a \in Asks /\ OwnRow(job[k])
      /\ UNCHANGED <<clock, session, faults>>
  BY OfferParts DEF OfferToNextMember, MoveInv
<1>2. PICK a \in Asks : a = job[k].a
  BY <1>1
<1>3. /\ \A m \in Members : \/ Left(a)[a][m] = offer[a][m]
                            \/ offer[a][m].state = "sent" /\ Left(a)[a][m].state = "over"
      /\ \A b \in Asks, m \in Members : b # a => Left(a)[b][m] = offer[b][m]
  BY LeftIs
<1>4. CASE StillOut(a) # {} /\ offer' = Left(a) /\ Done(k) /\ UNCHANGED ask
  <2>1. PICK j \in Job : /\ j = After(job[k]) /\ OwnRow(j)
                         /\ \A b : ask[b].session \in job[k].todo => Cares(j, b)
    BY AfterGoesOn
  <2>2. Go(k, j)
    BY <1>4, <2>1 DEF Done
  <2>3. TakenStays
    BY <1>3, <1>4 DEF TakenStays
  <2>4. PICK m \in Members : m \in Sent(a) /\ m \notin Overdue(a, clock)
    BY <1>4 DEF StillOut, Sent
  <2>5. offer'[a][m] = offer[a][m]
    <3>1. <<a, m>> \notin {a} \X Overdue(a, clock)
      BY <2>4
    <3>2. PICK ps : ps = {a} \X Overdue(a, clock)
      OBVIOUS
    <3>3. <<a, m>> \notin ps /\ offer' = Ending(ps)
      BY <1>4, <3>1, <3>2 DEF Left
    <3>4. QED
      BY <3>3, EndingIs
  <2>6. m \in Sent(a)'
    BY <2>4, <2>5 DEF Sent
  <2>7. ASSUME NEW b \in Asks, Runs(b), Sent(b) # {} \/ Cares(job[k], b)
        PROVE  Sent(b)' # {} \/ Cares(j, b)
    <3>1. CASE b = a
      BY <2>6, <3>1
    <3>2. CASE b # a
      <4>1. Sent(b)' = Sent(b)
        BY <1>3, <1>4, <3>2, SameSent
      <4>2. Cares(job[k], b) => ask[b].session \in job[k].todo
        BY <1>1, <1>2, <3>2 DEF Cares
      <4>3. QED
        BY <2>1, <2>7, <4>1, <4>2
    <3>3. QED
      BY <3>1, <3>2
  <2>8. QED
    BY <1>1, <1>4, <2>1, <2>2, <2>3, <2>7, OffersPass
<1>5. CASE /\ offer' = Left(a) /\ CloseAsk(a, "exhausted")
           /\ Go(k, [job[k] EXCEPT !.op = "exhausted", !.locks = {}])
  <2>1. PICK j \in Job : j = [job[k] EXCEPT !.op = "exhausted", !.locks = {}]
    BY <1>1 DEF Job
  <2>2. j.op = "exhausted" /\ j.a = a /\ j.s = job[k].s /\ j.todo = job[k].todo
    BY <1>1, <1>2, <2>1 DEF Job
  <2>3. /\ ask'[a].outcome = "exhausted"
        /\ \A b \in Asks : /\ b # a => ask'[b] = ask[b]
                           /\ ask'[b].session = ask[b].session /\ ask'[b].kind = ask[b].kind
                           /\ ask'[b].told = ask[b].told
    BY <1>5, ClosedIs
  <2>4. Stays
    BY <2>3 DEF Stays
  <2>5. OwnRow(j)'
    BY <1>1, <1>2, <2>2, <2>3 DEF OwnRow
  <2>6. TakenStays
    BY <1>3, <1>5 DEF TakenStays
  <2>7. NothingReopens
    BY <1>1, SameSessions
  <2>8. ASSUME NEW b \in Asks PROVE PassesOn(k, j, b)
    <3>1. CASE b = a
      BY <2>3, <3>1 DEF PassesOn, Runs
    <3>2. CASE b # a
      <4>1. Sent(b)' = Sent(b)
        BY <1>3, <1>5, <3>2, SameSent
      <4>2. Cares(job[k], b) => Cares(j, b)
        BY <1>1, <1>2, <2>2, <3>2 DEF Cares
      <4>3. ask'[b] = ask[b]
        BY <2>3, <3>2
      <4>4. Runs(b) /\ (Sent(b) # {} \/ Cares(job[k], b)) => Sent(b)' # {} \/ Cares(j, b)
        BY <4>1, <4>2
      <4>5. QED
        BY <2>4, <2>6, <2>7, <4>3, <4>4, PassIf
    <3>3. QED
      BY <3>1, <3>2
  <2>9. ASSUME NEW b \in Asks PROVE TellsOn(k, j, b)
    <3>1. CASE b = a
      BY <2>2, <3>1 DEF TellsOn, Tells
    <3>2. CASE b # a
      BY <1>1, <2>3, <3>2, TellsIf
    <3>3. QED
      BY <3>1, <3>2
  <2>10. QED
    BY <1>1, <1>5, <2>1, <2>4, <2>5, <2>8, <2>9, MovesOn
<1>6. ASSUME NEW m \in Members, offer[a][m].state = "none", UNCHANGED ask,
             offer' = [Left(a) EXCEPT ![a][m] = [state |-> "sent", expires |-> clock + OfferTime]],
             Go(k, [job[k] EXCEPT !.op = "send", !.m = m, !.locks = {}])
      PROVE  MoveInv'
  <2>1. PICK j \in Job : j = [job[k] EXCEPT !.op = "send", !.m = m, !.locks = {}]
    BY <1>1 DEF Job
  <2>2. j.op = "send" /\ j.a = a /\ j.s = job[k].s /\ j.todo = job[k].todo
    BY <1>1, <1>2, <2>1 DEF Job
  <2>3. OwnRow(j)
    BY <1>1, <1>2, <2>2 DEF OwnRow
  <2>4. PICK ps : ps = {a} \X Overdue(a, clock)
    OBVIOUS
  <2>5. offer' = [Ending(ps) EXCEPT ![a][m] = [state |-> "sent", expires |-> clock + OfferTime]]
    BY <1>6, <2>4 DEF Left
  <2>6. /\ offer'[a][m].state = "sent"
        /\ \A b \in Asks, n \in Members : <<b, n>> # <<a, m>> => offer'[b][n] = Left(a)[b][n]
    <3>1. /\ offer'[a][m].state = "sent"
          /\ \A b \in Asks, n \in Members : <<b, n>> # <<a, m>> => offer'[b][n] = Ending(ps)[b][n]
      BY <2>5, NewOffer
    <3>2. Left(a) = Ending(ps)
      BY <2>4 DEF Left
    <3>3. QED
      BY <3>1, <3>2
  <2>7. TakenStays
    <3> SUFFICES ASSUME NEW b \in Asks, NEW n \in Members, offer[b][n].state = "accepted"
                 PROVE  offer'[b][n].state = "accepted"
      BY DEF TakenStays
    <3>1. <<b, n>> # <<a, m>>
      BY <1>6
    <3>2. QED
      BY <1>3, <2>6, <3>1
  <2>8. Sent(a)' # {}
    BY <2>6 DEF Sent
  <2>9. ASSUME NEW b \in Asks, Runs(b), Sent(b) # {} \/ Cares(job[k], b)
        PROVE  Sent(b)' # {} \/ Cares(j, b)
    <3>1. CASE b = a
      BY <2>8, <3>1
    <3>2. CASE b # a
      <4>1. Sent(b)' = Sent(b)
        BY <1>3, <2>6, <3>2, SameSent
      <4>2. Cares(job[k], b) => Cares(j, b)
        BY <1>1, <1>2, <2>2, <3>2 DEF Cares
      <4>3. QED
        BY <2>9, <4>1, <4>2
    <3>3. QED
      BY <3>1, <3>2
  <2>10. Go(k, j)
    BY <1>6, <2>1
  <2>11. job[k].op # "exhausted"
    BY <1>1
  <2>12. QED
    BY <1>1, <1>6, <2>1, <2>3, <2>7, <2>9, <2>10, <2>11, OffersPass
<1>7. QED
  <2>1. NextMembers(a) \subseteq {m \in Members : offer[a][m].state = "none"}
    BY DEF NextMembers, TypeInv, RowsTyped
  <2>2. QED
    BY <1>2, <1>4, <1>5, <1>6, <2>1 DEF OfferToNextMember, Left

(* The job is taken, or it no longer was to be had. *)
LEMMA MoveAcceptOffer ==
    ASSUME TypeInv, CascadeInv, MoveInv, NEW k \in Workers, AcceptOffer(k) PROVE MoveInv'
<1> PICK a, m, s : a = job[k].a /\ m = job[k].m /\ s = job[k].s
  OBVIOUS
<1>1. /\ a \in Asks /\ m \in Members /\ s \in Sessions /\ ask[a].session = s /\ ask[a].session # None
      /\ job[k].op = "accept" /\ Cardinality(job[k].locks) = 2
  BY Accepting DEF AcceptOffer
<1>2. UNCHANGED <<clock, faults>> /\ Go(k, Idle)
  BY DEF AcceptOffer
<1>3. offer[a][m].state = "sent"
  <2>1. job[k] \in Job /\ JobFits(job[k]) /\ Held(job[k])
    BY DEF TypeInv, CascadeInv, JobsInv
  <2>2. job[k].locks = {"ask", "offer"}
    BY <1>1, <2>1, LockNext DEF JobFits
  <2>3. QED
    BY <2>1, <2>2 DEF Held
<1>4. OwnRow(job[k])
  BY DEF MoveInv
<1>5. \A b \in Asks : ~Cares(job[k], b) /\ ~Tells(job[k], b)
  BY <1>1, <1>4 DEF OwnRow, Cares, Tells
<1>6. CASE StillOpen(job[k]) /\ offer' = TakenBy(a, m) /\ CloseAsk(a, "accepted")
           /\ session' = [session EXCEPT ![s].extra = @ + 1]
  <2>1. \A b \in Asks, n \in Members :
                 offer'[b][n] = IF b = a /\ n = m THEN TakenOffer
                                       ELSE IF ask[b].session = s /\ offer[b][n].state = "sent"
                                       THEN OverOffer ELSE offer[b][n]
    BY <1>1, <1>6, TakenIs
  <2>2. TakenOffer.state = "accepted"
    BY DEF TakenOffer
  <2>3. /\ ask'[a].outcome = "accepted"
        /\ \A b \in Asks : /\ b # a => ask'[b] = ask[b]
                           /\ ask'[b].session = ask[b].session /\ ask'[b].kind = ask[b].kind
                           /\ ask'[b].told = ask[b].told
    BY <1>1, <1>6, ClosedIs
  <2>4. Stays
    BY <2>3 DEF Stays
  <2>5. NothingReopens
    <3>1. \A r \in Sessions : session'[r].cancelled = session[r].cancelled
      BY <1>1, <1>6 DEF TypeInv, RowsTyped
    <3>2. QED
      BY <1>2, <3>1 DEF NothingReopens, SessionOpen
  <2>6. TakenStays
    BY <2>1, <2>2 DEF TakenStays
  <2>7. HasAccepted(s)'
    BY <1>1, <2>1, <2>2, <2>3 DEF HasAccepted
  <2>8. ASSUME NEW b \in Asks PROVE PassesOn(k, Idle, b)
    <3>1. CASE ask[b].session = s
      <4>1. ask'[b].session = s
        BY <2>3, <3>1
      <4>2. ~Runs(b)'
        BY <2>7, <4>1 DEF Runs, HasAccepted
      <4>3. QED
        BY <4>2 DEF PassesOn
    <3>2. CASE ask[b].session # s
      <4>1. Sent(b)' = Sent(b)
        BY <1>1, <2>1, <3>2, SameSent
      <4>2. ask'[b] = ask[b]
        BY <1>1, <2>3, <3>2
      <4>3. Runs(b) /\ (Sent(b) # {} \/ Cares(job[k], b)) => Sent(b)' # {} \/ Cares(Idle, b)
        BY <1>5, <4>1
      <4>4. QED
        BY <2>4, <2>5, <2>6, <4>2, <4>3, PassIf
    <3>3. QED
      BY <3>1, <3>2
  <2>9. ASSUME NEW b \in Asks PROVE TellsOn(k, Idle, b)
    <3>1. CASE b = a
      BY <2>3, <3>1 DEF TellsOn
    <3>2. CASE b # a
      BY <1>1, <2>3, <3>2, TellsIf
    <3>3. QED
      BY <3>1, <3>2
  <2>10. OwnRow(Idle)'
    BY DEF OwnRow, Idle
  <2>11. QED
    BY <1>2, <2>4, <2>8, <2>9, <2>10, IdleIsJob, MovesOn
<1>7. CASE ~StillOpen(job[k]) /\ offer' = [offer EXCEPT ![a][m] = OverOffer] /\ UNCHANGED <<ask, session>>
  <2>1. TakenStays /\ \A b \in Asks : b # a => Sent(b)' = Sent(b)
    BY <1>1, <1>3, <1>7, OneOverIs
  <2>2. ~Runs(a)
    BY <1>1, <1>7 DEF StillOpen, Runs
  <2>3. \A b \in Asks : Runs(b) /\ (Sent(b) # {} \/ Cares(job[k], b)) => Sent(b)' # {} \/ Cares(Idle, b)
    BY <1>5, <2>1, <2>2
  <2>4. job[k].op # "exhausted"
    BY <1>1
  <2>5. QED
    BY <1>2, <1>7, <2>1, <2>3, <2>4, IdleOwn, OffersPass
<1>8. QED
  BY <1>6, <1>7 DEF AcceptOffer

LEMMA MoveCrash == ASSUME TypeInv, CascadeInv, MoveInv, NEW k \in Workers, Crash(k) PROVE MoveInv'
<1>1. faults' # 0
  BY OverflowAssumption DEF Crash, TypeInv, RowsTyped
<1>2. job' = [job EXCEPT ![k] = Idle] /\ UNCHANGED ask
  BY DEF Crash, Go
<1>3. \A l \in Workers : job'[l] = IF l = k THEN Idle ELSE job[l]
  BY <1>2 DEF TypeInv
<1>4. ASSUME NEW l \in Workers PROVE OwnRow(job[l])'
  <2>1. CASE l = k
    BY <1>3, <2>1 DEF OwnRow, Idle
  <2>2. CASE l # k
    BY <1>2, <1>3, <2>2 DEF OwnRow, MoveInv
  <2>3. QED
    BY <2>1, <2>2
<1>5. QED
  BY <1>1, <1>4 DEF MoveInv

LEMMA MoveWork == ASSUME TypeInv, CascadeInv, MoveInv, NEW k \in Workers, Work(k) PROVE MoveInv'
BY MoveAskCoach, MoveAskNext, MoveAnswerNo, MoveStartCascade, MoveRunningAsk, MoveChooseKind, MoveRereadAsk,
   MoveLockAsk, MoveOfferToNextMember, MoveSendOffer, MoveMarkUnsent, MoveTellExhausted, MoveTakeLock,
   MoveAcceptOffer, MoveWithdrawOffers, MoveEndOverflow DEF Work

LEMMA MoveRequest == ASSUME TypeInv, CascadeInv, MoveInv, NEW k \in Workers, Request(k) PROVE MoveInv'
BY MoveCheckOverflow, MoveAskMyRoster, MoveCancelSession, MoveAnswerAsk, MoveDeclineOffer, MoveBeginAccept
   DEF Request

LEMMA MoveStep == TypeInv /\ CascadeInv /\ MoveInv /\ [Next]_vars => MoveInv'
<1> SUFFICES ASSUME TypeInv, CascadeInv, MoveInv, [Next]_vars PROVE MoveInv'
  OBVIOUS
<1>1. CASE Next
  BY <1>1, MoveTick, MoveRosterOptIn, MoveRequest, MoveTickEnds, MoveTickExpires, MoveWork, MoveCrash DEF Next
<1>2. CASE UNCHANGED vars
  BY <1>2, SameSessions, NoJobMoves DEF vars
<1>3. QED
  BY <1>1, <1>2

(* No cascade is stuck: one that is to go on has an offer out or a handler *)
(* on its way to the next member, and one that ran out of members has told *)
(* its coach or is about to, however many handlers of offerToNextMember,   *)
(* acceptOffer and the tick work on it at once, unless one of them died.   *)
THEOREM NeverStuck == Spec => []Moving
<1>1. Init => TypeInv /\ CascadeInv /\ MoveInv
  BY TypeInit, CascadeInit, MoveInit
<1>2. TypeInv /\ CascadeInv /\ MoveInv /\ [Next]_vars => (TypeInv /\ CascadeInv /\ MoveInv)'
  BY TypeStep, CascadeStep, MoveStep
<1>3. MoveInv => Moving
  <2> SUFFICES ASSUME MoveInv, faults = 0, NEW a \in Asks
               PROVE  /\ ask[a].outcome = "open" /\ ask[a].kind # "none"
                         /\ SessionOpen(ask[a].session) /\ ~HasAccepted(ask[a].session) =>
                            \/ Sent(a) # {}
                            \/ \E k \in Workers : ask[a].session \in job[k].todo \cup {job[k].s}
                      /\ ask[a].outcome = "exhausted" =>
                            \/ "exhausted" \in ask[a].told
                            \/ \E k \in Workers : job[k].op = "exhausted" /\ job[k].a = a
    BY DEF Moving
  <2>1. Carried(a) /\ EndTold(a)
    BY DEF MoveInv
  <2>2. ASSUME NEW k \in Workers, Cares(job[k], a) PROVE ask[a].session \in job[k].todo \cup {job[k].s}
    BY <2>2 DEF Cares, MoveInv, OwnRow
  <2>3. QED
    BY <2>1, <2>2 DEF Carried, EndTold, Runs, Tells
<1>4. QED
  BY <1>1, <1>2, <1>3, PTL DEF Spec
=============================================================================
