----------------------------- MODULE Texts_proofs -----------------------------
(* What holds of Texts for every number of workers, numbers, bookings and    *)
(* limits, wherever the process stops.                                       *)
EXTENDS Texts, SumLemmas, TLAPS

Kinds == {"reminder", "reply", "ready", "live"}
Asides == {"notice", "code", "nudge"}
Sending_ops == {"check", "reserve", "relay", "record", "outcome"}

Ops == Sending_ops \cup
       {"idle", "stop", "revoke", "unstop", "unrevoke", "upsert", "lift", "form", "next",
        "slot", "charges", "ask", "save", "ready", "takeReady", "resume", "live", "nudge"}

Job == [op : Ops, for : Kinds \cup Asides \cup {"none"}, then : {"end", "live", "nudge"},
        to : Phones, budget : Budgets \cup {"none", "new-number"},
        b : Bookings \cup {0}, s : Sessions \cup {0}, here : Sessions \cup {0}, n : 0 .. MaxMoves,
        list : SUBSET (Bookings \X Sessions), seen : 0 .. MaxNudges,
        yes : BOOLEAN, late : BOOLEAN, tick : BOOLEAN,
        out : {"none", "sent", "busy", "failed", "stopped", "refused", "capped"}]

(* A text that has passed its checks and whose end is not written yet. *)
Away(j) == j.op \in {"relay", "record"} \/ (j.op \in {"stop", "revoke"} /\ j.out = "stopped")

(* How a handler's fields go together. *)
Flow(j) ==
    /\ j.op \in Sending_ops => j.for # "none"
    /\ j.op \in {"stop", "revoke"} => (j.for # "none" <=> j.out = "stopped")
    /\ j.for # "none" => j.op \in Sending_ops \cup {"stop", "revoke"} \/ (j.op = "resume" /\ j.for = "ready")
    /\ j.op = "outcome" => j.for \in Kinds
    /\ j.op = "record" => j.out \in {"sent", "busy", "failed", "stopped"}
    /\ j.op \in {"reserve", "form"} => j.budget # "none"
    /\ Away(j) \/ j.op = "reserve" => j.budget # "new-number"
    /\ j.for = "reminder" => /\ j.tick /\ j.b \in Bookings /\ j.to = PhoneOf[j.b]
                             /\ j.budget = "none" /\ j.s = j.here
    /\ j.for # "reminder" => j.b = 0 /\ j.n = 0
    /\ j.for \in {"ready", "live"} => j.to = CoachPhone
    /\ j.op = "next" => j.tick
    /\ j.then = "nudge" => j.seen < MaxNudges
    /\ j.op = "nudge" => j.then = "nudge"

RowsTyped ==
    /\ TypeOK
    /\ moves \in [Bookings -> 0 .. MaxMoves]
    /\ told \in [reminders : [Bookings -> [0 .. MaxMoves -> Nat]], replies : [Phones -> Nat],
                 ready : Nat, live : Nat]

JobsTyped ==
    /\ job \in [Workers -> Job]
    /\ \A k \in Workers : Flow(job[k])

(* Each text that is away has its row among those its budget counts. *)
Holding(p, budget) == {k \in Workers : Away(job[k]) /\ job[k].to = p /\ job[k].budget = budget}

RowsHeld == \A p \in Phones, budget \in Budgets : Cardinality(Holding(p, budget)) <= sent[p][budget]

TypeInv == RowsTyped /\ JobsTyped /\ RowsHeld

(* Texts on their way beside the budgets. *)
Beside == {k \in Workers : Away(job[k]) /\ job[k].budget = "none"}

CeilingsInv ==
    /\ \A budget \in Budgets : Spent(budget) <= VisitorLimit
    /\ Spent("visitor") + Spent("inbound-reply") <= Ceiling - Reserve
    /\ Total + Cardinality(Beside) <= Ceiling + Cardinality(Workers) - 1

StopInv ==
    /\ stopped \subseteq optOut
    /\ \A k \in Workers : Lifting(k) /\ k \notin crossed => job[k].to \notin stopped
    /\ \A k \in Workers : job[k].op \in {"reserve", "relay"} => ~job[k].late

(* The notices that go once, and the one a handler is about. *)
Notice ==
    {x \in [for : Kinds, to : Phones, b : Bookings \cup {0}, n : 0 .. MaxMoves] :
        /\ x.for = "reminder" => x.b \in Bookings /\ x.to = PhoneOf[x.b]
        /\ x.for # "reminder" => x.b = 0 /\ x.n = 0
        /\ x.for \in {"ready", "live"} => x.to = CoachPhone}

About(j) == [for |-> j.for, to |-> j.to, b |-> j.b, n |-> j.n]

(* The claim of a notice, made before it is sent. *)
Taken(x) ==
    CASE x.for = "reminder" -> x.n < moves[x.b] \/ (x.n = moves[x.b] /\ x.b \in reminder)
      [] x.for = "reply"    -> x.to \in replied
      [] x.for = "ready"    -> pay.texted
      [] x.for = "live"     -> pay.live

Told(x) ==
    CASE x.for = "reminder" -> told.reminders[x.b][x.n]
      [] x.for = "reply"    -> told.replies[x.to]
      [] x.for = "ready"    -> told.ready
      [] x.for = "live"     -> told.live

(* The relay has not said "sent" of it. *)
Unsent(j) == j.op \in {"check", "reserve", "relay"} \/ j.out # "sent"

(* A notice was told once at most, and one that was told is claimed; one     *)
(* that is claimed is one handler's, which has not told it before it has the *)
(* relay's "sent".                                                           *)
OneNotice(x) ==
    /\ Told(x) <= 1 /\ (Told(x) = 1 => Taken(x))
    /\ \A k \in Workers : About(job[k]) = x => Taken(x) /\ (Unsent(job[k]) => Told(x) = 0)
    /\ \A k, l \in Workers : About(job[k]) = x /\ About(job[l]) = x => k = l

NoticesInv == \A x \in Notice : OneNotice(x)

(* One tick at a time; a reminder of an earlier time than the booking's is   *)
(* the only one at work, and the booking's own is not claimed meanwhile.     *)
TickInv ==
    /\ \A k, l \in Workers : job[k].tick /\ job[l].tick => k = l
    /\ \A k \in Workers : job[k].for = "reminder" /\ job[k].n # moves[job[k].b] =>
          job[k].n < moves[job[k].b] /\ job[k].b \notin reminder

----------------------------------------------------------------------------
LEMMA IdleIsJob == Idle \in Job /\ Flow(Idle)
BY TextsAssumption DEF Idle, Job, Flow, Ops, Sending_ops, Kinds, Asides, Budgets, Away

LEMMA JobHere ==
    ASSUME TypeInv, NEW k \in Workers
    PROVE  job[k] \in Job /\ Flow(job[k])
BY DEF TypeInv, JobsTyped

(* The handler that steps is the only one that changes. *)
LEMMA JobsAfter ==
    ASSUME TypeInv, NEW k \in Workers, NEW j \in Job, Flow(j), Go(k, j)
    PROVE  /\ JobsTyped'
           /\ job'[k] = j /\ \A l \in Workers \ {k} : job'[l] = job[l]
BY DEF TypeInv, JobsTyped, Go

LEMMA HoldingFinite ==
    ASSUME NEW p, NEW budget
    PROVE  IsFiniteSet(Holding(p, budget)) /\ Cardinality(Holding(p, budget)) \in Nat
BY TextsAssumption, FS_Subset, FS_CardinalityType DEF Holding

LEMMA OneIn ==
    ASSUME NEW S, IsFiniteSet(S), NEW x
    PROVE  /\ Cardinality(S \cup {x}) \in Nat /\ Cardinality(S \cup {x}) <= Cardinality(S) + 1
<1>1. Cardinality(S) \in Nat
  BY FS_CardinalityType
<1>2. Cardinality(S \cup {x}) = IF x \in S THEN Cardinality(S) ELSE Cardinality(S) + 1
  BY FS_AddElement
<1>3. QED
  BY <1>1, <1>2

LEMMA OneOut ==
    ASSUME NEW S, IsFiniteSet(S), NEW x
    PROVE  /\ Cardinality(S \ {x}) \in Nat /\ Cardinality(S \ {x}) <= Cardinality(S)
           /\ x \in S => Cardinality(S \ {x}) = Cardinality(S) - 1
<1>1. Cardinality(S) \in Nat
  BY FS_CardinalityType
<1>2. /\ IsFiniteSet(S \ {x})
      /\ Cardinality(S \ {x}) = IF x \in S THEN Cardinality(S) - 1 ELSE Cardinality(S)
  BY FS_RemoveElement
<1>3. Cardinality(S \ {x}) \in Nat
  BY <1>2, FS_CardinalityType
<1>4. QED
  BY <1>1, <1>2, <1>3

(* A step that puts no text of a budget on its way keeps the rows.           *)
LEMMA HeldKept ==
    ASSUME TypeInv, NEW k \in Workers, NEW j \in Job, Flow(j), Go(k, j), sent' = sent,
           Away(j) /\ j.budget \in Budgets =>
              Away(job[k]) /\ j.to = job[k].to /\ j.budget = job[k].budget
    PROVE  RowsHeld'
<1>1. ASSUME NEW p \in Phones, NEW budget \in Budgets
      PROVE  Cardinality(Holding(p, budget)') <= sent'[p][budget]
  <2>1. Holding(p, budget)' \subseteq Holding(p, budget)
    BY JobsAfter DEF Holding
  <2>2. Cardinality(Holding(p, budget)') <= Cardinality(Holding(p, budget))
    BY <2>1, HoldingFinite, FS_Subset
  <2>3. Cardinality(Holding(p, budget)) \in Nat /\ Cardinality(Holding(p, budget)') \in Nat
    BY <2>1, HoldingFinite, FS_Subset, FS_CardinalityType
  <2>4. sent[p][budget] \in Nat
    BY DEF TypeInv, RowsTyped, TypeOK
  <2>5. QED
    BY <2>2, <2>3, <2>4 DEF TypeInv, RowsHeld
<1>2. QED
  BY <1>1 DEF RowsHeld

LEMMA Quiet ==
    ASSUME TypeInv, NEW k \in Workers, NEW j \in Job, Flow(j), Go(k, j), sent' = sent, RowsTyped',
           Away(j) /\ j.budget \in Budgets =>
              Away(job[k]) /\ j.to = job[k].to /\ j.budget = job[k].budget
    PROVE  TypeInv'
BY JobsAfter, HeldKept DEF TypeInv

LEMMA QuietIdle ==
    ASSUME TypeInv, NEW k \in Workers, Go(k, Idle), sent' = sent, RowsTyped'
    PROVE  TypeInv'
BY Quiet, IdleIsJob DEF Idle, Away

LEMMA SameRows ==
    ASSUME TypeInv, UNCHANGED <<tables, told, stopped, moves>>
    PROVE  RowsTyped' /\ sent' = sent
BY DEF TypeInv, RowsTyped, TypeOK, tables

LEMMA Begins ==
    ASSUME TypeInv, NEW k \in Workers, NEW j \in Job, Flow(j), ~Away(j), Begin(k, j),
           sent' = sent, RowsTyped'
    PROVE  TypeInv'
BY Quiet DEF Begin

LEMMA BeginRows ==
    ASSUME TypeInv, UNCHANGED <<tables, told, moves>>, stopped' \subseteq stopped
    PROVE  RowsTyped' /\ sent' = sent
BY DEF TypeInv, RowsTyped, TypeOK, tables

LEMMA TheOps ==
    {"stop", "unstop", "upsert", "form", "check", "slot", "next", "charges", "ask", "ready",
     "reserve", "relay", "record", "outcome", "revoke", "unrevoke", "lift", "save", "takeReady",
     "resume", "live", "nudge"} \subseteq Ops
BY DEF Ops, Sending_ops

(* Handlers stay handlers when their fields are set.                         *)
LEMMA SetOp == ASSUME NEW i \in Job, NEW op \in Ops PROVE [i EXCEPT !.op = op] \in Job
BY DEF Job

LEMMA SetFor == ASSUME NEW i \in Job, NEW for \in Kinds \cup Asides \cup {"none"} PROVE [i EXCEPT !.for = for] \in Job
BY DEF Job

LEMMA SetTo == ASSUME NEW i \in Job, NEW p \in Phones PROVE [i EXCEPT !.to = p] \in Job
BY DEF Job

LEMMA SetBudget ==
    ASSUME NEW i \in Job, NEW budget \in Budgets \cup {"none", "new-number"}
    PROVE  [i EXCEPT !.budget = budget] \in Job
BY DEF Job

LEMMA SetYes == ASSUME NEW i \in Job, NEW yes \in BOOLEAN PROVE [i EXCEPT !.yes = yes] \in Job
BY DEF Job

LEMMA SetTick == ASSUME NEW i \in Job, NEW tick \in BOOLEAN PROVE [i EXCEPT !.tick = tick] \in Job
BY DEF Job

LEMMA SetSeen == ASSUME NEW i \in Job, NEW seen \in 0 .. MaxNudges PROVE [i EXCEPT !.seen = seen] \in Job
BY DEF Job

LEMMA SetThen == ASSUME NEW i \in Job, NEW then \in {"end", "live", "nudge"} PROVE [i EXCEPT !.then = then] \in Job
BY DEF Job

LEMMA SetRows ==
    ASSUME NEW i \in Job, NEW list \in SUBSET (Bookings \X Sessions)
    PROVE  [i EXCEPT !.list = list] \in Job
BY DEF Job

LEMMA SetLate == ASSUME NEW i \in Job, NEW late \in BOOLEAN PROVE [i EXCEPT !.late = late] \in Job
BY DEF Job

LEMMA SetOpTo ==
    ASSUME NEW i \in Job, NEW op \in Ops, NEW p \in Phones
    PROVE  [i EXCEPT !.op = op, !.to = p] \in Job
BY SetOp, SetTo

LEMMA SetOpYes ==
    ASSUME NEW i \in Job, NEW op \in Ops, NEW yes \in BOOLEAN
    PROVE  [i EXCEPT !.op = op, !.yes = yes] \in Job
BY SetOp, SetYes

LEMMA SetOpToYes ==
    ASSUME NEW i \in Job, NEW op \in Ops, NEW p \in Phones, NEW yes \in BOOLEAN
    PROVE  [i EXCEPT !.op = op, !.to = p, !.yes = yes] \in Job
BY SetOp, SetTo, SetYes

LEMMA SetOpToBudget ==
    ASSUME NEW i \in Job, NEW op \in Ops, NEW p \in Phones, NEW budget \in Budgets \cup {"none", "new-number"}
    PROVE  [i EXCEPT !.op = op, !.to = p, !.budget = budget] \in Job
BY SetOp, SetTo, SetBudget

LEMMA SetOpTick ==
    ASSUME NEW i \in Job, NEW op \in Ops, NEW tick \in BOOLEAN
    PROVE  [i EXCEPT !.op = op, !.tick = tick] \in Job
BY SetOp, SetTick

LEMMA SetSend ==
    ASSUME NEW i \in Job, NEW for \in Kinds \cup Asides, NEW p \in Phones,
           NEW budget \in Budgets \cup {"none", "new-number"}
    PROVE  [i EXCEPT !.op = "check", !.for = for, !.to = p, !.budget = budget] \in Job
BY TheOps, SetOp, SetFor, SetTo, SetBudget

LEMMA SetOpThen ==
    ASSUME NEW i \in Job, NEW op \in Ops, NEW then \in {"end", "live", "nudge"}
    PROVE  [i EXCEPT !.op = op, !.then = then] \in Job
BY SetOp, SetThen

LEMMA SetNudge ==
    ASSUME NEW i \in Job, NEW op \in Ops, NEW then \in {"end", "live", "nudge"},
           NEW seen \in 0 .. MaxNudges, NEW tick \in BOOLEAN
    PROVE  [i EXCEPT !.op = op, !.then = then, !.seen = seen, !.tick = tick] \in Job
BY SetOp, SetThen, SetSeen, SetTick

LEMMA SetList ==
    ASSUME NEW i \in Job, NEW op \in Ops, NEW tick \in BOOLEAN, NEW list \in SUBSET (Bookings \X Sessions)
    PROVE  [i EXCEPT !.op = op, !.tick = tick, !.list = list] \in Job
BY SetOp, SetTick, SetRows

LEMMA TypeConsentBegins ==
    ASSUME TypeInv, NEW k \in Workers, NEW p \in Phones, NEW yes \in BOOLEAN,
           \/ Stop(k, p) \/ Start(k, p) \/ AskForCode(k, p)
           \/ VerifiedConsent(k, p, yes) \/ FormConsent(k, p, yes) \/ InboundReply(k, p, yes)
    PROVE  TypeInv'
<1>1. RowsTyped' /\ sent' = sent
  BY BeginRows DEF Stop, Start, AskForCode, VerifiedConsent, FormConsent, InboundReply, said
<1>2. ASSUME NEW op \in {"stop", "unstop"}, Begin(k, [Idle EXCEPT !.op = op, !.to = p])
      PROVE  TypeInv'
  <2> DEFINE j == [Idle EXCEPT !.op = op, !.to = p]
  <2>1. j \in Job
    BY IdleIsJob, SetOpTo, TheOps
  <2>2. Flow(j) /\ ~Away(j)
    BY DEF Flow, Away, Idle, Sending_ops, Kinds
  <2>3. QED
    BY <1>1, <1>2, <2>1, <2>2, Begins
<1>3. ASSUME FormConsent(k, p, yes)
      PROVE  TypeInv'
  <2> DEFINE j == [Idle EXCEPT !.op = "form", !.to = p, !.budget = IF yes THEN "visitor" ELSE "new-number"]
  <2>1. j \in Job
    BY IdleIsJob, SetOpToBudget, TheOps DEF Budgets
  <2>2. Flow(j) /\ ~Away(j)
    BY DEF Flow, Away, Idle, Sending_ops, Kinds
  <2>3. QED
    BY <1>1, <1>3, <2>1, <2>2, Begins DEF FormConsent
<1>4. ASSUME AskForCode(k, p)
      PROVE  TypeInv'
  <2> DEFINE j == [Idle EXCEPT !.op = "check", !.for = "code", !.to = p, !.budget = "visitor"]
  <2>1. j \in Job
    BY IdleIsJob, SetSend DEF Budgets, Asides
  <2>2. Flow(j) /\ ~Away(j)
    BY DEF Flow, Away, Idle, Sending_ops, Kinds
  <2>3. QED
    BY <1>1, <1>4, <2>1, <2>2, Begins DEF AskForCode
<1>5. ASSUME NEW op \in {"upsert", "slot"}, Begin(k, [Idle EXCEPT !.op = op, !.to = p, !.yes = yes])
      PROVE  TypeInv'
  <2> DEFINE j == [Idle EXCEPT !.op = op, !.to = p, !.yes = yes]
  <2>1. j \in Job
    BY IdleIsJob, SetOpToYes, TheOps
  <2>2. Flow(j) /\ ~Away(j)
    BY DEF Flow, Away, Idle, Sending_ops, Kinds
  <2>3. QED
    BY <1>1, <1>5, <2>1, <2>2, Begins
<1>6. QED
  BY <1>2, <1>3, <1>4, <1>5 DEF Stop, Start, VerifiedConsent, InboundReply

LEMMA TypeJobBegins ==
    ASSUME TypeInv, NEW k \in Workers, NEW enabled \in BOOLEAN,
           \/ SendDueReminders(k) \/ SellerEvent(k, enabled) \/ PollPaymentAccounts(k)
           \/ NotePublished(k) \/ SendPaymentReminders(k) \/ SendDueReadyTexts(k)
    PROVE  TypeInv'
<1>1. RowsTyped' /\ sent' = sent
  <2>1. CASE NotePublished(k)
    BY <2>1 DEF NotePublished, TypeInv, RowsTyped, TypeOK, said
  <2>2. CASE ~NotePublished(k)
    BY <2>2, BeginRows DEF SendDueReminders, SellerEvent, PollPaymentAccounts, SendPaymentReminders,
       SendDueReadyTexts, said
  <2>3. QED
    BY <2>1, <2>2
<1>2. ASSUME SendDueReminders(k)
      PROVE  TypeInv'
  <2> DEFINE j == [Idle EXCEPT !.op = "next", !.tick = TRUE,
                               !.list = {<<b, place[b]>> : b \in {c \in Bookings : Due(c)}}]
  <2>1. {<<b, place[b]>> : b \in {c \in Bookings : Due(c)}} \in SUBSET (Bookings \X Sessions)
    BY DEF TypeInv, RowsTyped, TypeOK, Due
  <2>2. j \in Job
    BY <2>1, IdleIsJob, SetList, TheOps
  <2>3. Flow(j) /\ ~Away(j)
    BY DEF Flow, Away, Idle, Sending_ops, Kinds
  <2>4. QED
    BY <1>1, <1>2, <2>2, <2>3, Begins DEF SendDueReminders
<1>3. ASSUME SellerEvent(k, enabled)
      PROVE  TypeInv'
  <2> DEFINE j == [Idle EXCEPT !.op = "charges", !.yes = enabled]
  <2>1. j \in Job
    BY IdleIsJob, SetOpYes, TheOps
  <2>2. Flow(j) /\ ~Away(j)
    BY DEF Flow, Away, Idle, Sending_ops, Kinds
  <2>3. QED
    BY <1>1, <1>3, <2>1, <2>2, Begins DEF SellerEvent
<1>4. ASSUME PollPaymentAccounts(k) \/ SendDueReadyTexts(k)
      PROVE  TypeInv'
  <2>1. PICK op \in {"ask", "ready"} : Begin(k, [Idle EXCEPT !.op = op, !.tick = TRUE])
    BY <1>4 DEF PollPaymentAccounts, SendDueReadyTexts
  <2> DEFINE j == [Idle EXCEPT !.op = op, !.tick = TRUE]
  <2>2. j \in Job
    BY IdleIsJob, SetOpTick, TheOps
  <2>3. Flow(j) /\ ~Away(j)
    BY DEF Flow, Away, Idle, Sending_ops, Kinds
  <2>4. QED
    BY <1>1, <2>1, <2>2, <2>3, Begins
<1>5. ASSUME NotePublished(k)
      PROVE  TypeInv'
  <2> DEFINE j == [Idle EXCEPT !.op = "ask", !.then = "live"]
  <2>1. j \in Job
    BY IdleIsJob, SetOpThen, TheOps
  <2>2. Flow(j) /\ ~Away(j)
    BY DEF Flow, Away, Idle, Sending_ops, Kinds
  <2>3. QED
    BY <1>1, <1>5, <2>1, <2>2, Begins DEF NotePublished
<1>6. ASSUME SendPaymentReminders(k)
      PROVE  TypeInv'
  <2> DEFINE j == [Idle EXCEPT !.op = "ask", !.then = "nudge", !.seen = pay.nudges, !.tick = TRUE]
  <2>1. pay.nudges \in 0 .. MaxNudges /\ pay.nudges < MaxNudges
    BY <1>6 DEF SendPaymentReminders, TypeInv, RowsTyped, TypeOK
  <2>2. j \in Job
    BY <2>1, IdleIsJob, SetNudge, TheOps
  <2>3. Flow(j) /\ ~Away(j)
    BY <2>1 DEF Flow, Away, Idle, Sending_ops, Kinds
  <2>4. QED
    BY <1>1, <1>6, <2>2, <2>3, Begins DEF SendPaymentReminders
<1>7. QED
  BY <1>2, <1>3, <1>4, <1>5, <1>6

LEMMA SetOpOut ==
    ASSUME NEW i \in Job, NEW op \in Ops,
           NEW out \in {"none", "sent", "busy", "failed", "stopped", "refused", "capped"}
    PROVE  [i EXCEPT !.op = op, !.out = out] \in Job
BY DEF Job

LEMMA SetChecked ==
    ASSUME NEW i \in Job, NEW op \in Ops, NEW late \in BOOLEAN,
           NEW budget \in Budgets \cup {"none", "new-number"}
    PROVE  [i EXCEPT !.budget = budget, !.late = late, !.op = op] \in Job
BY SetOp, SetBudget, SetLate

LEMMA OutcomeJob ==
    ASSUME TypeInv, NEW k \in Workers, job[k].for # "none",
           NEW out \in {"sent", "busy", "failed", "refused", "capped"}, Outcome(k, out)
    PROVE  \E j \in Job : Flow(j) /\ ~Away(j) /\ Go(k, j)
<1>1. CASE job[k].for \in Asides
  BY <1>1, IdleIsJob DEF Outcome, Asides, Idle, Away
<1>2. CASE job[k].for \notin Asides
  <2> DEFINE j == [job[k] EXCEPT !.op = "outcome", !.out = out]
  <2>1. job[k] \in Job /\ Flow(job[k]) /\ job[k].for \in Kinds
    BY <1>2, JobHere DEF Job
  <2>2. j \in Job
    BY <2>1, SetOpOut, TheOps
  <2>3. Flow(j) /\ ~Away(j)
    BY <2>1, JobHere DEF Job, Flow, Away, Sending_ops
  <2>4. QED
    BY <1>2, <2>2, <2>3 DEF Outcome, Asides
<1>3. QED
  BY <1>1, <1>2

LEMMA TypeCheck ==
    ASSUME TypeInv, NEW k \in Workers, Check(k)
    PROVE  TypeInv'
<1>1. RowsTyped' /\ sent' = sent
  BY SameRows DEF Check, said
<1>2. job[k] \in Job /\ Flow(job[k]) /\ job[k].op = "check" /\ job[k].for # "none"
  BY JobHere DEF Check, Flow, Sending_ops
<1>3. CASE Outcome(k, "refused") \/ Outcome(k, "capped")
  BY <1>1, <1>2, <1>3, OutcomeJob, Quiet
<1>4. CASE ~(Outcome(k, "refused") \/ Outcome(k, "capped"))
  <2>1. PICK budget : budget = BudgetOf(job[k].to, job[k].budget)
    OBVIOUS
  <2>2. budget \in Budgets \cup {"none"}
    BY <1>2, <2>1 DEF BudgetOf, Budgets, Job
  <2>3. job[k].for = "reminder" => budget = "none"
    BY <1>2, <2>1 DEF BudgetOf, Flow
  <2>4. PICK late \in BOOLEAN : late = (job[k].to \in stopped)
    BY (job[k].to \in stopped) \in BOOLEAN
  <2>5. PICK op \in {"relay", "reserve"} : op = IF budget = "none" THEN "relay" ELSE "reserve"
    OBVIOUS
  <2> DEFINE j == [job[k] EXCEPT !.budget = budget, !.late = late, !.op = op]
  <2>6. Go(k, j)
    BY <1>4, <2>1, <2>4, <2>5 DEF Check
  <2>7. j \in Job
    BY <1>2, <2>2, SetChecked, TheOps
  <2>8. Flow(j)
    <3>1. /\ j.op = op /\ j.budget = budget /\ j.for = job[k].for /\ j.to = job[k].to /\ j.b = job[k].b
          /\ j.n = job[k].n /\ j.s = job[k].s /\ j.here = job[k].here /\ j.tick = job[k].tick
          /\ j.then = job[k].then /\ j.seen = job[k].seen
      BY <1>2 DEF Job
    <3>2. budget # "new-number" /\ (op = "reserve" => budget # "none")
      BY <2>2, <2>5 DEF Budgets
    <3> HIDE DEF j
    <3>3. QED
      BY <1>2, <2>3, <2>5, <3>1, <3>2 DEF Flow, Away, Sending_ops
  <2>9. Away(j) => j.budget = "none"
    BY <1>2, <2>5 DEF Away, Job
  <2>10. QED
    BY <1>1, <2>6, <2>7, <2>8, <2>9, Quiet DEF Budgets
<1>5. QED
  BY <1>3, <1>4

LEMMA OneMore ==
    ASSUME NEW r \in [Bookings -> [0 .. MaxMoves -> Nat]], NEW b \in Bookings, NEW n \in 0 .. MaxMoves
    PROVE  [r EXCEPT ![b][n] = @ + 1] \in [Bookings -> [0 .. MaxMoves -> Nat]]
<1>1. PICK f \in [0 .. MaxMoves -> Nat] : f = r[b]
  OBVIOUS
<1>2. [f EXCEPT ![n] = @ + 1] \in [0 .. MaxMoves -> Nat]
  BY f[n] \in Nat
<1>3. QED
  BY <1>1, <1>2

ToldTypes == [reminders : [Bookings -> [0 .. MaxMoves -> Nat]], replies : [Phones -> Nat],
              ready : Nat, live : Nat]

LEMMA SetReminders ==
    ASSUME NEW t \in ToldTypes, NEW r \in [Bookings -> [0 .. MaxMoves -> Nat]]
    PROVE  [t EXCEPT !.reminders = r] \in ToldTypes
BY DEF ToldTypes

LEMMA SetReplies ==
    ASSUME NEW t \in ToldTypes, NEW r \in [Phones -> Nat]
    PROVE  [t EXCEPT !.replies = r] \in ToldTypes
BY DEF ToldTypes

LEMMA SetReady == ASSUME NEW t \in ToldTypes, NEW n \in Nat PROVE [t EXCEPT !.ready = n] \in ToldTypes
BY DEF ToldTypes

LEMMA SetLive == ASSUME NEW t \in ToldTypes, NEW n \in Nat PROVE [t EXCEPT !.live = n] \in ToldTypes
BY DEF ToldTypes

LEMMA TypeRelay ==
    ASSUME TypeInv, NEW k \in Workers, NEW out \in {"sent", "busy", "failed", "stopped"}, Relay(k, out)
    PROVE  TypeInv'
<1>1. job[k] \in Job /\ Flow(job[k]) /\ job[k].op = "relay" /\ job[k].for # "none"
  BY JobHere DEF Relay, Flow, Sending_ops
<1>2. told' \in ToldTypes
  <2>1. PICK t \in ToldTypes : t = told
    BY DEF TypeInv, RowsTyped, ToldTypes
  <2>2. CASE out # "sent" \/ job[k].for \notin Kinds
    BY <2>1, <2>2 DEF Relay, Kinds
  <2>3. CASE out = "sent" /\ job[k].for = "reminder"
    <3>1. PICK b \in Bookings, n \in 0 .. MaxMoves : b = job[k].b /\ n = job[k].n
      BY <1>1, <2>3 DEF Job, Flow
    <3>2. PICK r \in [Bookings -> [0 .. MaxMoves -> Nat]] : r = t.reminders
      BY DEF ToldTypes
    <3>3. told' = [t EXCEPT !.reminders = [r EXCEPT ![b][n] = @ + 1]]
      BY <2>1, <2>3, <3>1, <3>2 DEF Relay
    <3>4. QED
      BY <3>3, OneMore, SetReminders
  <2>4. CASE out = "sent" /\ job[k].for = "reply"
    <3>1. PICK p \in Phones, r \in [Phones -> Nat] : p = job[k].to /\ r = t.replies
      BY <1>1 DEF Job, ToldTypes
    <3>2. told' = [t EXCEPT !.replies = [r EXCEPT ![p] = @ + 1]]
      BY <2>1, <2>4, <3>1 DEF Relay
    <3>3. [r EXCEPT ![p] = @ + 1] \in [Phones -> Nat]
      BY r[p] \in Nat
    <3>4. QED
      BY <3>2, <3>3, SetReplies
  <2>5. CASE out = "sent" /\ job[k].for = "ready"
    <3>1. PICK n \in Nat : n = t.ready + 1
      BY DEF ToldTypes
    <3>2. told' = [t EXCEPT !.ready = n]
      BY <2>1, <2>5, <3>1 DEF Relay
    <3>3. QED
      BY <3>2, SetReady
  <2>6. CASE out = "sent" /\ job[k].for = "live"
    <3>1. PICK n \in Nat : n = t.live + 1
      BY DEF ToldTypes
    <3>2. told' = [t EXCEPT !.live = n]
      BY <2>1, <2>6, <3>1 DEF Relay
    <3>3. QED
      BY <3>2, SetLive
  <2>7. QED
    BY <2>2, <2>3, <2>4, <2>5, <2>6 DEF Kinds
<1>3. RowsTyped' /\ sent' = sent
  BY <1>2 DEF TypeInv, RowsTyped, TypeOK, ToldTypes, Relay, tables
<1>4. PICK op \in {"stop", "record"} : op = IF out = "stopped" THEN "stop" ELSE "record"
  OBVIOUS
<1> DEFINE j == [job[k] EXCEPT !.op = op, !.out = out]
<1>5. Go(k, j)
  BY <1>4 DEF Relay
<1>6. j \in Job
  BY <1>1, SetOpOut, TheOps
<1>7. Flow(j)
  BY <1>1, <1>4 DEF Flow, Away, Sending_ops, Job
<1>8. Away(job[k]) /\ j.to = job[k].to /\ j.budget = job[k].budget
  BY <1>1 DEF Away, Job
<1>9. QED
  BY <1>3, <1>5, <1>6, <1>7, <1>8, Quiet

LEMMA CountedUp ==
    ASSUME TypeInv, NEW p \in Phones, NEW budget \in Budgets \cup {"none"}, sent' = Counted(p, budget, 1)
    PROVE  /\ sent' \in [Phones -> [Budgets \cup {"none"} -> Nat]]
           /\ sent'[p][budget] = sent[p][budget] + 1
           /\ \A q \in Phones, c \in Budgets \cup {"none"} :
                 q # p \/ c # budget => sent'[q][c] = sent[q][c]
<1>1. sent \in [Phones -> [Budgets \cup {"none"} -> Nat]]
  BY DEF TypeInv, RowsTyped, TypeOK
<1>2. sent[p][budget] + 1 \in Nat
  BY <1>1
<1>3. QED
  BY <1>1, <1>2 DEF Counted

LEMMA CountedDown ==
    ASSUME TypeInv, NEW p \in Phones, NEW budget \in Budgets \cup {"none"}, sent' = Counted(p, budget, -1),
           sent[p][budget] >= 1
    PROVE  /\ sent' \in [Phones -> [Budgets \cup {"none"} -> Nat]]
           /\ sent'[p][budget] = sent[p][budget] - 1
           /\ \A q \in Phones, c \in Budgets \cup {"none"} :
                 q # p \/ c # budget => sent'[q][c] = sent[q][c]
<1>1. sent \in [Phones -> [Budgets \cup {"none"} -> Nat]]
  BY DEF TypeInv, RowsTyped, TypeOK
<1>2. sent[p][budget] - 1 \in Nat /\ sent[p][budget] + (-1) = sent[p][budget] - 1
  BY <1>1
<1>3. QED
  BY <1>1, <1>2 DEF Counted

LEMMA SentRows ==
    ASSUME TypeInv, sent' \in [Phones -> [Budgets \cup {"none"} -> Nat]],
           UNCHANGED <<optOut, consent, place, reminder, replied, pay, told, stopped, moves>>,
           failed' \in [Phones -> Nat]
    PROVE  RowsTyped'
BY DEF TypeInv, RowsTyped, TypeOK

LEMMA TypeReserveText ==
    ASSUME TypeInv, NEW k \in Workers, ReserveText(k)
    PROVE  TypeInv'
<1>1. /\ job[k] \in Job /\ Flow(job[k]) /\ job[k].op = "reserve" /\ job[k].for # "none"
      /\ job[k].budget \in Budgets
  BY JobHere DEF ReserveText, Flow, Sending_ops, Job
<1>2. /\ failed \in [Phones -> Nat] /\ sent \in [Phones -> [Budgets \cup {"none"} -> Nat]]
      /\ UNCHANGED <<optOut, consent, failed, place, reminder, replied, pay, told, stopped, moves>>
  BY DEF ReserveText, TypeInv, RowsTyped, TypeOK, said
<1>3. CASE Outcome(k, "busy") /\ UNCHANGED sent
  BY <1>1, <1>2, <1>3, OutcomeJob, Quiet, SentRows
<1>4. CASE sent' = Counted(job[k].to, job[k].budget, 1) /\ Step(k, "relay")
  <2>1. PICK p \in Phones, budget \in Budgets : p = job[k].to /\ budget = job[k].budget
    BY <1>1 DEF Job
  <2>2. /\ sent' \in [Phones -> [Budgets \cup {"none"} -> Nat]] /\ sent[p][budget] \in Nat
        /\ sent'[p][budget] = sent[p][budget] + 1
        /\ \A q \in Phones, c \in Budgets : q # p \/ c # budget => sent'[q][c] = sent[q][c]
    <3>1. sent[p][budget] \in Nat /\ sent[p][budget] + 1 \in Nat /\ budget \in Budgets \cup {"none"}
      BY <1>2
    <3>2. sent' = Counted(p, budget, 1)
      BY <1>4, <2>1
    <3>3. sent' \in [Phones -> [Budgets \cup {"none"} -> Nat]]
      BY <3>1, <3>2, CountedUp
    <3>4. sent'[p][budget] = sent[p][budget] + 1
      BY <3>1, <3>2, CountedUp
    <3>5. \A q \in Phones, c \in Budgets \cup {"none"} :
                 q # p \/ c # budget => sent'[q][c] = sent[q][c]
      BY <3>1, <3>2, CountedUp
    <3>6. QED
      BY <3>1, <3>3, <3>4, <3>5
  <2> DEFINE j == [job[k] EXCEPT !.op = "relay"]
  <2>3. j \in Job
    BY <1>1, SetOp, TheOps
  <2>4. Flow(j) /\ Away(j) /\ j.to = p /\ j.budget = budget /\ ~Away(job[k])
    BY <1>1, <2>1 DEF Flow, Away, Sending_ops, Job
  <2>5. Go(k, j)
    BY <1>4 DEF Step
  <2> HIDE DEF j
  <2>6. JobsTyped' /\ job'[k] = j /\ \A l \in Workers \ {k} : job'[l] = job[l]
    BY <2>3, <2>4, <2>5, JobsAfter
  <2>7. ASSUME NEW q \in Phones, NEW c \in Budgets
        PROVE  Cardinality(Holding(q, c)') <= sent'[q][c]
    <3>1. Cardinality(Holding(q, c)) <= sent[q][c] /\ sent[q][c] \in Nat
      BY <1>2 DEF TypeInv, RowsHeld
    <3>2. IsFiniteSet(Holding(q, c)) /\ Cardinality(Holding(q, c)) \in Nat
      BY HoldingFinite
    <3>3. CASE q = p /\ c = budget
      <4>1. Holding(q, c)' = Holding(q, c) \cup {k}
        BY <3>3, <2>4, <2>6 DEF Holding
      <4>2. /\ Cardinality(Holding(q, c)') <= Cardinality(Holding(q, c)) + 1
            /\ Cardinality(Holding(q, c)') \in Nat
        BY <4>1, <3>2, OneIn
      <4>3. QED
        BY <3>1, <3>2, <3>3, <4>2, <2>2
    <3>4. CASE ~(q = p /\ c = budget)
      <4>1. Holding(q, c)' = Holding(q, c)
        BY <3>4, <2>4, <2>6 DEF Holding
      <4>2. sent'[q][c] = sent[q][c]
        BY <3>4, <2>2
      <4>3. QED
        BY <3>1, <4>1, <4>2
    <3>5. QED
      BY <3>3, <3>4
  <2>8. RowsHeld'
    BY <2>7 DEF RowsHeld
  <2>9. RowsTyped'
    BY <1>2, <2>2, SentRows
  <2>10. QED
    BY <2>6, <2>8, <2>9 DEF TypeInv
<1>5. QED
  BY <1>3, <1>4 DEF ReserveText

LEMMA TypeRecord ==
    ASSUME TypeInv, NEW k \in Workers, Record(k)
    PROVE  TypeInv'
<1>1. /\ job[k] \in Job /\ Flow(job[k]) /\ job[k].op = "record" /\ job[k].for # "none"
      /\ job[k].out \in {"sent", "busy", "failed", "stopped"} /\ Away(job[k])
      /\ job[k].budget \in Budgets \cup {"none"}
  BY JobHere DEF Record, Flow, Sending_ops, Job, Away
<1>2. PICK p \in Phones, budget \in Budgets \cup {"none"}, ok \in BOOLEAN :
         p = job[k].to /\ budget = job[k].budget /\ ok = (job[k].out = "sent")
  BY <1>1 DEF Job
<1>3. /\ failed \in [Phones -> Nat] /\ sent \in [Phones -> [Budgets \cup {"none"} -> Nat]]
      /\ UNCHANGED <<optOut, consent, place, reminder, replied, pay, told, stopped, moves>>
  BY DEF Record, TypeInv, RowsTyped, TypeOK, said
<1>4. failed' \in [Phones -> Nat]
  BY <1>2, <1>3 DEF Record
<1>5. PICK j \in Job : Flow(j) /\ ~Away(j) /\ Go(k, j)
  <2>1. PICK out \in {"sent", "busy", "failed", "refused"} :
           out = IF job[k].out = "stopped" THEN "refused" ELSE job[k].out
    BY <1>1
  <2>2. Outcome(k, out)
    BY <2>1 DEF Record
  <2>3. QED
    BY <1>1, <2>2, OutcomeJob
<1>6. JobsTyped' /\ job'[k] = j /\ \A l \in Workers \ {k} : job'[l] = job[l]
  BY <1>5, JobsAfter
<1>7. \A q \in Phones, c \in Budgets : Holding(q, c)' = Holding(q, c) \ {k}
  BY <1>5, <1>6 DEF Holding
<1>8. \A q \in Phones, c \in Budgets :
         /\ Cardinality(Holding(q, c)) <= sent[q][c] /\ sent[q][c] \in Nat
         /\ Cardinality(Holding(q, c)) \in Nat /\ Cardinality(Holding(q, c)') \in Nat
         /\ Cardinality(Holding(q, c)') <= Cardinality(Holding(q, c))
  <2>1. ASSUME NEW q \in Phones, NEW c \in Budgets
        PROVE  /\ Cardinality(Holding(q, c)') \in Nat
               /\ Cardinality(Holding(q, c)') <= Cardinality(Holding(q, c))
    BY <1>7, HoldingFinite, OneOut
  <2>2. QED
    BY <1>3, <2>1, HoldingFinite DEF TypeInv, RowsHeld
<1>9. CASE ok /\ budget = "none"
  <2>1. sent' = Counted(p, "none", 1) /\ sent[p]["none"] \in Nat
    BY <1>2, <1>3, <1>9 DEF Record, Reserved
  <2>2. /\ sent' \in [Phones -> [Budgets \cup {"none"} -> Nat]]
        /\ \A q \in Phones, c \in Budgets : sent'[q][c] = sent[q][c]
    <3>1. "none" \notin Budgets /\ sent[p]["none"] + 1 \in Nat
      BY <2>1 DEF Budgets
    <3>2. sent' \in [Phones -> [Budgets \cup {"none"} -> Nat]]
      BY <2>1, <3>1, CountedUp
    <3>3. \A q \in Phones, c \in Budgets \cup {"none"} :
             q # p \/ c # "none" => sent'[q][c] = sent[q][c]
      BY <2>1, <3>1, CountedUp
    <3>4. QED
      BY <3>1, <3>2, <3>3
  <2>3. RowsHeld'
    BY <1>8, <2>2 DEF RowsHeld
  <2>4. QED
    BY <1>3, <1>4, <1>6, <2>2, <2>3, SentRows DEF TypeInv
<1>10. CASE ~ok /\ budget # "none"
  <2>1. k \in Holding(p, budget)
    BY <1>1, <1>2 DEF Holding
  <2>2. /\ Cardinality(Holding(p, budget)) \in Nat
        /\ Cardinality(Holding(p, budget)') = Cardinality(Holding(p, budget)) - 1
        /\ Cardinality(Holding(p, budget)') \in Nat
    BY <1>2, <1>7, <1>10, <2>1, HoldingFinite, OneOut
  <2>3. sent[p][budget] \in Nat /\ sent[p][budget] >= 1
    BY <1>8, <1>10, <2>2
  <2>4. sent' = Counted(p, budget, -1)
    BY <1>2, <1>10 DEF Record, Reserved
  <2>5. /\ sent' \in [Phones -> [Budgets \cup {"none"} -> Nat]]
        /\ sent'[p][budget] = sent[p][budget] - 1
        /\ \A q \in Phones, c \in Budgets : q # p \/ c # budget => sent'[q][c] = sent[q][c]
    <3>1. sent' \in [Phones -> [Budgets \cup {"none"} -> Nat]]
      BY <2>3, <2>4, CountedDown
    <3>2. sent'[p][budget] = sent[p][budget] - 1
      BY <2>3, <2>4, CountedDown
    <3>3. \A q \in Phones, c \in Budgets \cup {"none"} :
             q # p \/ c # budget => sent'[q][c] = sent[q][c]
      BY <2>3, <2>4, CountedDown
    <3>4. QED
      BY <3>1, <3>2, <3>3
  <2>6. \A q \in Phones, c \in Budgets : Cardinality(Holding(q, c)') <= sent'[q][c]
    BY <1>8, <1>10, <2>2, <2>3, <2>5
  <2>7. RowsHeld'
    BY <2>6 DEF RowsHeld
  <2>8. QED
    BY <1>3, <1>4, <1>6, <2>5, <2>7, SentRows DEF TypeInv
<1>11. CASE ~(ok /\ budget = "none") /\ ~(~ok /\ budget # "none")
  <2>1. sent' = sent
    BY <1>2, <1>11 DEF Record, Reserved
  <2>2. RowsHeld'
    BY <1>8, <2>1 DEF RowsHeld
  <2>3. QED
    BY <1>3, <1>4, <1>6, <2>1, <2>2, SentRows DEF TypeInv
<1>12. QED
  BY <1>9, <1>10, <1>11

(* A handler that sends nothing goes on to its next statement. *)
LEMMA StepOn ==
    ASSUME TypeInv, NEW k \in Workers, job[k].for = "none",
           NEW op \in {"unrevoke", "lift", "resume", "takeReady"}, Step(k, op),
           sent' = sent, RowsTyped'
    PROVE  TypeInv'
<1> DEFINE j == [job[k] EXCEPT !.op = op]
<1>1. job[k] \in Job /\ Flow(job[k])
  BY JobHere
<1>2. j \in Job /\ Go(k, j)
  BY <1>1, SetOp, TheOps DEF Step
<1>3. Flow(j) /\ ~Away(j)
  BY <1>1 DEF Flow, Away, Sending_ops, Job, Kinds
<1>4. QED
  BY <1>2, <1>3, Quiet

LEMMA TypeStops ==
    ASSUME TypeInv, NEW k \in Workers, UpsertOptOut(k) \/ RevokeConsent(k)
    PROVE  TypeInv'
<1>1. /\ job[k] \in Job /\ Flow(job[k]) /\ job[k].op \in {"stop", "revoke"} /\ job[k].to \in Phones
  BY JobHere DEF UpsertOptOut, RevokeConsent, Job
<1>2. RowsTyped' /\ sent' = sent
  BY <1>1 DEF TypeInv, RowsTyped, TypeOK, UpsertOptOut, RevokeConsent, said
<1>3. ASSUME NEW op \in {"revoke", "record"}, Step(k, op), op = "record" => job[k].out = "stopped"
      PROVE  TypeInv'
  <2> DEFINE j == [job[k] EXCEPT !.op = op]
  <2>1. j \in Job /\ Go(k, j)
    BY <1>1, <1>3, SetOp, TheOps DEF Step
  <2>2. Flow(j) /\ (Away(j) => Away(job[k])) /\ j.to = job[k].to /\ j.budget = job[k].budget
    BY <1>1, <1>3 DEF Flow, Away, Sending_ops, Job, Kinds
  <2>3. QED
    BY <1>2, <2>1, <2>2, Quiet
<1>4. QED
  BY <1>2, <1>3, QuietIdle DEF UpsertOptOut, RevokeConsent

LEMMA ForNone ==
    ASSUME TypeInv, NEW k \in Workers,
           job[k].op \in {"idle", "unstop", "unrevoke", "upsert", "lift", "form", "next", "slot",
                          "charges", "ask", "save", "ready", "takeReady", "live", "nudge"}
    PROVE  job[k].for = "none"
BY JobHere DEF Flow, Sending_ops

LEMMA TypeConsents ==
    ASSUME TypeInv, NEW k \in Workers,
           DeleteOptOut(k) \/ ClearRevoked(k) \/ UpsertConsent(k) \/ LiftOptOut(k)
    PROVE  TypeInv'
<1>1. job[k].to \in Phones /\ job[k].for = "none"
  BY JobHere, ForNone DEF Job, DeleteOptOut, ClearRevoked, UpsertConsent, LiftOptOut
<1>2. RowsTyped' /\ sent' = sent
  BY <1>1 DEF TypeInv, RowsTyped, TypeOK, DeleteOptOut, ClearRevoked, UpsertConsent, LiftOptOut, LiftedBy, said
<1>3. CASE DeleteOptOut(k) \/ UpsertConsent(k)
  BY <1>1, <1>2, <1>3, StepOn DEF DeleteOptOut, UpsertConsent
<1>4. CASE ClearRevoked(k) \/ LiftOptOut(k)
  BY <1>2, <1>4, QuietIdle DEF ClearRevoked, LiftOptOut
<1>5. QED
  BY <1>3, <1>4

(* A handler comes to a text of its own. *)
LEMMA SendsOne ==
    ASSUME TypeInv, NEW k \in Workers, job[k].for = "none",
           NEW for \in {"notice", "nudge", "reply", "ready", "live"}, NEW p \in Phones,
           NEW budget \in Budgets \cup {"none", "new-number"}, Sending(k, for, p, budget),
           for \in {"ready", "live"} => p = CoachPhone,
           sent' = sent, RowsTyped'
    PROVE  TypeInv'
<1> DEFINE j == [job[k] EXCEPT !.op = "check", !.for = for, !.to = p, !.budget = budget]
<1>1. job[k] \in Job /\ Flow(job[k])
  BY JobHere
<1>2. j \in Job /\ Go(k, j)
  BY <1>1, SetSend DEF Sending, Kinds, Asides
<1>3. Flow(j) /\ ~Away(j)
  BY <1>1 DEF Flow, Away, Sending_ops, Job, Kinds
<1>4. QED
  BY <1>2, <1>3, Quiet

LEMMA TypeInsertConsent ==
    ASSUME TypeInv, NEW k \in Workers, InsertConsent(k)
    PROVE  TypeInv'
<1>1. job[k].to \in Phones /\ job[k].for = "none" /\ job[k].budget \in Budgets \cup {"none", "new-number"}
  BY JobHere, ForNone DEF Job, InsertConsent
<1>2. PICK p \in Phones, budget \in Budgets \cup {"none", "new-number"} : p = job[k].to /\ budget = job[k].budget
  BY <1>1
<1>3. RowsTyped' /\ sent' = sent
  BY <1>1 DEF TypeInv, RowsTyped, TypeOK, InsertConsent, FormConsentOf, said
<1>4. Sending(k, "notice", p, budget)
  BY <1>2 DEF InsertConsent
<1>5. QED
  BY <1>1, <1>3, <1>4, SendsOne

LEMMA SetB == ASSUME NEW i \in Job, NEW b \in Bookings PROVE [i EXCEPT !.b = b] \in Job
BY DEF Job

LEMMA SetS == ASSUME NEW i \in Job, NEW s \in Sessions PROVE [i EXCEPT !.s = s] \in Job
BY DEF Job

LEMMA SetHere == ASSUME NEW i \in Job, NEW s \in Sessions PROVE [i EXCEPT !.here = s] \in Job
BY DEF Job

LEMMA SetN == ASSUME NEW i \in Job, NEW n \in 0 .. MaxMoves PROVE [i EXCEPT !.n = n] \in Job
BY DEF Job

LEMMA SetItsList ==
    ASSUME NEW i \in Job, NEW list \in SUBSET (Bookings \X Sessions)
    PROVE  [i EXCEPT !.list = list] \in Job
BY DEF Job

LEMMA SetClaim ==
    ASSUME NEW i \in Job, NEW p \in Phones, NEW b \in Bookings, NEW s \in Sessions, NEW n \in 0 .. MaxMoves,
           NEW list \in SUBSET (Bookings \X Sessions)
    PROVE  [i EXCEPT !.op = "check", !.for = "reminder", !.to = p, !.budget = "none", !.b = b,
                     !.s = s, !.here = s, !.n = n, !.list = list] \in Job
BY TheOps, SetOp, SetFor, SetTo, SetBudget, SetB, SetS, SetHere, SetN, SetItsList DEF Kinds

LEMMA TypeClaimReminder ==
    ASSUME TypeInv, NEW k \in Workers, ClaimReminder(k)
    PROVE  TypeInv'
<1>1. job[k] \in Job /\ Flow(job[k]) /\ job[k].op = "next" /\ job[k].tick /\ job[k].for = "none"
  BY JobHere, ForNone DEF ClaimReminder, Flow
<1>2. RowsTyped' /\ sent' = sent
  <2>1. \A row \in job[k].list : row[1] \in Bookings
    BY <1>1 DEF Job
  <2>2. reminder \subseteq Bookings
    BY DEF TypeInv, RowsTyped, TypeOK
  <2>3. reminder' \subseteq Bookings
    <3>1. \/ reminder' = reminder
          \/ \E row \in job[k].list : reminder' = reminder \cup {row[1]}
      BY DEF ClaimReminder
    <3>2. QED
      BY <2>1, <2>2, <3>1
  <2>4. QED
    BY <2>3 DEF TypeInv, RowsTyped, TypeOK, ClaimReminder, said
<1>3. CASE Go(k, Idle)
  BY <1>2, <1>3, QuietIdle
<1>4. ASSUME NEW row \in job[k].list, Go(k, [job[k] EXCEPT !.list = job[k].list \ {row}])
      PROVE  TypeInv'
  <2>1. PICK list \in SUBSET (Bookings \X Sessions) : list = job[k].list \ {row}
    BY <1>1 DEF Job
  <2> DEFINE j == [job[k] EXCEPT !.list = list]
  <2>2. j \in Job /\ Go(k, j)
    BY <1>1, <1>4, <2>1 DEF Job
  <2>3. Flow(j) /\ ~Away(j)
    BY <1>1 DEF Flow, Away, Sending_ops, Job, Kinds
  <2>4. QED
    BY <1>2, <2>2, <2>3, Quiet
<1>5. ASSUME NEW row \in job[k].list, Claimable(row[1], row[2]),
             Go(k, [job[k] EXCEPT !.op = "check", !.for = "reminder", !.to = PhoneOf[row[1]],
                                  !.budget = "none", !.b = row[1], !.s = row[2],
                                  !.here = place[row[1]], !.n = moves[row[1]], !.list = job[k].list \ {row}])
      PROVE  TypeInv'
  <2>1. PICK list \in SUBSET (Bookings \X Sessions) : list = job[k].list \ {row}
    BY <1>1 DEF Job
  <2>2. row \in Bookings \X Sessions
    BY <1>1, <1>5 DEF Job
  <2>3. PICK b \in Bookings, s \in Sessions : b = row[1] /\ s = row[2]
    BY <2>2
  <2>4. s = place[b]
    BY <1>5, <2>3 DEF Claimable
  <2>5. PICK n \in 0 .. MaxMoves, p \in Phones : n = moves[b] /\ p = PhoneOf[b]
    BY TextsAssumption DEF TypeInv, RowsTyped
  <2> DEFINE j == [job[k] EXCEPT !.op = "check", !.for = "reminder", !.to = p, !.budget = "none", !.b = b,
                                 !.s = s, !.here = s, !.n = n, !.list = list]
  <2>6. j \in Job
    BY <1>1, SetClaim
  <2>7. Go(k, j)
    BY <1>5, <2>1, <2>3, <2>4, <2>5
  <2>8. Flow(j) /\ ~Away(j)
    BY <1>1, <2>5 DEF Flow, Away, Sending_ops, Job, Kinds
  <2>9. QED
    BY <1>2, <2>6, <2>7, <2>8, Quiet
<1>6. QED
  BY <1>3, <1>4, <1>5 DEF ClaimReminder

LEMMA ReminderRows ==
    ASSUME TypeInv, UNCHANGED <<optOut, consent, sent, failed, place, replied, pay, told, stopped, moves>>,
           reminder' \subseteq reminder
    PROVE  RowsTyped' /\ sent' = sent
BY DEF TypeInv, RowsTyped, TypeOK

LEMMA TypeReminded ==
    ASSUME TypeInv, NEW k \in Workers, Reminded(k)
    PROVE  TypeInv'
<1>1. RowsTyped' /\ sent' = sent
  BY ReminderRows DEF Reminded, said
<1>2. PICK list \in SUBSET (Bookings \X Sessions) : list = job[k].list
  BY JobHere DEF Job
<1> DEFINE j == [Idle EXCEPT !.op = "next", !.list = list, !.tick = TRUE]
<1>3. j \in Job
  <2>1. [Idle EXCEPT !.op = "next", !.tick = TRUE, !.list = list] \in Job
    BY IdleIsJob, SetList, TheOps
  <2>2. QED
    BY <2>1 DEF Idle
<1>4. Flow(j) /\ ~Away(j)
  BY DEF Flow, Away, Idle, Sending_ops, Kinds
<1>5. Go(k, j)
  BY <1>2 DEF Reminded
<1>6. QED
  BY <1>1, <1>3, <1>4, <1>5, Quiet

LEMMA TypeTakeReplySlot ==
    ASSUME TypeInv, NEW k \in Workers, TakeReplySlot(k)
    PROVE  TypeInv'
<1>1. job[k].to \in Phones /\ job[k].for = "none"
  BY JobHere, ForNone DEF Job, TakeReplySlot
<1>2. RowsTyped' /\ sent' = sent
  BY <1>1 DEF TypeInv, RowsTyped, TypeOK, TakeReplySlot, said
<1>3. CASE Go(k, Idle)
  BY <1>2, <1>3, QuietIdle
<1>4. CASE ~Go(k, Idle)
  <2>1. PICK p \in Phones, budget \in Budgets \cup {"none"} :
           p = job[k].to /\ budget = IF job[k].yes THEN "inbound-reply" ELSE "none"
    BY <1>1 DEF Budgets
  <2>2. Sending(k, "reply", p, budget)
    BY <1>4, <2>1 DEF TakeReplySlot
  <2>3. QED
    BY <1>1, <1>2, <2>2, SendsOne
<1>5. QED
  BY <1>3, <1>4

LEMMA PaidRows ==
    ASSUME TypeInv, Unpaid' = Unpaid,
           pay' \in [charges : {"unknown", "no", "yes"}, due : BOOLEAN, texted : BOOLEAN,
                     published : BOOLEAN, live : BOOLEAN, nudges : 0 .. MaxNudges]
    PROVE  RowsTyped' /\ sent' = sent
BY DEF TypeInv, RowsTyped, TypeOK, Unpaid, said

LEMMA PayHere ==
    ASSUME TypeInv
    PROVE  pay \in [charges : {"unknown", "no", "yes"}, due : BOOLEAN, texted : BOOLEAN,
                    published : BOOLEAN, live : BOOLEAN, nudges : 0 .. MaxNudges]
BY DEF TypeInv, RowsTyped, TypeOK

LEMMA TypeReplied ==
    ASSUME TypeInv, NEW k \in Workers, Replied(k) \/ LiveTexted(k)
    PROVE  TypeInv'
<1>1. RowsTyped' /\ sent' = sent
  <2>1. CASE Replied(k)
    BY <2>1 DEF TypeInv, RowsTyped, TypeOK, Replied, said
  <2>2. CASE LiveTexted(k)
    BY <2>2, PayHere, PaidRows DEF LiveTexted, Unpaid
  <2>3. QED
    BY <2>1, <2>2
<1>2. QED
  BY <1>1, QuietIdle DEF Replied, LiveTexted

LEMMA TypeAskRelay ==
    ASSUME TypeInv, NEW k \in Workers, NEW answer \in {"none", "no", "yes"}, AskRelay(k, answer)
    PROVE  TypeInv'
<1>1. job[k] \in Job /\ Flow(job[k]) /\ job[k].for = "none" /\ job[k].op = "ask"
  BY JobHere, ForNone DEF AskRelay
<1>2. RowsTyped' /\ sent' = sent
  BY SameRows DEF AskRelay, said
<1>3. CASE answer # "none"
  <2>1. PICK yes \in BOOLEAN : yes = (answer = "yes")
    OBVIOUS
  <2> DEFINE j == [job[k] EXCEPT !.op = "charges", !.yes = yes]
  <2>2. j \in Job
    BY <1>1, SetOpYes, TheOps
  <2>3. Go(k, j)
    BY <1>3, <2>1 DEF AskRelay
  <2>4. Flow(j) /\ ~Away(j)
    BY <1>1 DEF Flow, Away, Sending_ops, Job, Kinds
  <2>5. QED
    BY <1>2, <2>2, <2>3, <2>4, Quiet
<1>4. CASE answer = "none" /\ job[k].then = "live"
  <2> DEFINE j == [job[k] EXCEPT !.op = "live"]
  <2>1. j \in Job
    BY <1>1, SetOp, TheOps
  <2>2. Go(k, j)
    BY <1>4 DEF AskRelay
  <2>3. Flow(j) /\ ~Away(j)
    BY <1>1 DEF Flow, Away, Sending_ops, Job, Kinds
  <2>4. QED
    BY <1>2, <2>1, <2>2, <2>3, Quiet
<1>5. CASE answer = "none" /\ job[k].then # "live"
  BY <1>2, <1>5, QuietIdle DEF AskRelay
<1>6. QED
  BY <1>3, <1>4, <1>5

LEMMA TypeClaimTurnedOn ==
    ASSUME TypeInv, NEW k \in Workers, ClaimTurnedOn(k)
    PROVE  TypeInv'
<1>1. job[k] \in Job /\ Flow(job[k]) /\ job[k].for = "none"
  BY JobHere, ForNone DEF ClaimTurnedOn
<1>2. RowsTyped' /\ sent' = sent
  BY PayHere, PaidRows DEF ClaimTurnedOn, Unpaid
<1>3. PICK on \in BOOLEAN : on = (job[k].yes /\ ReadyOwed)
  OBVIOUS
<1> DEFINE j == [job[k] EXCEPT !.op = "save", !.late = on]
<1>4. j \in Job
  BY <1>1, TheOps DEF Job
<1>5. Go(k, j)
  BY <1>3 DEF ClaimTurnedOn
<1>6. Flow(j) /\ ~Away(j)
  BY <1>1 DEF Flow, Away, Sending_ops, Job, Kinds
<1>7. QED
  BY <1>2, <1>4, <1>5, <1>6, Quiet

LEMMA TypeSaveCharges ==
    ASSUME TypeInv, NEW k \in Workers, SaveCharges(k)
    PROVE  TypeInv'
<1>1. job[k] \in Job /\ Flow(job[k]) /\ job[k].for = "none"
  BY JobHere, ForNone DEF SaveCharges
<1>2. RowsTyped' /\ sent' = sent
  BY PayHere, PaidRows DEF SaveCharges, Unpaid
<1>3. PICK op \in {"ready", "resume"} : op = IF job[k].late THEN "ready" ELSE "resume"
  OBVIOUS
<1> DEFINE j == [job[k] EXCEPT !.op = op, !.yes = FALSE, !.late = FALSE]
<1>4. j \in Job
  BY <1>1, TheOps DEF Job
<1>5. Go(k, j)
  BY <1>3 DEF SaveCharges
<1>6. Flow(j) /\ ~Away(j)
  BY <1>1 DEF Flow, Away, Sending_ops, Job, Kinds
<1>7. QED
  BY <1>2, <1>4, <1>5, <1>6, Quiet

LEMMA TypeReady ==
    ASSUME TypeInv, NEW k \in Workers, Ready(k)
    PROVE  TypeInv'
<1>1. job[k].for = "none"
  BY ForNone DEF Ready
<1>2. RowsTyped' /\ sent' = sent
  BY PayHere, PaidRows DEF Ready, Unpaid
<1>3. QED
  BY <1>1, <1>2, StepOn DEF Ready

LEMMA TypeTakeReady ==
    ASSUME TypeInv, NEW k \in Workers, TakeReady(k)
    PROVE  TypeInv'
<1>1. job[k].for = "none"
  BY ForNone DEF TakeReady
<1>2. RowsTyped' /\ sent' = sent
  BY PayHere, PaidRows DEF TakeReady, Unpaid
<1>3. QED
  BY <1>1, <1>2, StepOn, SendsOne, TextsAssumption DEF TakeReady

LEMMA TypeReadyTexted ==
    ASSUME TypeInv, NEW k \in Workers, ReadyTexted(k)
    PROVE  TypeInv'
<1>1. job[k] \in Job /\ Flow(job[k]) /\ job[k].for = "ready"
  BY JobHere DEF ReadyTexted
<1>2. RowsTyped' /\ sent' = sent
  BY SameRows DEF ReadyTexted, said
<1> DEFINE j == [job[k] EXCEPT !.op = "resume"]
<1>3. j \in Job
  BY <1>1, SetOp, TheOps
<1>4. Go(k, j)
  BY DEF ReadyTexted, Step
<1>5. Flow(j) /\ ~Away(j)
  BY <1>1 DEF Flow, Away, Sending_ops, Job, Kinds
<1>6. QED
  BY <1>2, <1>3, <1>4, <1>5, Quiet

LEMMA TypeResume ==
    ASSUME TypeInv, NEW k \in Workers, Resume(k)
    PROVE  TypeInv'
<1>1. job[k] \in Job /\ Flow(job[k])
  BY JobHere
<1>2. RowsTyped' /\ sent' = sent
  BY SameRows DEF Resume, said
<1>3. PICK then \in {"end", "live", "nudge"}, seen \in 0 .. MaxNudges, tick \in BOOLEAN :
         then = job[k].then /\ seen = job[k].seen /\ tick = job[k].tick
  BY <1>1 DEF Job
<1>4. ASSUME NEW op \in {"live", "nudge"}, op = "nudge" => then = "nudge",
             Go(k, [[Idle EXCEPT !.then = then, !.seen = seen, !.tick = tick] EXCEPT !.op = op])
      PROVE  TypeInv'
  <2> DEFINE j == [Idle EXCEPT !.op = op, !.then = then, !.seen = seen, !.tick = tick]
  <2>1. j \in Job
    BY IdleIsJob, SetNudge, TheOps
  <2>2. Go(k, j)
    BY <1>4 DEF Idle
  <2>3. Flow(j) /\ ~Away(j)
    BY <1>1, <1>3, <1>4 DEF Flow, Away, Idle, Sending_ops, Kinds
  <2>4. QED
    BY <1>2, <2>1, <2>2, <2>3, Quiet
<1>5. QED
  BY <1>2, <1>3, <1>4, QuietIdle DEF Resume

LEMMA TypeTakeLive ==
    ASSUME TypeInv, NEW k \in Workers, TakeLive(k)
    PROVE  TypeInv'
<1>1. job[k].for = "none"
  BY ForNone DEF TakeLive
<1>2. RowsTyped' /\ sent' = sent
  BY PayHere, PaidRows DEF TakeLive, Unpaid
<1>3. QED
  BY <1>1, <1>2, QuietIdle, SendsOne, TextsAssumption DEF TakeLive

LEMMA TypeTakeNudge ==
    ASSUME TypeInv, NEW k \in Workers, TakeNudge(k)
    PROVE  TypeInv'
<1>1. job[k].for = "none" /\ job[k].then = "nudge" /\ job[k].seen < MaxNudges
  BY JobHere, ForNone DEF TakeNudge, Flow
<1>2. pay.nudges = job[k].seen => pay.nudges + 1 \in 0 .. MaxNudges
  BY <1>1, PayHere, TextsAssumption
<1>3. RowsTyped' /\ sent' = sent
  BY <1>2, PayHere, PaidRows DEF TakeNudge, Unpaid
<1>4. QED
  BY <1>1, <1>3, QuietIdle, SendsOne, TextsAssumption DEF TakeNudge

(* Bookings move and end beside the handlers, and the process stops. *)
LEMMA HandlersStay ==
    ASSUME TypeInv, UNCHANGED <<job, sent>>, RowsTyped'
    PROVE  TypeInv'
BY DEF TypeInv, JobsTyped, RowsHeld, Holding

LEMMA TypeBookings ==
    ASSUME TypeInv, NEW b \in Bookings,
           CancelBooking(b) \/ \E s \in Sessions : MoveBooking(b, s)
    PROVE  TypeInv'
<1>1. UNCHANGED <<job, sent>>
  BY DEF CancelBooking, MoveBooking
<1>2. /\ place \in [Bookings -> Sessions \cup {0}] /\ moves \in [Bookings -> 0 .. MaxMoves]
      /\ reminder \subseteq Bookings
  BY DEF TypeInv, RowsTyped, TypeOK
<1>3. /\ place' \in [Bookings -> Sessions \cup {0}] /\ moves' \in [Bookings -> 0 .. MaxMoves]
      /\ reminder' \subseteq Bookings
  <2>1. CASE CancelBooking(b)
    BY <1>2, <2>1 DEF CancelBooking
  <2>2. ASSUME NEW s \in Sessions, MoveBooking(b, s)
        PROVE  /\ place' \in [Bookings -> Sessions \cup {0}] /\ moves' \in [Bookings -> 0 .. MaxMoves]
               /\ reminder' \subseteq Bookings
    <3>1. moves[b] \in 0 .. MaxMoves /\ moves[b] < MaxMoves
      BY <1>2, <2>2 DEF MoveBooking
    <3>2. moves[b] + 1 \in 0 .. MaxMoves
      BY <3>1, TextsAssumption
    <3>3. QED
      BY <1>2, <2>2, <3>2 DEF MoveBooking
  <2>3. QED
    BY <2>1, <2>2
<1>4. RowsTyped'
  BY <1>3 DEF CancelBooking, MoveBooking, TypeInv, RowsTyped, TypeOK, said
<1>5. QED
  BY <1>1, <1>4, HandlersStay

LEMMA TypeProcessStops ==
    ASSUME TypeInv, ProcessStops
    PROVE  TypeInv'
<1>1. RowsTyped' /\ sent' = sent
  BY SameRows DEF ProcessStops, said
<1>2. \A k \in Workers : job'[k] = Idle
  BY DEF ProcessStops
<1>3. JobsTyped'
  BY IdleIsJob DEF ProcessStops, JobsTyped
<1>4. ASSUME NEW p \in Phones, NEW budget \in Budgets
      PROVE  Cardinality(Holding(p, budget)') <= sent'[p][budget]
  <2>1. Holding(p, budget)' = {}
    BY <1>2 DEF Holding, Away, Idle
  <2>2. sent[p][budget] \in Nat
    BY DEF TypeInv, RowsTyped, TypeOK
  <2>3. QED
    BY <1>1, <2>1, <2>2, FS_EmptySet
<1>5. QED
  BY <1>1, <1>3, <1>4 DEF TypeInv, RowsHeld

LEMMA FreshSent ==
    ASSUME NEW already \in Nat
    PROVE  [p \in Phones |-> [budget \in Budgets \cup {"none"} |->
                                 IF p = CoachPhone /\ budget = "none" THEN already ELSE 0]]
              \in [Phones -> [Budgets \cup {"none"} -> Nat]]
OBVIOUS

LEMMA TypeInit ==
    ASSUME Init
    PROVE  TypeInv
<1>1. PICK new \in BOOLEAN, already \in {0, Ceiling - 1} :
         /\ pay = [charges |-> IF new THEN "unknown" ELSE "no", due |-> FALSE, texted |-> FALSE,
                   published |-> ~new, live |-> FALSE, nudges |-> 0]
         /\ sent = [p \in Phones |-> [budget \in Budgets \cup {"none"} |->
                                         IF p = CoachPhone /\ budget = "none" THEN already ELSE 0]]
  BY DEF Init
<1>2. already \in Nat /\ 0 \in 0 .. MaxNudges /\ 0 \in 0 .. MaxMoves
  BY TextsAssumption
<1>3. sent \in [Phones -> [Budgets \cup {"none"} -> Nat]]
  BY <1>1, <1>2, FreshSent
<1>4. pay \in [charges : {"unknown", "no", "yes"}, due : BOOLEAN, texted : BOOLEAN,
               published : BOOLEAN, live : BOOLEAN, nudges : 0 .. MaxNudges]
  <2>1. CASE new
    BY <1>1, <1>2, <2>1
  <2>2. CASE ~new
    BY <1>1, <1>2, <2>2
  <2>3. QED
    BY <2>1, <2>2
<1>5. TypeOK
  BY <1>3, <1>4 DEF Init, TypeOK
<1>6. told \in ToldTypes
  <2>1. [b \in Bookings |-> [n \in 0 .. MaxMoves |-> 0]] \in [Bookings -> [0 .. MaxMoves -> Nat]]
    OBVIOUS
  <2>2. QED
    BY <2>1 DEF Init, ToldTypes
<1>7. RowsTyped
  BY <1>2, <1>5, <1>6 DEF Init, RowsTyped, ToldTypes
<1>8. JobsTyped
  BY IdleIsJob DEF Init, JobsTyped
<1>9. ASSUME NEW p \in Phones, NEW budget \in Budgets
      PROVE  Cardinality(Holding(p, budget)) <= sent[p][budget]
  <2>1. Holding(p, budget) = {}
    BY DEF Init, Holding, Away, Idle
  <2>2. sent[p][budget] \in Nat
    BY <1>3
  <2>3. QED
    BY <2>1, <2>2, FS_EmptySet
<1>10. QED
  BY <1>7, <1>8, <1>9 DEF TypeInv, RowsHeld

LEMMA TypeSame ==
    ASSUME TypeInv, UNCHANGED vars
    PROVE  TypeInv'
<1>1. RowsTyped'
  BY DEF TypeInv, RowsTyped, TypeOK, vars
<1>2. QED
  BY <1>1, HandlersStay DEF vars

LEMMA TypeStep ==
    ASSUME TypeInv, [Next]_vars
    PROVE  TypeInv'
<1>1. CASE UNCHANGED vars
  BY <1>1, TypeSame
<1>2. ASSUME NEW k \in Workers, SendSteps(k)
      PROVE  TypeInv'
  BY <1>2, TypeCheck, TypeReserveText, TypeRecord, TypeRelay DEF SendSteps
<1>3. ASSUME NEW k \in Workers, ConsentSteps(k)
      PROVE  TypeInv'
  <2>1. CASE \E p \in Phones :
                \/ Stop(k, p) \/ Start(k, p) \/ AskForCode(k, p)
                \/ \E yes \in BOOLEAN : VerifiedConsent(k, p, yes) \/ FormConsent(k, p, yes) \/ InboundReply(k, p, yes)
    BY <2>1, TypeConsentBegins
  <2>2. CASE \/ UpsertOptOut(k) \/ RevokeConsent(k) \/ DeleteOptOut(k) \/ ClearRevoked(k)
             \/ UpsertConsent(k) \/ LiftOptOut(k) \/ InsertConsent(k)
    BY <2>2, TypeStops, TypeConsents, TypeInsertConsent
  <2>3. QED
    BY <1>3, <2>1, <2>2 DEF ConsentSteps
<1>4. ASSUME NEW k \in Workers, JobSteps(k)
      PROVE  TypeInv'
  <2>1. CASE \/ SendDueReminders(k) \/ PollPaymentAccounts(k) \/ NotePublished(k)
             \/ SendPaymentReminders(k) \/ SendDueReadyTexts(k)
             \/ \E enabled \in BOOLEAN : SellerEvent(k, enabled)
    BY <2>1, TypeJobBegins
  <2>2. CASE \/ ClaimReminder(k) \/ Reminded(k) \/ TakeReplySlot(k) \/ Replied(k) \/ LiveTexted(k)
             \/ \E answer \in {"none", "no", "yes"} : AskRelay(k, answer)
    BY <2>2, TypeClaimReminder, TypeReminded, TypeTakeReplySlot, TypeReplied, TypeAskRelay
  <2>3. CASE \/ ClaimTurnedOn(k) \/ SaveCharges(k) \/ Ready(k) \/ TakeReady(k) \/ ReadyTexted(k)
             \/ Resume(k) \/ TakeLive(k) \/ TakeNudge(k)
    BY <2>3, TypeClaimTurnedOn, TypeSaveCharges, TypeReady, TypeTakeReady, TypeReadyTexted,
       TypeResume, TypeTakeLive, TypeTakeNudge
  <2>4. QED
    BY <1>4, <2>1, <2>2, <2>3 DEF JobSteps
<1>5. CASE ProcessStops
  BY <1>5, TypeProcessStops
<1>6. CASE \E b \in Bookings : CancelBooking(b) \/ \E s \in Sessions : MoveBooking(b, s)
  BY <1>6, TypeBookings
<1>7. QED
  BY <1>1, <1>2, <1>3, <1>4, <1>5, <1>6 DEF Next

(* Every table and every handler keeps its type, and every text of a budget  *)
(* that is on its way has its row.                                           *)
LEMMA TypesKept == Spec => []TypeInv
<1>1. Init => TypeInv
  BY TypeInit
<1>2. TypeInv /\ [Next]_vars => TypeInv'
  BY TypeStep
<1>3. QED
  BY <1>1, <1>2, PTL DEF Spec

(* Every table holds what its columns allow, whatever the handlers of the    *)
(* texts do and wherever the process stops; a row of message_log is never    *)
(* taken back twice (record, outbound.ts).                                   *)
THEOREM Typing == Spec => []TypeOK
<1>1. TypeInv => TypeOK
  BY DEF TypeInv, RowsTyped
<1>2. QED
  BY <1>1, TypesKept, PTL

----------------------------------------------------------------------------
(* STOP. *)

LEMMA StopInit ==
    ASSUME Init
    PROVE  StopInv
BY DEF Init, StopInv, Idle

LEMMA GoOthers ==
    ASSUME TypeInv, NEW k \in Workers, NEW j, Go(k, j)
    PROVE  job'[k] = j /\ \A l \in Workers \ {k} : job'[l] = job[l]
BY DEF TypeInv, JobsTyped, Go

LEMMA StepHere ==
    ASSUME TypeInv, NEW k \in Workers, NEW op, Step(k, op)
    PROVE  /\ job'[k].op = op
           /\ \A l \in Workers \ {k} : job'[l] = job[l]
           /\ job'[k].for = job[k].for /\ job'[k].to = job[k].to /\ job'[k].b = job[k].b
           /\ job'[k].n = job[k].n /\ job'[k].tick = job[k].tick /\ job'[k].late = job[k].late
           /\ job'[k].out = job[k].out /\ job'[k].budget = job[k].budget
<1>1. job'[k] = [job[k] EXCEPT !.op = op] /\ \A l \in Workers \ {k} : job'[l] = job[l]
  BY GoOthers DEF Step
<1>2. job[k] \in Job
  BY JobHere
<1>3. QED
  BY <1>1, <1>2 DEF Job

LEMMA OutcomeHere ==
    ASSUME TypeInv, NEW k \in Workers, NEW out, Outcome(k, out)
    PROVE  /\ \A l \in Workers \ {k} : job'[l] = job[l]
           /\ \/ job[k].for \in Asides /\ job'[k] = Idle
              \/ /\ job[k].for \notin Asides /\ job'[k].op = "outcome" /\ job'[k].out = out
                 /\ job'[k].for = job[k].for /\ job'[k].to = job[k].to /\ job'[k].b = job[k].b
                 /\ job'[k].n = job[k].n /\ job'[k].tick = job[k].tick
<1>1. job[k] \in Job
  BY JobHere
<1>2. CASE job[k].for \in Asides
  BY <1>2, GoOthers DEF Outcome, Asides
<1>3. CASE job[k].for \notin Asides
  <2>1. Go(k, [job[k] EXCEPT !.op = "outcome", !.out = out])
    BY <1>3 DEF Outcome, Asides
  <2>2. /\ job'[k] = [job[k] EXCEPT !.op = "outcome", !.out = out]
        /\ \A l \in Workers \ {k} : job'[l] = job[l]
    BY <2>1, GoOthers
  <2>3. QED
    BY <1>1, <1>3, <2>2 DEF Job
<1>4. QED
  BY <1>2, <1>3

LEMMA SendingHere ==
    ASSUME TypeInv, NEW k \in Workers, NEW for, NEW to, NEW budget, Sending(k, for, to, budget)
    PROVE  /\ \A l \in Workers \ {k} : job'[l] = job[l]
           /\ job'[k].op = "check" /\ job'[k].for = for /\ job'[k].to = to /\ job'[k].b = job[k].b
           /\ job'[k].n = job[k].n /\ job'[k].tick = job[k].tick /\ job'[k].out = job[k].out
<1>1. /\ job'[k] = [job[k] EXCEPT !.op = "check", !.for = for, !.to = to, !.budget = budget]
      /\ \A l \in Workers \ {k} : job'[l] = job[l]
  BY GoOthers DEF Sending
<1>2. job[k] \in Job
  BY JobHere
<1>3. QED
  BY <1>1, <1>2 DEF Job

LEMMA BeginHere ==
    ASSUME TypeInv, NEW k \in Workers, NEW j, Begin(k, j)
    PROVE  job'[k] = j /\ job[k] = Idle /\ \A l \in Workers \ {k} : job'[l] = job[l]
BY GoOthers DEF Begin

(* How a handler begins: a sign-in code's text, or no text yet. *)
LEMMA HandlerBegins ==
    ASSUME TypeInv, NEW k \in Workers, NEW p \in Phones, NEW yes \in BOOLEAN
    PROVE  /\ Stop(k, p) => job'[k] = [Idle EXCEPT !.op = "stop", !.to = p]
           /\ Start(k, p) => job'[k] = [Idle EXCEPT !.op = "unstop", !.to = p]
           /\ AskForCode(k, p) =>
                job'[k] = [Idle EXCEPT !.op = "check", !.for = "code", !.to = p, !.budget = "visitor"]
           /\ VerifiedConsent(k, p, yes) => job'[k] = [Idle EXCEPT !.op = "upsert", !.to = p, !.yes = yes]
           /\ FormConsent(k, p, yes) =>
                job'[k] = [Idle EXCEPT !.op = "form", !.to = p, !.budget = IF yes THEN "visitor" ELSE "new-number"]
           /\ InboundReply(k, p, yes) => job'[k] = [Idle EXCEPT !.op = "slot", !.to = p, !.yes = yes]
<1>1. ASSUME Stop(k, p) PROVE job'[k] = [Idle EXCEPT !.op = "stop", !.to = p]
  BY <1>1, BeginHere DEF Stop
<1>2. ASSUME Start(k, p) PROVE job'[k] = [Idle EXCEPT !.op = "unstop", !.to = p]
  BY <1>2, BeginHere DEF Start
<1>3. ASSUME AskForCode(k, p)
      PROVE  job'[k] = [Idle EXCEPT !.op = "check", !.for = "code", !.to = p, !.budget = "visitor"]
  BY <1>3, BeginHere DEF AskForCode
<1>4. ASSUME VerifiedConsent(k, p, yes) PROVE job'[k] = [Idle EXCEPT !.op = "upsert", !.to = p, !.yes = yes]
  BY <1>4, BeginHere DEF VerifiedConsent
<1>5. ASSUME FormConsent(k, p, yes)
      PROVE  job'[k] = [Idle EXCEPT !.op = "form", !.to = p, !.budget = IF yes THEN "visitor" ELSE "new-number"]
  BY <1>5, BeginHere DEF FormConsent
<1>6. ASSUME InboundReply(k, p, yes) PROVE job'[k] = [Idle EXCEPT !.op = "slot", !.to = p, !.yes = yes]
  BY <1>6, BeginHere DEF InboundReply
<1>7. QED
  BY <1>1, <1>2, <1>3, <1>4, <1>5, <1>6

LEMMA JobBegins ==
    ASSUME TypeInv, NEW k \in Workers, NEW enabled \in BOOLEAN
    PROVE  /\ SendDueReminders(k) =>
                job'[k] = [Idle EXCEPT !.op = "next", !.tick = TRUE,
                                       !.list = {<<b, place[b]>> : b \in {c \in Bookings : Due(c)}}]
           /\ SellerEvent(k, enabled) => job'[k] = [Idle EXCEPT !.op = "charges", !.yes = enabled]
           /\ PollPaymentAccounts(k) => job'[k] = [Idle EXCEPT !.op = "ask", !.tick = TRUE]
           /\ NotePublished(k) => job'[k] = [Idle EXCEPT !.op = "ask", !.then = "live"]
           /\ SendPaymentReminders(k) =>
                job'[k] = [Idle EXCEPT !.op = "ask", !.then = "nudge", !.seen = pay.nudges, !.tick = TRUE]
           /\ SendDueReadyTexts(k) => job'[k] = [Idle EXCEPT !.op = "ready", !.tick = TRUE]
<1>1. ASSUME SendDueReminders(k)
      PROVE  job'[k] = [Idle EXCEPT !.op = "next", !.tick = TRUE,
                                    !.list = {<<b, place[b]>> : b \in {c \in Bookings : Due(c)}}]
  BY <1>1, BeginHere DEF SendDueReminders
<1>2. ASSUME SellerEvent(k, enabled) PROVE job'[k] = [Idle EXCEPT !.op = "charges", !.yes = enabled]
  BY <1>2, BeginHere DEF SellerEvent
<1>3. ASSUME PollPaymentAccounts(k) PROVE job'[k] = [Idle EXCEPT !.op = "ask", !.tick = TRUE]
  BY <1>3, BeginHere DEF PollPaymentAccounts
<1>4. ASSUME NotePublished(k) PROVE job'[k] = [Idle EXCEPT !.op = "ask", !.then = "live"]
  BY <1>4, BeginHere DEF NotePublished
<1>5. ASSUME SendPaymentReminders(k)
      PROVE  job'[k] = [Idle EXCEPT !.op = "ask", !.then = "nudge", !.seen = pay.nudges, !.tick = TRUE]
  BY <1>5, BeginHere DEF SendPaymentReminders
<1>6. ASSUME SendDueReadyTexts(k) PROVE job'[k] = [Idle EXCEPT !.op = "ready", !.tick = TRUE]
  BY <1>6, BeginHere DEF SendDueReadyTexts
<1>7. QED
  BY <1>1, <1>2, <1>3, <1>4, <1>5, <1>6

(* A beginning changes one handler, which was idle. *)
LEMMA BeginsAlone ==
    ASSUME TypeInv, NEW k \in Workers, NEW p \in Phones, NEW yes \in BOOLEAN,
           \/ Stop(k, p) \/ Start(k, p) \/ AskForCode(k, p)
           \/ VerifiedConsent(k, p, yes) \/ FormConsent(k, p, yes) \/ InboundReply(k, p, yes)
           \/ SendDueReminders(k) \/ SellerEvent(k, yes) \/ PollPaymentAccounts(k)
           \/ NotePublished(k) \/ SendPaymentReminders(k) \/ SendDueReadyTexts(k)
    PROVE  job[k] = Idle /\ \A l \in Workers \ {k} : job'[l] = job[l]
<1>1. PICK j : Begin(k, j)
  BY DEF Stop, Start, AskForCode, VerifiedConsent, FormConsent, InboundReply, SendDueReminders, SellerEvent,
     PollPaymentAccounts, NotePublished, SendPaymentReminders, SendDueReadyTexts
<1>2. QED
  BY <1>1, BeginHere

Lifts == {"unstop", "upsert", "lift"}

(* What keeps a STOP: nobody at work who would undo it and did not begin     *)
(* beside it, and no text past its check.                                    *)
LEMMA StopKept ==
    ASSUME StopInv, NEW k \in Workers, \A l \in Workers \ {k} : job'[l] = job[l],
           job'[k].op \in Lifts /\ k \notin crossed' => job'[k].to \notin stopped',
           job'[k].op \in {"reserve", "relay"} => ~job'[k].late,
           stopped' \subseteq stopped, stopped' \subseteq optOut', crossed \ {k} \subseteq crossed'
    PROVE  StopInv'
BY DEF StopInv, Lifting, Lifts

LEMMA StopQuiet ==
    ASSUME StopInv, NEW k \in Workers, \A l \in Workers \ {k} : job'[l] = job[l],
           job'[k].op \notin Lifts \cup {"reserve", "relay"},
           UNCHANGED <<stopped, crossed, optOut>>
    PROVE  StopInv'
BY StopKept DEF StopInv

LEMMA StopBegins ==
    ASSUME TypeInv, StopInv, NEW k \in Workers, NEW p \in Phones, NEW yes \in BOOLEAN,
           \/ Stop(k, p) \/ Start(k, p) \/ AskForCode(k, p)
           \/ VerifiedConsent(k, p, yes) \/ FormConsent(k, p, yes) \/ InboundReply(k, p, yes)
           \/ SendDueReminders(k) \/ SellerEvent(k, yes) \/ PollPaymentAccounts(k)
           \/ NotePublished(k) \/ SendPaymentReminders(k) \/ SendDueReadyTexts(k)
    PROVE  StopInv'
<1>1. CASE Stop(k, p) \/ AskForCode(k, p) \/ FormConsent(k, p, yes) \/ InboundReply(k, p, yes)
  <2>1. UNCHANGED <<stopped, crossed, optOut>>
    BY <1>1 DEF Stop, AskForCode, FormConsent, InboundReply, said, tables
  <2>2. job'[k].op \in {"stop", "check", "form", "slot"} /\ \A l \in Workers \ {k} : job'[l] = job[l]
    <3>1. \A l \in Workers \ {k} : job'[l] = job[l]
      BY <1>1, BeginsAlone
    <3>2. CASE Stop(k, p)
      <4>1. job'[k] = [Idle EXCEPT !.op = "stop", !.to = p]
        BY <3>2, HandlerBegins
      <4>2. QED
        BY <3>1, <4>1 DEF Idle
    <3>3. CASE AskForCode(k, p)
      <4>1. job'[k] = [Idle EXCEPT !.op = "check", !.for = "code", !.to = p, !.budget = "visitor"]
        BY <3>3, HandlerBegins
      <4>2. QED
        BY <3>1, <4>1 DEF Idle
    <3>4. CASE FormConsent(k, p, yes)
      <4>1. job'[k] = [Idle EXCEPT !.op = "form", !.to = p, !.budget = IF yes THEN "visitor" ELSE "new-number"]
        BY <3>4, BeginHere DEF FormConsent
      <4>2. QED
        BY <3>1, <4>1 DEF Idle
    <3>5. CASE InboundReply(k, p, yes)
      <4>1. job'[k] = [Idle EXCEPT !.op = "slot", !.to = p, !.yes = yes]
        BY <3>5, BeginHere DEF InboundReply
      <4>2. QED
        BY <3>1, <4>1 DEF Idle
    <3>6. QED
      BY <1>1, <3>2, <3>3, <3>4, <3>5
  <2>3. QED
    BY <2>1, <2>2, StopQuiet DEF Lifts
<1>2. CASE Start(k, p) \/ VerifiedConsent(k, p, yes)
  <2>1. stopped' \subseteq stopped \ {p} /\ optOut' = optOut /\ crossed' = crossed \ {k}
    BY <1>2 DEF Start, VerifiedConsent, NoStopOnRecord, IsOptedOut, StopInv, tables
  <2>2. job'[k].op \in {"unstop", "upsert"} /\ job'[k].to = p /\ \A l \in Workers \ {k} : job'[l] = job[l]
    <3>1. \A l \in Workers \ {k} : job'[l] = job[l]
      BY <1>2, BeginsAlone
    <3>2. CASE Start(k, p)
      <4>1. job'[k] = [Idle EXCEPT !.op = "unstop", !.to = p]
        BY <3>2, HandlerBegins
      <4>2. QED
        BY <3>1, <4>1 DEF Idle
    <3>3. CASE VerifiedConsent(k, p, yes)
      <4>1. job'[k] = [Idle EXCEPT !.op = "upsert", !.to = p, !.yes = yes]
        BY <3>3, BeginHere DEF VerifiedConsent
      <4>2. QED
        BY <3>1, <4>1 DEF Idle
    <3>4. QED
      BY <1>2, <3>2, <3>3
  <2>3. QED
    BY <2>1, <2>2, StopKept DEF StopInv
<1>3. CASE \/ SendDueReminders(k) \/ SellerEvent(k, yes) \/ PollPaymentAccounts(k)
           \/ NotePublished(k) \/ SendPaymentReminders(k) \/ SendDueReadyTexts(k)
  <2>1. UNCHANGED <<stopped, crossed, optOut>>
    BY <1>3 DEF SendDueReminders, SellerEvent, PollPaymentAccounts, NotePublished, SendPaymentReminders,
       SendDueReadyTexts, said, tables
  <2>2. job'[k].op \in {"next", "charges", "ask", "ready"} /\ \A l \in Workers \ {k} : job'[l] = job[l]
    <3>1. \A l \in Workers \ {k} : job'[l] = job[l]
      BY <1>3, BeginsAlone
    <3>2. CASE SendDueReminders(k)
      <4>1. job'[k] = [Idle EXCEPT !.op = "next", !.tick = TRUE,
                                     !.list = {<<b, place[b]>> : b \in {c \in Bookings : Due(c)}}]
        BY <3>2, JobBegins
      <4>2. QED
        BY <3>1, <4>1 DEF Idle
    <3>3. CASE SellerEvent(k, yes)
      <4>1. job'[k] = [Idle EXCEPT !.op = "charges", !.yes = yes]
        BY <3>3, JobBegins
      <4>2. QED
        BY <3>1, <4>1 DEF Idle
    <3>4. CASE PollPaymentAccounts(k)
      <4>1. job'[k] = [Idle EXCEPT !.op = "ask", !.tick = TRUE]
        BY <3>4, JobBegins
      <4>2. QED
        BY <3>1, <4>1 DEF Idle
    <3>5. CASE NotePublished(k)
      <4>1. job'[k] = [Idle EXCEPT !.op = "ask", !.then = "live"]
        BY <3>5, JobBegins
      <4>2. QED
        BY <3>1, <4>1 DEF Idle
    <3>6. CASE SendPaymentReminders(k)
      <4>1. job'[k] = [Idle EXCEPT !.op = "ask", !.then = "nudge", !.seen = pay.nudges, !.tick = TRUE]
        BY <3>6, JobBegins
      <4>2. QED
        BY <3>1, <4>1 DEF Idle
    <3>7. CASE SendDueReadyTexts(k)
      <4>1. job'[k] = [Idle EXCEPT !.op = "ready", !.tick = TRUE]
        BY <3>7, JobBegins
      <4>2. QED
        BY <3>1, <4>1 DEF Idle
    <3>8. QED
      BY <1>3, <3>2, <3>3, <3>4, <3>5, <3>6, <3>7
  <2>3. QED
    BY <2>1, <2>2, StopQuiet DEF Lifts
<1>4. QED
  BY <1>1, <1>2, <1>3

LEMMA StopSends ==
    ASSUME TypeInv, StopInv, NEW k \in Workers, SendSteps(k)
    PROVE  StopInv'
<1>1. CASE Check(k)
  <2>1. UNCHANGED <<stopped, crossed, optOut>>
    BY <1>1 DEF Check, said, tables
  <2>2. CASE Outcome(k, "refused") \/ Outcome(k, "capped")
    BY <2>1, <2>2, OutcomeHere, StopQuiet DEF Idle, Lifts
  <2>3. CASE ~(Outcome(k, "refused") \/ Outcome(k, "capped"))
    <3>1. PICK budget : budget = BudgetOf(job[k].to, job[k].budget)
      OBVIOUS
    <3>2. /\ job[k].to \notin stopped
          /\ Go(k, [job[k] EXCEPT !.budget = budget, !.late = job[k].to \in stopped,
                                  !.op = IF budget = "none" THEN "relay" ELSE "reserve"])
      BY <1>1, <2>3, <3>1 DEF Check, Refused, IsOptedOut, StopInv
    <3>3. PICK op \in {"relay", "reserve"} : op = IF budget = "none" THEN "relay" ELSE "reserve"
      OBVIOUS
    <3>4. Go(k, [job[k] EXCEPT !.budget = budget, !.late = job[k].to \in stopped, !.op = op])
      BY <3>2, <3>3
    <3>5. /\ job'[k] = [job[k] EXCEPT !.budget = budget, !.late = job[k].to \in stopped, !.op = op]
          /\ \A l \in Workers \ {k} : job'[l] = job[l]
      BY <3>4, GoOthers
    <3>6. ~job'[k].late /\ job'[k].op \notin Lifts
      BY <3>2, <3>3, <3>5, JobHere DEF Job, Lifts
    <3>7. QED
      BY <2>1, <3>5, <3>6, StopKept DEF StopInv
  <2>4. QED
    BY <2>2, <2>3
<1>2. CASE ReserveText(k)
  <2>1. UNCHANGED <<stopped, crossed, optOut>> /\ ~job[k].late
    BY <1>2 DEF ReserveText, said, StopInv
  <2>2. CASE Outcome(k, "busy")
    BY <2>1, <2>2, OutcomeHere, StopQuiet DEF Idle, Lifts
  <2>3. CASE Step(k, "relay")
    BY <2>1, <2>3, StepHere, StopKept DEF StopInv, Lifts
  <2>4. QED
    BY <1>2, <2>2, <2>3 DEF ReserveText
<1>3. CASE Record(k)
  <2>1. UNCHANGED <<stopped, crossed, optOut>>
    BY <1>3 DEF Record, said
  <2>2. PICK out : Outcome(k, out)
    BY <1>3 DEF Record
  <2>3. QED
    BY <2>1, <2>2, OutcomeHere, StopQuiet DEF Idle, Lifts
<1>4. ASSUME NEW out \in {"sent", "busy", "failed", "stopped"}, Relay(k, out)
      PROVE  StopInv'
  <2>1. UNCHANGED <<stopped, crossed, optOut>>
    BY <1>4 DEF Relay, tables
  <2>2. PICK op \in {"stop", "record"} : op = IF out = "stopped" THEN "stop" ELSE "record"
    OBVIOUS
  <2>3. /\ job'[k] = [job[k] EXCEPT !.op = op, !.out = out]
        /\ \A l \in Workers \ {k} : job'[l] = job[l]
    BY <1>4, <2>2, GoOthers DEF Relay
  <2>4. job'[k].op = op
    BY <2>3, JobHere DEF Job
  <2>5. QED
    BY <2>1, <2>3, <2>4, StopQuiet DEF Lifts
<1>5. QED
  BY <1>1, <1>2, <1>3, <1>4 DEF SendSteps

LEMMA StopConsents ==
    ASSUME TypeInv, StopInv, NEW k \in Workers,
           \/ UpsertOptOut(k) \/ RevokeConsent(k) \/ DeleteOptOut(k) \/ ClearRevoked(k)
           \/ UpsertConsent(k) \/ LiftOptOut(k) \/ InsertConsent(k)
    PROVE  StopInv'
<1>1. CASE UpsertOptOut(k)
  <2>1. /\ stopped' = stopped \cup {job[k].to} /\ optOut' = optOut \cup {job[k].to}
        /\ crossed' = crossed \cup {l \in Workers : Lifting(l) /\ job[l].to = job[k].to}
    BY <1>1 DEF UpsertOptOut
  <2>2. job'[k].op = "revoke" /\ \A l \in Workers \ {k} : job'[l] = job[l]
    BY <1>1, StepHere DEF UpsertOptOut
  <2>3. QED
    BY <2>1, <2>2 DEF StopInv, Lifting
<1>2. CASE RevokeConsent(k)
  <2>1. UNCHANGED <<stopped, crossed, optOut>> /\ (Step(k, "record") \/ Go(k, Idle))
    BY <1>2 DEF RevokeConsent, said
  <2>2. job'[k].op \in {"record", "idle"} /\ \A l \in Workers \ {k} : job'[l] = job[l]
    BY <2>1, StepHere, GoOthers DEF Idle
  <2>3. QED
    BY <2>1, <2>2, StopQuiet DEF Lifts
<1>3. CASE DeleteOptOut(k)
  <2>1. LiftedBy(k) /\ optOut' = optOut \ {job[k].to} /\ Step(k, "unrevoke") /\ job[k].op = "unstop"
    BY <1>3 DEF DeleteOptOut
  <2>2. stopped' \subseteq stopped \ {job[k].to} /\ crossed' = crossed \ {k}
    BY <2>1 DEF StopInv, Lifting, LiftedBy
  <2>3. QED
    BY <2>1, <2>2, StepHere, StopKept DEF StopInv, Lifts
<1>4. CASE ClearRevoked(k)
  <2>1. UNCHANGED <<stopped, crossed, optOut>> /\ Go(k, Idle)
    BY <1>4 DEF ClearRevoked, said
  <2>2. QED
    BY <2>1, GoOthers, StopQuiet DEF Idle, Lifts
<1>5. CASE UpsertConsent(k)
  <2>1. UNCHANGED <<stopped, crossed, optOut>> /\ Step(k, "lift") /\ job[k].op = "upsert"
    BY <1>5 DEF UpsertConsent, said
  <2>2. k \notin crossed => job[k].to \notin stopped
    BY <2>1 DEF StopInv, Lifting
  <2>3. QED
    BY <2>1, <2>2, StepHere, StopKept DEF StopInv, Lifts
<1>6. CASE LiftOptOut(k)
  <2>1. LiftedBy(k) /\ optOut' = optOut \ {job[k].to} /\ Go(k, Idle) /\ job[k].op = "lift"
    BY <1>6 DEF LiftOptOut
  <2>2. stopped' \subseteq stopped \ {job[k].to} /\ crossed' = crossed \ {k}
    BY <2>1 DEF StopInv, Lifting, LiftedBy
  <2>3. QED
    BY <2>1, <2>2, GoOthers, StopKept DEF StopInv, Idle, Lifts
<1>7. CASE InsertConsent(k)
  <2>1. UNCHANGED <<stopped, crossed, optOut>> /\ Sending(k, "notice", job[k].to, job[k].budget)
    BY <1>7 DEF InsertConsent, said
  <2>2. QED
    BY <2>1, SendingHere, StopQuiet DEF Lifts
<1>8. QED
  BY <1>1, <1>2, <1>3, <1>4, <1>5, <1>6, <1>7

(* The jobs' own steps: what each goes on with. *)
LEMMA ReminderJob ==
    ASSUME TypeInv, NEW k \in Workers, ClaimReminder(k)
    PROVE  /\ \A l \in Workers \ {k} : job'[l] = job[l]
           /\ \/ reminder' = reminder /\ job'[k].for = "none" /\ job'[k].op \in {"idle", "next"}
                 /\ (job'[k].tick => job[k].tick)
              \/ /\ job'[k].op = "check" /\ job'[k].for = "reminder" /\ job'[k].tick = job[k].tick
                 /\ job'[k].b \in Bookings /\ job'[k].b \notin reminder /\ job'[k].n = moves[job'[k].b]
                 /\ reminder' = reminder \cup {job'[k].b} /\ job'[k].to = PhoneOf[job'[k].b]
                 /\ job'[k].out = job[k].out
<1>1. job[k] \in Job /\ Flow(job[k]) /\ job[k].op = "next" /\ job[k].tick /\ job[k].for = "none"
  BY JobHere, ForNone DEF ClaimReminder, Flow
<1>2. CASE Go(k, Idle) /\ UNCHANGED reminder
  <2>1. job'[k] = Idle /\ \A l \in Workers \ {k} : job'[l] = job[l]
    BY <1>2, GoOthers
  <2>2. job'[k].for = "none" /\ job'[k].op = "idle" /\ ~job'[k].tick
    BY <2>1 DEF Idle
  <2>3. QED
    BY <1>2, <2>1, <2>2
<1>3. ASSUME NEW row \in job[k].list, Go(k, [job[k] EXCEPT !.list = job[k].list \ {row}]), UNCHANGED reminder
      PROVE  /\ \A l \in Workers \ {k} : job'[l] = job[l]
             /\ job'[k].for = "none" /\ job'[k].op = "next" /\ job'[k].tick = job[k].tick
  <2>1. /\ job'[k] = [job[k] EXCEPT !.list = job[k].list \ {row}]
        /\ \A l \in Workers \ {k} : job'[l] = job[l]
    BY <1>3, GoOthers
  <2>2. QED
    BY <1>1, <2>1 DEF Job
<1>4. ASSUME NEW row \in job[k].list, Claimable(row[1], row[2]), reminder' = reminder \cup {row[1]},
             Go(k, [job[k] EXCEPT !.op = "check", !.for = "reminder", !.to = PhoneOf[row[1]],
                                  !.budget = "none", !.b = row[1], !.s = row[2],
                                  !.here = place[row[1]], !.n = moves[row[1]], !.list = job[k].list \ {row}])
      PROVE  /\ \A l \in Workers \ {k} : job'[l] = job[l]
             /\ job'[k].op = "check" /\ job'[k].for = "reminder" /\ job'[k].tick = job[k].tick
             /\ job'[k].b \in Bookings /\ job'[k].b \notin reminder /\ job'[k].n = moves[job'[k].b]
             /\ reminder' = reminder \cup {job'[k].b} /\ job'[k].to = PhoneOf[job'[k].b]
             /\ job'[k].out = job[k].out
  <2>1. row \in Bookings \X Sessions
    BY <1>1, <1>4 DEF Job
  <2>2. row[1] \in Bookings /\ row[1] \notin reminder
    BY <1>4, <2>1 DEF Claimable
  <2>3a. PICK b \in Bookings : b = row[1]
    BY <2>2
  <2>3b. PICK s, here, list : s = row[2] /\ here = place[row[1]] /\ list = job[k].list \ {row}
    OBVIOUS
  <2>4. PICK n, p : n = moves[b] /\ p = PhoneOf[b]
    OBVIOUS
  <2>5. /\ job'[k] = [job[k] EXCEPT !.op = "check", !.for = "reminder", !.to = p, !.budget = "none", !.b = b,
                                    !.s = s, !.here = here, !.n = n, !.list = list]
        /\ \A l \in Workers \ {k} : job'[l] = job[l]
    BY <1>4, <2>3a, <2>3b, <2>4, GoOthers
  <2>6. job'[k].op = "check" /\ job'[k].for = "reminder" /\ job'[k].tick = job[k].tick /\ job'[k].b = b
        /\ job'[k].n = n /\ job'[k].to = p /\ job'[k].out = job[k].out
    BY <1>1, <2>5 DEF Job
  <2>7. QED
    BY <1>4, <2>2, <2>3a, <2>3b, <2>4, <2>5, <2>6
<1>5. QED
  BY <1>1, <1>2, <1>3, <1>4 DEF ClaimReminder

LEMMA IdleHere ==
    ASSUME TypeInv, NEW k \in Workers, Go(k, Idle)
    PROVE  /\ \A l \in Workers \ {k} : job'[l] = job[l]
           /\ job'[k].for = "none" /\ job'[k].op = "idle" /\ ~job'[k].tick
<1>1. job'[k] = Idle /\ \A l \in Workers \ {k} : job'[l] = job[l]
  BY GoOthers
<1>2. QED
  BY <1>1 DEF Idle

LEMMA Reminds ==
    ASSUME TypeInv, NEW k \in Workers, Reminded(k)
    PROVE  /\ \A l \in Workers \ {k} : job'[l] = job[l]
           /\ job'[k].for = "none" /\ job'[k].op = "next" /\ job[k].tick
<1>1. /\ job'[k] = [Idle EXCEPT !.op = "next", !.list = job[k].list, !.tick = TRUE]
      /\ \A l \in Workers \ {k} : job'[l] = job[l]
  BY GoOthers DEF Reminded
<1>2. job[k].tick
  BY JobHere DEF Reminded, Flow
<1>3. QED
  BY <1>1, <1>2 DEF Idle

(* The steps that lead a handler on without a text. *)
LEMMA Onward ==
    ASSUME TypeInv, NEW k \in Workers, NEW answer \in {"none", "no", "yes"},
           AskRelay(k, answer) \/ ClaimTurnedOn(k) \/ SaveCharges(k) \/ Ready(k) \/ Resume(k)
    PROVE  /\ \A l \in Workers \ {k} : job'[l] = job[l]
           /\ job'[k].for = "none" /\ (job'[k].tick => job[k].tick)
           /\ job'[k].op \in {"idle", "charges", "live", "save", "ready", "resume", "takeReady", "nudge"}
<1>1. job[k] \in Job
  BY JobHere
<1>2. CASE Go(k, Idle)
  BY <1>2, IdleHere
<1>3. ASSUME NEW op \in {"live", "resume", "takeReady"}, Step(k, op), job[k].for = "none"
      PROVE  /\ \A l \in Workers \ {k} : job'[l] = job[l]
             /\ job'[k].for = "none" /\ job'[k].tick = job[k].tick /\ job'[k].op = op
  BY <1>3, StepHere
<1>4. CASE AskRelay(k, answer)
  <2>1. job[k].for = "none"
    BY <1>4, ForNone DEF AskRelay
  <2>2. CASE answer # "none"
    <3>1. /\ job'[k] = [job[k] EXCEPT !.op = "charges", !.yes = (answer = "yes")]
          /\ \A l \in Workers \ {k} : job'[l] = job[l]
      BY <1>4, <2>2, GoOthers DEF AskRelay
    <3>2. job'[k].for = "none" /\ job'[k].tick = job[k].tick /\ job'[k].op = "charges"
      BY <1>1, <2>1, <3>1 DEF Job
    <3>3. QED
      BY <3>1, <3>2
  <2>3. CASE answer = "none" /\ job[k].then = "live"
    BY <1>3, <1>4, <2>1, <2>3 DEF AskRelay, Step
  <2>4. CASE answer = "none" /\ job[k].then # "live"
    BY <1>2, <1>4, <2>4 DEF AskRelay
  <2>5. QED
    BY <2>2, <2>3, <2>4
<1>5. CASE ClaimTurnedOn(k)
  <2>1. job[k].for = "none"
    BY <1>5, ForNone DEF ClaimTurnedOn
  <2>2. PICK on : Go(k, [job[k] EXCEPT !.op = "save", !.late = on])
    BY <1>5 DEF ClaimTurnedOn
  <2>3. /\ job'[k] = [job[k] EXCEPT !.op = "save", !.late = on]
        /\ \A l \in Workers \ {k} : job'[l] = job[l]
    BY <2>2, GoOthers
  <2>4. job'[k].for = "none" /\ job'[k].tick = job[k].tick /\ job'[k].op = "save"
    BY <1>1, <2>1, <2>3 DEF Job
  <2>5. QED
    BY <2>3, <2>4
<1>6. CASE SaveCharges(k)
  <2>1. job[k].for = "none"
    BY <1>6, ForNone DEF SaveCharges
  <2>2. PICK op \in {"ready", "resume"} : op = IF job[k].late THEN "ready" ELSE "resume"
    OBVIOUS
  <2>3. /\ job'[k] = [job[k] EXCEPT !.op = op, !.yes = FALSE, !.late = FALSE]
        /\ \A l \in Workers \ {k} : job'[l] = job[l]
    BY <1>6, <2>2, GoOthers DEF SaveCharges
  <2>4. job'[k].for = "none" /\ job'[k].tick = job[k].tick /\ job'[k].op = op
    BY <1>1, <2>1, <2>3 DEF Job
  <2>5. QED
    BY <2>3, <2>4
<1>7. CASE Ready(k)
  <2>1. job[k].for = "none"
    BY <1>7, ForNone DEF Ready
  <2>2. PICK op \in {"resume", "takeReady"} : Step(k, op)
    BY <1>7 DEF Ready
  <2>3. QED
    BY <1>3, <2>1, <2>2
<1>8. CASE Resume(k)
  <2>1. ASSUME NEW op \in {"live", "nudge"}, NEW then, NEW seen, NEW tick, tick = job[k].tick,
               Go(k, [[Idle EXCEPT !.then = then, !.seen = seen, !.tick = tick] EXCEPT !.op = op])
        PROVE  /\ \A l \in Workers \ {k} : job'[l] = job[l]
               /\ job'[k].for = "none" /\ (job'[k].tick => job[k].tick) /\ job'[k].op = op
    <3>1. /\ job'[k] = [[Idle EXCEPT !.then = then, !.seen = seen, !.tick = tick] EXCEPT !.op = op]
          /\ \A l \in Workers \ {k} : job'[l] = job[l]
      BY <2>1, GoOthers
    <3>2. job'[k].for = "none" /\ job'[k].tick = tick /\ job'[k].op = op
      BY <3>1 DEF Idle
    <3>3. QED
      BY <2>1, <3>1, <3>2
  <2>2. PICK then, seen, tick : then = job[k].then /\ seen = job[k].seen /\ tick = job[k].tick
    OBVIOUS
  <2>3. \/ Go(k, Idle)
        \/ \E op \in {"live", "nudge"} :
              Go(k, [[Idle EXCEPT !.then = then, !.seen = seen, !.tick = tick] EXCEPT !.op = op])
    BY <1>8, <2>2 DEF Resume
  <2>4. QED
    BY <1>2, <2>1, <2>2, <2>3
<1>9. QED
  BY <1>4, <1>5, <1>6, <1>7, <1>8

LEMMA StopJobs ==
    ASSUME TypeInv, StopInv, NEW k \in Workers, NEW answer \in {"none", "no", "yes"},
           \/ ClaimReminder(k) \/ Reminded(k) \/ TakeReplySlot(k) \/ Replied(k) \/ AskRelay(k, answer)
           \/ ClaimTurnedOn(k) \/ SaveCharges(k) \/ Ready(k) \/ TakeReady(k) \/ ReadyTexted(k)
           \/ Resume(k) \/ TakeLive(k) \/ LiveTexted(k) \/ TakeNudge(k)
    PROVE  StopInv'
<1>1. UNCHANGED <<stopped, crossed, optOut>>
  BY DEF ClaimReminder, Reminded, TakeReplySlot, Replied, AskRelay, ClaimTurnedOn, SaveCharges, Ready,
     TakeReady, ReadyTexted, Resume, TakeLive, LiveTexted, TakeNudge, said, tables, Unpaid
<1>2. ASSUME job'[k].op \in {"idle", "next", "check", "charges", "live", "save", "ready", "resume", "takeReady", "nudge"},
             \A l \in Workers \ {k} : job'[l] = job[l]
      PROVE  StopInv'
  BY <1>1, <1>2, StopQuiet DEF Lifts
<1>3. CASE ClaimReminder(k) \/ Reminded(k)
  BY <1>2, <1>3, ReminderJob, Reminds
<1>4. CASE AskRelay(k, answer) \/ ClaimTurnedOn(k) \/ SaveCharges(k) \/ Ready(k) \/ Resume(k)
  BY <1>2, <1>4, Onward
<1>5. CASE Go(k, Idle)
  BY <1>2, <1>5, IdleHere
<1>6. ASSUME NEW for, NEW to, NEW budget, Sending(k, for, to, budget)
      PROVE  StopInv'
  BY <1>2, <1>6, SendingHere
<1>7. CASE Step(k, "resume")
  BY <1>2, <1>7, StepHere
<1>8. CASE TakeReplySlot(k) \/ Replied(k) \/ TakeReady(k) \/ ReadyTexted(k) \/ TakeLive(k) \/ LiveTexted(k) \/ TakeNudge(k)
  BY <1>5, <1>6, <1>7, <1>8 DEF TakeReplySlot, Replied, TakeReady, ReadyTexted, TakeLive, LiveTexted, TakeNudge
<1>9. QED
  BY <1>3, <1>4, <1>8

LEMMA StopBeside ==
    ASSUME StopInv, ProcessStops \/ UNCHANGED <<job, optOut, stopped, crossed>>
    PROVE  StopInv'
<1>1. CASE ProcessStops
  <2>1. UNCHANGED <<optOut, stopped, crossed>> /\ \A k \in Workers : job'[k] = Idle
    BY <1>1 DEF ProcessStops, tables, said
  <2>2. \A k \in Workers : job'[k].op = "idle"
    BY <2>1 DEF Idle
  <2>3. QED
    BY <2>1, <2>2 DEF StopInv, Lifting
<1>2. CASE UNCHANGED <<job, optOut, stopped, crossed>>
  BY <1>2 DEF StopInv, Lifting
<1>3. QED
  BY <1>1, <1>2

LEMMA StopStep ==
    ASSUME TypeInv, StopInv, [Next]_vars
    PROVE  StopInv'
<1>1. CASE UNCHANGED vars \/ ProcessStops
  BY <1>1, StopBeside DEF vars
<1>2. CASE \E b \in Bookings : CancelBooking(b) \/ \E s \in Sessions : MoveBooking(b, s)
  <2>1. UNCHANGED <<job, optOut, stopped, crossed>>
    BY <1>2 DEF CancelBooking, MoveBooking, said
  <2>2. QED
    BY <2>1, StopBeside
<1>3. ASSUME NEW k \in Workers, SendSteps(k)
      PROVE  StopInv'
  BY <1>3, StopSends
<1>4. ASSUME NEW k \in Workers, ConsentSteps(k)
      PROVE  StopInv'
  <2>1. CASE \E p \in Phones :
                \/ Stop(k, p) \/ Start(k, p) \/ AskForCode(k, p)
                \/ \E yes \in BOOLEAN : VerifiedConsent(k, p, yes) \/ FormConsent(k, p, yes) \/ InboundReply(k, p, yes)
    BY <2>1, StopBegins
  <2>2. CASE \/ UpsertOptOut(k) \/ RevokeConsent(k) \/ DeleteOptOut(k) \/ ClearRevoked(k)
             \/ UpsertConsent(k) \/ LiftOptOut(k) \/ InsertConsent(k)
    BY <2>2, StopConsents
  <2>3. QED
    BY <1>4, <2>1, <2>2 DEF ConsentSteps
<1>5. ASSUME NEW k \in Workers, JobSteps(k)
      PROVE  StopInv'
  <2>1. CASE \/ SendDueReminders(k) \/ PollPaymentAccounts(k) \/ NotePublished(k)
             \/ SendPaymentReminders(k) \/ SendDueReadyTexts(k)
             \/ \E enabled \in BOOLEAN : SellerEvent(k, enabled)
    BY <2>1, StopBegins, TextsAssumption
  <2>2. CASE \/ ClaimReminder(k) \/ Reminded(k) \/ TakeReplySlot(k) \/ Replied(k)
             \/ \E answer \in {"none", "no", "yes"} : AskRelay(k, answer)
             \/ ClaimTurnedOn(k) \/ SaveCharges(k) \/ Ready(k) \/ TakeReady(k) \/ ReadyTexted(k)
             \/ Resume(k) \/ TakeLive(k) \/ LiveTexted(k) \/ TakeNudge(k)
    BY <2>2, StopJobs
  <2>3. QED
    BY <1>5, <2>1, <2>2 DEF JobSteps
<1>6. QED
  BY <1>1, <1>2, <1>3, <1>4, <1>5 DEF Next

(* From the statement that records a STOP, its number stays opted out and no *)
(* text to it passes its check, whatever STOPs, STARTs, proofs, codes, forms *)
(* and texts are at work beside it, until a START or a proof of the number   *)
(* begins after it, or one that was already at work on the number (crossed)  *)
(* deletes it with the older ones (sms-consent.ts, outbound.ts).             *)
THEOREM StopIsKept == Spec => []StopHolds
<1>1. Init => StopInv
  BY StopInit
<1>2. TypeInv /\ StopInv /\ [Next]_vars => StopInv'
  BY StopStep
<1>3. StopInv => StopHolds
  BY DEF StopInv, StopHolds, HasActiveConsent, IsOptedOut
<1>4. QED
  BY <1>1, <1>2, <1>3, TypesKept, PTL DEF Spec

----------------------------------------------------------------------------
(* Notices that go once. *)

LEMMA AboutNotice ==
    ASSUME TypeInv, NEW k \in Workers, job[k].for \in Kinds
    PROVE  About(job[k]) \in Notice
<1>1. job[k] \in Job /\ Flow(job[k])
  BY JobHere
<1>2. /\ job[k].to \in Phones /\ job[k].b \in Bookings \cup {0} /\ job[k].n \in 0 .. MaxMoves
  BY <1>1 DEF Job
<1>3. /\ job[k].for = "reminder" => job[k].b \in Bookings /\ job[k].to = PhoneOf[job[k].b]
      /\ job[k].for # "reminder" => job[k].b = 0 /\ job[k].n = 0
      /\ job[k].for \in {"ready", "live"} => job[k].to = CoachPhone
  BY <1>1 DEF Flow
<1>4. QED
  BY <1>2, <1>3 DEF About, Notice

LEMMA ToldNat ==
    ASSUME TypeInv, NEW x \in Notice
    PROVE  Told(x) \in Nat
<1>1. PICK t \in ToldTypes : t = told
  BY DEF TypeInv, RowsTyped, ToldTypes
<1>2. CASE x.for = "reminder"
  <2>1. x.b \in Bookings /\ x.n \in 0 .. MaxMoves
    BY <1>2 DEF Notice
  <2>2. t.reminders \in [Bookings -> [0 .. MaxMoves -> Nat]]
    BY DEF ToldTypes
  <2>3. t.reminders[x.b] \in [0 .. MaxMoves -> Nat]
    BY <2>1, <2>2
  <2>4. t.reminders[x.b][x.n] \in Nat
    BY <2>1, <2>3
  <2>5. QED
    BY <1>1, <1>2, <2>4 DEF Told
<1>3. CASE x.for = "reply"
  <2>1. x.to \in Phones /\ t.replies \in [Phones -> Nat]
    BY DEF Notice, ToldTypes
  <2>2. QED
    BY <1>1, <1>3, <2>1 DEF Told
<1>4. CASE x.for = "ready"
  BY <1>1, <1>4 DEF Told, ToldTypes
<1>5. CASE x.for = "live"
  BY <1>1, <1>5 DEF Told, ToldTypes
<1>6. QED
  BY <1>2, <1>3, <1>4, <1>5 DEF Notice, Kinds

(* What a step of one handler may do to a notice. It leaves it as it was, or *)
(* ends the handler that had it;                                             *)
LEMMA NoticeKept ==
    ASSUME NEW x \in Notice, OneNotice(x), NEW k \in Workers, \A l \in Workers \ {k} : job'[l] = job[l],
           Told(x)' = Told(x), Taken(x) => Taken(x)',
           About(job'[k]) = x => About(job[k]) = x /\ (Unsent(job'[k]) => Unsent(job[k]))
    PROVE  OneNotice(x)'
<1>1. Told(x)' <= 1 /\ (Told(x)' = 1 => Taken(x)')
  BY DEF OneNotice
<1>2. ASSUME NEW l \in Workers, About(job'[l]) = x
      PROVE  About(job[l]) = x /\ (Unsent(job'[l]) => Unsent(job[l]))
  BY <1>2
<1>3. ASSUME NEW l \in Workers, About(job'[l]) = x
      PROVE  Taken(x)' /\ (Unsent(job'[l]) => Told(x)' = 0)
  BY <1>2, <1>3 DEF OneNotice
<1>4. ASSUME NEW l \in Workers, NEW m \in Workers, About(job'[l]) = x, About(job'[m]) = x
      PROVE  l = m
  BY <1>2, <1>4 DEF OneNotice
<1>5. QED
  BY <1>1, <1>3, <1>4 DEF OneNotice

(* a handler claims it;                                                      *)
LEMMA NoticeClaimed ==
    ASSUME TypeInv, NEW x \in Notice, OneNotice(x), NEW k \in Workers, \A l \in Workers \ {k} : job'[l] = job[l],
           Told(x)' = Told(x), ~Taken(x), Taken(x)'
    PROVE  OneNotice(x)'
<1>1. Told(x) = 0
  BY ToldNat DEF OneNotice
<1>2. \A l \in Workers : About(job[l]) # x
  BY DEF OneNotice
<1>3. \A l \in Workers : About(job'[l]) = x => l = k
  BY <1>2
<1>4. QED
  BY <1>1, <1>3 DEF OneNotice

(* the relay says "sent" of it;                                              *)
LEMMA NoticeTold ==
    ASSUME NEW x \in Notice, OneNotice(x), NEW k \in Workers, \A l \in Workers \ {k} : job'[l] = job[l],
           Told(x)' = Told(x) + 1, Taken(x) => Taken(x)',
           About(job[k]) = x, Unsent(job[k]), ~Unsent(job'[k])
    PROVE  OneNotice(x)'
<1>1. Told(x)' = 1 /\ Taken(x)'
  BY DEF OneNotice
<1>2. \A l \in Workers : About(job'[l]) = x => l = k
  BY DEF OneNotice
<1>3. QED
  BY <1>1, <1>2 DEF OneNotice

(* or the handler that has it gives it back.                                 *)
LEMMA NoticeGivenBack ==
    ASSUME NEW x \in Notice, OneNotice(x), NEW k \in Workers, \A l \in Workers \ {k} : job'[l] = job[l],
           Told(x)' = Told(x), About(job[k]) = x, Unsent(job[k]), About(job'[k]) # x
    PROVE  OneNotice(x)'
<1>1. Told(x)' = 0
  BY DEF OneNotice
<1>2. \A l \in Workers : About(job'[l]) # x
  BY DEF OneNotice
<1>3. QED
  BY <1>1, <1>2 DEF OneNotice

LEMMA NotAbout ==
    ASSUME NEW x \in Notice, NEW j, j.for \notin Kinds
    PROVE  About(j) # x
BY DEF Notice, About

LEMMA ClaimsStay ==
    ASSUME NEW x \in Notice, UNCHANGED <<moves, reminder, replied>>, pay'.texted = pay.texted, pay'.live = pay.live
    PROVE  Taken(x) <=> Taken(x)'
BY DEF Taken

LEMMA ToldStays == ASSUME NEW x, UNCHANGED told PROVE Told(x)' = Told(x)
BY DEF Told

(* A step of a handler that is, after it, about no notice, or still about    *)
(* the same one; no claim changes.                                           *)
LEMMA NoticeQuiet ==
    ASSUME TypeInv, NoticesInv, NEW k \in Workers, \A l \in Workers \ {k} : job'[l] = job[l],
           UNCHANGED <<moves, reminder, replied, told>>, pay'.texted = pay.texted, pay'.live = pay.live,
           job'[k].for \in Kinds => About(job'[k]) = About(job[k]) /\ (Unsent(job'[k]) => Unsent(job[k]))
    PROVE  NoticesInv'
<1>1. ASSUME NEW x \in Notice
      PROVE  OneNotice(x)'
  <2>1. OneNotice(x) /\ Told(x)' = Told(x) /\ (Taken(x) => Taken(x)')
    BY ClaimsStay, ToldStays DEF NoticesInv
  <2>2. About(job'[k]) = x => About(job[k]) = x /\ (Unsent(job'[k]) => Unsent(job[k]))
    BY NotAbout
  <2>3. QED
    BY <2>1, <2>2, NoticeKept
<1>2. QED
  BY <1>1 DEF NoticesInv, Notice

LEMMA TickQuiet ==
    ASSUME TickInv, NEW k \in Workers, \A l \in Workers \ {k} : job'[l] = job[l],
           UNCHANGED moves, reminder' \subseteq reminder, job'[k].tick => job[k].tick \/ TickFree,
           job'[k].for = "reminder" => job[k].for = "reminder" /\ job'[k].b = job[k].b /\ job'[k].n = job[k].n
    PROVE  TickInv'
<1>1. ASSUME NEW l \in Workers, NEW m \in Workers, job'[l].tick, job'[m].tick
      PROVE  l = m
  BY <1>1 DEF TickInv, TickFree
<1>2. ASSUME NEW l \in Workers, job'[l].for = "reminder", job'[l].n # moves[job'[l].b]
      PROVE  job'[l].n < moves[job'[l].b] /\ job'[l].b \notin reminder
  BY <1>2 DEF TickInv
<1>3. QED
  BY <1>1, <1>2 DEF TickInv

(* A step that changes no claim and leaves the handler's notice to it.       *)
LEMMA OnceQuiet ==
    ASSUME TypeInv, NoticesInv, TickInv, NEW k \in Workers, \A l \in Workers \ {k} : job'[l] = job[l],
           UNCHANGED <<moves, reminder, replied, told>>, pay'.texted = pay.texted, pay'.live = pay.live,
           job'[k].tick => job[k].tick \/ TickFree,
           \/ job'[k].for \notin Kinds
           \/ /\ job'[k].for = job[k].for /\ job'[k].to = job[k].to /\ job'[k].b = job[k].b /\ job'[k].n = job[k].n
              /\ Unsent(job'[k]) => Unsent(job[k])
    PROVE  NoticesInv' /\ TickInv'
<1>1. job'[k].for \in Kinds => About(job'[k]) = About(job[k]) /\ (Unsent(job'[k]) => Unsent(job[k]))
  BY DEF About
<1>2. NoticesInv'
  BY <1>1, NoticeQuiet
<1>3. job'[k].for = "reminder" => job[k].for = "reminder" /\ job'[k].b = job[k].b /\ job'[k].n = job[k].n
  BY DEF Kinds
<1>4. QED
  BY <1>2, <1>3, TickQuiet

(* A handler begins with no text, or with a sign-in code's; the tick's begin  *)
(* when no other is at work.                                                 *)
LEMMA BeginFor ==
    ASSUME TypeInv, NEW k \in Workers, NEW p \in Phones, NEW yes \in BOOLEAN,
           \/ Stop(k, p) \/ Start(k, p) \/ AskForCode(k, p)
           \/ VerifiedConsent(k, p, yes) \/ FormConsent(k, p, yes) \/ InboundReply(k, p, yes)
           \/ SendDueReminders(k) \/ SellerEvent(k, yes) \/ PollPaymentAccounts(k)
           \/ NotePublished(k) \/ SendPaymentReminders(k) \/ SendDueReadyTexts(k)
    PROVE  /\ job'[k].for = "none" \/ (job'[k].for = "code" /\ job'[k].op = "check")
           /\ job'[k].tick => TickFree
<1>1. CASE Stop(k, p) \/ Start(k, p) \/ AskForCode(k, p)
  <2>1. CASE Stop(k, p)
    <3>1. job'[k] = [Idle EXCEPT !.op = "stop", !.to = p]
      BY <2>1, HandlerBegins
    <3>2. QED
      BY <3>1 DEF Idle
  <2>2. CASE Start(k, p)
    <3>1. job'[k] = [Idle EXCEPT !.op = "unstop", !.to = p]
      BY <2>2, HandlerBegins
    <3>2. QED
      BY <3>1 DEF Idle
  <2>3. CASE AskForCode(k, p)
    <3>1. job'[k] = [Idle EXCEPT !.op = "check", !.for = "code", !.to = p, !.budget = "visitor"]
      BY <2>3, HandlerBegins
    <3>2. QED
      BY <3>1 DEF Idle
  <2>4. QED
    BY <1>1, <2>1, <2>2, <2>3
<1>2. CASE VerifiedConsent(k, p, yes)
  <2>1. job'[k] = [Idle EXCEPT !.op = "upsert", !.to = p, !.yes = yes]
    BY <1>2, BeginHere DEF VerifiedConsent
  <2>2. QED
    BY <2>1 DEF Idle
<1>3. CASE FormConsent(k, p, yes)
  <2>1. job'[k] = [Idle EXCEPT !.op = "form", !.to = p, !.budget = IF yes THEN "visitor" ELSE "new-number"]
    BY <1>3, BeginHere DEF FormConsent
  <2>2. QED
    BY <2>1 DEF Idle
<1>4. CASE InboundReply(k, p, yes)
  <2>1. job'[k] = [Idle EXCEPT !.op = "slot", !.to = p, !.yes = yes]
    BY <1>4, BeginHere DEF InboundReply
  <2>2. QED
    BY <2>1 DEF Idle
<1>5. CASE SendDueReminders(k)
  <2>1. TickFree /\ job'[k] = [Idle EXCEPT !.op = "next", !.tick = TRUE,
                                     !.list = {<<b, place[b]>> : b \in {c \in Bookings : Due(c)}}]
    BY <1>5, JobBegins DEF SendDueReminders
  <2>2. QED
    BY <2>1 DEF Idle
<1>6. CASE SellerEvent(k, yes)
  <2>1. job'[k] = [Idle EXCEPT !.op = "charges", !.yes = yes]
    BY <1>6, BeginHere DEF SellerEvent
  <2>2. QED
    BY <2>1 DEF Idle
<1>7. CASE PollPaymentAccounts(k)
  <2>1. TickFree /\ job'[k] = [Idle EXCEPT !.op = "ask", !.tick = TRUE]
    BY <1>7, JobBegins DEF PollPaymentAccounts
  <2>2. QED
    BY <2>1 DEF Idle
<1>8. CASE NotePublished(k)
  <2>1. job'[k] = [Idle EXCEPT !.op = "ask", !.then = "live"]
    BY <1>8, JobBegins
  <2>2. QED
    BY <2>1 DEF Idle
<1>9. CASE SendPaymentReminders(k)
  <2>1. TickFree /\ job'[k] = [Idle EXCEPT !.op = "ask", !.then = "nudge", !.seen = pay.nudges, !.tick = TRUE]
    BY <1>9, JobBegins DEF SendPaymentReminders
  <2>2. QED
    BY <2>1 DEF Idle
<1>10. CASE SendDueReadyTexts(k)
  <2>1. TickFree /\ job'[k] = [Idle EXCEPT !.op = "ready", !.tick = TRUE]
    BY <1>10, JobBegins DEF SendDueReadyTexts
  <2>2. QED
    BY <2>1 DEF Idle
<1>11. QED
  BY <1>1, <1>2, <1>3, <1>4, <1>5, <1>6, <1>7, <1>8, <1>9, <1>10

LEMMA OnceBegins ==
    ASSUME TypeInv, NoticesInv, TickInv, NEW k \in Workers, NEW p \in Phones, NEW yes \in BOOLEAN,
           \/ Stop(k, p) \/ Start(k, p) \/ AskForCode(k, p)
           \/ VerifiedConsent(k, p, yes) \/ FormConsent(k, p, yes) \/ InboundReply(k, p, yes)
           \/ SendDueReminders(k) \/ SellerEvent(k, yes) \/ PollPaymentAccounts(k)
           \/ NotePublished(k) \/ SendPaymentReminders(k) \/ SendDueReadyTexts(k)
    PROVE  NoticesInv' /\ TickInv'
<1>1. \A l \in Workers \ {k} : job'[l] = job[l]
  BY BeginsAlone
<1>2. UNCHANGED <<moves, reminder, replied, told>> /\ pay'.texted = pay.texted /\ pay'.live = pay.live
  <2>1. CASE NotePublished(k)
    BY <2>1, PayHere DEF NotePublished, said
  <2>2. CASE ~NotePublished(k)
    BY <2>2 DEF Stop, Start, AskForCode, VerifiedConsent, FormConsent, InboundReply, SendDueReminders,
       SellerEvent, PollPaymentAccounts, SendPaymentReminders, SendDueReadyTexts, said, tables
  <2>3. QED
    BY <2>1, <2>2
<1>3. QED
  BY <1>1, <1>2, BeginFor, OnceQuiet DEF Kinds

LEMMA RelayHere ==
    ASSUME TypeInv, NEW k \in Workers, NEW out \in {"sent", "busy", "failed", "stopped"}, Relay(k, out)
    PROVE  /\ \A l \in Workers \ {k} : job'[l] = job[l]
           /\ job[k].op = "relay" /\ job'[k].op = (IF out = "stopped" THEN "stop" ELSE "record")
           /\ job'[k].out = out /\ job'[k].for = job[k].for /\ job'[k].to = job[k].to /\ job'[k].b = job[k].b
           /\ job'[k].n = job[k].n /\ job'[k].tick = job[k].tick /\ job'[k].budget = job[k].budget
<1>1. PICK op \in {"stop", "record"} : op = IF out = "stopped" THEN "stop" ELSE "record"
  OBVIOUS
<1>2. /\ job'[k] = [job[k] EXCEPT !.op = op, !.out = out]
      /\ \A l \in Workers \ {k} : job'[l] = job[l]
  BY <1>1, GoOthers DEF Relay
<1>3. job[k] \in Job /\ job[k].op = "relay"
  BY JobHere DEF Relay
<1>4. QED
  BY <1>1, <1>2, <1>3 DEF Job

LEMMA CheckHere ==
    ASSUME TypeInv, NEW k \in Workers, Check(k)
    PROVE  /\ \A l \in Workers \ {k} : job'[l] = job[l]
           /\ job[k].op = "check"
           /\ \/ Outcome(k, "refused") \/ Outcome(k, "capped")
              \/ /\ ~Refused(k) /\ ~CeilingHit /\ job'[k].budget = BudgetOf(job[k].to, job[k].budget)
                 /\ job'[k].op = IF job'[k].budget = "none" THEN "relay" ELSE "reserve"
                 /\ job'[k].for = job[k].for /\ job'[k].to = job[k].to /\ job'[k].b = job[k].b
                 /\ job'[k].n = job[k].n /\ job'[k].tick = job[k].tick
<1>1. job[k] \in Job /\ job[k].op = "check"
  BY JobHere DEF Check
<1>2. CASE Outcome(k, "refused") \/ Outcome(k, "capped")
  BY <1>1, <1>2, OutcomeHere
<1>3. CASE ~(Outcome(k, "refused") \/ Outcome(k, "capped"))
  <2>1. PICK budget, late, op : /\ budget = BudgetOf(job[k].to, job[k].budget)
                                /\ late = (job[k].to \in stopped)
                                /\ op = IF budget = "none" THEN "relay" ELSE "reserve"
    OBVIOUS
  <2>2. ~Refused(k) /\ ~CeilingHit /\ Go(k, [job[k] EXCEPT !.budget = budget, !.late = late, !.op = op])
    BY <1>3, <2>1 DEF Check
  <2>3. /\ job'[k] = [job[k] EXCEPT !.budget = budget, !.late = late, !.op = op]
        /\ \A l \in Workers \ {k} : job'[l] = job[l]
    BY <2>2, GoOthers
  <2>4. /\ job'[k].budget = budget /\ job'[k].op = op
        /\ job'[k].for = job[k].for /\ job'[k].to = job[k].to /\ job'[k].b = job[k].b
        /\ job'[k].n = job[k].n /\ job'[k].tick = job[k].tick
    BY <1>1, <2>3 DEF Job
  <2>5. QED
    BY <1>1, <2>1, <2>2, <2>3, <2>4
<1>4. QED
  BY <1>2, <1>3

LEMMA SameNotice ==
    ASSUME TypeInv, NEW x \in Notice, NEW k \in Workers, x.for = job[k].for,
           x.for = "reminder" => x.b = job[k].b /\ x.n = job[k].n,
           x.for = "reply" => x.to = job[k].to
    PROVE  About(job[k]) = x
<1>1. About(job[k]) \in Notice /\ x.for \in Kinds
  BY AboutNotice DEF Notice
<1>2. x.to = job[k].to /\ x.b = job[k].b /\ x.n = job[k].n
  BY <1>1 DEF Notice, About, Kinds
<1>3. x = [for |-> x.for, to |-> x.to, b |-> x.b, n |-> x.n]
  BY DEF Notice
<1>4. QED
  BY <1>2, <1>3 DEF About

LEMMA ChangeAt ==
    ASSUME NEW S, NEW T, NEW f \in [S -> T], NEW a \in S, NEW c \in S, NEW v
    PROVE  [f EXCEPT ![a] = v][c] = IF c = a THEN v ELSE f[c]
OBVIOUS

LEMMA ChangeAtTwo ==
    ASSUME NEW r \in [Bookings -> [0 .. MaxMoves -> Nat]], NEW a \in Bookings, NEW n \in 0 .. MaxMoves,
           NEW c \in Bookings, NEW m \in 0 .. MaxMoves
    PROVE  [r EXCEPT ![a][n] = @ + 1][c][m] = IF c = a /\ m = n THEN r[c][m] + 1 ELSE r[c][m]
<1>1. PICK f \in [0 .. MaxMoves -> Nat] : f = r[a]
  OBVIOUS
<1>2. PICK g : g = [f EXCEPT ![n] = @ + 1]
  OBVIOUS
<1>3. [r EXCEPT ![a][n] = @ + 1] = [r EXCEPT ![a] = g]
  BY <1>1, <1>2
<1>4. [r EXCEPT ![a] = g][c] = IF c = a THEN g ELSE r[c]
  BY ChangeAt
<1>5. g[m] = IF m = n THEN f[m] + 1 ELSE f[m]
  BY <1>2
<1>6. QED
  BY <1>1, <1>3, <1>4, <1>5

(* The relay's "sent" counts for the notice that was sent, and no other. *)
LEMMA RelayTold ==
    ASSUME TypeInv, NEW k \in Workers, Relay(k, "sent"), NEW x \in Notice
    PROVE  Told(x)' = IF About(job[k]) = x THEN Told(x) + 1 ELSE Told(x)
<1>1. PICK t \in ToldTypes : t = told
  BY DEF TypeInv, RowsTyped, ToldTypes
<1>2. PICK b, n, p : b = job[k].b /\ n = job[k].n /\ p = job[k].to
  OBVIOUS
<1>3. job[k] \in Job /\ Flow(job[k])
  BY JobHere
<1>4. x.for # job[k].for => About(job[k]) # x
  BY DEF About, Notice
<1>5. CASE job[k].for = "reminder"
  <2>1. told' = [t EXCEPT !.reminders[b][n] = @ + 1] /\ b \in Bookings /\ n \in 0 .. MaxMoves
    BY <1>1, <1>2, <1>3, <1>5 DEF Relay, Flow, Job
  <2>2. PICK r \in [Bookings -> [0 .. MaxMoves -> Nat]] : r = t.reminders
    BY DEF ToldTypes
  <2>3. told' = [t EXCEPT !.reminders = [r EXCEPT ![b][n] = @ + 1]]
    BY <2>1, <2>2
  <2>4. /\ told'.reminders = [r EXCEPT ![b][n] = @ + 1] /\ told'.replies = t.replies
        /\ told'.ready = t.ready /\ told'.live = t.live
    BY <2>3 DEF ToldTypes
  <2>5. CASE x.for = "reminder"
    <3>1. x.b \in Bookings /\ x.n \in 0 .. MaxMoves
      BY <2>5 DEF Notice
    <3>2. told'.reminders[x.b][x.n] = IF x.b = b /\ x.n = n THEN r[x.b][x.n] + 1 ELSE r[x.b][x.n]
      <4>1. PICK c \in Bookings, m \in 0 .. MaxMoves : c = x.b /\ m = x.n
        BY <3>1
      <4>2. [r EXCEPT ![b][n] = @ + 1][c][m] = IF c = b /\ m = n THEN r[c][m] + 1 ELSE r[c][m]
        BY <2>1, ChangeAtTwo
      <4>3. QED
        BY <2>4, <4>1, <4>2
    <3>3. About(job[k]) = x <=> x.b = b /\ x.n = n
      BY <1>2, <1>5, <2>5, SameNotice DEF About
    <3>4. Told(x) = r[x.b][x.n] /\ Told(x)' = told'.reminders[x.b][x.n]
      BY <1>1, <2>2, <2>5 DEF Told
    <3>5. QED
      BY <3>2, <3>3, <3>4
  <2>6. CASE x.for # "reminder"
    BY <1>1, <1>4, <1>5, <2>4, <2>6 DEF Told, Notice, Kinds
  <2>7. QED
    BY <2>5, <2>6
<1>6. CASE job[k].for = "reply"
  <2>1. told' = [t EXCEPT !.replies[p] = @ + 1] /\ p \in Phones
    BY <1>1, <1>2, <1>3, <1>6 DEF Relay, Job
  <2>2. PICK r \in [Phones -> Nat] : r = t.replies
    BY DEF ToldTypes
  <2>3. told' = [t EXCEPT !.replies = [r EXCEPT ![p] = @ + 1]]
    BY <2>1, <2>2
  <2>4. /\ told'.replies = [r EXCEPT ![p] = @ + 1] /\ told'.reminders = t.reminders
        /\ told'.ready = t.ready /\ told'.live = t.live
    BY <2>3 DEF ToldTypes
  <2>5. CASE x.for = "reply"
    <3>1. told'.replies[x.to] = IF x.to = p THEN r[x.to] + 1 ELSE r[x.to]
      <4>1. x.to \in Phones
        BY DEF Notice
      <4>2. [r EXCEPT ![p] = r[p] + 1][x.to] = IF x.to = p THEN r[p] + 1 ELSE r[x.to]
        BY <2>1, <4>1, ChangeAt
      <4>3. QED
        BY <2>4, <4>1, <4>2
    <3>2. About(job[k]) = x <=> x.to = p
      BY <1>2, <1>6, <2>5, SameNotice DEF About
    <3>3. Told(x) = r[x.to] /\ Told(x)' = told'.replies[x.to]
      BY <1>1, <2>2, <2>5 DEF Told
    <3>4. QED
      BY <3>1, <3>2, <3>3
  <2>6. CASE x.for # "reply"
    BY <1>1, <1>4, <1>6, <2>4, <2>6 DEF Told, Notice, Kinds
  <2>7. QED
    BY <2>5, <2>6
<1>7. CASE job[k].for = "ready"
  <2>1. told' = [t EXCEPT !.ready = @ + 1]
    BY <1>1, <1>7 DEF Relay
  <2>2. /\ told'.ready = t.ready + 1 /\ told'.live = t.live /\ told'.replies = t.replies
        /\ told'.reminders = t.reminders
    BY <2>1 DEF ToldTypes
  <2>3. CASE x.for = "ready"
    <3>1. About(job[k]) = x
      BY <1>7, <2>3, SameNotice
    <3>2. QED
      BY <1>1, <2>2, <2>3, <3>1 DEF Told
  <2>4. CASE x.for # "ready"
    BY <1>1, <1>4, <1>7, <2>2, <2>4 DEF Told, Notice, Kinds
  <2>5. QED
    BY <2>3, <2>4
<1>8. CASE job[k].for = "live"
  <2>1. told' = [t EXCEPT !.live = @ + 1]
    BY <1>1, <1>8 DEF Relay
  <2>2. /\ told'.live = t.live + 1 /\ told'.ready = t.ready /\ told'.replies = t.replies
        /\ told'.reminders = t.reminders
    BY <2>1 DEF ToldTypes
  <2>3. CASE x.for = "live"
    <3>1. About(job[k]) = x
      BY <1>8, <2>3, SameNotice
    <3>2. QED
      BY <1>1, <2>2, <2>3, <3>1 DEF Told
  <2>4. CASE x.for # "live"
    BY <1>1, <1>4, <1>8, <2>2, <2>4 DEF Told, Notice, Kinds
  <2>5. QED
    BY <2>3, <2>4
<1>9. CASE job[k].for \notin Kinds
  <2>1. told' = told
    BY <1>9 DEF Relay, Kinds
  <2>2. QED
    BY <1>9, <2>1, NotAbout, ToldStays
<1>10. QED
  BY <1>5, <1>6, <1>7, <1>8, <1>9 DEF Kinds

LEMMA OnceSends ==
    ASSUME TypeInv, NoticesInv, TickInv, NEW k \in Workers, SendSteps(k)
    PROVE  NoticesInv' /\ TickInv'
<1>1. CASE Check(k)
  <2>1. UNCHANGED <<moves, reminder, replied, told, pay>>
    BY <1>1 DEF Check, said, tables
  <2>2. CASE Outcome(k, "refused") \/ Outcome(k, "capped")
    <3>1. Unsent(job[k]) /\ ~Idle.tick /\ Idle.for = "none"
      BY <1>1 DEF Check, Unsent, Idle
    <3>2. QED
      BY <2>1, <2>2, <3>1, OutcomeHere, OnceQuiet DEF Kinds
  <2>3. CASE ~(Outcome(k, "refused") \/ Outcome(k, "capped"))
    <3>1. Unsent(job[k])
      BY <1>1 DEF Check, Unsent
    <3>2. QED
      BY <1>1, <2>1, <2>3, <3>1, CheckHere, OnceQuiet
  <2>4. QED
    BY <2>2, <2>3
<1>2. CASE ReserveText(k)
  <2>1. UNCHANGED <<moves, reminder, replied, told, pay>> /\ Unsent(job[k])
    BY <1>2 DEF ReserveText, said, Unsent
  <2>2. CASE Outcome(k, "busy")
    <3>1. ~Idle.tick /\ Idle.for = "none"
      BY DEF Idle
    <3>2. QED
      BY <2>1, <2>2, <3>1, OutcomeHere, OnceQuiet DEF Kinds
  <2>3. CASE Step(k, "relay")
    BY <2>1, <2>3, StepHere, OnceQuiet
  <2>4. QED
    BY <1>2, <2>2, <2>3 DEF ReserveText
<1>3. CASE Record(k)
  <2>1. UNCHANGED <<moves, reminder, replied, told, pay>>
    BY <1>3 DEF Record, said
  <2>2. PICK out : out = IF job[k].out = "stopped" THEN "refused" ELSE job[k].out
    OBVIOUS
  <2>3. Outcome(k, out) /\ (out # "sent" => Unsent(job[k]))
    BY <1>3, <2>2 DEF Record, Unsent
  <2>4. ~Idle.tick /\ Idle.for = "none"
    BY DEF Idle
  <2>5. CASE job[k].for \in Asides
    BY <2>1, <2>3, <2>4, <2>5, OutcomeHere, OnceQuiet DEF Kinds
  <2>6. CASE job[k].for \notin Asides
    <3>1. job'[k].op = "outcome" /\ job'[k].out = out
      BY <2>3, <2>6, OutcomeHere
    <3>2. Unsent(job'[k]) => Unsent(job[k])
      BY <2>3, <3>1 DEF Unsent
    <3>3. QED
      BY <2>1, <2>3, <2>6, <3>2, OutcomeHere, OnceQuiet
  <2>7. QED
    BY <2>5, <2>6
<1>4. ASSUME NEW out \in {"sent", "busy", "failed", "stopped"}, Relay(k, out)
      PROVE  NoticesInv' /\ TickInv'
  <2>1. UNCHANGED <<moves, reminder, replied, pay>>
    BY <1>4 DEF Relay, tables
  <2>2. Unsent(job[k]) /\ (Unsent(job'[k]) => out # "sent")
    BY <1>4, RelayHere DEF Relay, Unsent
  <2>3. About(job'[k]) = About(job[k])
    BY <1>4, RelayHere DEF About
  <2>4. CASE out # "sent"
    <3>1. UNCHANGED told
      BY <1>4, <2>4 DEF Relay
    <3>2. QED
      BY <1>4, <2>1, <2>2, <3>1, RelayHere, OnceQuiet
  <2>5. CASE out = "sent"
    <3>1. ASSUME NEW x \in Notice
          PROVE  OneNotice(x)'
      <4>1. OneNotice(x) /\ (Taken(x) => Taken(x)')
        BY <2>1, ClaimsStay DEF NoticesInv
      <4>2. Told(x)' = IF About(job[k]) = x THEN Told(x) + 1 ELSE Told(x)
        BY <1>4, <2>5, RelayTold
      <4>3. CASE About(job[k]) = x
        BY <1>4, <2>2, <2>5, <4>1, <4>2, <4>3, RelayHere, NoticeTold
      <4>4. CASE About(job[k]) # x
        BY <1>4, <2>3, <4>1, <4>2, <4>4, RelayHere, NoticeKept
      <4>5. QED
        BY <4>3, <4>4
    <3>2. NoticesInv'
      BY <3>1 DEF NoticesInv, Notice
    <3>3. TickInv'
      BY <1>4, <2>1, RelayHere, TickQuiet
    <3>4. QED
      BY <3>2, <3>3
  <2>6. QED
    BY <2>4, <2>5
<1>5. QED
  BY <1>1, <1>2, <1>3, <1>4 DEF SendSteps

LEMMA OnceIdle ==
    ASSUME TypeInv, NoticesInv, TickInv, NEW k \in Workers, Go(k, Idle),
           UNCHANGED <<moves, reminder, replied, told>>, pay'.texted = pay.texted, pay'.live = pay.live
    PROVE  NoticesInv' /\ TickInv'
BY IdleHere, OnceQuiet DEF Kinds

LEMMA OnceStep ==
    ASSUME TypeInv, NoticesInv, TickInv, NEW k \in Workers,
           NEW op \in Ops \ {"check", "reserve", "relay"}, Step(k, op),
           UNCHANGED <<moves, reminder, replied, told>>, pay'.texted = pay.texted, pay'.live = pay.live
    PROVE  NoticesInv' /\ TickInv'
<1>1. Unsent(job'[k]) => Unsent(job[k])
  BY StepHere DEF Unsent
<1>2. QED
  BY <1>1, StepHere, OnceQuiet

LEMMA OnceAside ==
    ASSUME TypeInv, NoticesInv, TickInv, NEW k \in Workers,
           NEW for \in Asides, NEW to, NEW budget, Sending(k, for, to, budget),
           UNCHANGED <<moves, reminder, replied, told>>, pay'.texted = pay.texted, pay'.live = pay.live
    PROVE  NoticesInv' /\ TickInv'
BY SendingHere, OnceQuiet DEF Kinds, Asides

LEMMA OnceConsents ==
    ASSUME TypeInv, NoticesInv, TickInv, NEW k \in Workers,
           \/ UpsertOptOut(k) \/ RevokeConsent(k) \/ DeleteOptOut(k) \/ ClearRevoked(k)
           \/ UpsertConsent(k) \/ LiftOptOut(k) \/ InsertConsent(k)
    PROVE  NoticesInv' /\ TickInv'
<1>1. UNCHANGED <<moves, reminder, replied, told, pay>>
  BY DEF UpsertOptOut, RevokeConsent, DeleteOptOut, ClearRevoked, UpsertConsent, LiftOptOut, InsertConsent, said
<1>2. ASSUME NEW op \in {"revoke", "record", "unrevoke", "lift"}, Step(k, op)
      PROVE  NoticesInv' /\ TickInv'
  <2>1. op \in Ops \ {"check", "reserve", "relay"}
    BY <1>2, TheOps
  <2>2. QED
    BY <1>1, <1>2, <2>1, OnceStep
<1>3. CASE Go(k, Idle)
  BY <1>1, <1>3, OnceIdle
<1>4. CASE InsertConsent(k)
  BY <1>1, <1>4, OnceAside DEF InsertConsent, Asides
<1>5. CASE ~InsertConsent(k)
  BY <1>2, <1>3, <1>5 DEF UpsertOptOut, RevokeConsent, DeleteOptOut, ClearRevoked, UpsertConsent, LiftOptOut
<1>6. QED
  BY <1>4, <1>5

LEMMA OnceClaimReminder ==
    ASSUME TypeInv, NoticesInv, TickInv, NEW k \in Workers, ClaimReminder(k)
    PROVE  NoticesInv' /\ TickInv'
<1>1. UNCHANGED <<moves, replied, told, pay>> /\ \A l \in Workers \ {k} : job'[l] = job[l]
  BY ReminderJob DEF ClaimReminder, said
<1>2. CASE reminder' = reminder /\ job'[k].for = "none" /\ (job'[k].tick => job[k].tick)
  BY <1>1, <1>2, OnceQuiet DEF Kinds
<1>3. CASE /\ job'[k].for = "reminder" /\ job'[k].tick = job[k].tick
           /\ job'[k].b \in Bookings /\ job'[k].b \notin reminder /\ job'[k].n = moves[job'[k].b]
           /\ reminder' = reminder \cup {job'[k].b} /\ job'[k].to = PhoneOf[job'[k].b]
  <2>1. PICK b \in Bookings : b = job'[k].b
    BY <1>3
  <2>2. ASSUME NEW x \in Notice
        PROVE  OneNotice(x)'
    <3>1. OneNotice(x) /\ Told(x)' = Told(x)
      BY <1>1, ToldStays DEF NoticesInv
    <3>2. CASE x.for = "reminder" /\ x.b = b /\ x.n = moves[b]
      <4>1. ~Taken(x)
        BY <1>3, <2>1, <3>2, x.n \in Int DEF Taken, Notice
      <4>2. Taken(x)'
        BY <1>1, <1>3, <2>1, <3>2 DEF Taken
      <4>3. QED
        BY <1>1, <3>1, <4>1, <4>2, NoticeClaimed
    <3>3. CASE ~(x.for = "reminder" /\ x.b = b /\ x.n = moves[b])
      <4>1. About(job'[k]) # x
        BY <1>3, <2>1, <3>3 DEF About
      <4>2. Taken(x) => Taken(x)'
        BY <1>1, <1>3, <2>1 DEF Taken, Notice, Kinds
      <4>3. QED
        BY <1>1, <3>1, <4>1, <4>2, NoticeKept
    <3>4. QED
      BY <3>2, <3>3
  <2>3. NoticesInv'
    BY <2>2 DEF NoticesInv, Notice
  <2>4. \A l \in Workers \ {k} : ~job'[l].tick /\ job'[l].for # "reminder"
    <3>1. job[k].tick
      BY JobHere DEF ClaimReminder, Flow
    <3>2. \A l \in Workers \ {k} : ~job[l].tick
      BY <3>1 DEF TickInv
    <3>3. \A l \in Workers : job[l].for = "reminder" => job[l].tick
      BY JobHere DEF Flow
    <3>4. QED
      BY <1>1, <3>2, <3>3
  <2>5. TickInv'
    BY <1>1, <1>3, <2>4 DEF TickInv
  <2>6. QED
    BY <2>3, <2>5
<1>4. QED
  BY <1>2, <1>3, ReminderJob

LEMMA OnceReminded ==
    ASSUME TypeInv, NoticesInv, TickInv, NEW k \in Workers, Reminded(k)
    PROVE  NoticesInv' /\ TickInv'
<1>1. UNCHANGED <<moves, replied, told, pay>> /\ \A l \in Workers \ {k} : job'[l] = job[l]
  BY Reminds DEF Reminded, said
<1>2. job'[k].for = "none" /\ job[k].tick /\ job[k].for = "reminder"
  BY Reminds DEF Reminded
<1>3. CASE reminder' = reminder
  BY <1>1, <1>2, <1>3, OnceQuiet DEF Kinds
<1>4. CASE reminder' # reminder
  <2>1. job[k].out \in {"failed", "busy"} /\ reminder' = reminder \ {job[k].b} /\ job[k].b \in reminder
    BY <1>4 DEF Reminded
  <2>2. job[k].n = moves[job[k].b] /\ Unsent(job[k])
    BY <1>2, <2>1 DEF TickInv, Unsent
  <2>3. ASSUME NEW x \in Notice
        PROVE  OneNotice(x)'
    <3>1. OneNotice(x) /\ Told(x)' = Told(x) /\ About(job'[k]) # x
      BY <1>1, <1>2, ToldStays, NotAbout DEF NoticesInv, Kinds
    <3>2. CASE About(job[k]) = x
      BY <1>1, <2>2, <3>1, <3>2, NoticeGivenBack
    <3>3. CASE About(job[k]) # x
      <4>1. Taken(x) => Taken(x)'
        <5>1. CASE x.for = "reminder"
          <6>1. ~(x.b = job[k].b /\ x.n = job[k].n)
            BY <1>2, <3>3, <5>1, SameNotice
          <6>2. x.b = job[k].b => x.n # moves[x.b]
            BY <2>2, <6>1
          <6>3. QED
            BY <1>1, <2>1, <5>1, <6>2 DEF Taken
        <5>2. CASE x.for # "reminder"
          BY <1>1, <5>2 DEF Taken, Notice, Kinds
        <5>3. QED
          BY <5>1, <5>2
      <4>2. QED
        BY <1>1, <3>1, <4>1, NoticeKept
    <3>4. QED
      BY <3>2, <3>3
  <2>4. NoticesInv'
    BY <2>3 DEF NoticesInv, Notice
  <2>5. TickInv'
    BY <1>1, <1>2, <2>1, TickQuiet
  <2>6. QED
    BY <2>4, <2>5
<1>5. QED
  BY <1>3, <1>4

(* The texts claimed by a flag of their own: the reply, the ready text and   *)
(* the one that says live.                                                   *)
LEMMA OnceClaims ==
    ASSUME TypeInv, NoticesInv, TickInv, NEW k \in Workers, job[k].for = "none",
           NEW for \in {"reply", "ready", "live"}, NEW to \in Phones, NEW budget, Sending(k, for, to, budget),
           for \in {"ready", "live"} => to = CoachPhone,
           NEW x \in Notice, x.for = for, x.to = to, ~Taken(x), Taken(x)', UNCHANGED <<moves, reminder, told>>,
           \A y \in Notice : Taken(y) => Taken(y)'
    PROVE  NoticesInv' /\ TickInv'
<1>1. /\ \A l \in Workers \ {k} : job'[l] = job[l]
      /\ job'[k].for = for /\ job'[k].to = to /\ job'[k].tick = job[k].tick
  BY SendingHere
<1>2. ASSUME NEW y \in Notice
      PROVE  OneNotice(y)'
  <2>1. OneNotice(y) /\ Told(y)' = Told(y) /\ (Taken(y) => Taken(y)')
    BY ToldStays DEF NoticesInv
  <2>2. CASE y = x
    BY <1>1, <2>1, <2>2, NoticeClaimed
  <2>3. CASE y # x
    <3>1. y.for = for /\ y.to = to => y.b = x.b /\ y.n = x.n
      BY DEF Notice
    <3>2. y = [for |-> y.for, to |-> y.to, b |-> y.b, n |-> y.n]
          /\ x = [for |-> x.for, to |-> x.to, b |-> x.b, n |-> x.n]
      BY DEF Notice
    <3>3. ~(y.for = for /\ y.to = to)
      BY <2>3, <3>1, <3>2
    <3>4. About(job'[k]) # y
      BY <1>1, <3>3 DEF About
    <3>5. QED
      BY <1>1, <2>1, <3>4, NoticeKept
  <2>4. QED
    BY <2>2, <2>3
<1>3. NoticesInv'
  BY <1>2 DEF NoticesInv, Notice
<1>4. TickInv'
  BY <1>1, TickQuiet
<1>5. QED
  BY <1>3, <1>4

LEMMA TheNotice ==
    ASSUME NEW for \in {"reply", "ready", "live"}, NEW to \in Phones,
           for \in {"ready", "live"} => to = CoachPhone
    PROVE  [for |-> for, to |-> to, b |-> 0, n |-> 0] \in Notice
<1>1. 0 \in 0 .. MaxMoves
  BY TextsAssumption
<1>2. QED
  BY <1>1 DEF Notice, Kinds

LEMMA OnceTakes ==
    ASSUME TypeInv, NoticesInv, TickInv, NEW k \in Workers,
           TakeReplySlot(k) \/ TakeReady(k) \/ TakeLive(k)
    PROVE  NoticesInv' /\ TickInv'
<1>1. UNCHANGED <<moves, reminder, told>> /\ job[k].for = "none" /\ job[k].to \in Phones
  BY ForNone, JobHere DEF TakeReplySlot, TakeReady, TakeLive, said, Unpaid, Job
<1>2. CASE Go(k, Idle) /\ UNCHANGED <<replied, pay>>
  BY <1>1, <1>2, OnceIdle
<1>3. CASE Step(k, "resume") /\ UNCHANGED <<replied, pay>>
  BY <1>1, <1>3, OnceStep, TheOps
<1>4. CASE TakeReplySlot(k)
  <2>1. PICK p \in Phones : p = job[k].to
    BY <1>1
  <2>2. replied' = replied \cup {p} /\ UNCHANGED pay
    BY <1>4, <2>1 DEF TakeReplySlot
  <2>3. CASE p \in replied
    <3>1. replied' = replied
      BY <2>2, <2>3
    <3>2. Go(k, Idle)
      BY <1>4, <2>1, <2>3 DEF TakeReplySlot
    <3>3. QED
      BY <1>2, <2>2, <3>1, <3>2
  <2>4. CASE p \notin replied
    <3>1. PICK x \in Notice : x = [for |-> "reply", to |-> p, b |-> 0, n |-> 0]
      BY TheNotice
    <3>2. ~Taken(x) /\ Taken(x)' /\ \A y \in Notice : Taken(y) => Taken(y)'
      BY <1>1, <2>2, <2>4, <3>1 DEF Taken, Notice, Kinds
    <3>3. PICK budget : Sending(k, "reply", p, budget)
      BY <1>4, <2>1, <2>4 DEF TakeReplySlot
    <3>4. QED
      BY <1>1, <3>1, <3>2, <3>3, OnceClaims
  <2>5. QED
    BY <2>3, <2>4
<1>5. CASE TakeReady(k)
  <2>1. replied' = replied
    BY <1>5 DEF TakeReady, Unpaid
  <2>2. CASE ReadyUnsent
    <3>1. pay' = [pay EXCEPT !.texted = TRUE] /\ Sending(k, "ready", CoachPhone, "none") /\ ~pay.texted
      BY <1>5, <2>2 DEF TakeReady, ReadyUnsent
    <3>2. pay'.texted /\ pay'.live = pay.live
      BY <3>1, PayHere
    <3>3. PICK x \in Notice : x = [for |-> "ready", to |-> CoachPhone, b |-> 0, n |-> 0]
      BY TheNotice, TextsAssumption
    <3>4. ~Taken(x) /\ Taken(x)' /\ \A y \in Notice : Taken(y) => Taken(y)'
      BY <1>1, <2>1, <3>1, <3>2, <3>3 DEF Taken, Notice, Kinds
    <3>5. QED
      BY <1>1, <3>1, <3>3, <3>4, OnceClaims, TextsAssumption
  <2>3. CASE ~ReadyUnsent
    BY <1>3, <1>5, <2>1, <2>3 DEF TakeReady
  <2>4. QED
    BY <2>2, <2>3
<1>6. CASE TakeLive(k)
  <2>1. replied' = replied
    BY <1>6 DEF TakeLive, Unpaid
  <2>2. CASE CoachTextable /\ ~pay.live
    <3>1. pay' = [pay EXCEPT !.live = TRUE] /\ Sending(k, "live", CoachPhone, "none")
      BY <1>6, <2>2 DEF TakeLive
    <3>2. pay'.live /\ pay'.texted = pay.texted
      BY <3>1, PayHere
    <3>3. PICK x \in Notice : x = [for |-> "live", to |-> CoachPhone, b |-> 0, n |-> 0]
      BY TheNotice, TextsAssumption
    <3>4. ~Taken(x) /\ Taken(x)' /\ \A y \in Notice : Taken(y) => Taken(y)'
      BY <1>1, <2>1, <2>2, <3>1, <3>2, <3>3 DEF Taken, Notice, Kinds
    <3>5. QED
      BY <1>1, <3>1, <3>3, <3>4, OnceClaims, TextsAssumption
  <2>3. CASE ~(CoachTextable /\ ~pay.live)
    BY <1>2, <1>6, <2>1, <2>3 DEF TakeLive
  <2>4. QED
    BY <2>2, <2>3
<1>7. QED
  BY <1>4, <1>5, <1>6

(* A claim given back, or kept, at a handler's end.                          *)
LEMMA OnceReplied ==
    ASSUME TypeInv, NoticesInv, TickInv, NEW k \in Workers, Replied(k) \/ LiveTexted(k)
    PROVE  NoticesInv' /\ TickInv'
<1>1. /\ UNCHANGED <<moves, reminder, told>> /\ pay'.texted = pay.texted
      /\ Go(k, Idle) /\ job[k].for \in {"reply", "live"}
  <2>1. CASE Replied(k)
    BY <2>1 DEF Replied, said
  <2>2. CASE LiveTexted(k)
    BY <2>2, PayHere DEF LiveTexted, said, Unpaid
  <2>3. QED
    BY <2>1, <2>2
<1>2. PICK x \in Notice : x = About(job[k])
  BY <1>1, AboutNotice DEF Kinds
<1>3. CASE replied' = replied /\ pay' = pay
  BY <1>1, <1>3, OnceIdle
<1>4. CASE ~(replied' = replied /\ pay' = pay)
  <2>1. Unsent(job[k])
    BY <1>4 DEF Replied, LiveTexted, Unsent, Unpaid
  <2>2. \A y \in Notice : y # x /\ Taken(y) => Taken(y)'
    <3>1. CASE Replied(k)
      <4>1. replied \ {job[k].to} \subseteq replied' /\ pay' = pay /\ job[k].for = "reply"
        BY <3>1 DEF Replied
      <4>2. ASSUME NEW y \in Notice, y # x, y.for = "reply"
            PROVE  y.to # job[k].to
        BY <1>2, <4>1, <4>2, SameNotice
      <4>3. QED
        BY <1>1, <4>1, <4>2 DEF Taken, Notice, Kinds
    <3>2. CASE LiveTexted(k)
      <4>1. replied' = replied /\ job[k].for = "live"
        BY <3>2 DEF LiveTexted, Unpaid
      <4>2. ASSUME NEW y \in Notice, y # x
            PROVE  y.for # "live"
        BY <1>2, <4>1, <4>2, SameNotice
      <4>3. QED
        BY <1>1, <4>1, <4>2 DEF Taken, Notice, Kinds
    <3>3. QED
      BY <3>1, <3>2
  <2>3. job'[k].for = "none" /\ ~job'[k].tick /\ \A l \in Workers \ {k} : job'[l] = job[l]
    BY <1>1, IdleHere
  <2>4. ASSUME NEW y \in Notice
        PROVE  OneNotice(y)'
    <3>1. OneNotice(y) /\ Told(y)' = Told(y) /\ About(job'[k]) # y
      BY <1>1, <2>3, ToldStays, NotAbout DEF NoticesInv, Kinds
    <3>2. CASE y = x
      BY <1>2, <2>1, <2>3, <3>1, <3>2, NoticeGivenBack
    <3>3. CASE y # x
      BY <2>2, <2>3, <3>1, <3>3, NoticeKept
    <3>4. QED
      BY <3>2, <3>3
  <2>5. NoticesInv'
    BY <2>4 DEF NoticesInv, Notice
  <2>6. TickInv'
    BY <1>1, <2>3, TickQuiet
  <2>7. QED
    BY <2>5, <2>6
<1>5. QED
  BY <1>3, <1>4

LEMMA OnceJobs ==
    ASSUME TypeInv, NoticesInv, TickInv, NEW k \in Workers, NEW answer \in {"none", "no", "yes"},
           \/ AskRelay(k, answer) \/ ClaimTurnedOn(k) \/ SaveCharges(k) \/ Ready(k) \/ ReadyTexted(k)
           \/ Resume(k) \/ TakeNudge(k)
    PROVE  NoticesInv' /\ TickInv'
<1>1. /\ UNCHANGED <<moves, reminder, replied, told>>
      /\ pay'.texted = pay.texted /\ pay'.live = pay.live
  <2>1. CASE AskRelay(k, answer) \/ ReadyTexted(k) \/ Resume(k)
    BY <2>1 DEF AskRelay, ReadyTexted, Resume, tables, said
  <2>2. CASE ClaimTurnedOn(k)
    BY <2>2, PayHere DEF ClaimTurnedOn, Unpaid, said
  <2>3. CASE SaveCharges(k)
    BY <2>3, PayHere DEF SaveCharges, Unpaid, said
  <2>4. CASE Ready(k)
    BY <2>4, PayHere DEF Ready, Unpaid, said
  <2>5. CASE TakeNudge(k)
    BY <2>5, PayHere DEF TakeNudge, Unpaid, said
  <2>6. QED
    BY <2>1, <2>2, <2>3, <2>4, <2>5
<1>2. CASE AskRelay(k, answer) \/ ClaimTurnedOn(k) \/ SaveCharges(k) \/ Ready(k) \/ Resume(k)
  BY <1>1, <1>2, Onward, OnceQuiet DEF Kinds
<1>3. CASE ReadyTexted(k)
  BY <1>1, <1>3, OnceStep, TheOps DEF ReadyTexted
<1>4. CASE TakeNudge(k)
  BY <1>1, <1>4, OnceIdle, OnceAside DEF TakeNudge, Asides
<1>5. QED
  BY <1>2, <1>3, <1>4

(* A move takes a booking past every reminder it had.                        *)
LEMMA OnceBeside ==
    ASSUME TypeInv, NoticesInv, TickInv,
           \/ UNCHANGED vars \/ ProcessStops
           \/ \E b \in Bookings : CancelBooking(b) \/ \E s \in Sessions : MoveBooking(b, s)
    PROVE  NoticesInv' /\ TickInv'
<1>1. CASE ProcessStops
  <2>1. UNCHANGED <<moves, reminder, replied, told, pay>> /\ \A k \in Workers : job'[k] = Idle
    BY <1>1 DEF ProcessStops, tables, said
  <2>2. \A k \in Workers : job'[k].for = "none" /\ ~job'[k].tick
    BY <2>1 DEF Idle
  <2>3. ASSUME NEW x \in Notice
        PROVE  OneNotice(x)'
    <3>1. Told(x)' = Told(x) /\ (Taken(x) => Taken(x)') /\ OneNotice(x)
      BY <2>1, ClaimsStay, ToldStays DEF NoticesInv
    <3>2. \A k \in Workers : About(job'[k]) # x
      BY <2>2, NotAbout DEF Kinds
    <3>3. QED
      BY <3>1, <3>2 DEF OneNotice
  <2>4. QED
    BY <2>2, <2>3 DEF NoticesInv, Notice, TickInv
<1>2. CASE UNCHANGED vars \/ \E b \in Bookings : CancelBooking(b)
  <2>1. UNCHANGED <<moves, reminder, replied, told, pay, job>>
    BY <1>2 DEF vars, CancelBooking, said
  <2>2. ASSUME NEW x \in Notice
        PROVE  OneNotice(x)'
    <3>1. Told(x)' = Told(x) /\ (Taken(x) => Taken(x)') /\ OneNotice(x)
      BY <2>1, ClaimsStay, ToldStays DEF NoticesInv
    <3>2. QED
      BY <2>1, <3>1 DEF OneNotice
  <2>3. QED
    BY <2>1, <2>2 DEF NoticesInv, Notice, TickInv
<1>3. ASSUME NEW b \in Bookings, NEW s \in Sessions, MoveBooking(b, s)
      PROVE  NoticesInv' /\ TickInv'
  <2>1. /\ UNCHANGED <<replied, told, pay, job>> /\ reminder' = reminder \ {b}
        /\ moves' = [moves EXCEPT ![b] = @ + 1]
    BY <1>3 DEF MoveBooking, said
  <2>2. moves \in [Bookings -> 0 .. MaxMoves]
    BY DEF TypeInv, RowsTyped
  <2>3. moves[b] \in Int /\ moves'[b] = moves[b] + 1
    BY <2>1, <2>2
  <2>4. \A c \in Bookings : c # b => moves'[c] = moves[c]
    BY <2>1, <2>2
  <2>5. ASSUME NEW x \in Notice
        PROVE  Taken(x) => Taken(x)'
    <3>1. CASE x.for = "reminder"
      <4>1. x.b \in Bookings /\ x.n \in Int
        BY <3>1 DEF Notice
      <4>2. CASE x.b = b
        BY <2>3, <3>1, <4>1, <4>2 DEF Taken
      <4>3. CASE x.b # b
        BY <2>1, <2>4, <3>1, <4>1, <4>3 DEF Taken
      <4>4. QED
        BY <4>2, <4>3
    <3>2. CASE x.for # "reminder"
      BY <2>1, <3>2 DEF Taken, Notice, Kinds
    <3>3. QED
      BY <3>1, <3>2
  <2>6. ASSUME NEW x \in Notice
        PROVE  OneNotice(x)'
    <3>1. Told(x)' = Told(x) /\ (Taken(x) => Taken(x)') /\ OneNotice(x)
      BY <2>1, <2>5, ToldStays DEF NoticesInv
    <3>2. QED
      BY <2>1, <3>1 DEF OneNotice
  <2>7. NoticesInv'
    BY <2>6 DEF NoticesInv, Notice
  <2>8. ASSUME NEW k \in Workers, job[k].for = "reminder", job[k].n # moves'[job[k].b]
        PROVE  job[k].n < moves'[job[k].b] /\ job[k].b \notin reminder'
    <3>1. job[k].b \in Bookings /\ job[k].n \in Int
      BY <2>8, JobHere DEF Flow, Job
    <3>2. job[k].n = moves[job[k].b] \/ (job[k].n < moves[job[k].b] /\ job[k].b \notin reminder)
      BY <2>8 DEF TickInv
    <3>3. CASE job[k].b = b
      BY <2>1, <2>3, <3>1, <3>2, <3>3
    <3>4. CASE job[k].b # b
      BY <2>1, <2>4, <2>8, <3>1, <3>2, <3>4
    <3>5. QED
      BY <3>3, <3>4
  <2>9. TickInv'
    BY <2>1, <2>8 DEF TickInv
  <2>10. QED
    BY <2>7, <2>9
<1>4. QED
  BY <1>1, <1>2, <1>3

LEMMA OnceInit ==
    ASSUME Init
    PROVE  NoticesInv /\ TickInv
<1>1. \A k \in Workers : job[k].for = "none" /\ ~job[k].tick
  BY DEF Init, Idle
<1>2. told = [reminders |-> [b \in Bookings |-> [n \in 0 .. MaxMoves |-> 0]],
              replies |-> [p \in Phones |-> 0], ready |-> 0, live |-> 0]
  BY DEF Init
<1>3. ASSUME NEW x \in Notice
      PROVE  OneNotice(x)
  <2>1. Told(x) = 0
    BY <1>2 DEF Told, Notice, Kinds
  <2>2. \A k \in Workers : About(job[k]) # x
    BY <1>1, NotAbout DEF Kinds
  <2>3. QED
    BY <2>1, <2>2 DEF OneNotice
<1>4. QED
  BY <1>1, <1>3 DEF NoticesInv, TickInv

LEMMA OnceEachStep ==
    ASSUME TypeInv, NoticesInv, TickInv, [Next]_vars
    PROVE  NoticesInv' /\ TickInv'
<1>1. CASE \/ UNCHANGED vars \/ ProcessStops
           \/ \E b \in Bookings : CancelBooking(b) \/ \E s \in Sessions : MoveBooking(b, s)
  BY <1>1, OnceBeside
<1>2. ASSUME NEW k \in Workers, SendSteps(k)
      PROVE  NoticesInv' /\ TickInv'
  BY <1>2, OnceSends
<1>3. ASSUME NEW k \in Workers, ConsentSteps(k)
      PROVE  NoticesInv' /\ TickInv'
  <2>1. CASE \E p \in Phones :
                \/ Stop(k, p) \/ Start(k, p) \/ AskForCode(k, p)
                \/ \E yes \in BOOLEAN : VerifiedConsent(k, p, yes) \/ FormConsent(k, p, yes) \/ InboundReply(k, p, yes)
    BY <2>1, OnceBegins
  <2>2. CASE \/ UpsertOptOut(k) \/ RevokeConsent(k) \/ DeleteOptOut(k) \/ ClearRevoked(k)
             \/ UpsertConsent(k) \/ LiftOptOut(k) \/ InsertConsent(k)
    BY <2>2, OnceConsents
  <2>3. QED
    BY <1>3, <2>1, <2>2 DEF ConsentSteps
<1>4. ASSUME NEW k \in Workers, JobSteps(k)
      PROVE  NoticesInv' /\ TickInv'
  <2>1. CASE \/ SendDueReminders(k) \/ PollPaymentAccounts(k) \/ NotePublished(k)
             \/ SendPaymentReminders(k) \/ SendDueReadyTexts(k)
             \/ \E enabled \in BOOLEAN : SellerEvent(k, enabled)
    BY <2>1, OnceBegins, TextsAssumption
  <2>2. CASE ClaimReminder(k) \/ Reminded(k) \/ TakeReplySlot(k) \/ TakeReady(k) \/ TakeLive(k) \/ Replied(k) \/ LiveTexted(k)
    BY <2>2, OnceClaimReminder, OnceReminded, OnceTakes, OnceReplied
  <2>3. CASE \/ \E answer \in {"none", "no", "yes"} : AskRelay(k, answer)
             \/ ClaimTurnedOn(k) \/ SaveCharges(k) \/ Ready(k) \/ ReadyTexted(k) \/ Resume(k) \/ TakeNudge(k)
    BY <2>3, OnceJobs
  <2>4. QED
    BY <1>4, <2>1, <2>2, <2>3 DEF JobSteps
<1>5. QED
  BY <1>1, <1>2, <1>3, <1>4 DEF Next

LEMMA OnceEnough ==
    ASSUME TypeInv, NoticesInv
    PROVE  SaidOnce
<1>1. ASSUME NEW b \in Bookings, NEW n \in 0 .. MaxMoves
      PROVE  told.reminders[b][n] <= 1
  <2>1. PICK x : x = [for |-> "reminder", to |-> PhoneOf[b], b |-> b, n |-> n]
    OBVIOUS
  <2>2. x \in Notice
    BY <2>1, TextsAssumption DEF Notice, Kinds
  <2>3. Told(x) = told.reminders[b][n]
    BY <2>1 DEF Told
  <2>4. QED
    BY <2>2, <2>3 DEF NoticesInv, OneNotice
<1>2. \A k \in Workers : job[k].for = "reminder" => job[k].s = job[k].here
  BY JobHere DEF Flow
<1>3. ASSUME NEW p \in Phones
      PROVE  told.replies[p] <= 1
  <2>1. PICK x \in Notice : x = [for |-> "reply", to |-> p, b |-> 0, n |-> 0]
    BY TheNotice
  <2>2. Told(x) = told.replies[p]
    BY <2>1 DEF Told
  <2>3. QED
    BY <2>2 DEF NoticesInv, OneNotice
<1>4. told.ready <= 1 /\ told.live <= 1
  <2>1. PICK x \in Notice : x = [for |-> "ready", to |-> CoachPhone, b |-> 0, n |-> 0]
    BY TheNotice, TextsAssumption
  <2>2. PICK y \in Notice : y = [for |-> "live", to |-> CoachPhone, b |-> 0, n |-> 0]
    BY TheNotice, TextsAssumption
  <2>3. Told(x) = told.ready /\ Told(y) = told.live
    BY <2>1, <2>2 DEF Told
  <2>4. QED
    BY <2>3 DEF NoticesInv, OneNotice
<1>5. QED
  BY <1>1, <1>2, <1>3, <1>4 DEF SaidOnce

(* A reminder goes once for a booking and once more after each move, never   *)
(* for a session it had left when it was claimed; a number gets one reply a  *)
(* day, and a coach one text that payments are ready and one that they are   *)
(* live: each is claimed in its table before it is sent, and given back only *)
(* by the handler that has it and was not told "sent" (jobs/tick.ts,         *)
(* routes/webhooks.ts, payments.ts).                                         *)
THEOREM EachIsSaidOnce == Spec => []SaidOnce
<1>1. Init => NoticesInv /\ TickInv
  BY OnceInit
<1>2. TypeInv /\ (NoticesInv /\ TickInv) /\ [Next]_vars => (NoticesInv /\ TickInv)'
  BY OnceEachStep
<1>3. TypeInv /\ NoticesInv => SaidOnce
  BY OnceEnough
<1>4. QED
  BY <1>1, <1>2, <1>3, TypesKept, PTL DEF Spec

----------------------------------------------------------------------------
(* Ceilings. *)

LEMMA SpentNat ==
    ASSUME TypeInv, NEW budget \in Budgets \cup {"none"}
    PROVE  Spent(budget) \in Nat
<1>1. PICK f : f = [p \in Phones |-> sent[p][budget]]
  OBVIOUS
<1>2. sent \in [Phones -> [Budgets \cup {"none"} -> Nat]]
  BY DEF TypeInv, RowsTyped, TypeOK
<1>3. DOMAIN f = Phones /\ \A p \in Phones : f[p] \in Nat
  BY <1>1, <1>2
<1>4. SumFunctionOnSet(f, Phones) \in Nat
  BY <1>3, SumType, TextsAssumption
<1>5. QED
  BY <1>1, <1>3, <1>4 DEF Spent, SumFunction

LEMMA SpentSame ==
    ASSUME NEW budget, \A p \in Phones : sent'[p][budget] = sent[p][budget]
    PROVE  Spent(budget)' = Spent(budget)
BY DEF Spent

(* One number's count moves its budget's by as much. *)
LEMMA SpentChanged ==
    ASSUME TypeInv, TypeInv', NEW p \in Phones, NEW budget \in Budgets \cup {"none"},
           \A q \in Phones \ {p} : sent'[q][budget] = sent[q][budget]
    PROVE  Spent(budget)' = Spent(budget) - sent[p][budget] + sent'[p][budget]
<1>1. PICK f, g : f = [q \in Phones |-> sent[q][budget]] /\ g = [q \in Phones |-> sent'[q][budget]]
  OBVIOUS
<1>2. /\ sent \in [Phones -> [Budgets \cup {"none"} -> Nat]]
      /\ sent' \in [Phones -> [Budgets \cup {"none"} -> Nat]]
  BY DEF TypeInv, RowsTyped, TypeOK
<1>3. /\ DOMAIN f = Phones /\ \A q \in Phones : f[q] \in Nat
      /\ DOMAIN g = Phones /\ \A q \in Phones : g[q] \in Nat
      /\ \A q \in Phones \ {p} : g[q] = f[q]
  BY <1>1, <1>2
<1>4. SumFunctionOnSet(g, Phones) = SumFunctionOnSet(f, Phones) - f[p] + g[p]
  BY <1>3, SumChange, TextsAssumption
<1>5. Spent(budget) = SumFunctionOnSet(f, Phones) /\ Spent(budget)' = SumFunctionOnSet(g, Phones)
  BY <1>1, <1>3 DEF Spent, SumFunction
<1>6. QED
  BY <1>1, <1>4, <1>5

LEMMA BesideFinite == IsFiniteSet(Beside) /\ Cardinality(Beside) \in Nat
BY TextsAssumption, FS_Subset, FS_CardinalityType DEF Beside

LEMMA LimitsNat == VisitorLimit \in Nat /\ Reserve \in Nat /\ Ceiling \in Nat /\ Cardinality(Workers) \in Nat
BY TextsAssumption, FS_CardinalityType

LEMMA SpentNats ==
    ASSUME TypeInv
    PROVE  Spent("visitor") \in Nat /\ Spent("inbound-reply") \in Nat /\ Spent("none") \in Nat
<1>1. {"visitor", "inbound-reply", "none"} \subseteq Budgets \cup {"none"}
  BY DEF Budgets
<1>2. QED
  BY <1>1, SpentNat

(* A step that counts no text and puts none beside the budgets on its way.   *)
LEMMA CeilingsQuiet ==
    ASSUME TypeInv, CeilingsInv, UNCHANGED sent,
           \A l \in Workers : Away(job'[l]) /\ job'[l].budget = "none" => Away(job[l]) /\ job[l].budget = "none"
    PROVE  CeilingsInv'
<1>1. \A budget \in Budgets \cup {"none"} : Spent(budget)' = Spent(budget)
  BY DEF Spent
<1>2. Beside' \subseteq Beside
  BY DEF Beside
<1>3. Cardinality(Beside') <= Cardinality(Beside) /\ Cardinality(Beside') \in Nat
  BY <1>2, BesideFinite, FS_Subset, FS_CardinalityType
<1>4. Total' = Total /\ Total \in Nat
  BY <1>1, SpentNats DEF Total, Budgets
<1>5. QED
  BY <1>1, <1>3, <1>4, BesideFinite, LimitsNat DEF CeilingsInv, Budgets

LEMMA CeilingsOne ==
    ASSUME TypeInv, CeilingsInv, UNCHANGED sent, NEW k \in Workers, \A l \in Workers \ {k} : job'[l] = job[l],
           Away(job'[k]) /\ job'[k].budget = "none" => Away(job[k]) /\ job[k].budget = "none"
    PROVE  CeilingsInv'
BY CeilingsQuiet

LEMMA CeilingsCheck ==
    ASSUME TypeInv, CeilingsInv, NEW k \in Workers, Check(k)
    PROVE  CeilingsInv'
<1>1. UNCHANGED sent /\ \A l \in Workers \ {k} : job'[l] = job[l]
  BY CheckHere DEF Check, tables
<1>2. ~Away(job[k])
  BY DEF Check, Away
<1>3. CASE ~Away(job'[k])
  BY <1>1, <1>3, CeilingsOne
<1>4. CASE Away(job'[k])
  <2>1. ~CeilingHit
    BY <1>4, CheckHere, OutcomeHere DEF Away, Idle
  <2>2. \A budget \in Budgets \cup {"none"} : Spent(budget)' = Spent(budget)
    BY <1>1 DEF Spent
  <2>3. Total' = Total /\ Total \in Nat /\ Total < Ceiling
    BY <2>1, <2>2, SpentNats, LimitsNat DEF Total, Budgets, CeilingHit
  <2>4. Beside' \subseteq Workers
    BY DEF Beside
  <2>5. Cardinality(Beside') <= Cardinality(Workers) /\ Cardinality(Beside') \in Nat
    BY <2>4, TextsAssumption, FS_Subset, FS_CardinalityType
  <2>6. QED
    BY <2>2, <2>3, <2>5, LimitsNat DEF CeilingsInv, Budgets
<1>5. QED
  BY <1>3, <1>4

LEMMA CeilingsReserve ==
    ASSUME TypeInv, TypeInv', CeilingsInv, NEW k \in Workers, ReserveText(k)
    PROVE  CeilingsInv'
<1>1. job[k] \in Job /\ Flow(job[k]) /\ job[k].op = "reserve" /\ job[k].budget \in Budgets
  BY JobHere DEF ReserveText, Flow, Job
<1>2. CASE Outcome(k, "busy") /\ UNCHANGED sent
  <2>1. ~Away(job'[k]) /\ \A l \in Workers \ {k} : job'[l] = job[l]
    BY <1>2, OutcomeHere DEF Away, Idle
  <2>2. QED
    BY <1>2, <2>1, CeilingsOne
<1>3. CASE ~BudgetSpent(job[k].budget) /\ sent' = Counted(job[k].to, job[k].budget, 1) /\ Step(k, "relay")
  <2>1. PICK p \in Phones, budget \in Budgets : p = job[k].to /\ budget = job[k].budget
    BY <1>1 DEF Job
  <2>2. sent' = Counted(p, budget, 1) /\ ~BudgetSpent(budget)
    BY <1>3, <2>1
  <2>3. \A q \in Phones, c \in Budgets \cup {"none"} :
           q # p \/ c # budget => sent'[q][c] = sent[q][c]
    BY <2>2, CountedUp
  <2>4. sent'[p][budget] = sent[p][budget] + 1 /\ sent[p][budget] \in Nat
    <3>1. budget \in Budgets \cup {"none"}
      OBVIOUS
    <3>2. sent'[p][budget] = sent[p][budget] + 1
      BY <2>2, <3>1, CountedUp
    <3>3. sent[p][budget] \in Nat
      BY <3>1 DEF TypeInv, RowsTyped, TypeOK
    <3>4. QED
      BY <3>2, <3>3
  <2>5. Spent(budget)' = Spent(budget) + 1
    BY <2>3, <2>4, SpentChanged, SpentNat
  <2>6. \A c \in Budgets \cup {"none"} : c # budget => Spent(c)' = Spent(c)
    BY <2>3, SpentSame
  <2>7. Total' = Total + 1 /\ Total \in Nat
        /\ Spent("visitor")' + Spent("inbound-reply")' = Spent("visitor") + Spent("inbound-reply") + 1
    BY <2>5, <2>6, SpentNats DEF Total, Budgets
  <2>8. Spent(budget) < VisitorLimit /\ Total + Reserve < Ceiling
    BY <2>2, <2>7, LimitsNat, SpentNat DEF BudgetSpent
  <2>9. Beside' \subseteq Workers \ {k}
    BY <1>1, <1>3, StepHere DEF Beside, Budgets
  <2>10. /\ Cardinality(Beside') <= Cardinality(Workers) - 1 /\ Cardinality(Beside') \in Nat
    BY <2>9, TextsAssumption, FS_Subset, FS_CardinalityType, FS_RemoveElement
  <2>11. \A c \in Budgets : Spent(c)' <= VisitorLimit
    BY <2>5, <2>6, <2>8, SpentNat, LimitsNat DEF CeilingsInv
  <2>12. Spent("visitor")' + Spent("inbound-reply")' <= Ceiling - Reserve
    BY <2>7, <2>8, SpentNats, LimitsNat DEF Total
  <2>13. QED
    BY <2>7, <2>8, <2>10, <2>11, <2>12, LimitsNat DEF CeilingsInv
<1>4. QED
  BY <1>2, <1>3 DEF ReserveText

LEMMA CeilingsRecord ==
    ASSUME TypeInv, TypeInv', CeilingsInv, NEW k \in Workers, Record(k)
    PROVE  CeilingsInv'
<1>1. job[k] \in Job /\ Flow(job[k]) /\ job[k].op = "record" /\ job[k].budget \in Budgets \cup {"none"}
  BY JobHere DEF Record, Flow, Job, Away
<1>2. ~Away(job'[k]) /\ \A l \in Workers \ {k} : job'[l] = job[l]
  <2>1. PICK out : Outcome(k, out)
    BY DEF Record
  <2>2. QED
    BY <2>1, OutcomeHere DEF Away, Idle
<1>3. PICK p \in Phones, budget \in Budgets \cup {"none"} : p = job[k].to /\ budget = job[k].budget
  BY <1>1 DEF Job
<1>4. sent[p][budget] \in Nat /\ sent'[p][budget] \in Nat
  BY DEF TypeInv, RowsTyped, TypeOK
<1>5. CASE sent' = sent
  BY <1>2, <1>5, CeilingsOne
<1>6. CASE budget = "none" /\ sent' = Counted(p, "none", 1)
  <2>1. \A q \in Phones, c \in Budgets \cup {"none"} : q # p \/ c # "none" => sent'[q][c] = sent[q][c]
    BY <1>6, CountedUp
  <2>2. sent'[p]["none"] = sent[p]["none"] + 1
    BY <1>6, CountedUp
  <2>3. Spent("none")' = Spent("none") + 1
    BY <1>4, <1>6, <2>1, <2>2, SpentChanged, SpentNats
  <2>4. \A c \in Budgets : Spent(c)' = Spent(c)
    <3>1. "none" \notin Budgets
      BY DEF Budgets
    <3>2. QED
      BY <2>1, <3>1, SpentSame
  <2>5. Total' = Total + 1 /\ Total \in Nat
    BY <2>3, <2>4, SpentNats DEF Total, Budgets
  <2>6. k \in Beside /\ Beside' = Beside \ {k}
    BY <1>1, <1>2, <1>3, <1>6 DEF Beside, Away
  <2>7. Cardinality(Beside') = Cardinality(Beside) - 1
    BY <2>6, BesideFinite, OneOut
  <2>8. \A c \in Budgets : Spent(c)' <= VisitorLimit
    BY <2>4 DEF CeilingsInv
  <2>9. Spent("visitor")' + Spent("inbound-reply")' <= Ceiling - Reserve
    BY <2>4 DEF CeilingsInv, Budgets
  <2>10. QED
    BY <2>5, <2>7, <2>8, <2>9, BesideFinite, LimitsNat DEF CeilingsInv
<1>7. CASE budget # "none" /\ sent' = Counted(p, budget, -1)
  <2>1. sent[p][budget] >= 1
    <3>1. k \in Holding(p, budget)
      BY <1>1, <1>3 DEF Holding, Away
    <3>2. IsFiniteSet(Holding(p, budget)) /\ Cardinality(Holding(p, budget)) \in Nat
      BY HoldingFinite
    <3>3. Cardinality(Holding(p, budget)) # 0
      BY <3>1, <3>2, FS_EmptySet
    <3>4. Cardinality(Holding(p, budget)) <= sent[p][budget]
      BY <1>7 DEF TypeInv, RowsHeld
    <3>5. QED
      BY <1>4, <3>2, <3>3, <3>4
  <2>2. \A q \in Phones, c \in Budgets \cup {"none"} : q # p \/ c # budget => sent'[q][c] = sent[q][c]
    BY <1>7, <2>1, CountedDown
  <2>3. sent'[p][budget] = sent[p][budget] - 1
    BY <1>7, <2>1, CountedDown
  <2>4. Spent(budget)' = Spent(budget) - 1
    BY <1>4, <2>2, <2>3, SpentChanged, SpentNat
  <2>5. \A c \in Budgets \cup {"none"} : c # budget => Spent(c)' = Spent(c)
    BY <2>2, SpentSame
  <2>6. /\ Total' = Total - 1 /\ Total \in Nat
        /\ Spent("visitor")' + Spent("inbound-reply")' = Spent("visitor") + Spent("inbound-reply") - 1
    BY <1>7, <2>4, <2>5, SpentNats DEF Total, Budgets
  <2>7. Beside' = Beside
    BY <1>2, <1>3, <1>7 DEF Beside
  <2>8. \A c \in Budgets : Spent(c)' <= VisitorLimit
    BY <2>4, <2>5, SpentNat, LimitsNat DEF CeilingsInv
  <2>9. Spent("visitor")' + Spent("inbound-reply")' <= Ceiling - Reserve
    BY <2>6, SpentNats, LimitsNat DEF CeilingsInv
  <2>10. Total' + Cardinality(Beside') <= Ceiling + Cardinality(Workers) - 1
    BY <2>6, <2>7, BesideFinite, LimitsNat DEF CeilingsInv
  <2>11. QED
    BY <2>8, <2>9, <2>10 DEF CeilingsInv
<1>8. \/ sent' = sent
      \/ budget = "none" /\ sent' = Counted(p, "none", 1)
      \/ budget # "none" /\ sent' = Counted(p, budget, -1)
  BY <1>3 DEF Record, Reserved
<1>9. QED
  BY <1>5, <1>6, <1>7, <1>8

LEMMA NoneIsHome ==
    ASSUME TypeInv', NEW k \in Workers, job'[k].for = "none"
    PROVE  ~Away(job'[k])
BY DEF TypeInv, JobsTyped, Flow, Away, Sending_ops

LEMMA CeilingsSends ==
    ASSUME TypeInv, TypeInv', CeilingsInv, NEW k \in Workers, SendSteps(k)
    PROVE  CeilingsInv'
<1>1. ASSUME NEW out \in {"sent", "busy", "failed", "stopped"}, Relay(k, out)
      PROVE  CeilingsInv'
  <2>1. UNCHANGED sent /\ Away(job[k])
    BY <1>1 DEF Relay, tables, Away
  <2>2. job'[k].budget = job[k].budget /\ \A l \in Workers \ {k} : job'[l] = job[l]
    BY <1>1, RelayHere
  <2>3. QED
    BY <2>1, <2>2, CeilingsOne
<1>2. QED
  BY <1>1, CeilingsCheck, CeilingsReserve, CeilingsRecord DEF SendSteps

LEMMA CeilingsBegins ==
    ASSUME TypeInv, TypeInv', CeilingsInv, NEW k \in Workers, NEW p \in Phones, NEW yes \in BOOLEAN,
           \/ Stop(k, p) \/ Start(k, p) \/ AskForCode(k, p)
           \/ VerifiedConsent(k, p, yes) \/ FormConsent(k, p, yes) \/ InboundReply(k, p, yes)
           \/ SendDueReminders(k) \/ SellerEvent(k, yes) \/ PollPaymentAccounts(k)
           \/ NotePublished(k) \/ SendPaymentReminders(k) \/ SendDueReadyTexts(k)
    PROVE  CeilingsInv'
<1>1. UNCHANGED sent
  BY DEF Stop, Start, AskForCode, VerifiedConsent, FormConsent, InboundReply, SendDueReminders,
     SellerEvent, PollPaymentAccounts, NotePublished, SendPaymentReminders, SendDueReadyTexts, tables
<1>2. job'[k].for = "none" \/ (job'[k].for = "code" /\ job'[k].op = "check")
  BY BeginFor
<1>3. ~Away(job'[k])
  <2>1. CASE job'[k].for = "none"
    BY <2>1, NoneIsHome
  <2>2. CASE job'[k].op = "check"
    BY <2>2 DEF Away
  <2>3. QED
    BY <1>2, <2>1, <2>2
<1>4. \A l \in Workers \ {k} : job'[l] = job[l]
  BY BeginsAlone
<1>5. QED
  BY <1>1, <1>3, <1>4, CeilingsOne

LEMMA CeilingsHandlers ==
    ASSUME TypeInv, TypeInv', CeilingsInv, NEW k \in Workers, NEW answer \in {"none", "no", "yes"},
           \/ UpsertOptOut(k) \/ RevokeConsent(k) \/ DeleteOptOut(k) \/ ClearRevoked(k)
           \/ UpsertConsent(k) \/ LiftOptOut(k) \/ InsertConsent(k)
           \/ ClaimReminder(k) \/ Reminded(k) \/ TakeReplySlot(k) \/ Replied(k) \/ AskRelay(k, answer)
           \/ ClaimTurnedOn(k) \/ SaveCharges(k) \/ Ready(k) \/ TakeReady(k) \/ ReadyTexted(k)
           \/ Resume(k) \/ TakeLive(k) \/ LiveTexted(k) \/ TakeNudge(k)
    PROVE  CeilingsInv'
<1>1. UNCHANGED sent
  BY DEF UpsertOptOut, RevokeConsent, DeleteOptOut, ClearRevoked, UpsertConsent, LiftOptOut, InsertConsent,
     ClaimReminder, Reminded, TakeReplySlot, Replied, AskRelay, ClaimTurnedOn, SaveCharges, Ready,
     TakeReady, ReadyTexted, Resume, TakeLive, LiveTexted, TakeNudge, tables, Unpaid
<1>2. CASE Go(k, Idle)
  BY <1>1, <1>2, IdleHere, CeilingsOne DEF Away
<1>3. ASSUME NEW for, NEW to, NEW budget, Sending(k, for, to, budget)
      PROVE  CeilingsInv'
  BY <1>1, <1>3, SendingHere, CeilingsOne DEF Away
<1>4. ASSUME NEW op, op \notin {"relay", "record", "stop", "revoke"}, Step(k, op)
      PROVE  CeilingsInv'
  BY <1>1, <1>4, StepHere, CeilingsOne DEF Away
<1>5. CASE UpsertOptOut(k) \/ RevokeConsent(k)
  <2>1. CASE Go(k, Idle)
    BY <1>2, <2>1
  <2>2. CASE Step(k, "revoke") /\ job[k].op = "stop"
    BY <1>1, <2>2, StepHere, CeilingsOne DEF Away
  <2>3. CASE Step(k, "record") /\ job[k].op = "revoke" /\ job[k].out = "stopped"
    BY <1>1, <2>3, StepHere, CeilingsOne DEF Away
  <2>4. QED
    BY <1>5, <2>1, <2>2, <2>3 DEF UpsertOptOut, RevokeConsent
<1>6. CASE DeleteOptOut(k) \/ UpsertConsent(k)
  BY <1>4, <1>6 DEF DeleteOptOut, UpsertConsent
<1>7. CASE \/ ClearRevoked(k) \/ LiftOptOut(k) \/ InsertConsent(k) \/ TakeReplySlot(k) \/ Replied(k)
           \/ TakeLive(k) \/ LiveTexted(k) \/ TakeNudge(k)
  BY <1>2, <1>3, <1>7 DEF ClearRevoked, LiftOptOut, InsertConsent, TakeReplySlot, Replied, TakeLive,
     LiveTexted, TakeNudge
<1>8. CASE TakeReady(k) \/ ReadyTexted(k)
  BY <1>3, <1>4, <1>8 DEF TakeReady, ReadyTexted
<1>9. CASE ClaimReminder(k)
  <2>1. job'[k].op \in {"idle", "next", "check"} /\ \A l \in Workers \ {k} : job'[l] = job[l]
    BY <1>9, ReminderJob
  <2>2. QED
    BY <1>1, <2>1, CeilingsOne DEF Away
<1>10. CASE Reminded(k)
  BY <1>1, <1>10, Reminds, CeilingsOne DEF Away
<1>11. CASE AskRelay(k, answer) \/ ClaimTurnedOn(k) \/ SaveCharges(k) \/ Ready(k) \/ Resume(k)
  <2>1. ~Away(job'[k]) /\ \A l \in Workers \ {k} : job'[l] = job[l]
    BY <1>11, Onward, NoneIsHome
  <2>2. QED
    BY <1>1, <2>1, CeilingsOne
<1>12. QED
  BY <1>5, <1>6, <1>7, <1>8, <1>9, <1>10, <1>11

LEMMA CeilingsBeside ==
    ASSUME TypeInv, CeilingsInv,
           \/ UNCHANGED vars \/ ProcessStops
           \/ \E b \in Bookings : CancelBooking(b) \/ \E s \in Sessions : MoveBooking(b, s)
    PROVE  CeilingsInv'
<1>1. CASE ProcessStops
  <2>1. UNCHANGED sent /\ \A l \in Workers : job'[l] = Idle
    BY <1>1 DEF ProcessStops, tables
  <2>2. \A l \in Workers : ~Away(job'[l])
    BY <2>1 DEF Away, Idle
  <2>3. QED
    BY <2>1, <2>2, CeilingsQuiet
<1>2. CASE ~ProcessStops
  <2>1. UNCHANGED <<sent, job>>
    BY <1>2 DEF vars, CancelBooking, MoveBooking
  <2>2. QED
    BY <2>1, CeilingsQuiet
<1>3. QED
  BY <1>1, <1>2

LEMMA CeilingsStep ==
    ASSUME TypeInv, TypeInv', CeilingsInv, [Next]_vars
    PROVE  CeilingsInv'
<1>1. CASE \/ UNCHANGED vars \/ ProcessStops
           \/ \E b \in Bookings : CancelBooking(b) \/ \E s \in Sessions : MoveBooking(b, s)
  BY <1>1, CeilingsBeside
<1>2. ASSUME NEW k \in Workers, SendSteps(k)
      PROVE  CeilingsInv'
  BY <1>2, CeilingsSends
<1>3. ASSUME NEW k \in Workers, ConsentSteps(k)
      PROVE  CeilingsInv'
  <2>1. CASE \E p \in Phones :
                \/ Stop(k, p) \/ Start(k, p) \/ AskForCode(k, p)
                \/ \E yes \in BOOLEAN : VerifiedConsent(k, p, yes) \/ FormConsent(k, p, yes) \/ InboundReply(k, p, yes)
    BY <2>1, CeilingsBegins
  <2>2. CASE \/ UpsertOptOut(k) \/ RevokeConsent(k) \/ DeleteOptOut(k) \/ ClearRevoked(k)
             \/ UpsertConsent(k) \/ LiftOptOut(k) \/ InsertConsent(k)
    BY <2>2, CeilingsHandlers
  <2>3. QED
    BY <1>3, <2>1, <2>2 DEF ConsentSteps
<1>4. ASSUME NEW k \in Workers, JobSteps(k)
      PROVE  CeilingsInv'
  <2>1. CASE \/ SendDueReminders(k) \/ PollPaymentAccounts(k) \/ NotePublished(k)
             \/ SendPaymentReminders(k) \/ SendDueReadyTexts(k)
             \/ \E enabled \in BOOLEAN : SellerEvent(k, enabled)
    BY <2>1, CeilingsBegins, TextsAssumption
  <2>2. CASE \/ ClaimReminder(k) \/ Reminded(k) \/ TakeReplySlot(k) \/ Replied(k)
             \/ \E answer \in {"none", "no", "yes"} : AskRelay(k, answer)
             \/ ClaimTurnedOn(k) \/ SaveCharges(k) \/ Ready(k) \/ TakeReady(k) \/ ReadyTexted(k)
             \/ Resume(k) \/ TakeLive(k) \/ LiveTexted(k) \/ TakeNudge(k)
    BY <2>2, CeilingsHandlers
  <2>3. QED
    BY <1>4, <2>1, <2>2 DEF JobSteps
<1>5. QED
  BY <1>1, <1>2, <1>3, <1>4 DEF Next

LEMMA CeilingsInit ==
    ASSUME Init
    PROVE  CeilingsInv
<1>1. PICK already \in {0, Ceiling - 1} :
         sent = [p \in Phones |-> [budget \in Budgets \cup {"none"} |->
                                      IF p = CoachPhone /\ budget = "none" THEN already ELSE 0]]
  BY DEF Init
<1>2. already \in Nat /\ already <= Ceiling - 1
  BY TextsAssumption
<1>3. \A budget \in Budgets : Spent(budget) = 0
  <2>1. ASSUME NEW budget \in Budgets
        PROVE  Spent(budget) = 0
    <3>1. PICK f : f = [p \in Phones |-> sent[p][budget]]
      OBVIOUS
    <3>2. DOMAIN f = Phones /\ \A p \in Phones : f[p] = 0
      BY <1>1, <3>1 DEF Budgets
    <3>3. SumFunctionOnSet(f, Phones) = 0
      BY <3>2, SumZero, TextsAssumption
    <3>4. QED
      BY <3>1, <3>2, <3>3 DEF Spent, SumFunction
  <2>2. QED
    BY <2>1
<1>4. Spent("none") = already
  <2>1. PICK f : f = [p \in Phones |-> sent[p]["none"]]
    OBVIOUS
  <2>2. DOMAIN f = Phones /\ \A p \in Phones : f[p] = IF p = CoachPhone THEN already ELSE 0
    BY <1>1, <2>1
  <2>3. /\ \A p \in Phones : f[p] \in Nat
        /\ f[CoachPhone] = already /\ CoachPhone \in Phones
        /\ \A p \in Phones \ {CoachPhone} : f[p] = 0
    BY <1>2, <2>2, TextsAssumption
  <2>4. SumFunctionOnSet(f, Phones \ {CoachPhone}) = 0
    BY <2>3, SumZero, TextsAssumption, FS_Subset
  <2>5. SumFunctionOnSet(f, Phones) = f[CoachPhone] + SumFunctionOnSet(f, Phones \ {CoachPhone})
    BY <2>3, SumTake, TextsAssumption
  <2>6. QED
    BY <1>2, <2>1, <2>2, <2>3, <2>4, <2>5 DEF Spent, SumFunction
<1>5. Beside = {}
  BY DEF Init, Beside, Away, Idle
<1>6. Cardinality(Beside) = 0
  BY <1>5, FS_EmptySet
<1>7. Total = already
  BY <1>2, <1>3, <1>4 DEF Total, Budgets
<1>8. QED
  BY <1>2, <1>3, <1>6, <1>7, LimitsNat, TextsAssumption DEF CeilingsInv, Budgets

(* Texts set off by people who are not signed in stay within their budget    *)
(* and leave the reserve, for any number of requests at once; and with the   *)
(* texts that take no place before they go, the product's ceiling is passed  *)
(* by fewer texts than there are requests at work (outbound.ts).             *)
THEOREM CeilingsAreKept == Spec => []CeilingsKept
<1>1. Init => CeilingsInv
  BY CeilingsInit
<1>2. TypeInv /\ TypeInv' /\ CeilingsInv /\ [Next]_vars => CeilingsInv'
  BY CeilingsStep
<1>3. TypeInv /\ CeilingsInv => CeilingsKept
  <2>1. ASSUME TypeInv, CeilingsInv
        PROVE  CeilingsKept
    <3>1. \A budget \in Budgets : Spent(budget) \in 0 .. VisitorLimit
      BY <2>1, SpentNat, LimitsNat DEF CeilingsInv
    <3>2. Total \in Nat
      BY <2>1, SpentNats DEF Total
    <3>3. Total <= Ceiling + Cardinality(Workers) - 1
      BY <2>1, <3>2, BesideFinite, LimitsNat DEF CeilingsInv
    <3>4. QED
      BY <2>1, <3>1, <3>3 DEF CeilingsInv, CeilingsKept
  <2>2. QED
    BY <2>1
<1>4. QED
  BY <1>1, <1>2, <1>3, TypesKept, PTL DEF Spec
=============================================================================
