-------------------------- MODULE CoachWeek_proofs --------------------------
(* What holds of CoachWeek for every number of workers, times, weeks, rows   *)
(* and handlers, wherever a handler stops.                                   *)
EXTENDS CoachWeek, SequenceTheorems, FiniteSetTheorems, WellFoundedInduction, TLAPS

(* A reading that changes something, and every reading. *)
Writing(c) == c.intent \in {"session.add", "session.move", "session.cancel", "send"}

Readings ==
    {Unknown, [intent |-> "read"]}
    \cup [intent : {"session.cancel", "send"}, id : Nat]
    \cup [intent : {"session.add"}, start : Named]
    \cup [intent : {"session.move"}, id : Nat, start : Named]

(* The rows of each table, over n slots or n drafts. *)
Session(n) == [start : Starts, slot : 0..n, born : Starts,
               status : {"scheduled", "cancelled"}, left : BOOLEAN]
Slot(n)    == [pos : Positions, active : BOOLEAN, draft : 0..n]
Draft      == [plan : Plans, asks : BOOLEAN, at : 0..MaxNow,
               state : {"open", "published", "discarded"}]
Question   == [what : Readings, asked : 0..MaxNow, used : BOOLEAN,
               reasked : BOOLEAN, ended : BOOLEAN, runs : Nat]

Ops == {"idle", "consume", "reask", "drop", "route", "reply", "run", "add", "move",
        "countSetup", "judge", "count", "record", "recordSetup", "save", "retire", "unlink", "ask",
        "type", "newType", "skip", "slot", "offer", "newOffer", "newSlot", "fill", "sweep"}

Job == [op : Ops, at : 0..MaxNow, sms : BOOLEAN, id : Nat \cup Positions, yes : BOOLEAN,
        what : Readings, todo : SUBSET Positions, fill : SUBSET (Nat \X Weeks),
        draft : Nat, tick : BOOLEAN]

(* What a handler carries is there, among nq questions, nd drafts, ns slots. *)
Fits(j, nq, nd, ns) ==
    /\ j.op = "reply" => j.id \in 0..nq
    /\ j.op \in {"consume", "reask", "drop"} => j.id \in 1..nq
    /\ j.op = "newSlot" => j.id \in Positions
    /\ j.op \in {"retire", "unlink"} => j.what = Unknown \/ Writing(j.what)
    /\ j.op = "ask" => Writing(j.what)
    /\ j.op = "add" => j.what.intent = "session.add" /\ j.what.start \in Starts
    /\ j.op = "move" => j.what.intent = "session.move" /\ j.what.start \in Starts
    /\ j.draft \in 0..nd
    /\ \A f \in j.fill : f[1] \in 1..ns

RowsTyped ==
    /\ now \in 0..MaxNow /\ ops \in 0..MaxOps
    /\ session \in Seq(Session(Len(slot)))
    /\ slot \in Seq(Slot(Len(draft)))
    /\ types \in Nat /\ offers \in Nat
    /\ draft \in Seq(Draft)
    /\ question \in Seq(Question)
    /\ \A q \in 1..Len(question) : Writing(question[q].what)
    /\ shown \in 0..Len(question)

(* The handlers that have counted the day's calls and not yet written theirs. *)
Records(j) == j.op \in {"record", "recordSetup"}
Recording  == {k \in Workers : Records(job[k])}

(* Each of them counted fewer calls than the cap. *)
CallsInv ==
    /\ calls \in Nat
    /\ calls + Cardinality(Recording) <= CallCap + Cardinality(Workers) - 1

JobsTyped ==
    /\ job \in [Workers -> Job]
    /\ \A k \in Workers : Fits(job[k], Len(question), Len(draft), Len(slot))

TypeInv == RowsTyped /\ JobsTyped /\ CallsInv

----------------------------------------------------------------------------
LEMMA Lengths ==
    ASSUME RowsTyped
    PROVE  /\ Len(session) \in Nat /\ DOMAIN session = 1..Len(session)
           /\ \A i \in 1..Len(session) : session[i] \in Session(Len(slot))
           /\ Len(slot) \in Nat /\ DOMAIN slot = 1..Len(slot)
           /\ \A s \in 1..Len(slot) : slot[s] \in Slot(Len(draft))
           /\ Len(draft) \in Nat /\ DOMAIN draft = 1..Len(draft)
           /\ \A d \in 1..Len(draft) : draft[d] \in Draft
           /\ Len(question) \in Nat /\ DOMAIN question = 1..Len(question)
           /\ \A q \in 1..Len(question) : question[q] \in Question
BY DEF RowsTyped

LEMMA LengthsAfter ==
    ASSUME RowsTyped, RowsTyped'
    PROVE  /\ Len(question) \in Nat /\ Len(draft) \in Nat /\ Len(slot) \in Nat
           /\ Len(question') \in Nat /\ Len(draft') \in Nat /\ Len(slot') \in Nat
<1>1. /\ question \in Seq(Question) /\ draft \in Seq(Draft) /\ slot \in Seq(Slot(Len(draft)))
      /\ question' \in Seq(Question') /\ draft' \in Seq(Draft') /\ slot' \in Seq(Slot(Len(draft))')
  BY DEF RowsTyped
<1>2. QED
  BY <1>1, LenProperties

LEMMA SeqOf ==
    ASSUME NEW S, NEW n \in Nat, NEW s \in [1..n -> S]
    PROVE  s \in Seq(S) /\ Len(s) = n /\ DOMAIN s = 1..n
<1>1. s \in Seq(S)
  BY SeqDef
<1>2. QED
  BY <1>1, LenProperties

LEMMA IdleIsJob == Idle \in Job
<1>1. Unknown \in Readings
  BY DEF Readings
<1>2. 0 \in 0..MaxNow
  BY WeekAssumption
<1>3. 0 \in Nat \cup Positions /\ {} \in SUBSET Positions /\ {} \in SUBSET (Nat \X Weeks)
  OBVIOUS
<1>4. QED
  BY <1>1, <1>2, <1>3 DEF Idle, Job, Ops

LEMMA Keep ==
    ASSUME NEW j \in Job, NEW op \in Ops
    PROVE  [j EXCEPT !.op = op] \in Job /\ [j EXCEPT !.op = op].op = op
BY DEF Job

LEMMA KeepId ==
    ASSUME NEW j \in Job, NEW op \in Ops, NEW i \in Nat \cup Positions
    PROVE  [j EXCEPT !.op = op, !.id = i] \in Job
BY DEF Job

LEMMA IdleFits ==
    ASSUME NEW nq \in Nat, NEW nd \in Nat, NEW ns \in Nat
    PROVE  Fits(Idle, nq, nd, ns)
BY DEF Fits, Idle

(* What a handler carries stays there when rows are added. *)
LEMMA StillFits ==
    ASSUME NEW j, NEW nq \in Nat, NEW nd \in Nat, NEW ns \in Nat,
           NEW mq \in Nat, NEW md \in Nat, NEW ms \in Nat,
           nq <= mq, nd <= md, ns <= ms, Fits(j, nq, nd, ns)
    PROVE  Fits(j, mq, md, ms)
BY DEF Fits

(* Rows are only ever added. *)
Longer == Len(question) <= Len(question') /\ Len(draft) <= Len(draft') /\ Len(slot) <= Len(slot')

LEMMA WorkersCount == Cardinality(Workers) \in Nat \ {0}
<1>1. IsFiniteSet(Workers) /\ Workers # {}
  BY WeekAssumption
<1>2. QED
  BY <1>1, FS_CardinalityType, FS_EmptySet

(* A handler that is not about to record a call leaves the calls as they were. *)
LEMMA FewerRecord ==
    ASSUME CallsInv, calls' = calls, Recording' \subseteq Recording
    PROVE  CallsInv'
<1>1. IsFiniteSet(Recording)
  BY WeekAssumption, FS_Subset DEF Recording
<1>2. IsFiniteSet(Recording') /\ Cardinality(Recording') <= Cardinality(Recording)
  BY <1>1, FS_Subset
<1>3. Cardinality(Recording) \in Nat /\ Cardinality(Recording') \in Nat /\ Cardinality(Workers) \in Nat /\ CallCap \in Nat
  BY <1>1, <1>2, FS_CardinalityType, WorkersCount, WeekAssumption
<1>4. QED
  BY <1>2, <1>3 DEF CallsInv

(* What the other handlers carry is still there. *)
LEMMA JobsAfter ==
    ASSUME TypeInv, NEW k \in Workers, NEW j \in Job, job' = [job EXCEPT ![k] = j],
           RowsTyped', Longer, Fits(j, Len(question'), Len(draft'), Len(slot'))
    PROVE  /\ JobsTyped' /\ job' \in [Workers -> Job]
           /\ \A l \in Workers : job'[l] = IF l = k THEN j ELSE job[l]
<1>1. job' \in [Workers -> Job] /\ \A l \in Workers : job'[l] = IF l = k THEN j ELSE job[l]
  BY DEF TypeInv, JobsTyped
<1>2. /\ Len(question) \in Nat /\ Len(draft) \in Nat /\ Len(slot) \in Nat
      /\ Len(question') \in Nat /\ Len(draft') \in Nat /\ Len(slot') \in Nat
  BY LengthsAfter DEF TypeInv
<1>3. ASSUME NEW l \in Workers
      PROVE  Fits(job'[l], Len(question'), Len(draft'), Len(slot'))
  <2>1. CASE l = k
    BY <1>1, <2>1
  <2>2. CASE l # k
    <3>1. job'[l] = job[l] /\ Fits(job[l], Len(question), Len(draft), Len(slot))
      BY <1>1, <2>2 DEF TypeInv, JobsTyped
    <3>2. QED
      BY <1>2, <3>1, StillFits DEF Longer
  <2>3. QED
    BY <2>1, <2>2
<1>4. QED
  BY <1>1, <1>3 DEF JobsTyped

(* A step of one handler that records no call. *)
LEMMA OneStep ==
    ASSUME TypeInv, NEW k \in Workers, NEW j \in Job, job' = [job EXCEPT ![k] = j],
           RowsTyped', Longer, calls' = calls, ~Records(j),
           Fits(j, Len(question'), Len(draft'), Len(slot'))
    PROVE  TypeInv'
<1>1. /\ JobsTyped' /\ \A l \in Workers : job'[l] = IF l = k THEN j ELSE job[l]
  BY JobsAfter
<1>2. Recording' \subseteq Recording
  BY <1>1 DEF Recording
<1>3. CallsInv'
  BY <1>2, FewerRecord DEF TypeInv
<1>4. QED
  BY <1>1, <1>3 DEF TypeInv

(* A step that changes one job only, or nothing else that has rows. *)
LEMMA OneJob ==
    ASSUME TypeInv, NEW k \in Workers, NEW j \in Job, job' = [job EXCEPT ![k] = j],
           UNCHANGED <<now, rows>>, ops' \in 0..MaxOps, ~Records(j),
           Fits(j, Len(question), Len(draft), Len(slot))
    PROVE  TypeInv'
<1>1. RowsTyped' /\ Longer /\ calls' = calls
  BY DEF TypeInv, RowsTyped, rows, Longer, Session, Slot
<1>2. Fits(j, Len(question'), Len(draft'), Len(slot'))
  BY DEF rows
<1>3. QED
  BY <1>1, <1>2, OneStep

(* A handler that is over, or only has its answer to send. *)
LEMMA EndsIdle ==
    ASSUME TypeInv, NEW k \in Workers, job' = [job EXCEPT ![k] = Idle],
           RowsTyped', Longer, calls' = calls
    PROVE  TypeInv'
<1>1. Len(question') \in Nat /\ Len(draft') \in Nat /\ Len(slot') \in Nat
  BY LengthsAfter DEF TypeInv
<1>2. Fits(Idle, Len(question'), Len(draft'), Len(slot')) /\ ~Records(Idle)
  BY <1>1, IdleFits DEF Records, Idle
<1>3. QED
  BY <1>2, IdleIsJob, OneStep

LEMMA EndsAnswered ==
    ASSUME TypeInv, NEW k \in Workers, NEW q \in 0..Len(question'), Answered(k, q),
           RowsTyped', Longer, calls' = calls
    PROVE  TypeInv'
<1> DEFINE j == [Idle EXCEPT !.op = "reply", !.id = q]
<1>1. Len(question') \in Nat /\ Len(draft') \in Nat /\ Len(slot') \in Nat
  BY LengthsAfter DEF TypeInv
<1>2. j \in Job
  <2>1. q \in Nat \cup Positions /\ "reply" \in Ops
    BY <1>1 DEF Ops
  <2>2. QED
    BY <2>1, IdleIsJob, KeepId
<1>3. ~Records(j)
  BY DEF Records, Idle
<1>4. Fits(j, Len(question'), Len(draft'), Len(slot'))
  BY <1>1 DEF Fits, Idle
<1>5. job' = [job EXCEPT ![k] = j]
  BY DEF Answered, Go
<1>6. QED
  BY <1>2, <1>4, <1>5, <1>3, OneStep

LEMMA TypeInit == Init => TypeInv
<1> SUFFICES ASSUME Init PROVE TypeInv
  OBVIOUS
<1>1. /\ now \in 0..MaxNow /\ ops \in 0..MaxOps
      /\ types \in Nat /\ offers \in Nat
      /\ draft = <<>> /\ question = <<>> /\ session = <<>> /\ shown = 0
  BY WeekAssumption DEF Init
<1>2. slot \in Seq(Slot(0))
  <2>1. CASE slot = <<>>
    BY <2>1
  <2>2. CASE \E p \in UNION Weeklies : slot = <<[pos |-> p, active |-> TRUE, draft |-> 0]>>
    <3>1. PICK p \in UNION Weeklies : slot = <<[pos |-> p, active |-> TRUE, draft |-> 0]>>
      BY <2>2
    <3>2. p \in Positions
      BY WeekAssumption
    <3>3. [pos |-> p, active |-> TRUE, draft |-> 0] \in Slot(0)
      BY <3>2 DEF Slot
    <3>4. QED
      BY <3>1, <3>3
  <2>3. QED
    BY <2>1, <2>2 DEF Init
<1>3. RowsTyped
  BY <1>1, <1>2 DEF RowsTyped
<1>4. JobsTyped
  <2>1. job = [k \in Workers |-> Idle] /\ Len(question) \in Nat /\ Len(draft) \in Nat /\ Len(slot) \in Nat
    BY <1>3 DEF Init, RowsTyped
  <2>2. QED
    BY <2>1, IdleIsJob, IdleFits DEF JobsTyped
<1>5. CallsInv
  <2>1. Recording = {} /\ calls = 0
    BY DEF Init, Recording, Records, Idle
  <2>2. QED
    BY <2>1, FS_EmptySet, WorkersCount, WeekAssumption DEF CallsInv
<1>6. QED
  BY <1>3, <1>4, <1>5 DEF TypeInv

LEMMA TypeGives == TypeInv => TypeOK
<1> SUFFICES ASSUME TypeInv PROVE TypeOK
  OBVIOUS
<1>1. \A q \in DOMAIN question :
          question[q].what.intent \in {"session.add", "session.move", "session.cancel", "send"}
  BY Lengths DEF TypeInv, RowsTyped, Writing
<1>2. calls \in 0..CallCap + Cardinality(Workers) - 1
  <2>1. IsFiniteSet(Recording)
    BY WeekAssumption, FS_Subset DEF Recording
  <2>2. Cardinality(Recording) \in Nat /\ Cardinality(Workers) \in Nat /\ CallCap \in Nat
    BY <2>1, FS_CardinalityType, WorkersCount, WeekAssumption
  <2>3. QED
    BY <2>2 DEF TypeInv, CallsInv
<1>3. QED
  BY <1>1, <1>2 DEF TypeInv, RowsTyped, TypeOK, Session, Slot, Draft

----------------------------------------------------------------------------
LEMMA Smallest ==
    ASSUME NEW S, S \subseteq Nat, S # {}
    PROVE  \E n \in S : \A m \in S : n <= m
<1> DEFINE R == OpToRel(<, Nat)
<1>1. IsWellFoundedOn(R, Nat)
  BY NatLessThanWellFounded
<1> HIDE DEF R
<1>2. PICK x \in S : \A y \in S : ~(<<y, x>> \in R)
  BY <1>1, WFMin
<1>3. \A y \in S : y < x => <<y, x>> \in R
  BY DEF R, OpToRel
<1>4. \A y \in S : ~(y < x)
  BY <1>2, <1>3, Zenon
<1>5. QED
  BY <1>4

LEMMA Largest ==
    ASSUME NEW n \in Nat, NEW S, S \subseteq 1..n, S # {}
    PROVE  \E m \in S : \A r \in S : r <= m
<1> DEFINE T == {n - r : r \in S}
<1>1. T \subseteq Nat /\ T # {}
  <2>1. \A r \in S : n - r \in Nat
    OBVIOUS
  <2>2. PICK r \in S : TRUE
    OBVIOUS
  <2>3. n - r \in T
    BY <2>2
  <2>4. QED
    BY <2>1, <2>3
<1>2. PICK t \in T : \A u \in T : t <= u
  BY <1>1, Smallest
<1>3. PICK m \in S : t = n - m
  BY <1>2
<1>4. ASSUME NEW r \in S PROVE r <= m
  <2>1. n - r \in T
    BY <1>4
  <2>2. n - m <= n - r
    BY <1>2, <1>3, <2>1
  <2>3. QED
    BY <2>2, <1>4, <1>3
<1>5. QED
  BY <1>4

(* The question that is asked about, and the open draft, are there. *)
LEMMA LiveIsThere ==
    ASSUME RowsTyped, NEW at
    PROVE  GetLivePending(at) \in 0..Len(question)
<1> DEFINE live == {q \in DOMAIN question : Live(q, at)}
<1>1. live \subseteq 1..Len(question) /\ Len(question) \in Nat
  BY Lengths
<1>2. CASE live = {}
  BY <1>1, <1>2 DEF GetLivePending
<1>3. CASE live # {}
  <2> DEFINE q == CHOOSE m \in live : \A r \in live : r <= m
  <2>1. \E m \in live : \A r \in live : r <= m
    BY <1>1, <1>3, Largest
  <2>2. q \in live
    BY <2>1
  <2>3. GetLivePending(at) = q
    BY <1>3 DEF GetLivePending
  <2>4. QED
    BY <1>1, <2>2, <2>3
<1>4. QED
  BY <1>2, <1>3

LEMMA OpenIsThere ==
    ASSUME RowsTyped, NEW at
    PROVE  GetOpenDraft(at) \in 0..Len(draft)
<1>1. OpenDrafts(at) \subseteq 1..Len(draft) /\ Len(draft) \in Nat
  BY Lengths DEF OpenDrafts
<1>2. CASE OpenDrafts(at) = {}
  BY <1>1, <1>2 DEF GetOpenDraft
<1>3. CASE OpenDrafts(at) # {}
  <2> DEFINE d == CHOOSE m \in OpenDrafts(at) : \A r \in OpenDrafts(at) : r <= m
  <2>1. \E m \in OpenDrafts(at) : \A r \in OpenDrafts(at) : r <= m
    BY <1>1, <1>3, Largest
  <2>2. d \in OpenDrafts(at)
    BY <2>1
  <2>3. GetOpenDraft(at) = d
    BY <1>3 DEF GetOpenDraft
  <2>4. QED
    BY <1>1, <2>2, <2>3
<1>4. QED
  BY <1>2, <1>3

(* Work that carries no row of its own. *)
Plain == Ops \ {"reply", "consume", "reask", "drop", "newSlot", "retire", "unlink", "ask", "add", "move"}

LEMMA PlainFits ==
    ASSUME NEW j, NEW nq, NEW nd, NEW ns, j.op \in Plain, j.draft \in 0..nd, \A f \in j.fill : f[1] \in 1..ns
    PROVE  Fits(j, nq, nd, ns)
BY DEF Fits, Plain

LEMMA JobHere ==
    ASSUME TypeInv, NEW k \in Workers
    PROVE  /\ job[k] \in Job /\ Fits(job[k], Len(question), Len(draft), Len(slot))
           /\ Len(question) \in Nat /\ Len(draft) \in Nat /\ Len(slot) \in Nat
           /\ now \in 0..MaxNow
<1>1. RowsTyped
  BY DEF TypeInv
<1>2. QED
  BY <1>1, Lengths DEF TypeInv, JobsTyped, RowsTyped

LEMMA RoomTyped == RowsTyped /\ Room => ops' \in 0..MaxOps
BY WeekAssumption DEF RowsTyped, Room

LEMMA TypeMessage ==
    ASSUME TypeInv, NEW k \in Workers, NEW word \in {"yes", "no", "other"}, NEW sms \in BOOLEAN,
           Message(k, word, sms)
    PROVE  TypeInv'
<1>1. PICK q \in 0..Len(question) : q = GetLivePending(now)
  BY LiveIsThere DEF TypeInv
<1>2. PICK s \in BOOLEAN : s = (sms /\ word = "other")
  OBVIOUS
<1>3. PICK y \in BOOLEAN : y = (word = "yes")
  OBVIOUS
<1> DEFINE j == [Idle EXCEPT !.at = now, !.sms = s, !.id = q]
<1>4. j \in Job /\ j.draft = 0 /\ j.fill = {} /\ j.id = q
  <2>1. q \in Nat \cup Positions /\ now \in 0..MaxNow
    BY JobHere
  <2>2. j \in Job
    BY <2>1, IdleIsJob DEF Job
  <2>3. QED
    BY <2>2 DEF Idle
<1>5. UNCHANGED <<now, rows>> /\ ops' \in 0..MaxOps
  BY RoomTyped DEF Message, TypeInv
<1>6. \/ q # 0 /\ job' = [job EXCEPT ![k] = [j EXCEPT !.op = "consume", !.yes = y]]
      \/ q # 0 /\ job' = [job EXCEPT ![k] = [j EXCEPT !.op = "reask"]]
      \/ q # 0 /\ job' = [job EXCEPT ![k] = [j EXCEPT !.op = "drop"]]
      \/ job' = [job EXCEPT ![k] = [j EXCEPT !.op = "route"]]
  BY <1>1, <1>2, <1>3 DEF Message, Go
<1> HIDE DEF j
<1>7. ASSUME NEW i \in Job, i.op \in {"consume", "reask", "drop", "route"}, i.op # "route" => q # 0,
             i.draft = 0, i.fill = {}, i.id = q, job' = [job EXCEPT ![k] = i]
      PROVE  TypeInv'
  <2>1. Fits(i, Len(question), Len(draft), Len(slot))
    BY <1>7, JobHere DEF Fits
  <2>2. ~Records(i)
    BY <1>7 DEF Records
  <2>3. QED
    BY <2>1, <2>2, <1>7, <1>5, OneJob
<1>8. CASE q # 0 /\ job' = [job EXCEPT ![k] = [j EXCEPT !.op = "consume", !.yes = y]]
  <2> DEFINE i == [j EXCEPT !.op = "consume", !.yes = y]
  <2>1. i \in Job /\ i.op = "consume" /\ i.draft = 0 /\ i.fill = {} /\ i.id = q
    BY <1>4 DEF Job, Ops
  <2> HIDE DEF i
  <2>2. job' = [job EXCEPT ![k] = i]
    BY <1>8 DEF i
  <2>3. QED
    BY <2>1, <2>2, <1>7, <1>8
<1>9. ASSUME NEW op \in {"reask", "drop", "route"}, op # "route" => q # 0,
             job' = [job EXCEPT ![k] = [j EXCEPT !.op = op]]
      PROVE  TypeInv'
  <2> DEFINE i == [j EXCEPT !.op = op]
  <2>1. i \in Job /\ i.op = op /\ i.draft = 0 /\ i.fill = {} /\ i.id = q
    BY <1>4, <1>9 DEF Job, Ops
  <2> HIDE DEF i
  <2>2. job' = [job EXCEPT ![k] = i]
    BY <1>9 DEF i
  <2>3. QED
    BY <2>1, <2>2, <1>7, <1>9
<1>10. QED
  BY <1>6, <1>8, <1>9

LEMMA TypeConfirm ==
    ASSUME TypeInv, NEW k \in Workers, NEW q \in DOMAIN question, NEW yes \in BOOLEAN, Confirm(k, q, yes)
    PROVE  TypeInv'
<1>1. q \in 1..Len(question)
  BY Lengths DEF TypeInv
<1>2. UNCHANGED <<now, rows>> /\ ops' \in 0..MaxOps
  BY RoomTyped DEF Confirm, TypeInv
<1>3. PICK op \in {"consume", "reply"}, n \in {0, q} :
         /\ op = "consume" => n = q
         /\ job' = [job EXCEPT ![k] = [Idle EXCEPT !.op = op, !.at = now, !.yes = yes, !.id = n]]
  <2>1. CASE Live(q, now)
    BY <2>1 DEF Confirm, Go
  <2>2. CASE ~Live(q, now)
    BY <2>2 DEF Confirm, Go
  <2>3. QED
    BY <2>1, <2>2
<1> DEFINE j == [Idle EXCEPT !.op = op, !.at = now, !.yes = yes, !.id = n]
<1>4. j \in Job
  <2>1. n \in Nat \cup Positions /\ now \in 0..MaxNow /\ op \in Ops
    BY <1>1, JobHere DEF Ops
  <2>2. QED
    BY <2>1, IdleIsJob DEF Job
<1>5. j.op = op /\ j.draft = 0 /\ j.fill = {} /\ j.id = n
  BY DEF Idle
<1> HIDE DEF j
<1>6. Fits(j, Len(question), Len(draft), Len(slot)) /\ ~Records(j)
  BY <1>1, <1>3, <1>5, JobHere DEF Fits, Records
<1>7. job' = [job EXCEPT ![k] = j]
  BY <1>3 DEF j
<1>8. QED
  BY <1>2, <1>4, <1>6, <1>7, OneJob

LEMMA SameRows ==
    ASSUME TypeInv, UNCHANGED <<now, rows>>, ops' \in 0..MaxOps
    PROVE  RowsTyped' /\ Longer /\ calls' = calls
<1>1. Len(question) \in Nat /\ Len(draft) \in Nat /\ Len(slot) \in Nat
  BY Lengths DEF TypeInv
<1>2. QED
  BY <1>1 DEF TypeInv, RowsTyped, rows, Longer, Session, Slot

(* A step after which the handler carries no row of its own. *)
LEMMA PlainStep ==
    ASSUME TypeInv, NEW k \in Workers, NEW j \in Job, job' = [job EXCEPT ![k] = j],
           j.op \in Plain, ~Records(j),
           j.draft \in 0..Len(draft'), \A f \in j.fill : f[1] \in 1..Len(slot'),
           RowsTyped', Longer, calls' = calls
    PROVE  TypeInv'
BY PlainFits, OneStep

LEMMA StepOn ==
    ASSUME TypeInv, NEW k \in Workers, NEW op \in Plain \ {"record", "recordSetup"}, Step(k, op),
           RowsTyped', Longer, calls' = calls
    PROVE  TypeInv'
<1> DEFINE j == [job[k] EXCEPT !.op = op]
<1>1. j \in Job /\ j.op = op /\ j.draft = job[k].draft /\ j.fill = job[k].fill
  BY JobHere, Keep DEF Plain, Job
<1>2. /\ Fits(job[k], Len(question), Len(draft), Len(slot))
      /\ Len(draft) \in Nat /\ Len(slot) \in Nat /\ Len(draft') \in Nat /\ Len(slot') \in Nat
  BY JobHere, LengthsAfter DEF TypeInv
<1> HIDE DEF j
<1>3. j.draft \in 0..Len(draft') /\ \A f \in j.fill : f[1] \in 1..Len(slot')
  BY <1>1, <1>2 DEF Fits, Longer
<1>4. job' = [job EXCEPT ![k] = j]
  BY DEF Step, Go, j
<1>5. QED
  BY <1>1, <1>3, <1>4, PlainStep DEF Records

LEMMA QuestionRows ==
    ASSUME TypeInv, question' \in [1..Len(question) -> Question],
           \A q \in 1..Len(question) : question'[q].what = question[q].what,
           UNCHANGED <<now, session, slot, types, offers, draft, shown, ops>>
    PROVE  RowsTyped' /\ Longer /\ Len(question') = Len(question)
<1>1. /\ Len(question) \in Nat /\ Len(draft) \in Nat /\ Len(slot) \in Nat
  BY Lengths DEF TypeInv
<1>2. question' \in Seq(Question) /\ Len(question') = Len(question)
  BY <1>1, SeqOf
<1>3. QED
  BY <1>1, <1>2 DEF TypeInv, RowsTyped, Longer, Session, Slot, Question

LEMMA TypeReply ==
    ASSUME TypeInv, NEW k \in Workers, Reply(k)
    PROVE  TypeInv'
<1>1. job[k].id \in 0..Len(question) /\ Len(question) \in Nat /\ Len(draft) \in Nat /\ Len(slot) \in Nat
  BY JobHere DEF Fits, Reply
<1>2. RowsTyped' /\ Longer /\ calls' = calls
  BY <1>1 DEF Reply, TypeInv, RowsTyped, Longer, Session, Slot
<1>3. job' = [job EXCEPT ![k] = Idle]
  BY DEF Reply, Go
<1>4. QED
  BY <1>2, <1>3, EndsIdle

LEMMA TypeMarkReasked ==
    ASSUME TypeInv, NEW k \in Workers, MarkReasked(k)
    PROVE  TypeInv'
<1>1. PICK q \in 1..Len(question) : q = job[k].id
  BY JobHere DEF Fits, MarkReasked
<1>2. question' = [question EXCEPT ![q].reasked = TRUE]
  BY <1>1 DEF MarkReasked
<1>3. question \in [1..Len(question) -> Question]
  BY Lengths DEF TypeInv, RowsTyped
<1>4. /\ question' \in [1..Len(question) -> Question]
      /\ \A p \in 1..Len(question) : question'[p].what = question[p].what
  BY <1>2, <1>3 DEF Question
<1>5. RowsTyped' /\ Longer /\ Len(question') = Len(question)
  BY <1>4, QuestionRows DEF MarkReasked
<1>6. q \in 0..Len(question') /\ Answered(k, q)
  BY <1>1, <1>5 DEF MarkReasked
<1>7. QED
  BY <1>5, <1>6, EndsAnswered DEF MarkReasked

LEMMA TypeDropReasked ==
    ASSUME TypeInv, NEW k \in Workers, DropReasked(k)
    PROVE  TypeInv'
<1>1. PICK q \in 1..Len(question) : q = job[k].id
  BY JobHere DEF Fits, DropReasked
<1>2. question \in [1..Len(question) -> Question]
  BY Lengths DEF TypeInv, RowsTyped
<1>3. \/ question' = [question EXCEPT ![q].used = TRUE, ![q].ended = TRUE]
      \/ question' = question
  <2>1. CASE Consumable(q, job[k].at)
    BY <1>1, <1>2, <2>1 DEF DropReasked
  <2>2. CASE ~Consumable(q, job[k].at)
    BY <1>1, <1>2, <2>2 DEF DropReasked
  <2>3. QED
    BY <2>1, <2>2
<1>4. /\ question' \in [1..Len(question) -> Question]
      /\ \A p \in 1..Len(question) : question'[p].what = question[p].what
  <2> DEFINE r == [question[q] EXCEPT !.used = TRUE, !.ended = TRUE]
  <2>1. r \in Question /\ r.what = question[q].what
    BY <1>2 DEF Question
  <2>2. \/ question' = [question EXCEPT ![q] = r]
        \/ question' = question
    BY <1>2, <1>3
  <2> HIDE DEF r
  <2>3. QED
    BY <1>2, <2>1, <2>2
<1>5. RowsTyped' /\ Longer /\ calls' = calls
  BY <1>4, QuestionRows DEF DropReasked
<1> DEFINE j == [job[k] EXCEPT !.op = "route", !.id = 0]
<1>6. j \in Job /\ j.op = "route" /\ j.draft = job[k].draft /\ j.fill = job[k].fill
  <2>1. job[k] \in Job /\ "route" \in Ops /\ 0 \in Nat \cup Positions
    BY JobHere DEF Ops
  <2>2. j \in Job
    BY <2>1, KeepId
  <2>3. QED
    BY <2>1, <2>2 DEF Job
<1>7. /\ Fits(job[k], Len(question), Len(draft), Len(slot)) /\ draft' = draft /\ slot' = slot
      /\ job' = [job EXCEPT ![k] = j]
  BY JobHere DEF DropReasked, Go
<1> HIDE DEF j
<1>8. j.op \in Plain /\ ~Records(j) /\ j.draft \in 0..Len(draft') /\ \A f \in j.fill : f[1] \in 1..Len(slot')
  BY <1>6, <1>7 DEF Fits, Plain, Ops, Records
<1>9. QED
  BY <1>5, <1>6, <1>7, <1>8, PlainStep

LEMMA TypeConsume ==
    ASSUME TypeInv, NEW k \in Workers, Consume(k)
    PROVE  TypeInv'
<1>1. PICK q \in 1..Len(question) : q = job[k].id
  BY JobHere DEF Fits, Consume
<1>2. question \in [1..Len(question) -> Question] /\ job[k] \in Job /\ Len(question) \in Nat
  BY Lengths, JobHere DEF TypeInv, RowsTyped
<1>3. CASE ~Consumable(q, job[k].at)
  <2>1. UNCHANGED <<now, rows>> /\ ops' = ops /\ Answered(k, 0)
    BY <1>1, <1>3 DEF Consume, rows
  <2>2. RowsTyped' /\ Longer /\ calls' = calls
    BY <2>1, SameRows DEF TypeInv, RowsTyped
  <2>3. 0 \in 0..Len(question')
    BY <2>1, <1>2 DEF rows
  <2>4. QED
    BY <2>1, <2>2, <2>3, EndsAnswered
<1>4. CASE Consumable(q, job[k].at)
  <2>1. question' = [question EXCEPT ![q].used = TRUE,
                                     ![q].ended = @ \/ ~job[k].yes,
                                     ![q].runs = IF job[k].yes THEN @ + 1 ELSE @]
    BY <1>1, <1>4 DEF Consume
  <2>2. PICK e \in BOOLEAN, n \in Nat :
           question' = [question EXCEPT ![q] = [question[q] EXCEPT !.used = TRUE, !.ended = e, !.runs = n]]
    <3>1. question[q] \in Question
      BY <1>2
    <3>2. PICK e \in BOOLEAN : e = (question[q].ended \/ ~job[k].yes)
      OBVIOUS
    <3>3. PICK n \in Nat : n = IF job[k].yes THEN question[q].runs + 1 ELSE question[q].runs
      BY <3>1 DEF Question
    <3>4. question' = [question EXCEPT ![q] = [question[q] EXCEPT !.used = TRUE,
                                     !.ended = question[q].ended \/ ~job[k].yes,
                                     !.runs = IF job[k].yes THEN question[q].runs + 1 ELSE question[q].runs]]
      BY <2>1, <1>2
    <3>5. question' = [question EXCEPT ![q] = [question[q] EXCEPT !.used = TRUE, !.ended = e, !.runs = n]]
      BY <3>4, <3>2, <3>3
    <3>6. QED
      BY <3>5
  <2>3. [question[q] EXCEPT !.used = TRUE, !.ended = e, !.runs = n] \in Question
    BY <1>2 DEF Question
  <2>4. /\ question' \in [1..Len(question) -> Question]
        /\ \A p \in 1..Len(question) : question'[p].what = question[p].what
    BY <1>2, <2>2, <2>3 DEF Question
  <2>5. RowsTyped' /\ Longer /\ calls' = calls
    BY <2>4, QuestionRows DEF Consume
  <2>6. CASE job[k].yes
    <3> DEFINE j == [job[k] EXCEPT !.op = "run", !.what = question[q].what]
    <3>1. j \in Job /\ j.op = "run" /\ j.draft = job[k].draft /\ j.fill = job[k].fill
      BY <1>2 DEF Job, Ops, Question
    <3>2. /\ Fits(job[k], Len(question), Len(draft), Len(slot)) /\ draft' = draft /\ slot' = slot
          /\ job' = [job EXCEPT ![k] = j]
      BY <1>1, <1>4, <2>6, JobHere DEF Consume, Go
    <3> HIDE DEF j
    <3>3. j.op \in Plain /\ ~Records(j) /\ j.draft \in 0..Len(draft') /\ \A f \in j.fill : f[1] \in 1..Len(slot')
      BY <3>1, <3>2 DEF Fits, Plain, Ops, Records
    <3>4. QED
      BY <2>5, <3>1, <3>2, <3>3, PlainStep
  <2>7. CASE ~job[k].yes
    <3>1. Answered(k, 0)
      BY <1>1, <1>4, <2>7 DEF Consume
    <3>2. 0 \in 0..Len(question')
      BY <2>5, LengthsAfter DEF TypeInv
    <3>3. QED
      BY <2>5, <3>1, <3>2, EndsAnswered
  <2>8. QED
    BY <2>6, <2>7
<1>5. QED
  BY <1>3, <1>4

LEMMA SessionRows ==
    ASSUME TypeInv, NEW n \in Nat, session' \in [1..n -> Session(Len(slot))],
           UNCHANGED <<now, slot, types, offers, draft, question, shown, calls>>, ops' \in 0..MaxOps
    PROVE  RowsTyped' /\ Longer /\ calls' = calls
<1>1. Len(question) \in Nat /\ Len(draft) \in Nat /\ Len(slot) \in Nat
  BY Lengths DEF TypeInv
<1>2. session' \in Seq(Session(Len(slot)))
  BY SeqOf
<1>3. QED
  BY <1>1, <1>2 DEF TypeInv, RowsTyped, Longer, Session, Slot

LEMMA SessionIsTyped ==
    ASSUME RowsTyped
    PROVE  session \in [1..Len(session) -> Session(Len(slot))] /\ Len(session) \in Nat
BY Lengths DEF RowsTyped

LEMMA CancelledTyped ==
    ASSUME RowsTyped, NEW i \in Nat
    PROVE  Cancelled(i) \in [1..Len(session) -> Session(Len(slot))]
BY SessionIsTyped DEF Cancelled, Session

(* A session that is added, or a start that is moved to. *)
LEMMA NewStart ==
    ASSUME NEW c \in Readings, NEW at \in 0..MaxNow, NEW moving \in Nat,
           c.intent \in {"session.add", "session.move"}, ~StartProblem(c.start, at, moving)
    PROVE  c.start \in Starts
<1>1. c.start \in [week : Nat, pos : Positions]
  BY WeekAssumption DEF Readings, Unknown
<1>2. c.start.week <= at + Ahead
  <2>1. ~(c.start.week > at + Ahead)
    BY DEF StartProblem
  <2>2. c.start.week \in Nat /\ at \in Nat /\ Ahead \in Nat
    BY <1>1, WeekAssumption
  <2>3. QED
    BY <2>1, <2>2
<1>3. c.start.week \in Weeks
  BY <1>1, <1>2, WeekAssumption DEF Weeks
<1>4. QED
  BY <1>1, <1>3 DEF Starts

LEMMA TypeRun ==
    ASSUME TypeInv, NEW k \in Workers, Run(k)
    PROVE  TypeInv'
<1>1. job[k] \in Job /\ job[k].what \in Readings /\ job[k].at \in 0..MaxNow
      /\ Fits(job[k], Len(question), Len(draft), Len(slot))
  BY JobHere DEF Job
<1>2. UNCHANGED <<now, slot, types, offers, draft, question, shown, calls, ops>>
  BY DEF Run
<1>3. ops' \in 0..MaxOps /\ 0 \in 0..Len(question')
  BY <1>2, Lengths DEF TypeInv, RowsTyped
<1>4. PICK c \in Readings : c = job[k].what
  BY <1>1
<1>5. session' \in [1..Len(session) -> Session(Len(slot))]
  <2>1. CASE UNCHANGED session
    BY <2>1, SessionIsTyped DEF TypeInv
  <2>2. CASE c.intent = "session.cancel" /\ session' = Cancelled(c.id)
    <3>1. c.id \in Nat
      BY <2>2 DEF Readings, Unknown
    <3>2. QED
      BY <2>2, <3>1, CancelledTyped DEF TypeInv
  <2>3. QED
    BY <1>4, <2>1, <2>2 DEF Run
<1>6. RowsTyped' /\ Longer /\ calls' = calls
  BY <1>2, <1>3, <1>5, SessionRows, Lengths DEF TypeInv
<1>7. CASE Answered(k, 0)
  BY <1>3, <1>6, <1>7, EndsAnswered
<1>8. ASSUME NEW op \in {"add", "move"}, Step(k, op), c.start \in Starts,
             op = "add" => c.intent = "session.add", op = "move" => c.intent = "session.move"
      PROVE  TypeInv'
  <2> DEFINE j == [job[k] EXCEPT !.op = op]
  <2>1. j \in Job /\ j.op = op /\ j.draft = job[k].draft /\ j.fill = job[k].fill /\ j.what = c
    BY <1>1, <1>4 DEF Job, Ops
  <2>2. job' = [job EXCEPT ![k] = j]
    BY <1>8 DEF Step, Go
  <2> HIDE DEF j
  <2>3. Fits(j, Len(question'), Len(draft'), Len(slot')) /\ ~Records(j)
    BY <1>1, <1>2, <1>8, <2>1 DEF Fits, Records
  <2>4. QED
    BY <1>6, <2>1, <2>2, <2>3, OneStep
<1>9. CASE c.intent = "session.add" /\ ~StartProblem(c.start, job[k].at, 0) /\ Step(k, "add")
  <2>1. c.start \in Starts
    <3>1. PICK at \in 0..MaxNow : at = job[k].at
      BY <1>1
    <3>2. 0 \in Nat /\ ~StartProblem(c.start, at, 0)
      BY <1>9, <3>1
    <3>3. QED
      BY <1>9, <3>2, NewStart
  <2>2. QED
    BY <1>9, <2>1, <1>8
<1>10. CASE c.intent = "session.move" /\ ~StartProblem(c.start, job[k].at, c.id) /\ Step(k, "move")
  <2>1. c.start \in Starts
    <3>1. PICK at \in 0..MaxNow : at = job[k].at
      BY <1>1
    <3>2. c.id \in Nat
      BY <1>10 DEF Readings, Unknown
    <3>3. ~StartProblem(c.start, at, c.id)
      BY <1>10, <3>1
    <3>4. QED
      BY <1>10, <3>2, <3>3, NewStart
  <2>2. QED
    BY <1>10, <2>1, <1>8
<1>11. QED
  BY <1>4, <1>7, <1>9, <1>10 DEF Run

LEMMA AppendTyped ==
    ASSUME NEW S, NEW s \in Seq(S), NEW e \in S
    PROVE  Append(s, e) \in [1..(Len(s) + 1) -> S] /\ Len(s) + 1 \in Nat
<1>1. Append(s, e) \in Seq(S) /\ Len(Append(s, e)) = Len(s) + 1 /\ Len(s) \in Nat
  BY AppendProperties
<1>2. PICK t \in Seq(S) : t = Append(s, e) /\ Len(t) = Len(s) + 1
  BY <1>1
<1>3. t \in [1..Len(t) -> S]
  BY LenProperties
<1>4. QED
  BY <1>1, <1>2, <1>3

LEMMA ScheduledTyped ==
    ASSUME NEW start \in Starts, NEW n \in Nat, NEW s \in 0..n
    PROVE  Scheduled(start, s) \in Session(n)
BY DEF Scheduled, Session

LEMMA TypeAdd ==
    ASSUME TypeInv, NEW k \in Workers, Add(k)
    PROVE  TypeInv'
<1>1. job[k].what.start \in Starts /\ Len(slot) \in Nat /\ session \in Seq(Session(Len(slot)))
  BY JobHere DEF Fits, Add, TypeInv, RowsTyped
<1>2. Scheduled(job[k].what.start, 0) \in Session(Len(slot))
  BY <1>1, ScheduledTyped
<1>3. session' \in [1..(Len(session) + 1) -> Session(Len(slot))] /\ Len(session) + 1 \in Nat
  BY <1>1, <1>2, AppendTyped DEF Add
<1>4. UNCHANGED <<now, slot, types, offers, draft, question, shown, calls>> /\ ops' \in 0..MaxOps
  BY DEF Add, TypeInv, RowsTyped
<1>5. RowsTyped' /\ Longer /\ calls' = calls
  BY <1>3, <1>4, SessionRows
<1>6. 0 \in 0..Len(question') /\ Answered(k, 0)
  BY <1>5, LengthsAfter DEF TypeInv, Add
<1>7. QED
  BY <1>5, <1>6, EndsAnswered

LEMMA TypeMove ==
    ASSUME TypeInv, NEW k \in Workers, Move(k)
    PROVE  TypeInv'
<1> DEFINE i == job[k].what.id
<1>1. PICK start \in Starts : start = job[k].what.start
  BY JobHere DEF Fits, Move
<1> HIDE DEF i
<1>2. UNCHANGED <<now, slot, types, offers, draft, question, shown, calls>> /\ ops' \in 0..MaxOps
  BY DEF Move, TypeInv, RowsTyped
<1>3. CASE Go(k, Idle) /\ UNCHANGED session
  <2>1. RowsTyped' /\ Longer /\ calls' = calls
    BY <1>2, <1>3, SessionRows, SessionIsTyped DEF TypeInv
  <2>2. QED
    BY <1>3, <2>1, EndsIdle DEF Go
<1>4. CASE /\ session' = [session EXCEPT ![i].start = start,
                                        ![i].left = @ \/ ~SameDay(start, session[i].born)]
           /\ Answered(k, 0)
  <2>1. session' \in [1..Len(session) -> Session(Len(slot))]
    <3>1. CASE i \in 1..Len(session)
      <4>1. PICK l \in BOOLEAN : l = (session[i].left \/ ~SameDay(start, session[i].born))
        OBVIOUS
      <4>2. session' = [session EXCEPT ![i] = [session[i] EXCEPT !.start = start,
                                 !.left = session[i].left \/ ~SameDay(start, session[i].born)]]
        BY <1>4, <3>1, SessionIsTyped DEF TypeInv
      <4>3. session' = [session EXCEPT ![i] = [session[i] EXCEPT !.start = start, !.left = l]]
        BY <4>1, <4>2
      <4>4. [session[i] EXCEPT !.start = start, !.left = l] \in Session(Len(slot))
        BY <3>1, SessionIsTyped DEF Session, TypeInv
      <4>5. QED
        BY <3>1, <4>3, <4>4, SessionIsTyped DEF TypeInv
    <3>2. CASE i \notin 1..Len(session)
      BY <1>4, <3>2, SessionIsTyped DEF TypeInv
    <3>3. QED
      BY <3>1, <3>2
  <2>2. RowsTyped' /\ Longer /\ calls' = calls
    BY <1>2, <2>1, SessionRows, SessionIsTyped DEF TypeInv
  <2>3. 0 \in 0..Len(question')
    BY <2>2, LengthsAfter DEF TypeInv
  <2>4. QED
    BY <1>4, <2>2, <2>3, EndsAnswered
<1>5. QED
  BY <1>1, <1>3, <1>4 DEF Move, i

LEMMA WhatIsRead ==
    ASSUME RowsTyped, NEW at, NEW c \in ModelReadings(Upcoming(at)) \cup PatternReadings(Upcoming(at))
    PROVE  c \in Readings
<1>1. Upcoming(at) \subseteq Nat
  BY Lengths DEF Upcoming
<1>2. CASE c \in PatternReadings(Upcoming(at))
  BY <1>1, <1>2 DEF PatternReadings, Readings
<1>3. CASE c \in {[intent |-> "session.add", start |-> t] : t \in Named}
  BY <1>3 DEF Readings
<1>4. CASE c \in {[intent |-> "session.move", id |-> i, start |-> t] : i \in Upcoming(at), t \in Named}
  BY <1>1, <1>4 DEF Readings
<1>5. CASE c \in {[intent |-> "send", id |-> i] : i \in Upcoming(at)}
  BY <1>1, <1>5 DEF Readings
<1>6. QED
  BY <1>2, <1>3, <1>4, <1>5 DEF ModelReadings

LEMMA TypeRoute ==
    ASSUME TypeInv, NEW k \in Workers, Route(k)
    PROVE  TypeInv'
<1>1. /\ job[k] \in Job /\ Fits(job[k], Len(question), Len(draft), Len(slot))
      /\ UNCHANGED <<now, rows>> /\ ops' \in 0..MaxOps
  BY JobHere DEF Route, TypeInv, RowsTyped
<1>2. RowsTyped' /\ Longer /\ calls' = calls /\ draft' = draft /\ slot' = slot
  BY <1>1, SameRows DEF rows
<1>3. CASE job' = [job EXCEPT ![k] = [job[k] EXCEPT !.op = "countSetup", !.draft = GetOpenDraft(job[k].at)]]
  <2>1. PICK d \in 0..Len(draft) : d = GetOpenDraft(job[k].at)
    BY OpenIsThere DEF TypeInv
  <2> DEFINE j == [job[k] EXCEPT !.op = "countSetup", !.draft = d]
  <2>2. d \in Nat
    BY Lengths DEF TypeInv
  <2>3. j \in Job /\ j.op = "countSetup" /\ j.draft = d /\ j.fill = job[k].fill
    BY <1>1, <2>2 DEF Job, Ops
  <2>4. job' = [job EXCEPT ![k] = j]
    BY <1>3, <2>1
  <2> HIDE DEF j
  <2>5. j.op \in Plain /\ ~Records(j) /\ j.draft \in 0..Len(draft') /\ \A f \in j.fill : f[1] \in 1..Len(slot')
    BY <1>1, <1>2, <2>3 DEF Fits, Plain, Ops, Records
  <2>6. QED
    BY <1>2, <2>3, <2>4, <2>5, PlainStep
<1>4. ASSUME NEW c \in Readings, NEW op \in {"judge", "count"},
             job' = [job EXCEPT ![k] = [job[k] EXCEPT !.op = op, !.what = c]]
      PROVE  TypeInv'
  <2> DEFINE j == [job[k] EXCEPT !.op = op, !.what = c]
  <2>1. j \in Job /\ j.op = op /\ j.draft = job[k].draft /\ j.fill = job[k].fill
    BY <1>1 DEF Job, Ops
  <2>2. job' = [job EXCEPT ![k] = j]
    BY <1>4
  <2> HIDE DEF j
  <2>3. j.op \in Plain /\ ~Records(j) /\ j.draft \in 0..Len(draft') /\ \A f \in j.fill : f[1] \in 1..Len(slot')
    BY <1>1, <1>2, <2>1 DEF Fits, Plain, Ops, Records
  <2>4. QED
    BY <1>2, <2>1, <2>2, <2>3, PlainStep
<1>5. \/ job' = [job EXCEPT ![k] = [job[k] EXCEPT !.op = "countSetup", !.draft = GetOpenDraft(job[k].at)]]
      \/ \E c \in PatternReadings(Upcoming(job[k].at)) :
            job' = [job EXCEPT ![k] = [job[k] EXCEPT !.op = "judge", !.what = c]]
      \/ \E c \in ModelReadings(Upcoming(job[k].at)) :
            job' = [job EXCEPT ![k] = [job[k] EXCEPT !.op = "count", !.what = c]]
  BY Zenon DEF Route, Go
<1>6. QED
  BY <1>3, <1>4, <1>5, WhatIsRead DEF TypeInv

LEMMA RecordingCount ==
    ASSUME TypeInv
    PROVE  /\ IsFiniteSet(Recording) /\ Cardinality(Recording) \in Nat
           /\ Cardinality(Recording) <= Cardinality(Workers)
           /\ Cardinality(Workers) \in Nat /\ CallCap \in Nat /\ calls \in Nat
<1>1. IsFiniteSet(Recording) /\ Cardinality(Recording) <= Cardinality(Workers)
  BY WeekAssumption, FS_Subset DEF Recording
<1>2. QED
  BY <1>1, FS_CardinalityType, WorkersCount, WeekAssumption DEF TypeInv, CallsInv

(* A handler that counted the calls counted fewer than the cap; with it, at  *)
(* most every worker is about to record one.                                 *)
LEMMA TypeCountCalls ==
    ASSUME TypeInv, NEW k \in Workers, CountCalls(k)
    PROVE  TypeInv'
<1>1. /\ job[k] \in Job /\ Fits(job[k], Len(question), Len(draft), Len(slot))
      /\ UNCHANGED <<now, rows>> /\ ops' \in 0..MaxOps
  BY JobHere DEF CountCalls, TypeInv, RowsTyped
<1>2. RowsTyped' /\ Longer /\ calls' = calls /\ draft' = draft /\ slot' = slot /\ question' = question
  BY <1>1, SameRows DEF rows
<1>3. ASSUME NEW op \in {"record", "recordSetup"}, calls < CallCap, Step(k, op)
      PROVE  TypeInv'
  <2> DEFINE j == [job[k] EXCEPT !.op = op]
  <2>1. j \in Job /\ j.op = op /\ j.draft = job[k].draft /\ j.fill = job[k].fill
    BY <1>1 DEF Job, Ops
  <2>2. job' = [job EXCEPT ![k] = j]
    BY <1>3 DEF Step, Go
  <2> HIDE DEF j
  <2>3. Fits(j, Len(question'), Len(draft'), Len(slot'))
    BY <1>1, <1>2, <2>1 DEF Fits
  <2>4. JobsTyped'
    BY <1>2, <2>1, <2>2, <2>3, JobsAfter
  <2>5. CallsInv'
    <3>1. Recording' \subseteq Workers
      BY DEF Recording
    <3>2. IsFiniteSet(Recording') /\ Cardinality(Recording') <= Cardinality(Workers)
      BY <3>1, WeekAssumption, FS_Subset
    <3>3. Cardinality(Recording') \in Nat
      BY <3>2, FS_CardinalityType
    <3>4. calls \in Nat /\ CallCap \in Nat /\ Cardinality(Workers) \in Nat
      BY RecordingCount
    <3>5. QED
      BY <1>2, <1>3, <3>2, <3>3, <3>4 DEF CallsInv
  <2>6. QED
    BY <1>2, <2>4, <2>5 DEF TypeInv
<1>4. CASE Answered(k, 0)
  <2>1. 0 \in 0..Len(question')
    BY <1>2, LengthsAfter DEF TypeInv
  <2>2. QED
    BY <1>2, <1>4, <2>1, EndsAnswered
<1>5. CASE Go(k, Idle)
  BY <1>2, <1>5, EndsIdle DEF Go
<1>6. QED
  BY <1>3, <1>4, <1>5 DEF CountCalls, CallsLeft

(* The call is written down, and the handler is no longer about to.          *)
LEMMA TypeRecordCall ==
    ASSUME TypeInv, NEW k \in Workers, RecordCall(k)
    PROVE  TypeInv'
<1>1. /\ job[k] \in Job /\ Fits(job[k], Len(question), Len(draft), Len(slot))
      /\ Len(question) \in Nat /\ Len(draft) \in Nat /\ Len(slot) \in Nat
      /\ UNCHANGED <<now, session, slot, types, offers, draft, question, shown, ops>>
      /\ calls' = calls + 1 /\ Records(job[k])
  BY JobHere DEF RecordCall, Records
<1>2. RowsTyped' /\ Longer
  BY <1>1 DEF TypeInv, RowsTyped, Longer, Session, Slot
<1>3. ASSUME NEW j \in Job, job' = [job EXCEPT ![k] = j], ~Records(j),
             Fits(j, Len(question), Len(draft), Len(slot))
      PROVE  TypeInv'
  <2>1. /\ JobsTyped' /\ job' \in [Workers -> Job]
        /\ \A l \in Workers : job'[l] = IF l = k THEN j ELSE job[l]
    BY <1>1, <1>2, <1>3, JobsAfter
  <2>2. Recording' = Recording \ {k} /\ k \in Recording
    BY <1>1, <1>3, <2>1 DEF Recording
  <2>3. Cardinality(Recording') = Cardinality(Recording) - 1 /\ Cardinality(Recording) \in Nat
    BY <2>2, RecordingCount, FS_RemoveElement
  <2>4. Cardinality(Recording') \in Nat
    BY <2>2, RecordingCount, FS_RemoveElement, FS_CardinalityType
  <2>5. CallsInv'
    BY <1>1, <2>3, <2>4, RecordingCount DEF CallsInv, TypeInv
  <2>6. QED
    BY <1>2, <2>1, <2>5 DEF TypeInv
<1>4. ASSUME NEW op \in {"judge", "save"}, Step(k, op)
      PROVE  TypeInv'
  <2> DEFINE j == [job[k] EXCEPT !.op = op]
  <2>1. j \in Job /\ j.op = op /\ j.draft = job[k].draft /\ j.fill = job[k].fill
    BY <1>1 DEF Job, Ops
  <2>2. job' = [job EXCEPT ![k] = j]
    BY <1>4 DEF Step, Go
  <2> HIDE DEF j
  <2>3. Fits(j, Len(question), Len(draft), Len(slot)) /\ ~Records(j)
    BY <1>1, <2>1 DEF Fits, Records
  <2>4. QED
    BY <2>1, <2>2, <2>3, <1>3
<1>5. CASE Answered(k, 0)
  <2> DEFINE j == [Idle EXCEPT !.op = "reply", !.id = 0]
  <2>1. j \in Job
    <3>1. "reply" \in Ops /\ 0 \in Nat \cup Positions
      BY DEF Ops
    <3>2. QED
      BY <3>1, IdleIsJob, KeepId
  <2>2. Fits(j, Len(question), Len(draft), Len(slot)) /\ ~Records(j)
    BY <1>1 DEF Fits, Idle, Records
  <2>3. job' = [job EXCEPT ![k] = j]
    BY <1>5 DEF Answered, Go
  <2>4. QED
    BY <2>1, <2>2, <2>3, <1>3
<1>6. CASE Go(k, Idle)
  <2>1. ~Records(Idle)
    BY DEF Records, Idle
  <2>2. QED
    BY <1>1, <1>6, <2>1, IdleIsJob, IdleFits, <1>3 DEF Go
<1>7. QED
  BY <1>4, <1>5, <1>6 DEF RecordCall

(* A reading that is put to the coach changes something. *)
LEMMA TypeJudge ==
    ASSUME TypeInv, NEW k \in Workers, Judge(k)
    PROVE  TypeInv'
<1>1. /\ job[k] \in Job /\ Fits(job[k], Len(question), Len(draft), Len(slot))
      /\ UNCHANGED <<now, rows>> /\ ops' \in 0..MaxOps
  BY JobHere DEF Judge, TypeInv, RowsTyped
<1>2. RowsTyped' /\ Longer /\ calls' = calls /\ draft' = draft /\ slot' = slot /\ question' = question
  BY <1>1, SameRows DEF rows
<1>3. CASE Answered(k, 0)
  <2>1. 0 \in 0..Len(question')
    BY <1>2, LengthsAfter DEF TypeInv
  <2>2. QED
    BY <1>2, <1>3, <2>1, EndsAnswered
<1>4. CASE ~Refused(job[k].what, job[k].at) /\ Step(k, "retire")
  <2>1. PICK c \in Readings : c = job[k].what
    BY <1>1 DEF Job
  <2>2. c.intent \notin {"unknown", "read"}
    BY <1>4, <2>1 DEF Refused
  <2>3. Writing(c)
    BY <2>2 DEF Writing, Readings, Unknown
  <2> DEFINE j == [job[k] EXCEPT !.op = "retire"]
  <2>4. j \in Job /\ j.op = "retire" /\ j.draft = job[k].draft /\ j.fill = job[k].fill /\ j.what = c
    BY <1>1, <2>1 DEF Job, Ops
  <2>5. job' = [job EXCEPT ![k] = j]
    BY <1>4 DEF Step, Go
  <2> HIDE DEF j
  <2>6. Fits(j, Len(question'), Len(draft'), Len(slot')) /\ ~Records(j)
    BY <1>1, <1>2, <2>3, <2>4 DEF Fits, Records
  <2>7. QED
    BY <1>2, <2>4, <2>5, <2>6, OneStep
<1>5. QED
  BY <1>3, <1>4 DEF Judge

LEMMA TypeRetire ==
    ASSUME TypeInv, NEW k \in Workers, Retire(k)
    PROVE  TypeInv'
<1>1. /\ job[k] \in Job /\ Fits(job[k], Len(question), Len(draft), Len(slot))
      /\ draft' = draft /\ slot' = slot
  BY JobHere DEF Retire
<1>2. PICK at : at = job[k].at
  OBVIOUS
<1>3. question \in [1..Len(question) -> Question]
  BY Lengths DEF TypeInv, RowsTyped
<1>4. question' = [q \in 1..Len(question) |->
                      IF Live(q, at) THEN [question[q] EXCEPT !.used = TRUE, !.ended = TRUE] ELSE question[q]]
  BY <1>2, <1>3 DEF Retire, RetiredAt
<1>5. \A q \in 1..Len(question) : /\ [question[q] EXCEPT !.used = TRUE, !.ended = TRUE] \in Question
                                  /\ [question[q] EXCEPT !.used = TRUE, !.ended = TRUE].what = question[q].what
  BY <1>3 DEF Question
<1>6. /\ question' \in [1..Len(question) -> Question]
      /\ \A q \in 1..Len(question) : question'[q].what = question[q].what
  BY <1>3, <1>4, <1>5
<1>7. RowsTyped' /\ Longer /\ Len(question') = Len(question) /\ calls' = calls
  BY <1>6, QuestionRows DEF Retire
<1> DEFINE j == [job[k] EXCEPT !.op = "unlink"]
<1>8. j \in Job /\ j.op = "unlink" /\ j.draft = job[k].draft /\ j.fill = job[k].fill /\ j.what = job[k].what
  BY <1>1 DEF Job, Ops
<1>9. job' = [job EXCEPT ![k] = j] /\ job[k].op = "retire"
  BY DEF Retire, Step, Go
<1> HIDE DEF j
<1>10. Fits(j, Len(question'), Len(draft'), Len(slot')) /\ ~Records(j)
  BY <1>1, <1>8, <1>9 DEF Fits, Records
<1>11. QED
  BY <1>7, <1>8, <1>9, <1>10, OneStep

LEMMA TypeUnlink ==
    ASSUME TypeInv, NEW k \in Workers, Unlink(k)
    PROVE  TypeInv'
<1>1. /\ job[k] \in Job /\ Fits(job[k], Len(question), Len(draft), Len(slot))
      /\ Len(question) \in Nat /\ Len(draft) \in Nat /\ Len(slot) \in Nat
      /\ UNCHANGED <<now, session, slot, types, offers, draft, question, calls, ops>> /\ shown' = 0
      /\ job[k].op = "unlink"
  BY JobHere DEF Unlink
<1>2. RowsTyped' /\ Longer /\ calls' = calls
  BY <1>1 DEF TypeInv, RowsTyped, Longer, Session, Slot
<1>3. CASE job[k].what = Unknown
  BY <1>2, <1>3, EndsIdle DEF Unlink, Go
<1>4. CASE job[k].what # Unknown
  <2> DEFINE j == [job[k] EXCEPT !.op = "ask"]
  <2>1. j \in Job /\ j.op = "ask" /\ j.draft = job[k].draft /\ j.fill = job[k].fill /\ j.what = job[k].what
    BY <1>1 DEF Job, Ops
  <2>2. job' = [job EXCEPT ![k] = j]
    BY <1>4 DEF Unlink, Step, Go
  <2> HIDE DEF j
  <2>3. Fits(j, Len(question'), Len(draft'), Len(slot')) /\ ~Records(j)
    BY <1>1, <1>4, <2>1 DEF Fits, Records
  <2>4. QED
    BY <1>2, <2>1, <2>2, <2>3, OneStep
<1>5. QED
  BY <1>3, <1>4

LEMMA TypeAsk ==
    ASSUME TypeInv, NEW k \in Workers, Ask(k)
    PROVE  TypeInv'
<1> DEFINE row == [what |-> job[k].what, asked |-> job[k].at, used |-> FALSE,
                   reasked |-> FALSE, ended |-> FALSE, runs |-> 0]
<1>1. /\ job[k] \in Job /\ Writing(job[k].what)
      /\ Len(question) \in Nat /\ Len(draft) \in Nat /\ Len(slot) \in Nat
  BY JobHere DEF Ask, Fits
<1>2. row \in Question /\ Writing(row.what)
  BY <1>1 DEF Job, Question
<1>3. question' = Append(question, row) /\ question \in Seq(Question)
  BY DEF Ask, TypeInv, RowsTyped
<1> HIDE DEF row
<1>4. /\ question' \in Seq(Question) /\ Len(question') = Len(question) + 1
      /\ \A q \in 1..Len(question) : question'[q] = question[q]
      /\ question'[Len(question) + 1] = row
  BY <1>2, <1>3, AppendProperties
<1>5. \A q \in 1..Len(question') : Writing(question'[q].what)
  <2>1. \A q \in 1..Len(question) : Writing(question[q].what)
    BY DEF TypeInv, RowsTyped
  <2>2. \A q \in 1..Len(question') : q \in 1..Len(question) \/ q = Len(question) + 1
    BY <1>1, <1>4
  <2>3. QED
    BY <1>2, <1>4, <2>1, <2>2
<1>6. RowsTyped' /\ Longer /\ calls' = calls
  BY <1>1, <1>4, <1>5 DEF Ask, TypeInv, RowsTyped, Longer, Session, Slot, Question
<1>7. Answered(k, Len(question) + 1) /\ Len(question) + 1 \in 0..Len(question')
  BY <1>1, <1>4 DEF Ask
<1>8. QED
  BY <1>6, <1>7, EndsAnswered

----------------------------------------------------------------------------
(* Handlers that begin with nothing in hand. *)
LEMMA Begins ==
    ASSUME TypeInv, NEW k \in Workers, NEW j \in Job, Go(k, j),
           j.op \in {"type", "slot", "fill", "sweep", "countSetup", "retire"}, j.what = Unknown,
           j.draft \in 0..Len(draft'), \A f \in j.fill : f[1] \in 1..Len(slot'),
           RowsTyped', Longer, calls' = calls
    PROVE  TypeInv'
<1>1. Fits(j, Len(question'), Len(draft'), Len(slot')) /\ ~Records(j)
  BY DEF Fits, Records
<1>2. job' = [job EXCEPT ![k] = j]
  BY DEF Go
<1>3. QED
  BY <1>1, <1>2, OneStep

LEMMA TypeAskOverflow ==
    ASSUME TypeInv, NEW k \in Workers, AskOverflow(k)
    PROVE  TypeInv'
<1>1. UNCHANGED <<now, rows>> /\ ops' \in 0..MaxOps
  BY RoomTyped DEF AskOverflow, TypeInv
<1>2. RowsTyped' /\ Longer /\ calls' = calls
  BY <1>1, SameRows
<1> DEFINE j == [Idle EXCEPT !.op = "retire", !.at = now]
<1>3. j \in Job
  BY JobHere, IdleIsJob DEF Job, Ops
<1>4. j.op = "retire" /\ j.what = Unknown /\ j.draft = 0 /\ j.fill = {} /\ 0 \in 0..Len(draft')
  BY <1>2, LengthsAfter DEF TypeInv, Idle
<1>5. Go(k, j)
  BY DEF AskOverflow
<1> HIDE DEF j
<1>6. QED
  BY <1>2, <1>3, <1>4, <1>5, Begins

LEMMA TypeSetupMessage ==
    ASSUME TypeInv, NEW k \in Workers, SetupMessage(k)
    PROVE  TypeInv'
<1>1. UNCHANGED <<now, rows>> /\ ops' \in 0..MaxOps
  BY RoomTyped DEF SetupMessage, TypeInv
<1>2. RowsTyped' /\ Longer /\ calls' = calls /\ draft' = draft
  BY <1>1, SameRows DEF rows
<1>3. PICK d \in 0..Len(draft) : d = GetOpenDraft(now)
  BY OpenIsThere DEF TypeInv
<1> DEFINE j == [Idle EXCEPT !.op = "countSetup", !.at = now, !.draft = d]
<1>4. j \in Job
  <2>1. d \in Nat /\ now \in 0..MaxNow
    BY JobHere
  <2>2. QED
    BY <2>1, IdleIsJob DEF Job, Ops
<1>5. j.op = "countSetup" /\ j.what = Unknown /\ j.draft = d /\ j.fill = {} /\ d \in 0..Len(draft')
  BY <1>2 DEF Idle
<1>6. Go(k, j)
  BY <1>3 DEF SetupMessage
<1> HIDE DEF j
<1>7. QED
  BY <1>2, <1>4, <1>5, <1>6, Begins

LEMMA DraftRows ==
    ASSUME TypeInv, NEW n \in Nat, draft' \in [1..n -> Draft], Len(draft) <= n,
           UNCHANGED <<now, session, slot, types, offers, question, shown, calls>>, ops' \in 0..MaxOps
    PROVE  RowsTyped' /\ Longer /\ calls' = calls /\ Len(draft') = n
<1>1. Len(question) \in Nat /\ Len(draft) \in Nat /\ Len(slot) \in Nat
  BY Lengths DEF TypeInv
<1>2. draft' \in Seq(Draft) /\ Len(draft') = n
  BY SeqOf
<1>3. Slot(Len(draft)) \subseteq Slot(n)
  BY <1>1 DEF Slot
<1>4. slot \in [1..Len(slot) -> Slot(n)]
  BY <1>3, Lengths DEF TypeInv, RowsTyped
<1>5. slot \in Seq(Slot(n))
  BY <1>1, <1>4, SeqOf
<1>6. Session(Len(slot))' = Session(Len(slot)) /\ Slot(Len(draft))' = Slot(n) /\ Draft' = Draft /\ Question' = Question
  BY <1>2 DEF Session, Slot, Draft, Question
<1>7. QED
  BY <1>1, <1>2, <1>5, <1>6 DEF TypeInv, RowsTyped, Longer

LEMMA TypeSaveDraft ==
    ASSUME TypeInv, NEW k \in Workers, NEW plan \in Plans, SaveDraft(k, plan)
    PROVE  TypeInv'
<1>1. /\ job[k] \in Job /\ job[k].draft \in 0..Len(draft) /\ job[k].at \in 0..MaxNow
      /\ Len(draft) \in Nat /\ draft \in Seq(Draft) /\ draft \in [1..Len(draft) -> Draft]
  BY JobHere, Lengths DEF Fits, Job, TypeInv, RowsTyped
<1>2. PICK a \in BOOLEAN : a = AsksSomething(plan)
  BY DEF AsksSomething
<1>3. PICK d \in 0..Len(draft), at \in 0..MaxNow : d = job[k].draft /\ at = job[k].at
  BY <1>1
<1>4. \E n \in Nat : draft' \in [1..n -> Draft] /\ Len(draft) <= n
  <2>1. CASE d # 0
    <3> DEFINE r == [draft[d] EXCEPT !.plan = plan, !.asks = a, !.at = at]
    <3>1. r \in Draft
      <4>1. draft[d] \in Draft
        BY <1>1, <2>1
      <4>2. QED
        BY <4>1 DEF Draft
    <3>2. draft' = [draft EXCEPT ![d] = r]
      BY <1>1, <1>2, <1>3, <2>1 DEF SaveDraft
    <3> HIDE DEF r
    <3>3. draft' \in [1..Len(draft) -> Draft]
      <4>1. draft \in [1..Len(draft) -> Draft]
        BY <1>1
      <4>2. PICK x \in Draft : x = r
        BY <3>1
      <4>3. draft' = [draft EXCEPT ![d] = x]
        BY <3>2, <4>2
      <4>4. QED
        BY <4>1, <4>3
    <3>4. Len(draft) \in Nat /\ Len(draft) <= Len(draft)
      BY <1>1
    <3>5. QED
      BY <3>3, <3>4
  <2>2. CASE d = 0
    <3> DEFINE r == [plan |-> plan, asks |-> a, at |-> at, state |-> "open"]
    <3>1. r \in Draft
      BY DEF Draft
    <3>2. draft' = Append(draft, r)
      BY <1>2, <1>3, <2>2 DEF SaveDraft
    <3> HIDE DEF r
    <3>3. QED
      BY <1>1, <3>1, <3>2, AppendTyped
  <2>3. QED
    BY <2>1, <2>2
<1>5. RowsTyped' /\ Longer /\ calls' = calls
  BY <1>4, DraftRows DEF SaveDraft, TypeInv, RowsTyped
<1>6. CASE job[k].sms
  <2>1. 0 \in 0..Len(question') /\ Answered(k, 0)
    BY <1>5, <1>6, LengthsAfter DEF SaveDraft, TypeInv
  <2>2. QED
    BY <1>5, <2>1, EndsAnswered
<1>7. CASE ~job[k].sms
  BY <1>5, <1>7, EndsIdle DEF SaveDraft, Go
<1>8. QED
  BY <1>6, <1>7

(* A step that leaves every handler where it is. *)
LEMMA NoJob ==
    ASSUME TypeInv, RowsTyped', Longer, UNCHANGED <<calls, job>>
    PROVE  TypeInv'
<1>1. /\ Len(question) \in Nat /\ Len(draft) \in Nat /\ Len(slot) \in Nat
      /\ Len(question') \in Nat /\ Len(draft') \in Nat /\ Len(slot') \in Nat
  BY LengthsAfter DEF TypeInv
<1>2. \A l \in Workers : Fits(job'[l], Len(question'), Len(draft'), Len(slot'))
  BY <1>1, StillFits DEF Longer, TypeInv, JobsTyped
<1>3. Recording' = Recording
  BY DEF Recording
<1>4. QED
  BY <1>2, <1>3 DEF TypeInv, JobsTyped, CallsInv

LEMMA DraftState ==
    ASSUME RowsTyped, NEW d \in 1..Len(draft), NEW state \in {"published", "discarded"}
    PROVE  [draft EXCEPT ![d].state = state] \in [1..Len(draft) -> Draft]
<1>1. draft \in [1..Len(draft) -> Draft]
  BY Lengths DEF RowsTyped
<1>2. [draft[d] EXCEPT !.state = state] \in Draft
  BY <1>1 DEF Draft
<1>3. [draft EXCEPT ![d].state = state] = [draft EXCEPT ![d] = [draft[d] EXCEPT !.state = state]]
  BY <1>1
<1>4. QED
  BY <1>1, <1>2, <1>3

LEMMA TypeDiscard ==
    ASSUME TypeInv, NEW d \in DOMAIN draft, Discard(d)
    PROVE  TypeInv'
<1>1. d \in 1..Len(draft) /\ Len(draft) \in Nat
  BY Lengths DEF TypeInv
<1>2. draft' \in [1..Len(draft) -> Draft]
  BY <1>1, DraftState DEF Discard, TypeInv
<1>3. UNCHANGED <<now, session, slot, types, offers, question, shown, calls, job>> /\ ops' \in 0..MaxOps
  BY RoomTyped DEF Discard, TypeInv
<1>4. RowsTyped' /\ Longer /\ calls' = calls
  BY <1>1, <1>2, <1>3, DraftRows
<1>5. QED
  BY <1>3, <1>4, NoJob

LEMMA TypePublish ==
    ASSUME TypeInv, NEW k \in Workers, NEW d \in DOMAIN draft, Publish(k, d)
    PROVE  TypeInv'
<1>1. d \in 1..Len(draft) /\ Len(draft) \in Nat /\ draft[d] \in Draft
  BY Lengths DEF TypeInv
<1>2. draft' \in [1..Len(draft) -> Draft]
  BY <1>1, DraftState DEF Publish, TypeInv
<1>3. UNCHANGED <<now, session, slot, types, offers, question, shown, calls>> /\ ops' \in 0..MaxOps
  BY RoomTyped DEF Publish, TypeInv
<1>4. RowsTyped' /\ Longer /\ calls' = calls /\ Len(draft') = Len(draft)
  BY <1>1, <1>2, <1>3, DraftRows
<1>5. PICK todo \in SUBSET Positions : todo = draft[d].plan.weekly
  BY <1>1, WeekAssumption DEF Draft, Plans
<1> DEFINE j == [Idle EXCEPT !.op = "type", !.at = now, !.todo = todo, !.draft = d]
<1>6. j \in Job
  <2>1. d \in Nat /\ now \in 0..MaxNow
    BY <1>1, JobHere
  <2>2. QED
    BY <2>1, IdleIsJob DEF Job, Ops
<1>7. j.op = "type" /\ j.what = Unknown /\ j.draft = d /\ j.fill = {} /\ d \in 0..Len(draft')
  BY <1>1, <1>4 DEF Idle
<1>8. Go(k, j)
  BY <1>5 DEF Publish
<1> HIDE DEF j
<1>9. QED
  BY <1>4, <1>6, <1>7, <1>8, Begins

LEMMA PlainOps ==
    {"skip", "newType", "offer", "newOffer", "slot", "fill"} \subseteq Plain \ {"record", "recordSetup"}
BY DEF Plain, Ops

LEMMA TypePublishing ==
    ASSUME TypeInv, NEW k \in Workers, FindType(k) \/ AddType(k) \/ FindOffer(k) \/ AddOffer(k)
    PROVE  TypeInv'
<1>1. Len(question) \in Nat /\ Len(draft) \in Nat /\ Len(slot) \in Nat
  BY Lengths DEF TypeInv
<1>2. RowsTyped' /\ Longer /\ calls' = calls
  <2>1. /\ UNCHANGED <<now, session, slot, draft, question, shown, calls, ops>>
        /\ types' \in {types, types + 1} /\ offers' \in {offers, offers + 1}
    BY DEF FindType, AddType, FindOffer, AddOffer, rows
  <2>2. types' \in Nat /\ offers' \in Nat
    BY <2>1 DEF TypeInv, RowsTyped
  <2>3. QED
    BY <1>1, <2>1, <2>2 DEF TypeInv, RowsTyped, Longer, Session, Slot
<1>3. CASE \E op \in {"skip", "newType", "newOffer"} : Step(k, op)
  BY <1>2, <1>3, StepOn, PlainOps
<1>4. CASE Go(k, Idle)
  BY <1>2, <1>4, EndsIdle DEF Go
<1>5. QED
  BY <1>3, <1>4 DEF FindType, AddType, FindOffer, AddOffer

LEMMA TypeSkipHeld ==
    ASSUME TypeInv, NEW k \in Workers, SkipHeld(k)
    PROVE  TypeInv'
<1>1. /\ job[k] \in Job /\ Fits(job[k], Len(question), Len(draft), Len(slot))
      /\ UNCHANGED <<now, rows>> /\ ops' \in 0..MaxOps
  BY JobHere DEF SkipHeld, TypeInv, RowsTyped
<1>2. RowsTyped' /\ Longer /\ calls' = calls /\ draft' = draft /\ slot' = slot
  BY <1>1, SameRows DEF rows
<1>3. PICK todo \in SUBSET Positions : todo = {p \in job[k].todo : Held(p) = {}}
  BY <1>1 DEF Job
<1> DEFINE j == [job[k] EXCEPT !.op = "slot", !.todo = todo]
<1>4. j \in Job /\ j.op = "slot" /\ j.draft = job[k].draft /\ j.fill = job[k].fill
  BY <1>1 DEF Job, Ops
<1>5. job' = [job EXCEPT ![k] = j]
  BY <1>1, <1>3 DEF SkipHeld, Go, Job
<1> HIDE DEF j
<1>6. j.op \in Plain /\ ~Records(j) /\ j.draft \in 0..Len(draft') /\ \A f \in j.fill : f[1] \in 1..Len(slot')
  BY <1>1, <1>2, <1>4 DEF Fits, Plain, Ops, Records
<1>7. QED
  BY <1>2, <1>4, <1>5, <1>6, PlainStep

LEMMA TypeGenerateWeek ==
    ASSUME TypeInv, NEW k \in Workers, NEW positions \in Weeklies, GenerateWeek(k, positions)
    PROVE  TypeInv'
<1>1. UNCHANGED <<now, rows>> /\ ops' \in 0..MaxOps
  BY RoomTyped DEF GenerateWeek, TypeInv
<1>2. RowsTyped' /\ Longer /\ calls' = calls
  BY <1>1, SameRows
<1> DEFINE j == [Idle EXCEPT !.op = "slot", !.at = now, !.todo = positions]
<1>3. j \in Job
  <2>1. positions \in SUBSET Positions /\ now \in 0..MaxNow
    BY JobHere, WeekAssumption
  <2>2. QED
    BY <2>1, IdleIsJob DEF Job, Ops
<1>4. j.op = "slot" /\ j.what = Unknown /\ j.draft = 0 /\ j.fill = {} /\ 0 \in 0..Len(draft')
  BY <1>2, LengthsAfter DEF TypeInv, Idle
<1>5. Go(k, j)
  BY DEF GenerateWeek
<1> HIDE DEF j
<1>6. QED
  BY <1>2, <1>3, <1>4, <1>5, Begins

(* The weeks a handler fills are on the calendar. *)
LEMMA FillTyped ==
    ASSUME NEW at \in 0..MaxNow, NEW S, S \subseteq Nat
    PROVE  S \X WeeksAhead(at) \in SUBSET (Nat \X Weeks)
<1>1. MaxNow \in Nat /\ Ahead \in Nat
  BY WeekAssumption
<1>2. WeeksAhead(at) \subseteq Weeks
  BY <1>1 DEF WeeksAhead, Weeks
<1>3. QED
  BY <1>2

LEMMA SmallestHeld ==
    ASSUME TypeInv, NEW p, Held(p) # {}
    PROVE  (CHOOSE s \in Held(p) : \A t \in Held(p) : s <= t) \in Held(p)
<1>1. Held(p) \subseteq Nat
  BY Lengths DEF Held, ActiveSlots, TypeInv
<1>2. \E s \in Held(p) : \A t \in Held(p) : s <= t
  BY <1>1, Smallest
<1>3. QED
  BY <1>2

LEMMA HeldIsThere ==
    ASSUME TypeInv, NEW p, NEW s \in Held(p)
    PROVE  s \in 1..Len(slot) /\ slot[s].pos = p
BY Lengths DEF Held, ActiveSlots, TypeInv

(* A handler that fills the slot it found or added. *)
LEMMA TypeFilling ==
    ASSUME TypeInv, NEW k \in Workers, NEW p, NEW s \in 1..Len(slot'), Filling(k, p, s),
           RowsTyped', Longer, calls' = calls
    PROVE  TypeInv'
<1>1. /\ job[k] \in Job /\ job[k].draft \in 0..Len(draft)
      /\ Len(draft) \in Nat /\ Len(draft') \in Nat /\ Len(slot') \in Nat
  BY JobHere, LengthsAfter DEF Fits, TypeInv
<1>2. PICK at \in 0..MaxNow : at = job[k].at
  BY <1>1 DEF Job
<1>3. PICK fill \in SUBSET (Nat \X Weeks) : fill = {s} \X WeeksAhead(at)
  <2>1. {s} \subseteq Nat
    BY <1>1
  <2>2. QED
    BY <2>1, FillTyped
<1>4. \A f \in fill : f[1] \in 1..Len(slot')
  BY <1>3
<1>5. PICK todo \in SUBSET Positions : todo = job[k].todo \ {p}
  BY <1>1 DEF Job
<1> DEFINE j == [job[k] EXCEPT !.op = "fill", !.todo = todo, !.fill = fill]
<1>6. j \in Job /\ j.op = "fill" /\ j.draft = job[k].draft /\ j.fill = fill
  BY <1>1 DEF Job, Ops
<1>7. job' = [job EXCEPT ![k] = j]
  BY <1>1, <1>2, <1>3, <1>5 DEF Filling, Go, Job
<1> HIDE DEF j
<1>8. j.op \in Plain /\ ~Records(j) /\ j.draft \in 0..Len(draft') /\ \A f \in j.fill : f[1] \in 1..Len(slot')
  BY <1>1, <1>4, <1>6 DEF Plain, Ops, Records, Longer
<1>9. QED
  BY <1>6, <1>7, <1>8, PlainStep

LEMMA TypeFindSlot ==
    ASSUME TypeInv, NEW k \in Workers, FindSlot(k)
    PROVE  TypeInv'
<1>1. /\ job[k] \in Job /\ Fits(job[k], Len(question), Len(draft), Len(slot))
      /\ UNCHANGED <<now, rows>> /\ ops' \in 0..MaxOps
  BY JobHere DEF FindSlot, TypeInv, RowsTyped
<1>2. /\ RowsTyped' /\ Longer /\ calls' = calls /\ draft' = draft /\ slot' = slot /\ question' = question
  BY <1>1, SameRows DEF rows
<1>3. CASE Step(k, "offer")
  BY <1>2, <1>3, StepOn, PlainOps
<1>4. CASE Go(k, Idle)
  BY <1>2, <1>4, EndsIdle DEF Go
<1>5. ASSUME NEW p \in job[k].todo, Held(p) # {},
             Filling(k, p, CHOOSE s \in Held(p) : \A t \in Held(p) : s <= t)
      PROVE  TypeInv'
  <2>1. PICK s \in Held(p) : s = CHOOSE n \in Held(p) : \A t \in Held(p) : n <= t
    BY <1>5, SmallestHeld
  <2>2. s \in 1..Len(slot') /\ Filling(k, p, s)
    BY <1>2, <1>5, <2>1, HeldIsThere
  <2>3. QED
    BY <1>2, <2>2, TypeFilling
<1>6. ASSUME NEW p \in job[k].todo, Go(k, [job[k] EXCEPT !.op = "newSlot", !.id = p])
      PROVE  TypeInv'
  <2> DEFINE j == [job[k] EXCEPT !.op = "newSlot", !.id = p]
  <2>1. p \in Positions /\ "newSlot" \in Ops
    BY <1>1, <1>6 DEF Job, Ops
  <2>2. j \in Job
    BY <1>1, <2>1, KeepId
  <2>3. j.op = "newSlot" /\ j.id = p /\ j.draft = job[k].draft /\ j.fill = job[k].fill
    BY <1>1 DEF Job
  <2>4. job' = [job EXCEPT ![k] = j]
    BY <1>6 DEF Go
  <2> HIDE DEF j
  <2>5. Fits(j, Len(question'), Len(draft'), Len(slot')) /\ ~Records(j)
    BY <1>1, <1>2, <2>1, <2>3 DEF Fits, Records
  <2>6. QED
    BY <1>2, <2>2, <2>4, <2>5, OneStep
<1>7. QED
  BY <1>3, <1>4, <1>5, <1>6 DEF FindSlot

LEMMA TypeAddSlot ==
    ASSUME TypeInv, NEW k \in Workers, AddSlot(k)
    PROVE  TypeInv'
<1>1. /\ job[k].id \in Positions /\ job[k].draft \in 0..Len(draft)
      /\ Len(question) \in Nat /\ Len(draft) \in Nat /\ Len(slot) \in Nat
  BY JobHere DEF AddSlot, Fits
<1> DEFINE row == [pos |-> job[k].id, active |-> TRUE, draft |-> job[k].draft]
<1>2. row \in Slot(Len(draft))
  BY <1>1 DEF Slot
<1>3. slot' = Append(slot, row) /\ slot \in Seq(Slot(Len(draft)))
  BY DEF AddSlot, TypeInv, RowsTyped
<1> HIDE DEF row
<1>4. slot' \in Seq(Slot(Len(draft))) /\ Len(slot') = Len(slot) + 1
  BY <1>2, <1>3, AppendProperties
<1>5. UNCHANGED <<now, session, types, offers, draft, question, shown, calls, ops>>
  BY DEF AddSlot
<1>6. Session(Len(slot)) \subseteq Session(Len(slot'))
  BY <1>1, <1>4 DEF Session
<1>7. session \in [1..Len(session) -> Session(Len(slot'))] /\ Len(session) \in Nat
  BY <1>6, SessionIsTyped DEF TypeInv
<1>8. session \in Seq(Session(Len(slot')))
  BY <1>7, SeqOf
<1>9. /\ Session(Len(slot))' = Session(Len(slot')) /\ Slot(Len(draft))' = Slot(Len(draft))
      /\ Draft' = Draft /\ Question' = Question
  BY <1>5 DEF Session, Slot, Draft, Question
<1>10. RowsTyped' /\ Longer /\ calls' = calls
  BY <1>1, <1>4, <1>5, <1>8, <1>9 DEF TypeInv, RowsTyped, Longer
<1>11. Len(slot) + 1 \in 1..Len(slot') /\ Filling(k, job[k].id, Len(slot) + 1)
  BY <1>1, <1>4 DEF AddSlot
<1>12. PICK p \in Positions, s \in 1..Len(slot') : p = job[k].id /\ s = Len(slot) + 1
  BY <1>1, <1>11
<1>13. Filling(k, p, s)
  BY <1>11, <1>12
<1>14. QED
  BY <1>10, <1>13, TypeFilling

LEMMA TypeFill ==
    ASSUME TypeInv, NEW k \in Workers, Fill(k)
    PROVE  TypeInv'
<1>1. /\ job[k] \in Job /\ Fits(job[k], Len(question), Len(draft), Len(slot)) /\ Len(slot) \in Nat
      /\ UNCHANGED <<now, slot, types, offers, draft, question, shown, calls>> /\ ops' \in 0..MaxOps
  BY JobHere DEF Fill, TypeInv, RowsTyped
<1>2. PICK f \in job[k].fill :
         /\ \/ UNCHANGED session
            \/ session' = Append(session, Scheduled([week |-> f[2], pos |-> slot[f[1]].pos], f[1]))
         /\ Go(k, [job[k] EXCEPT !.fill = @ \ {f}, !.id = 0,
                                 !.op = IF job[k].fill = {f} THEN "slot" ELSE "fill"])
  BY DEF Fill
<1>3. f[1] \in 1..Len(slot) /\ f[2] \in Weeks
  BY <1>1, <1>2 DEF Fits, Job
<1>4. [week |-> f[2], pos |-> slot[f[1]].pos] \in Starts
  <2>1. slot[f[1]] \in Slot(Len(draft))
    BY <1>3, Lengths DEF TypeInv
  <2>2. slot[f[1]].pos \in Positions
    BY <2>1 DEF Slot
  <2>3. QED
    BY <1>3, <2>2 DEF Starts
<1>5. PICK start \in Starts, s \in 0..Len(slot) : start = [week |-> f[2], pos |-> slot[f[1]].pos] /\ s = f[1]
  BY <1>1, <1>3, <1>4
<1>6. session \in Seq(Session(Len(slot))) /\ Scheduled(start, s) \in Session(Len(slot))
  BY <1>1, <1>5, ScheduledTyped DEF TypeInv, RowsTyped
<1>7. \E n \in Nat : session' \in [1..n -> Session(Len(slot))]
  <2>1. CASE UNCHANGED session
    BY <2>1, SessionIsTyped DEF TypeInv
  <2>2. CASE session' = Append(session, Scheduled(start, s))
    BY <2>2, <1>6, AppendTyped
  <2>3. QED
    BY <1>2, <1>5, <2>1, <2>2
<1>8. RowsTyped' /\ Longer /\ calls' = calls
  BY <1>1, <1>7, SessionRows
<1>9. PICK op \in {"slot", "fill"}, fill \in SUBSET (Nat \X Weeks) :
         /\ op = IF job[k].fill = {f} THEN "slot" ELSE "fill"
         /\ fill = job[k].fill \ {f}
  BY <1>1 DEF Job
<1> DEFINE j == [job[k] EXCEPT !.fill = fill, !.id = 0, !.op = op]
<1>10. j \in Job
  <2>1. op \in Ops /\ 0 \in Nat \cup Positions
    BY DEF Ops
  <2>2. QED
    BY <1>1, <2>1 DEF Job
<1>11. j.op = op /\ j.draft = job[k].draft /\ j.fill = fill
  BY <1>1 DEF Job
<1>12. job' = [job EXCEPT ![k] = j]
  BY <1>1, <1>2, <1>9 DEF Go, Job
<1> HIDE DEF j
<1>13. j.op \in Plain /\ ~Records(j) /\ j.draft \in 0..Len(draft') /\ \A e \in j.fill : e[1] \in 1..Len(slot')
  BY <1>1, <1>9, <1>11, PlainOps DEF Fits, Records
<1>14. QED
  BY <1>8, <1>10, <1>12, <1>13, PlainStep

LEMMA TypeTopUp ==
    ASSUME TypeInv, NEW k \in Workers, TopUp(k)
    PROVE  TypeInv'
<1>1. UNCHANGED <<now, rows>> /\ ops' \in 0..MaxOps
  BY RoomTyped DEF TopUp, TypeInv
<1>2. RowsTyped' /\ Longer /\ calls' = calls /\ slot' = slot
  BY <1>1, SameRows DEF rows
<1>3. PICK at \in 0..MaxNow : at = now
  BY JobHere
<1>4. ActiveSlots \subseteq 1..Len(slot) /\ ActiveSlots \subseteq Nat
  BY Lengths DEF ActiveSlots, TypeInv
<1>5. PICK fill \in SUBSET (Nat \X Weeks) : fill = ActiveSlots \X WeeksAhead(at)
  BY <1>4, FillTyped
<1>6. \A f \in fill : f[1] \in 1..Len(slot')
  BY <1>2, <1>4, <1>5
<1> DEFINE j == [Idle EXCEPT !.op = "fill", !.at = at, !.tick = TRUE, !.fill = fill]
<1>7. j \in Job
  BY IdleIsJob DEF Job, Ops
<1>8. j.op = "fill" /\ j.what = Unknown /\ j.draft = 0 /\ j.fill = fill /\ 0 \in 0..Len(draft')
  BY <1>2, LengthsAfter DEF TypeInv, Idle
<1>9. Go(k, j)
  BY <1>3, <1>5 DEF TopUp
<1> HIDE DEF j
<1>10. QED
  BY <1>2, <1>6, <1>7, <1>8, <1>9, Begins

LEMMA TypeRemove ==
    ASSUME TypeInv, NEW k \in Workers, NEW s \in ActiveSlots, Remove(k, s)
    PROVE  TypeInv'
<1>1. s \in 1..Len(slot) /\ s \in Nat /\ Len(slot) \in Nat /\ Len(draft) \in Nat /\ Len(question) \in Nat
  BY Lengths DEF ActiveSlots, TypeInv
<1>2. slot' \in [1..Len(slot) -> Slot(Len(draft))]
  <2>1. slot \in [1..Len(slot) -> Slot(Len(draft))]
    BY Lengths DEF TypeInv, RowsTyped
  <2>2. [slot[s] EXCEPT !.active = FALSE] \in Slot(Len(draft))
    BY <1>1, <2>1 DEF Slot
  <2>3. slot' = [slot EXCEPT ![s] = [slot[s] EXCEPT !.active = FALSE]]
    BY <1>1, <2>1 DEF Remove
  <2>4. QED
    BY <2>1, <2>2, <2>3
<1>3. slot' \in Seq(Slot(Len(draft))) /\ Len(slot') = Len(slot)
  BY <1>1, <1>2, SeqOf
<1>4. UNCHANGED <<now, session, types, offers, draft, question, shown, calls>> /\ ops' \in 0..MaxOps
  BY RoomTyped DEF Remove, TypeInv
<1>5. /\ Session(Len(slot))' = Session(Len(slot)) /\ Slot(Len(draft))' = Slot(Len(draft))
      /\ Draft' = Draft /\ Question' = Question
  BY <1>3, <1>4 DEF Session, Slot, Draft, Question
<1>6. RowsTyped' /\ Longer /\ calls' = calls
  BY <1>1, <1>3, <1>4, <1>5 DEF TypeInv, RowsTyped, Longer
<1> DEFINE j == [Idle EXCEPT !.op = "sweep", !.at = now, !.id = s]
<1>7. j \in Job
  <2>1. now \in 0..MaxNow /\ s \in Nat \cup Positions
    BY <1>1, JobHere
  <2>2. QED
    BY <2>1, IdleIsJob DEF Job, Ops
<1>8. j.op = "sweep" /\ j.what = Unknown /\ j.draft = 0 /\ j.fill = {} /\ 0 \in 0..Len(draft')
  BY <1>6, LengthsAfter DEF TypeInv, Idle
<1>9. Go(k, j)
  BY DEF Remove
<1> HIDE DEF j
<1>10. QED
  BY <1>6, <1>7, <1>8, <1>9, Begins

LEMMA TypeSweep ==
    ASSUME TypeInv, NEW k \in Workers, NEW booked \in SUBSET DOMAIN session, Sweep(k, booked)
    PROVE  TypeInv'
<1>1. session \in [1..Len(session) -> Session(Len(slot))] /\ Len(session) \in Nat
  BY SessionIsTyped DEF TypeInv
<1>2. \A i \in 1..Len(session) : [session[i] EXCEPT !.status = "cancelled"] \in Session(Len(slot))
  BY <1>1 DEF Session
<1>3. session' = [i \in 1..Len(session) |->
                     IF /\ session[i].slot = job[k].id /\ session[i].status = "scheduled"
                        /\ ~Over(session[i].start, job[k].at) /\ i \notin booked
                     THEN [session[i] EXCEPT !.status = "cancelled"] ELSE session[i]]
  BY <1>1 DEF Sweep
<1>4. session' \in [1..Len(session) -> Session(Len(slot))]
  BY <1>1, <1>2, <1>3
<1>5. UNCHANGED <<now, slot, types, offers, draft, question, shown, calls>> /\ ops' \in 0..MaxOps
  BY DEF Sweep, TypeInv, RowsTyped
<1>6. RowsTyped' /\ Longer /\ calls' = calls
  BY <1>1, <1>4, <1>5, SessionRows
<1>7. QED
  BY <1>6, EndsIdle DEF Sweep, Go

LEMMA TypeCancelOnScreen ==
    ASSUME TypeInv, NEW i \in DOMAIN session, CancelOnScreen(i)
    PROVE  TypeInv'
<1>1. i \in Nat /\ Len(session) \in Nat
  BY Lengths DEF TypeInv
<1>2. session' \in [1..Len(session) -> Session(Len(slot))]
  BY <1>1, CancelledTyped DEF CancelOnScreen, TypeInv
<1>3. UNCHANGED <<now, slot, types, offers, draft, question, shown, calls, job>> /\ ops' \in 0..MaxOps
  BY RoomTyped DEF CancelOnScreen, TypeInv
<1>4. RowsTyped' /\ Longer /\ calls' = calls
  BY <1>1, <1>2, <1>3, SessionRows
<1>5. QED
  BY <1>3, <1>4, NoJob

LEMMA TypeNextWeek ==
    ASSUME TypeInv, NextWeek
    PROVE  TypeInv'
<1>1. Len(question) \in Nat /\ Len(draft) \in Nat /\ Len(slot) \in Nat
  BY Lengths DEF TypeInv
<1>2. now' \in 0..MaxNow /\ UNCHANGED <<rows, job, ops>>
  BY WeekAssumption DEF NextWeek, TypeInv, RowsTyped
<1>3. RowsTyped' /\ Longer
  BY <1>1, <1>2 DEF rows, TypeInv, RowsTyped, Longer, Session, Slot
<1>4. QED
  BY <1>2, <1>3, NoJob DEF rows

LEMMA TypeStutter ==
    ASSUME TypeInv, UNCHANGED vars
    PROVE  TypeInv'
<1>1. Len(question) \in Nat /\ Len(draft) \in Nat /\ Len(slot) \in Nat
  BY Lengths DEF TypeInv
<1>2. RowsTyped' /\ Longer
  BY <1>1 DEF vars, TypeInv, RowsTyped, Longer, Session, Slot
<1>3. QED
  BY <1>2, NoJob DEF vars

LEMMA TypeStep ==
    ASSUME TypeInv, [Next]_vars
    PROVE  TypeInv'
<1>1. ASSUME NEW k \in Workers, Assistant(k)
      PROVE  TypeInv'
  <2>1. CASE \E word \in {"yes", "no", "other"}, sms \in BOOLEAN : Message(k, word, sms)
    BY <2>1, TypeMessage
  <2>2. CASE \E q \in DOMAIN question, yes \in BOOLEAN : Confirm(k, q, yes)
    BY <2>2, TypeConfirm
  <2>3. CASE Reply(k) \/ MarkReasked(k) \/ DropReasked(k) \/ Consume(k)
    BY <2>3, TypeReply, TypeMarkReasked, TypeDropReasked, TypeConsume
  <2>4. CASE Run(k) \/ Add(k) \/ Move(k) \/ Route(k)
    BY <2>4, TypeRun, TypeAdd, TypeMove, TypeRoute
  <2>5. CASE CountCalls(k) \/ RecordCall(k) \/ Judge(k) \/ Retire(k)
    BY <2>5, TypeCountCalls, TypeRecordCall, TypeJudge, TypeRetire
  <2>6. CASE Unlink(k) \/ Ask(k) \/ AskOverflow(k)
    BY <2>6, TypeUnlink, TypeAsk, TypeAskOverflow
  <2>7. QED
    BY <1>1, <2>1, <2>2, <2>3, <2>4, <2>5, <2>6 DEF Assistant
<1>2. ASSUME NEW k \in Workers, Setup(k)
      PROVE  TypeInv'
  <2>1. CASE SetupMessage(k) \/ SkipHeld(k)
    BY <2>1, TypeSetupMessage, TypeSkipHeld
  <2>2. CASE \E plan \in Plans : SaveDraft(k, plan)
    BY <2>2, TypeSaveDraft
  <2>3. CASE \E d \in DOMAIN draft : Publish(k, d)
    BY <2>3, TypePublish
  <2>4. CASE FindType(k) \/ AddType(k) \/ FindOffer(k) \/ AddOffer(k)
    BY <2>4, TypePublishing
  <2>5. QED
    BY <1>2, <2>1, <2>2, <2>3, <2>4 DEF Setup
<1>3. ASSUME NEW k \in Workers, Weekly(k)
      PROVE  TypeInv'
  <2>1. CASE \E positions \in Weeklies : GenerateWeek(k, positions)
    BY <2>1, TypeGenerateWeek
  <2>2. CASE FindSlot(k) \/ AddSlot(k) \/ Fill(k) \/ TopUp(k)
    BY <2>2, TypeFindSlot, TypeAddSlot, TypeFill, TypeTopUp
  <2>3. CASE \E s \in ActiveSlots : Remove(k, s)
    BY <2>3, TypeRemove
  <2>4. CASE \E booked \in SUBSET DOMAIN session : Sweep(k, booked)
    BY <2>4, TypeSweep
  <2>5. QED
    BY <1>3, <2>1, <2>2, <2>3, <2>4 DEF Weekly
<1>4. CASE \E d \in DOMAIN draft : Discard(d)
  BY <1>4, TypeDiscard
<1>5. CASE \E i \in DOMAIN session : CancelOnScreen(i)
  BY <1>5, TypeCancelOnScreen
<1>6. CASE NextWeek
  BY <1>6, TypeNextWeek
<1>7. CASE UNCHANGED vars
  BY <1>7, TypeStutter
<1>8. QED
  BY <1>1, <1>2, <1>3, <1>4, <1>5, <1>6, <1>7 DEF Next

(* Rows and handlers are what the code can write, and the day's model calls  *)
(* pass the cap by at most one for each other handler (TypeOK).              *)
THEOREM Typing == Spec => []TypeOK
<1>1. Init => TypeInv
  BY TypeInit
<1>2. TypeInv /\ [Next]_vars => TypeInv'
  BY TypeStep
<1>3. TypeInv => TypeOK
  BY TypeGives
<1>4. QED
  BY <1>1, <1>2, <1>3, PTL DEF Spec

----------------------------------------------------------------------------
(* A question that ran or ended is used: nobody can end it again, and what   *)
(* ended it is not followed by a run.                                        *)
QuestionsInv ==
    \A q \in 1..Len(question) :
        /\ question[q].runs <= 1
        /\ question[q].runs = 1 => ~question[q].ended
        /\ question[q].runs = 1 \/ question[q].ended => question[q].used

(* A question that a step leaves alone, or ends while it waits, or runs.     *)
QuestionStep(old, new) ==
    \/ new.runs = old.runs /\ (new.ended => old.ended) /\ (old.used => new.used)
    \/ ~old.used /\ new.used /\ new.ended /\ new.runs = old.runs
    \/ ~old.used /\ new.used /\ (new.ended => old.ended) /\ new.runs = old.runs + 1

LEMMA LeftAlone == \A row : QuestionStep(row, row)
BY DEF QuestionStep

LEMMA QuestionsKept ==
    ASSUME TypeInv, QuestionsInv, Len(question') = Len(question),
           \A q \in 1..Len(question) : QuestionStep(question[q], question'[q])
    PROVE  QuestionsInv'
<1>1. \A q \in 1..Len(question) : question[q].runs \in Nat
  BY Lengths DEF TypeInv, Question
<1>2. ASSUME NEW q \in 1..Len(question)
      PROVE  /\ question'[q].runs <= 1
             /\ question'[q].runs = 1 => ~question'[q].ended
             /\ question'[q].runs = 1 \/ question'[q].ended => question'[q].used
  <2>1. /\ question[q].runs \in Nat /\ question[q].runs <= 1
        /\ question[q].runs = 1 => ~question[q].ended
        /\ question[q].runs = 1 \/ question[q].ended => question[q].used
    BY <1>1, <1>2 DEF QuestionsInv
  <2>2. QuestionStep(question[q], question'[q])
    BY <1>2
  <2>3. QED
    BY <2>1, <2>2 DEF QuestionStep
<1>3. QED
  BY <1>2 DEF QuestionsInv

LEMMA QuestionsSame ==
    ASSUME QuestionsInv, UNCHANGED question
    PROVE  QuestionsInv'
BY DEF QuestionsInv

LEMMA QuestionsMarkReasked ==
    ASSUME TypeInv, QuestionsInv, NEW k \in Workers, MarkReasked(k)
    PROVE  QuestionsInv'
<1>1. PICK q \in 1..Len(question) : q = job[k].id
  BY JobHere DEF Fits, MarkReasked
<1>2. question' = [question EXCEPT ![q].reasked = TRUE]
  BY <1>1 DEF MarkReasked
<1>3. question \in [1..Len(question) -> Question] /\ Len(question) \in Nat
  BY Lengths DEF TypeInv, RowsTyped
<1> DEFINE r == [question[q] EXCEPT !.reasked = TRUE]
<1>4. r \in Question /\ r.runs = question[q].runs /\ r.ended = question[q].ended /\ r.used = question[q].used
  BY <1>3 DEF Question
<1>5. question' = [question EXCEPT ![q] = r]
  BY <1>2, <1>3
<1> HIDE DEF r
<1>6. question' \in [1..Len(question) -> Question]
  BY <1>3, <1>4, <1>5
<1>7. Len(question') = Len(question)
  BY <1>3, <1>6, SeqOf
<1>8. ASSUME NEW p \in 1..Len(question) PROVE QuestionStep(question[p], question'[p])
  <2>1. QuestionStep(question[q], r)
    BY <1>4 DEF QuestionStep
  <2>2. question'[p] = IF p = q THEN r ELSE question[p]
    BY <1>3, <1>5
  <2>3. QED
    BY <2>1, <2>2, LeftAlone
<1>9. QED
  BY <1>7, <1>8, QuestionsKept

LEMMA QuestionsDropReasked ==
    ASSUME TypeInv, QuestionsInv, NEW k \in Workers, DropReasked(k)
    PROVE  QuestionsInv'
<1>1. PICK q \in 1..Len(question) : q = job[k].id
  BY JobHere DEF Fits, DropReasked
<1>2. question \in [1..Len(question) -> Question] /\ Len(question) \in Nat
  BY Lengths DEF TypeInv, RowsTyped
<1>3. CASE ~Consumable(q, job[k].at)
  <2>1. question' = question
    BY <1>1, <1>2, <1>3 DEF DropReasked
  <2>2. QED
    BY <2>1, QuestionsSame
<1>4. CASE Consumable(q, job[k].at)
  <2> DEFINE r == [question[q] EXCEPT !.used = TRUE, !.ended = TRUE]
  <2>1. r \in Question /\ r.runs = question[q].runs /\ r.ended /\ r.used
    BY <1>2 DEF Question
  <2>2. question' = [question EXCEPT ![q] = r]
    BY <1>1, <1>2, <1>4 DEF DropReasked
  <2> HIDE DEF r
  <2>3. ~question[q].used
    BY <1>4 DEF Consumable, Live
  <2>4. question' \in [1..Len(question) -> Question]
    BY <1>2, <2>1, <2>2
  <2>5. Len(question') = Len(question)
    BY <1>2, <2>4, SeqOf
  <2>6. ASSUME NEW p \in 1..Len(question) PROVE QuestionStep(question[p], question'[p])
    <3>1. QuestionStep(question[q], r)
      BY <2>1, <2>3 DEF QuestionStep
    <3>2. question'[p] = IF p = q THEN r ELSE question[p]
      BY <1>2, <2>2
    <3>3. QED
      BY <3>1, <3>2, LeftAlone
  <2>7. QED
    BY <2>5, <2>6, QuestionsKept
<1>5. QED
  BY <1>3, <1>4

LEMMA QuestionsConsume ==
    ASSUME TypeInv, QuestionsInv, NEW k \in Workers, Consume(k)
    PROVE  QuestionsInv'
<1>1. PICK q \in 1..Len(question) : q = job[k].id
  BY JobHere DEF Fits, Consume
<1>2. /\ question \in [1..Len(question) -> Question] /\ Len(question) \in Nat
      /\ job[k] \in Job /\ job[k].yes \in BOOLEAN
  BY Lengths, JobHere DEF TypeInv, RowsTyped, Job
<1>3. CASE ~Consumable(q, job[k].at)
  <2>1. question' = question
    BY <1>1, <1>3 DEF Consume
  <2>2. QED
    BY <2>1, QuestionsSame
<1>4. CASE Consumable(q, job[k].at)
  <2>1. question' = [question EXCEPT ![q].used = TRUE,
                                     ![q].ended = @ \/ ~job[k].yes,
                                     ![q].runs = IF job[k].yes THEN @ + 1 ELSE @]
    BY <1>1, <1>4 DEF Consume
  <2> DEFINE r == [question[q] EXCEPT !.used = TRUE,
                                      !.ended = question[q].ended \/ ~job[k].yes,
                                      !.runs = IF job[k].yes THEN question[q].runs + 1 ELSE question[q].runs]
  <2>2. question' = [question EXCEPT ![q] = r]
    BY <2>1, <1>2
  <2>3. /\ question[q] \in Question /\ question[q].runs \in Nat /\ question[q].ended \in BOOLEAN
    BY <1>2 DEF Question
  <2>4. /\ r.used = TRUE
        /\ r.ended = (question[q].ended \/ ~job[k].yes)
        /\ r.runs = IF job[k].yes THEN question[q].runs + 1 ELSE question[q].runs
    BY <2>3 DEF Question
  <2> HIDE DEF r
  <2>5. DOMAIN question' = 1..Len(question) /\ question'[q] = r
        /\ \A p \in 1..Len(question) : p # q => question'[p] = question[p]
    BY <1>2, <2>2
  <2>6. ~question[q].used
    BY <1>4 DEF Consumable, Live
  <2>7. Len(question') = Len(question)
    <3>1. question' = [p \in 1..Len(question) |-> question'[p]]
      BY <2>2, <1>2
    <3>2. QED
      BY <3>1, <1>2, LenProperties
  <2>8. QuestionStep(question[q], r)
    <3>1. CASE job[k].yes
      <4>1. r.runs = question[q].runs + 1
        BY <2>4, <3>1
      <4>2. r.ended = question[q].ended
        BY <2>3, <2>4, <3>1, Zenon
      <4>3. QED
        BY <2>4, <2>6, <4>1, <4>2 DEF QuestionStep
    <3>2. CASE ~job[k].yes
      <4>1. r.runs = question[q].runs
        BY <2>4, <3>2
      <4>2. r.used /\ r.ended
        BY <2>4, <3>2, Zenon
      <4>3. QED
        BY <2>6, <4>1, <4>2 DEF QuestionStep
    <3>3. QED
      BY <3>1, <3>2
  <2>9. ASSUME NEW p \in 1..Len(question) PROVE QuestionStep(question[p], question'[p])
    BY <2>5, <2>8, LeftAlone
  <2>10. QED
    BY <2>7, <2>9, QuestionsKept
<1>5. QED
  BY <1>3, <1>4

LEMMA QuestionsRetire ==
    ASSUME TypeInv, QuestionsInv, NEW k \in Workers, Retire(k)
    PROVE  QuestionsInv'
<1>1. question \in [1..Len(question) -> Question] /\ Len(question) \in Nat
  BY Lengths DEF TypeInv, RowsTyped
<1>2. PICK at : at = job[k].at
  OBVIOUS
<1>3. question' = [q \in 1..Len(question) |->
                      IF Live(q, at) THEN [question[q] EXCEPT !.used = TRUE, !.ended = TRUE] ELSE question[q]]
  BY <1>1, <1>2 DEF Retire, RetiredAt
<1>4. \A q \in 1..Len(question) : [question[q] EXCEPT !.used = TRUE, !.ended = TRUE] \in Question
  BY <1>1 DEF Question
<1>5. question' \in [1..Len(question) -> Question]
  BY <1>1, <1>3, <1>4
<1>6. Len(question') = Len(question)
  BY <1>1, <1>5, SeqOf
<1>7. ASSUME NEW q \in 1..Len(question) PROVE QuestionStep(question[q], question'[q])
  <2>1. CASE Live(q, at)
    <3>1. question'[q] = [question[q] EXCEPT !.used = TRUE, !.ended = TRUE] /\ question[q] \in Question
      BY <1>1, <1>3, <2>1
    <3>2. question'[q].used /\ question'[q].ended /\ question'[q].runs = question[q].runs
      BY <3>1 DEF Question
    <3>3. ~question[q].used
      BY <2>1 DEF Live
    <3>4. QED
      BY <3>2, <3>3 DEF QuestionStep
  <2>2. CASE ~Live(q, at)
    BY <1>3, <2>2, LeftAlone
  <2>3. QED
    BY <2>1, <2>2
<1>8. QED
  BY <1>6, <1>7, QuestionsKept

LEMMA QuestionsAsk ==
    ASSUME TypeInv, QuestionsInv, NEW k \in Workers, Ask(k)
    PROVE  QuestionsInv'
<1> DEFINE row == [what |-> job[k].what, asked |-> job[k].at, used |-> FALSE,
                   reasked |-> FALSE, ended |-> FALSE, runs |-> 0]
<1>1. job[k] \in Job /\ Len(question) \in Nat /\ question \in Seq(Question)
  BY JobHere DEF TypeInv, RowsTyped
<1>2. row \in Question /\ row.runs = 0 /\ row.ended = FALSE
  BY <1>1 DEF Job, Question
<1>3. question' = Append(question, row)
  BY DEF Ask
<1> HIDE DEF row
<1>4. /\ Len(question') = Len(question) + 1
      /\ \A q \in 1..Len(question) : question'[q] = question[q]
      /\ question'[Len(question) + 1] = row
  BY <1>1, <1>2, <1>3, AppendProperties
<1>5. \A q \in 1..Len(question') : q \in 1..Len(question) \/ q = Len(question) + 1
  BY <1>1, <1>4
<1>6. QED
  BY <1>2, <1>4, <1>5 DEF QuestionsInv

LEMMA QuestionsStep ==
    ASSUME TypeInv, QuestionsInv, [Next]_vars
    PROVE  QuestionsInv'
<1>1. ASSUME NEW k \in Workers, Assistant(k)
      PROVE  QuestionsInv'
  <2>1. CASE MarkReasked(k) \/ DropReasked(k) \/ Consume(k) \/ Retire(k) \/ Ask(k)
    BY <2>1, QuestionsMarkReasked, QuestionsDropReasked, QuestionsConsume, QuestionsRetire, QuestionsAsk
  <2>2. CASE \/ \E word \in {"yes", "no", "other"}, sms \in BOOLEAN : Message(k, word, sms)
             \/ \E q \in DOMAIN question, yes \in BOOLEAN : Confirm(k, q, yes)
             \/ Route(k) \/ CountCalls(k) \/ Judge(k) \/ AskOverflow(k)
    <3>1. UNCHANGED rows
      BY <2>2, Zenon DEF Message, Confirm, Route, CountCalls, Judge, AskOverflow
    <3>2. QED
      BY <3>1, QuestionsSame DEF rows
  <2>3. CASE Reply(k) \/ Run(k) \/ Add(k) \/ Move(k) \/ RecordCall(k) \/ Unlink(k)
    <3>1. UNCHANGED question
      BY <2>3, Zenon DEF Reply, Run, Add, Move, RecordCall, Unlink
    <3>2. QED
      BY <3>1, QuestionsSame
  <2>4. QED
    BY <1>1, <2>1, <2>2, <2>3 DEF Assistant
<1>2. ASSUME NEW k \in Workers, Setup(k) \/ Weekly(k)
      PROVE  QuestionsInv'
  <2>1. UNCHANGED question
    BY <1>2 DEF Setup, Weekly, SetupMessage, SaveDraft, Publish, FindType, AddType, SkipHeld, FindOffer,
       AddOffer, GenerateWeek, FindSlot, AddSlot, Fill, TopUp, Remove, Sweep, rows
  <2>2. QED
    BY <2>1, QuestionsSame
<1>3. CASE \/ \E d \in DOMAIN draft : Discard(d)
           \/ \E i \in DOMAIN session : CancelOnScreen(i)
           \/ NextWeek \/ UNCHANGED vars
  <2>1. UNCHANGED question
    BY <1>3 DEF Discard, CancelOnScreen, NextWeek, vars, rows
  <2>2. QED
    BY <2>1, QuestionsSame
<1>4. QED
  BY <1>1, <1>2, <1>3 DEF Next

----------------------------------------------------------------------------
(* A handler at work on a draft it has published. *)
PublishOps == {"type", "newType", "skip", "slot", "newSlot", "fill", "offer", "newOffer"}
Publishing(j) == j.op \in PublishOps /\ j.draft # 0

(* A draft is published by one handler, and the times it has still to give a *)
(* slot are times it has given none.                                         *)
PublishInv ==
    /\ \A k \in Workers : Publishing(job[k]) => draft[job[k].draft].state = "published"
    /\ \A k, l \in Workers :
          Publishing(job[k]) /\ Publishing(job[l]) /\ job[k].draft = job[l].draft => k = l
    /\ \A s \in 1..Len(slot) : slot[s].draft # 0 => draft[slot[s].draft].state = "published"
    /\ \A k \in Workers, s \in 1..Len(slot) :
          Publishing(job[k]) /\ slot[s].draft = job[k].draft => slot[s].pos \notin job[k].todo
    /\ \A k \in Workers : job[k].op = "newSlot" => job[k].id \in job[k].todo
    /\ \A s, t \in 1..Len(slot) :
          slot[s].draft # 0 /\ slot[s].draft = slot[t].draft /\ slot[s].pos = slot[t].pos => s = t

(* What was published stays so, and no slot is added. *)
PublishedKept ==
    /\ \A d \in 1..Len(draft) : draft[d].state = "published" => draft'[d].state = "published"
    /\ Len(slot') = Len(slot)
    /\ \A s \in 1..Len(slot) : slot'[s].pos = slot[s].pos /\ slot'[s].draft = slot[s].draft

(* The handler takes up no draft, and no more of the draft it has. *)
TakesNoDraft(k) ==
    /\ \A l \in Workers \ {k} : job'[l] = job[l]
    /\ Publishing(job'[k]) => /\ Publishing(job[k])
                              /\ job'[k].draft = job[k].draft
                              /\ job'[k].todo \subseteq job[k].todo
    /\ job'[k].op = "newSlot" => job'[k].id \in job'[k].todo

LEMMA DraftsThere ==
    ASSUME TypeInv
    PROVE  /\ \A k \in Workers : job[k].draft \in 0..Len(draft)
           /\ \A s \in 1..Len(slot) : slot[s].draft \in 0..Len(draft)
           /\ Len(draft) \in Nat /\ Len(slot) \in Nat
<1>1. \A k \in Workers : job[k].draft \in 0..Len(draft)
  BY JobHere DEF Fits
<1>2. QED
  BY <1>1, Lengths DEF TypeInv, Slot

LEMMA PublishKept ==
    ASSUME TypeInv, PublishInv, PublishedKept, NEW k \in Workers, TakesNoDraft(k)
    PROVE  PublishInv'
<1>1. /\ \A l \in Workers : job[l].draft \in 0..Len(draft)
      /\ \A s \in 1..Len(slot) : slot[s].draft \in 0..Len(draft)
      /\ Len(draft) \in Nat
  BY DraftsThere
<1>2. \A l \in Workers : Publishing(job'[l]) => /\ Publishing(job[l])
                                                /\ job'[l].draft = job[l].draft
                                                /\ job'[l].todo \subseteq job[l].todo
  BY DEF TakesNoDraft
<1>3. \A l \in Workers : Publishing(job'[l]) => draft'[job'[l].draft].state = "published"
  <2>1. ASSUME NEW l \in Workers, Publishing(job'[l])
        PROVE  draft'[job'[l].draft].state = "published"
    <3>1. Publishing(job[l]) /\ job'[l].draft = job[l].draft
      BY <1>2, <2>1
    <3>2. job[l].draft \in 1..Len(draft)
      BY <1>1, <3>1 DEF Publishing
    <3>3. draft[job[l].draft].state = "published"
      BY <3>1 DEF PublishInv
    <3>4. QED
      BY <3>1, <3>2, <3>3 DEF PublishedKept
  <2>2. QED
    BY <2>1
<1>4. \A l, m \in Workers :
         Publishing(job'[l]) /\ Publishing(job'[m]) /\ job'[l].draft = job'[m].draft => l = m
  BY <1>2 DEF PublishInv
<1>5. \A s \in 1..Len(slot') : slot'[s].draft # 0 => draft'[slot'[s].draft].state = "published"
  <2>1. ASSUME NEW s \in 1..Len(slot), slot[s].draft # 0
        PROVE  draft'[slot[s].draft].state = "published"
    <3>1. slot[s].draft \in 1..Len(draft)
      BY <1>1, <2>1
    <3>2. draft[slot[s].draft].state = "published"
      BY <2>1 DEF PublishInv
    <3>3. QED
      BY <3>1, <3>2 DEF PublishedKept
  <2>2. QED
    BY <2>1 DEF PublishedKept
<1>6. \A l \in Workers, s \in 1..Len(slot') :
         Publishing(job'[l]) /\ slot'[s].draft = job'[l].draft => slot'[s].pos \notin job'[l].todo
  BY <1>2 DEF PublishInv, PublishedKept
<1>7. \A l \in Workers : job'[l].op = "newSlot" => job'[l].id \in job'[l].todo
  BY DEF TakesNoDraft, PublishInv
<1>8. \A s, t \in 1..Len(slot') :
         slot'[s].draft # 0 /\ slot'[s].draft = slot'[t].draft /\ slot'[s].pos = slot'[t].pos => s = t
  BY DEF PublishInv, PublishedKept
<1>9. \A l \in Workers : Publishing(job[l])' <=> Publishing(job'[l])
  BY DEF Publishing
<1>10. QED
  BY <1>3, <1>4, <1>5, <1>6, <1>7, <1>8 DEF PublishInv, Publishing

LEMMA SamePublished ==
    ASSUME UNCHANGED slot, UNCHANGED draft
    PROVE  PublishedKept
BY DEF PublishedKept

LEMMA NotPublishing ==
    /\ ~Publishing(Idle) /\ Idle.op # "newSlot"
    /\ \A j : j.op \notin PublishOps => ~Publishing(j) /\ j.op # "newSlot"
BY DEF Publishing, Idle, PublishOps

(* The other handlers stay where they are. *)
LEMMA Others ==
    ASSUME TypeInv, NEW k \in Workers, NEW j, Go(k, j)
    PROVE  job'[k] = j /\ \A l \in Workers \ {k} : job'[l] = job[l]
BY DEF Go, TypeInv, JobsTyped

LEMMA StepOthers ==
    ASSUME TypeInv, NEW k \in Workers, NEW op \in Ops, Step(k, op)
    PROVE  /\ job'[k].op = op /\ job'[k].draft = job[k].draft /\ job'[k].todo = job[k].todo
           /\ \A l \in Workers \ {k} : job'[l] = job[l]
<1>1. job'[k] = [job[k] EXCEPT !.op = op] /\ job[k] \in Job /\ \A l \in Workers \ {k} : job'[l] = job[l]
  BY Others, JobHere DEF Step
<1>2. QED
  BY <1>1 DEF Job

LEMMA AnsweredOthers ==
    ASSUME TypeInv, NEW k \in Workers, NEW q, Answered(k, q)
    PROVE  job'[k].op = "reply" /\ \A l \in Workers \ {k} : job'[l] = job[l]
<1>1. job'[k] = [Idle EXCEPT !.op = "reply", !.id = q] /\ \A l \in Workers \ {k} : job'[l] = job[l]
  BY Others DEF Answered
<1>2. QED
  BY <1>1 DEF Idle

(* A message, an answer and what they run publish nothing. *)
LEMMA AssistantJobs ==
    ASSUME TypeInv, NEW k \in Workers, Assistant(k)
    PROVE  job'[k].op \notin PublishOps /\ \A l \in Workers \ {k} : job'[l] = job[l]
<1>0. job[k] \in Job
  BY JobHere
<1>1. CASE \E q \in {0} \cup Nat : Answered(k, q)
  BY <1>1, AnsweredOthers DEF PublishOps
<1>2. CASE Go(k, Idle)
  BY <1>2, Others DEF Idle, PublishOps
<1>3. CASE \E op \in {"add", "move", "record", "recordSetup", "judge", "save", "retire", "unlink", "ask"} : Step(k, op)
  <2>1. {"add", "move", "record", "recordSetup", "judge", "save", "retire", "unlink", "ask"} \subseteq Ops \ PublishOps
    BY DEF Ops, PublishOps
  <2>2. QED
    BY <1>3, <2>1, StepOthers
<1>4. ASSUME NEW word \in {"yes", "no", "other"}, NEW sms \in BOOLEAN, Message(k, word, sms)
      PROVE  job'[k].op \notin PublishOps /\ \A l \in Workers \ {k} : job'[l] = job[l]
  <2>1. PICK s \in BOOLEAN, y \in BOOLEAN : s = (sms /\ word = "other") /\ y = (word = "yes")
    OBVIOUS
  <2>2. PICK q \in 0..Len(question) : q = GetLivePending(now)
    BY LiveIsThere DEF TypeInv
  <2> DEFINE j == [Idle EXCEPT !.at = now, !.sms = s, !.id = q]
  <2>3. \/ Go(k, [j EXCEPT !.op = "consume", !.yes = y])
        \/ \E op \in {"reask", "drop", "route"} : Go(k, [j EXCEPT !.op = op])
    BY <1>4, <2>1, <2>2 DEF Message
  <2>4. \A op \in {"reask", "drop", "route"} : [j EXCEPT !.op = op].op = op
    BY DEF Idle
  <2>5. [j EXCEPT !.op = "consume", !.yes = y].op = "consume"
    BY DEF Idle
  <2> HIDE DEF j
  <2>6. QED
    BY <2>3, <2>4, <2>5, Others DEF PublishOps
<1>5. ASSUME NEW q \in DOMAIN question, NEW yes \in BOOLEAN, Confirm(k, q, yes)
      PROVE  job'[k].op \notin PublishOps /\ \A l \in Workers \ {k} : job'[l] = job[l]
  <2>1. PICK op \in {"consume", "reply"}, n \in {0, q} :
           Go(k, [Idle EXCEPT !.op = op, !.at = now, !.yes = yes, !.id = n])
    <3>1. CASE Live(q, now)
      BY <1>5, <3>1 DEF Confirm
    <3>2. CASE ~Live(q, now)
      BY <1>5, <3>2 DEF Confirm
    <3>3. QED
      BY <3>1, <3>2
  <2>2. [Idle EXCEPT !.op = op, !.at = now, !.yes = yes, !.id = n].op = op
    BY DEF Idle
  <2>3. QED
    BY <2>1, <2>2, Others DEF PublishOps
<1>6. CASE Go(k, [job[k] EXCEPT !.op = "route", !.id = 0])
  <2>1. [job[k] EXCEPT !.op = "route", !.id = 0].op = "route"
    BY <1>0 DEF Job
  <2>2. QED
    BY <1>6, <2>1, Others DEF PublishOps
<1>7. CASE \E q \in 1..Len(question) : Go(k, [job[k] EXCEPT !.op = "run", !.what = question[q].what])
  <2>1. \A q \in 1..Len(question) : [job[k] EXCEPT !.op = "run", !.what = question[q].what].op = "run"
    BY <1>0 DEF Job
  <2>2. QED
    BY <1>7, <2>1, Others DEF PublishOps
<1>8. CASE Route(k)
  <2>1. \A c \in Readings, op \in {"judge", "count"} : [job[k] EXCEPT !.op = op, !.what = c].op = op
    BY <1>0 DEF Job
  <2>2. PICK d : d = GetOpenDraft(job[k].at)
    OBVIOUS
  <2>3. [job[k] EXCEPT !.op = "countSetup", !.draft = d].op = "countSetup"
    BY <1>0 DEF Job
  <2>4. \/ Go(k, [job[k] EXCEPT !.op = "countSetup", !.draft = d])
        \/ \E c \in ModelReadings(Upcoming(job[k].at)) \cup PatternReadings(Upcoming(job[k].at)),
              op \in {"judge", "count"} : Go(k, [job[k] EXCEPT !.op = op, !.what = c])
    BY <1>8, <2>2, Zenon DEF Route
  <2>5. CASE Go(k, [job[k] EXCEPT !.op = "countSetup", !.draft = d])
    BY <2>3, <2>5, Others DEF PublishOps
  <2>6. CASE \E c \in Readings, op \in {"judge", "count"} : Go(k, [job[k] EXCEPT !.op = op, !.what = c])
    BY <2>1, <2>6, Others DEF PublishOps
  <2>7. QED
    BY <2>4, <2>5, <2>6, WhatIsRead DEF TypeInv
<1>9. CASE AskOverflow(k)
  <2>1. [Idle EXCEPT !.op = "retire", !.at = now].op = "retire"
    BY DEF Idle
  <2>2. QED
    BY <1>9, <2>1, Others DEF AskOverflow, PublishOps
<1>10. CASE Reply(k) \/ Add(k) \/ Move(k)
  BY <1>10, <1>1, <1>2 DEF Reply, Add, Move
<1>11. CASE MarkReasked(k) \/ Ask(k)
  <2>1. job[k].id \in Nat \/ Ask(k)
    BY <1>11, JobHere DEF MarkReasked, Fits
  <2>2. Len(question) + 1 \in Nat
    BY JobHere
  <2>3. QED
    BY <1>11, <2>1, <2>2, <1>1 DEF MarkReasked, Ask
<1>12. CASE Consume(k)
  <2>1. PICK q \in 1..Len(question) : q = job[k].id
    BY <1>12, JobHere DEF Fits, Consume
  <2>2. \/ Answered(k, 0)
        \/ Go(k, [job[k] EXCEPT !.op = "run", !.what = question[q].what])
    BY <1>12, <2>1 DEF Consume
  <2>3. QED
    BY <2>2, <1>1, <1>7
<1>13. CASE Run(k) \/ Judge(k) \/ Retire(k) \/ Unlink(k)
  BY <1>13, <1>1, <1>2, <1>3 DEF Run, Judge, Retire, Unlink
<1>14. CASE CountCalls(k) \/ RecordCall(k)
  BY <1>14, <1>1, <1>2, <1>3 DEF CountCalls, RecordCall
<1>15. CASE DropReasked(k)
  BY <1>15, <1>6 DEF DropReasked
<1>16. QED
  BY <1>4, <1>5, <1>8, <1>9, <1>10, <1>11, <1>12, <1>13, <1>14, <1>15 DEF Assistant

LEMMA PublishQuiet ==
    ASSUME TypeInv, PublishInv, PublishedKept, UNCHANGED job
    PROVE  PublishInv'
<1>1. PICK k \in Workers : TRUE
  BY WeekAssumption
<1>2. TakesNoDraft(k)
  BY DEF TakesNoDraft, PublishInv
<1>3. QED
  BY <1>2, PublishKept

(* Work that publishes nothing. *)
LEMMA PublishNone ==
    ASSUME TypeInv, PublishInv, PublishedKept, NEW k \in Workers,
           job'[k].op \notin PublishOps \/ (job'[k].draft = 0 /\ job'[k].op # "newSlot"),
           \A l \in Workers \ {k} : job'[l] = job[l]
    PROVE  PublishInv'
<1>1. TakesNoDraft(k)
  BY DEF TakesNoDraft, Publishing, PublishOps
<1>2. QED
  BY <1>1, PublishKept

LEMMA PublishSaveDraft ==
    ASSUME TypeInv, PublishInv, NEW k \in Workers, NEW plan \in Plans, SaveDraft(k, plan)
    PROVE  PublishInv'
<1>1. /\ Len(draft) \in Nat /\ draft \in Seq(Draft) /\ draft \in [1..Len(draft) -> Draft]
  BY Lengths DEF TypeInv, RowsTyped
<1>2. \A d \in 1..Len(draft) : draft'[d].state = draft[d].state
  <2>1. CASE job[k].draft # 0
    <3> DEFINE e == job[k].draft
    <3>1. e \in 1..Len(draft)
      BY <2>1, DraftsThere
    <3>2. draft' = [draft EXCEPT ![e].plan = plan, ![e].asks = AsksSomething(plan), ![e].at = job[k].at]
      BY <2>1 DEF SaveDraft
    <3> HIDE DEF e
    <3>3. \A d \in 1..Len(draft) : d # e => draft'[d] = draft[d]
      BY <1>1, <3>2
    <3>4. draft'[e] = [draft[e] EXCEPT !.plan = plan, !.asks = AsksSomething(plan), !.at = job[k].at]
      BY <1>1, <3>1, <3>2
    <3>5. draft'[e].state = draft[e].state
      BY <1>1, <3>1, <3>4 DEF Draft
    <3>6. QED
      BY <3>3, <3>5
  <2>2. CASE job[k].draft = 0
    <3>1. PICK r : draft' = Append(draft, r)
      BY <2>2 DEF SaveDraft
    <3>2. QED
      BY <1>1, <3>1
  <2>3. QED
    BY <2>1, <2>2
<1>3. PublishedKept
  BY <1>2 DEF SaveDraft, PublishedKept
<1>4. job'[k].op \notin PublishOps /\ \A l \in Workers \ {k} : job'[l] = job[l]
  <2>1. CASE Answered(k, 0)
    BY <2>1, AnsweredOthers DEF PublishOps
  <2>2. CASE Go(k, Idle)
    BY <2>2, Others DEF Idle, PublishOps
  <2>3. QED
    BY <2>1, <2>2 DEF SaveDraft
<1>5. QED
  BY <1>3, <1>4, PublishNone

LEMMA PublishDiscard ==
    ASSUME TypeInv, PublishInv, NEW d \in DOMAIN draft, Discard(d)
    PROVE  PublishInv'
<1>1. d \in 1..Len(draft) /\ draft \in [1..Len(draft) -> Draft]
  BY Lengths DEF TypeInv, RowsTyped
<1>2. \A e \in 1..Len(draft) : e # d => draft'[e] = draft[e]
  BY <1>1 DEF Discard
<1>3. PublishedKept
  BY <1>2 DEF Discard, PublishedKept
<1>4. QED
  BY <1>3, PublishQuiet DEF Discard

(* The claim: nobody else has published the draft, and no slot is of it. *)
LEMMA PublishClaim ==
    ASSUME TypeInv, PublishInv, NEW k \in Workers, NEW d \in DOMAIN draft, Publish(k, d)
    PROVE  PublishInv'
<1>1. d \in 1..Len(draft) /\ draft \in [1..Len(draft) -> Draft] /\ d # 0
  BY Lengths DEF TypeInv, RowsTyped
<1>2. draft[d].state = "open"
  BY DEF Publish, Claimable
<1>3. /\ \A e \in 1..Len(draft) : e # d => draft'[e] = draft[e]
      /\ draft'[d].state = "published" /\ slot' = slot
  <2>1. draft' = [draft EXCEPT ![d].state = "published"] /\ slot' = slot
    BY DEF Publish
  <2>2. draft'[d] = [draft[d] EXCEPT !.state = "published"]
    BY <1>1, <2>1
  <2>3. draft'[d].state = "published"
    BY <1>1, <2>2 DEF Draft
  <2>4. QED
    BY <1>1, <2>1, <2>3
<1>4. /\ job'[k].op = "type" /\ job'[k].draft = d
      /\ \A l \in Workers \ {k} : job'[l] = job[l]
  <2>1. PICK todo : todo = draft[d].plan.weekly
    OBVIOUS
  <2>2. Go(k, [Idle EXCEPT !.op = "type", !.at = now, !.todo = todo, !.draft = d])
    BY <2>1 DEF Publish
  <2>3. /\ [Idle EXCEPT !.op = "type", !.at = now, !.todo = todo, !.draft = d].op = "type"
        /\ [Idle EXCEPT !.op = "type", !.at = now, !.todo = todo, !.draft = d].draft = d
    BY DEF Idle
  <2>4. QED
    BY <2>2, <2>3, Others
<1>5. /\ \A l \in Workers : Publishing(job[l]) => job[l].draft # d
      /\ \A s \in 1..Len(slot) : slot[s].draft # d
  BY <1>1, <1>2 DEF PublishInv
<1>6. \A e \in 1..Len(draft) : draft[e].state = "published" => draft'[e].state = "published"
  BY <1>3
<1>7. \A l \in Workers : Publishing(job'[l]) => draft'[job'[l].draft].state = "published"
  <2>1. ASSUME NEW l \in Workers, l # k, Publishing(job'[l])
        PROVE  draft'[job'[l].draft].state = "published"
    <3>1. job'[l] = job[l]
      BY <1>4, <2>1
    <3>2. draft[job[l].draft].state = "published"
      BY <2>1, <3>1 DEF PublishInv
    <3>3. job[l].draft \in 1..Len(draft)
      BY <2>1, <3>1, DraftsThere DEF Publishing
    <3>4. QED
      BY <1>6, <3>1, <3>2, <3>3
  <2>2. QED
    BY <1>3, <1>4, <2>1
<1>8. \A l, m \in Workers :
         Publishing(job'[l]) /\ Publishing(job'[m]) /\ job'[l].draft = job'[m].draft => l = m
  BY <1>4, <1>5 DEF PublishInv
<1>9. \A s \in 1..Len(slot) : slot[s].draft # 0 => draft'[slot[s].draft].state = "published"
  BY <1>6, DraftsThere DEF PublishInv
<1>10. \A l \in Workers, s \in 1..Len(slot) :
          Publishing(job'[l]) /\ slot[s].draft = job'[l].draft => slot[s].pos \notin job'[l].todo
  BY <1>4, <1>5 DEF PublishInv
<1>11. \A l \in Workers : job'[l].op = "newSlot" => job'[l].id \in job'[l].todo
  BY <1>4 DEF PublishInv
<1>12. QED
  BY <1>3, <1>7, <1>8, <1>9, <1>10, <1>11 DEF PublishInv, Publishing

LEMMA PublishOn ==
    ASSUME TypeInv, PublishInv, PublishedKept, NEW k \in Workers, job[k].op \in PublishOps,
           NEW op \in PublishOps \ {"newSlot"}, Step(k, op)
    PROVE  PublishInv'
<1>1. op \in Ops
  BY DEF PublishOps, Ops
<1>2. TakesNoDraft(k)
  BY <1>1, StepOthers DEF TakesNoDraft, Publishing
<1>3. QED
  BY <1>2, PublishKept

LEMMA PublishIdle ==
    ASSUME TypeInv, PublishInv, PublishedKept, NEW k \in Workers, Go(k, Idle)
    PROVE  PublishInv'
<1>1. job'[k].op = "idle" /\ \A l \in Workers \ {k} : job'[l] = job[l]
  BY Others DEF Idle
<1>2. QED
  BY <1>1, PublishNone DEF PublishOps

LEMMA PublishingStep ==
    ASSUME TypeInv, PublishInv, NEW k \in Workers, FindType(k) \/ AddType(k) \/ FindOffer(k) \/ AddOffer(k)
    PROVE  PublishInv'
<1>1. PublishedKept /\ job[k].op \in PublishOps
  BY SamePublished DEF FindType, AddType, FindOffer, AddOffer, rows, PublishOps
<1>2. CASE Go(k, Idle)
  BY <1>1, <1>2, PublishIdle
<1>3. CASE \E op \in {"skip", "newType", "newOffer"} : Step(k, op)
  <2>1. {"skip", "newType", "newOffer"} \subseteq PublishOps \ {"newSlot"}
    BY DEF PublishOps
  <2>2. QED
    BY <1>1, <1>3, <2>1, PublishOn
<1>4. QED
  BY <1>2, <1>3 DEF FindType, AddType, FindOffer, AddOffer

LEMMA PublishSkip ==
    ASSUME TypeInv, PublishInv, NEW k \in Workers, SkipHeld(k)
    PROVE  PublishInv'
<1>1. PublishedKept /\ job[k].op \in PublishOps /\ job[k] \in Job
  BY SamePublished, JobHere DEF SkipHeld, rows, PublishOps
<1>2. PICK todo : todo = {p \in job[k].todo : Held(p) = {}}
  OBVIOUS
<1>3. Go(k, [job[k] EXCEPT !.op = "slot", !.todo = todo])
  BY <1>1, <1>2 DEF SkipHeld, Job
<1>4. /\ [job[k] EXCEPT !.op = "slot", !.todo = todo].op = "slot"
      /\ [job[k] EXCEPT !.op = "slot", !.todo = todo].todo = todo
      /\ [job[k] EXCEPT !.op = "slot", !.todo = todo].draft = job[k].draft
  BY <1>1 DEF Job
<1>5. job'[k] = [job[k] EXCEPT !.op = "slot", !.todo = todo] /\ \A l \in Workers \ {k} : job'[l] = job[l]
  BY <1>3, Others
<1>6. TakesNoDraft(k)
  BY <1>1, <1>2, <1>4, <1>5 DEF TakesNoDraft, Publishing
<1>7. QED
  BY <1>1, <1>6, PublishKept

(* Handlers that begin with no draft to publish. *)
LEMMA PublishBegins ==
    ASSUME TypeInv, PublishInv, NEW k \in Workers,
           \/ SetupMessage(k) \/ TopUp(k)
           \/ \E positions \in Weeklies : GenerateWeek(k, positions)
    PROVE  PublishInv'
<1>1. PublishedKept
  BY SamePublished DEF SetupMessage, TopUp, GenerateWeek, rows
<1>2. CASE SetupMessage(k)
  <2>1. PICK d : d = GetOpenDraft(now)
    OBVIOUS
  <2>2. [Idle EXCEPT !.op = "countSetup", !.at = now, !.draft = d].op = "countSetup"
    BY DEF Idle
  <2>3. Go(k, [Idle EXCEPT !.op = "countSetup", !.at = now, !.draft = d])
    BY <1>2, <2>1 DEF SetupMessage
  <2>4. QED
    BY <1>1, <2>2, <2>3, Others, PublishNone DEF PublishOps
<1>3. CASE TopUp(k)
  <2>1. PICK fill : fill = ActiveSlots \X WeeksAhead(now)
    OBVIOUS
  <2>2. /\ [Idle EXCEPT !.op = "fill", !.at = now, !.tick = TRUE, !.fill = fill].op = "fill"
        /\ [Idle EXCEPT !.op = "fill", !.at = now, !.tick = TRUE, !.fill = fill].draft = 0
    BY DEF Idle
  <2>3. Go(k, [Idle EXCEPT !.op = "fill", !.at = now, !.tick = TRUE, !.fill = fill])
    BY <1>3, <2>1 DEF TopUp
  <2>4. QED
    BY <1>1, <2>2, <2>3, Others, PublishNone
<1>4. ASSUME NEW positions \in Weeklies, GenerateWeek(k, positions)
      PROVE  PublishInv'
  <2>1. /\ [Idle EXCEPT !.op = "slot", !.at = now, !.todo = positions].op = "slot"
        /\ [Idle EXCEPT !.op = "slot", !.at = now, !.todo = positions].draft = 0
    BY DEF Idle
  <2>2. QED
    BY <1>1, <1>4, <2>1, Others, PublishNone DEF GenerateWeek
<1>5. QED
  BY <1>2, <1>3, <1>4

LEMMA FillingOthers ==
    ASSUME TypeInv, NEW k \in Workers, NEW p, NEW s, Filling(k, p, s)
    PROVE  /\ job'[k].op = "fill" /\ job'[k].draft = job[k].draft
           /\ job'[k].todo = job[k].todo \ {p}
           /\ \A l \in Workers \ {k} : job'[l] = job[l]
<1>1. PICK fill, todo : fill = {s} \X WeeksAhead(job[k].at) /\ todo = job[k].todo \ {p}
  OBVIOUS
<1>2. job[k] \in Job
  BY JobHere
<1>3. Go(k, [job[k] EXCEPT !.op = "fill", !.todo = todo, !.fill = fill])
  BY <1>1, <1>2 DEF Filling, Job
<1>4. /\ [job[k] EXCEPT !.op = "fill", !.todo = todo, !.fill = fill].op = "fill"
      /\ [job[k] EXCEPT !.op = "fill", !.todo = todo, !.fill = fill].todo = todo
      /\ [job[k] EXCEPT !.op = "fill", !.todo = todo, !.fill = fill].draft = job[k].draft
  BY <1>2 DEF Job
<1>5. QED
  BY <1>1, <1>3, <1>4, Others

LEMMA PublishFindSlot ==
    ASSUME TypeInv, PublishInv, NEW k \in Workers, FindSlot(k)
    PROVE  PublishInv'
<1>1. PublishedKept /\ job[k].op \in PublishOps /\ job[k] \in Job
  BY SamePublished, JobHere DEF FindSlot, rows, PublishOps
<1>2. CASE Step(k, "offer")
  <2>1. "offer" \in PublishOps \ {"newSlot"}
    BY DEF PublishOps
  <2>2. QED
    BY <1>1, <1>2, <2>1, PublishOn
<1>3. CASE Go(k, Idle)
  BY <1>1, <1>3, PublishIdle
<1>4. ASSUME NEW p \in job[k].todo, NEW s \in Held(p), Filling(k, p, s)
      PROVE  PublishInv'
  <2>1. TakesNoDraft(k)
    BY <1>1, <1>4, FillingOthers DEF TakesNoDraft, Publishing
  <2>2. QED
    BY <1>1, <2>1, PublishKept
<1>5. ASSUME NEW p \in job[k].todo, Go(k, [job[k] EXCEPT !.op = "newSlot", !.id = p])
      PROVE  PublishInv'
  <2>1. /\ [job[k] EXCEPT !.op = "newSlot", !.id = p].op = "newSlot"
        /\ [job[k] EXCEPT !.op = "newSlot", !.id = p].id = p
        /\ [job[k] EXCEPT !.op = "newSlot", !.id = p].todo = job[k].todo
        /\ [job[k] EXCEPT !.op = "newSlot", !.id = p].draft = job[k].draft
    BY <1>1 DEF Job
  <2>2. job'[k] = [job[k] EXCEPT !.op = "newSlot", !.id = p] /\ \A l \in Workers \ {k} : job'[l] = job[l]
    BY <1>5, Others
  <2>3. TakesNoDraft(k)
    BY <1>1, <1>5, <2>1, <2>2 DEF TakesNoDraft, Publishing
  <2>4. QED
    BY <1>1, <2>3, PublishKept
<1>6. \A p \in job[k].todo : Held(p) # {} =>
         (CHOOSE s \in Held(p) : \A t \in Held(p) : s <= t) \in Held(p)
  BY SmallestHeld
<1>7. QED
  BY <1>2, <1>3, <1>4, <1>5, <1>6 DEF FindSlot

(* The slot of a time that the draft had given none. *)
LEMMA PublishAddSlot ==
    ASSUME TypeInv, PublishInv, NEW k \in Workers, AddSlot(k)
    PROVE  PublishInv'
<1> DEFINE n == Len(slot) + 1
<1>1. /\ job[k].op = "newSlot" /\ job[k].id \in job[k].todo /\ job[k].draft \in 0..Len(draft)
      /\ Len(slot) \in Nat /\ Len(draft) \in Nat /\ draft' = draft
  BY DraftsThere DEF AddSlot, PublishInv
<1>2. PICK row : /\ slot' = Append(slot, row)
                 /\ row.pos = job[k].id /\ row.draft = job[k].draft
  BY DEF AddSlot
<1>3. /\ Len(slot') = n /\ \A s \in 1..Len(slot) : slot'[s] = slot[s]
      /\ slot'[n] = row
  BY <1>2, <1>1 DEF TypeInv, RowsTyped
<1>4. \A s \in 1..n : s \in 1..Len(slot) \/ s = n
  BY <1>1
<1>5. /\ job'[k].op = "fill" /\ job'[k].draft = job[k].draft /\ job'[k].todo = job[k].todo \ {job[k].id}
      /\ \A l \in Workers \ {k} : job'[l] = job[l]
  <2>1. Filling(k, job[k].id, n)
    BY DEF AddSlot
  <2>2. QED
    BY <2>1, FillingOthers
<1> HIDE DEF n
<1>6. /\ Publishing(job'[k]) <=> job[k].draft # 0
      /\ Publishing(job[k]) <=> job[k].draft # 0
  BY <1>1, <1>5 DEF Publishing, PublishOps
<1>7. \A l \in Workers : Publishing(job'[l]) => draft[job'[l].draft].state = "published"
  BY <1>5, <1>6 DEF PublishInv
<1>8. \A l, m \in Workers :
         Publishing(job'[l]) /\ Publishing(job'[m]) /\ job'[l].draft = job'[m].draft => l = m
  <2>1. \A l \in Workers : (Publishing(job'[l]) <=> Publishing(job[l])) /\ job'[l].draft = job[l].draft
    BY <1>5, <1>6
  <2>2. QED
    BY <2>1 DEF PublishInv
<1>9. \A s \in 1..n : slot'[s].draft # 0 => draft[slot'[s].draft].state = "published"
  <2>1. row.draft # 0 => draft[row.draft].state = "published"
    BY <1>2, <1>6 DEF PublishInv
  <2>2. QED
    BY <1>3, <1>4, <2>1 DEF PublishInv
<1>10. \A l \in Workers, s \in 1..n :
          Publishing(job'[l]) /\ slot'[s].draft = job'[l].draft => slot'[s].pos \notin job'[l].todo
  <2>1. ASSUME NEW l \in Workers, Publishing(job'[l]), row.draft = job'[l].draft
        PROVE  row.pos \notin job'[l].todo
    <3>1. l = k
      <4>1. (Publishing(job[k]) /\ Publishing(job[l])) \/ l = k
        BY <1>2, <1>5, <1>6, <2>1 DEF Publishing
      <4>2. l # k => job[l].draft = job[k].draft
        BY <1>2, <1>5, <2>1
      <4>3. QED
        BY <4>1, <4>2 DEF PublishInv
    <3>2. QED
      BY <1>2, <1>5, <3>1
  <2>2. ASSUME NEW l \in Workers, NEW s \in 1..Len(slot), Publishing(job'[l]), slot[s].draft = job'[l].draft
        PROVE  slot[s].pos \notin job'[l].todo
    <3>1. Publishing(job[l]) /\ job'[l].draft = job[l].draft /\ job'[l].todo \subseteq job[l].todo
      BY <1>5, <1>6, <2>2 DEF Publishing
    <3>2. slot[s].pos \notin job[l].todo
      BY <2>2, <3>1 DEF PublishInv
    <3>3. QED
      BY <3>1, <3>2
  <2>3. QED
    BY <1>3, <1>4, <2>1, <2>2
<1>11. \A l \in Workers : job'[l].op = "newSlot" => job'[l].id \in job'[l].todo
  BY <1>5 DEF PublishInv
<1>12. \A s \in 1..Len(slot) : slot[s].draft # 0 /\ slot[s].draft = row.draft => slot[s].pos # row.pos
  BY <1>1, <1>2, <1>6 DEF PublishInv
<1>13. \A s, t \in 1..n :
          slot'[s].draft # 0 /\ slot'[s].draft = slot'[t].draft /\ slot'[s].pos = slot'[t].pos => s = t
  <2>1. ASSUME NEW s \in 1..n, NEW t \in 1..n,
               slot'[s].draft # 0, slot'[s].draft = slot'[t].draft, slot'[s].pos = slot'[t].pos
        PROVE  s = t
    <3>1. CASE s \in 1..Len(slot) /\ t \in 1..Len(slot)
      BY <1>3, <2>1, <3>1 DEF PublishInv
    <3>2. CASE s = n /\ t \in 1..Len(slot)
      BY <1>3, <1>12, <2>1, <3>2
    <3>3. CASE s \in 1..Len(slot) /\ t = n
      BY <1>3, <1>12, <2>1, <3>3
    <3>4. QED
      BY <1>4, <2>1, <3>1, <3>2, <3>3
  <2>2. QED
    BY <2>1
<1>14. QED
  BY <1>1, <1>3, <1>7, <1>8, <1>9, <1>10, <1>11, <1>13 DEF PublishInv, Publishing

LEMMA PublishFill ==
    ASSUME TypeInv, PublishInv, NEW k \in Workers, Fill(k)
    PROVE  PublishInv'
<1>1. PublishedKept /\ job[k].op \in PublishOps /\ job[k] \in Job
  BY SamePublished, JobHere DEF Fill, PublishOps
<1>2. PICK op \in {"slot", "fill"} : \E e : Go(k, [job[k] EXCEPT !.fill = e, !.id = 0, !.op = op])
  <2>1. PICK f \in job[k].fill :
           Go(k, [job[k] EXCEPT !.fill = @ \ {f}, !.id = 0,
                                !.op = IF job[k].fill = {f} THEN "slot" ELSE "fill"])
    BY DEF Fill
  <2>2. PICK fill : fill = job[k].fill \ {f}
    OBVIOUS
  <2>3. PICK op \in {"slot", "fill"} : op = IF job[k].fill = {f} THEN "slot" ELSE "fill"
    OBVIOUS
  <2>4. Go(k, [job[k] EXCEPT !.fill = fill, !.id = 0, !.op = op])
    BY <1>1, <2>1, <2>2, <2>3 DEF Job
  <2>5. QED
    BY <2>3, <2>4
<1>3. PICK fill : Go(k, [job[k] EXCEPT !.fill = fill, !.id = 0, !.op = op])
  BY <1>2
<1>4. /\ [job[k] EXCEPT !.fill = fill, !.id = 0, !.op = op].op = op
      /\ [job[k] EXCEPT !.fill = fill, !.id = 0, !.op = op].todo = job[k].todo
      /\ [job[k] EXCEPT !.fill = fill, !.id = 0, !.op = op].draft = job[k].draft
  BY <1>1 DEF Job
<1>5. TakesNoDraft(k)
  BY <1>1, <1>3, <1>4, Others DEF TakesNoDraft, Publishing
<1>6. QED
  BY <1>1, <1>5, PublishKept

LEMMA PublishRemove ==
    ASSUME TypeInv, PublishInv, NEW k \in Workers, NEW s \in ActiveSlots, Remove(k, s)
    PROVE  PublishInv'
<1>1. /\ s \in 1..Len(slot) /\ slot \in [1..Len(slot) -> Slot(Len(draft))] /\ Len(slot) \in Nat
      /\ slot' \in Seq(Slot(Len(draft))) /\ draft' = draft
  <2>1. TypeInv'
    BY TypeRemove
  <2>2. draft' = draft /\ slot' \in Seq(Slot(Len(draft))')
    BY <2>1 DEF TypeInv, RowsTyped, Remove
  <2>3. Slot(Len(draft))' = Slot(Len(draft))
    BY <2>2 DEF Slot
  <2>4. QED
    BY <2>2, <2>3, Lengths DEF TypeInv, RowsTyped, ActiveSlots
<1>2. slot' = [slot EXCEPT ![s].active = FALSE]
  BY DEF Remove
<1>3. \A t \in 1..Len(slot) : slot'[t].pos = slot[t].pos /\ slot'[t].draft = slot[t].draft
  <2>1. slot'[s] = [slot[s] EXCEPT !.active = FALSE] /\ \A t \in 1..Len(slot) : t # s => slot'[t] = slot[t]
    BY <1>1, <1>2
  <2>2. slot'[s].pos = slot[s].pos /\ slot'[s].draft = slot[s].draft
    BY <1>1, <2>1 DEF Slot
  <2>3. QED
    BY <2>1, <2>2
<1>4. Len(slot') = Len(slot)
  <2>1. [slot[s] EXCEPT !.active = FALSE] \in Slot(Len(draft))
    BY <1>1 DEF Slot
  <2>2. slot' = [slot EXCEPT ![s] = [slot[s] EXCEPT !.active = FALSE]]
    BY <1>1, <1>2
  <2>3. slot' \in [1..Len(slot) -> Slot(Len(draft))]
    BY <1>1, <2>1, <2>2
  <2>4. QED
    BY <1>1, <2>3, SeqOf
<1>5. PublishedKept
  BY <1>1, <1>3, <1>4 DEF PublishedKept
<1>6. [Idle EXCEPT !.op = "sweep", !.at = now, !.id = s].op = "sweep"
  BY DEF Idle
<1>7. QED
  BY <1>5, <1>6, Others, PublishNone DEF Remove, PublishOps

LEMMA PublishStep ==
    ASSUME TypeInv, PublishInv, [Next]_vars
    PROVE  PublishInv'
<1>1. ASSUME NEW k \in Workers, Assistant(k)
      PROVE  PublishInv'
  <2>1. UNCHANGED slot /\ UNCHANGED draft
    <3>1. CASE UNCHANGED rows
      BY <3>1 DEF rows
    <3>2. CASE \/ \E word \in {"yes", "no", "other"}, sms \in BOOLEAN : Message(k, word, sms)
               \/ \E q \in DOMAIN question, yes \in BOOLEAN : Confirm(k, q, yes)
               \/ Route(k) \/ CountCalls(k) \/ Judge(k) \/ AskOverflow(k)
      <4>1. UNCHANGED rows
        BY <3>2, Zenon DEF Message, Confirm, Route, CountCalls, Judge, AskOverflow
      <4>2. QED
        BY <4>1, <3>1
    <3>3. CASE \/ Reply(k) \/ MarkReasked(k) \/ DropReasked(k) \/ Consume(k) \/ Run(k) \/ Add(k) \/ Move(k)
               \/ RecordCall(k) \/ Retire(k) \/ Unlink(k) \/ Ask(k)
      BY <3>3, Zenon DEF Reply, MarkReasked, DropReasked, Consume, Run, Add, Move, RecordCall, Retire, Unlink, Ask
    <3>4. QED
      BY <1>1, <3>2, <3>3 DEF Assistant
  <2>2. QED
    BY <1>1, <2>1, SamePublished, AssistantJobs, PublishNone
<1>2. ASSUME NEW k \in Workers, Setup(k)
      PROVE  PublishInv'
  BY <1>2, PublishBegins, PublishSaveDraft, PublishClaim, PublishingStep, PublishSkip DEF Setup
<1>3. ASSUME NEW k \in Workers, Weekly(k)
      PROVE  PublishInv'
  <2>1. CASE \E booked \in SUBSET DOMAIN session : Sweep(k, booked)
    BY <2>1, SamePublished, PublishIdle DEF Sweep
  <2>2. QED
    BY <1>3, <2>1, PublishBegins, PublishFindSlot, PublishAddSlot, PublishFill, PublishRemove DEF Weekly
<1>4. CASE \E d \in DOMAIN draft : Discard(d)
  BY <1>4, PublishDiscard
<1>5. CASE (\E i \in DOMAIN session : CancelOnScreen(i)) \/ NextWeek \/ UNCHANGED vars
  <2>1. UNCHANGED slot /\ UNCHANGED draft /\ UNCHANGED job
    BY <1>5 DEF CancelOnScreen, NextWeek, rows, vars
  <2>2. QED
    BY <2>1, SamePublished, PublishQuiet
<1>6. QED
  BY <1>1, <1>2, <1>3, <1>4, <1>5 DEF Next

LEMMA AnswerInit == Init => QuestionsInv /\ PublishInv
<1> SUFFICES ASSUME Init PROVE QuestionsInv /\ PublishInv
  OBVIOUS
<1>1. QuestionsInv
  BY DEF Init, QuestionsInv
<1>2. \A k \in Workers : job[k] = Idle
  BY DEF Init
<1>3. \A s \in 1..Len(slot) : slot[s].draft = 0
  <2>1. CASE slot = <<>>
    BY <2>1
  <2>2. CASE \E p \in UNION Weeklies : slot = <<[pos |-> p, active |-> TRUE, draft |-> 0]>>
    BY <2>2
  <2>3. QED
    BY <2>1, <2>2 DEF Init
<1>4. PublishInv
  BY <1>2, <1>3, NotPublishing DEF PublishInv
<1>5. QED
  BY <1>1, <1>4

LEMMA AnswerGives == TypeInv /\ QuestionsInv /\ PublishInv => AnsweredOnce
<1> SUFFICES ASSUME TypeInv, QuestionsInv, PublishInv PROVE AnsweredOnce
  OBVIOUS
<1>1. DOMAIN question = 1..Len(question) /\ DOMAIN slot = 1..Len(slot)
  BY Lengths DEF TypeInv
<1>2. QED
  BY <1>1 DEF QuestionsInv, PublishInv, AnsweredOnce

(* A Y, an N, a tap and a Publish take effect once (AnsweredOnce): whoever   *)
(* ends a question acts on it, and whoever claims a draft gives its times    *)
(* their slots.                                                              *)
THEOREM ActedOnOnce == Spec => []AnsweredOnce
<1>1. Init => TypeInv /\ QuestionsInv /\ PublishInv
  BY TypeInit, AnswerInit
<1>2. TypeInv /\ QuestionsInv /\ PublishInv /\ [Next]_vars => (TypeInv /\ QuestionsInv /\ PublishInv)'
  BY TypeStep, QuestionsStep, PublishStep
<1>3. TypeInv /\ QuestionsInv /\ PublishInv => AnsweredOnce
  BY AnswerGives
<1>4. QED
  BY <1>1, <1>2, <1>3, PTL DEF Spec

----------------------------------------------------------------------------
(* A session that was never moved off the day it was added on is on it, so a *)
(* fill of that day finds it, whatever its time and status.                  *)
SessionsInv ==
    /\ \A i \in 1..Len(session) : session[i].left \/ SameDay(session[i].start, session[i].born)
    /\ \A i, j \in 1..Len(session) :
           /\ i # j /\ session[i].slot # 0 /\ session[i].slot = session[j].slot
           /\ SameDay(session[i].born, session[j].born)
           => session[i].left \/ session[j].left

(* A session that a step leaves, cancels or moves. *)
SessionStep(old, new) ==
    /\ new.slot = old.slot /\ new.born = old.born
    /\ old.left => new.left
    /\ new.start = old.start \/ new.left \/ SameDay(new.start, new.born)

LEMMA SessionsKept ==
    ASSUME SessionsInv, Len(session') = Len(session),
           \A i \in 1..Len(session) : SessionStep(session[i], session'[i])
    PROVE  SessionsInv'
<1>1. ASSUME NEW i \in 1..Len(session)
      PROVE  session'[i].left \/ SameDay(session'[i].start, session'[i].born)
  <2>1. SessionStep(session[i], session'[i]) /\ (session[i].left \/ SameDay(session[i].start, session[i].born))
    BY <1>1 DEF SessionsInv
  <2>2. QED
    BY <2>1 DEF SessionStep
<1>2. ASSUME NEW i \in 1..Len(session), NEW j \in 1..Len(session),
             i # j, session'[i].slot # 0, session'[i].slot = session'[j].slot,
             SameDay(session'[i].born, session'[j].born)
      PROVE  session'[i].left \/ session'[j].left
  <2>1. SessionStep(session[i], session'[i]) /\ SessionStep(session[j], session'[j])
    BY <1>2
  <2>2. session[i].slot # 0 /\ session[i].slot = session[j].slot /\ SameDay(session[i].born, session[j].born)
    BY <1>2, <2>1 DEF SessionStep
  <2>3. session[i].left \/ session[j].left
    BY <1>2, <2>2 DEF SessionsInv
  <2>4. QED
    BY <2>1, <2>3 DEF SessionStep
<1>3. \A a, b : SameDay(a, b)' <=> SameDay(a, b)
  BY DEF SameDay
<1>4. QED
  BY <1>1, <1>2 DEF SessionsInv, SameDay

LEMMA SessionsSame ==
    ASSUME SessionsInv, UNCHANGED session
    PROVE  SessionsInv'
BY DEF SessionsInv, SameDay

LEMMA SessionAlone == \A row : SessionStep(row, row)
BY DEF SessionStep

(* A session that is added to no slot, or on a day its slot has none. *)
LEMMA SessionsAdded ==
    ASSUME TypeInv, SessionsInv, NEW start \in Starts, NEW s \in 0..Len(slot),
           s # 0 => ~DayTaken(s, start), session' = Append(session, Scheduled(start, s))
    PROVE  SessionsInv'
<1> DEFINE n == Len(session) + 1
<1>1. Len(session) \in Nat /\ session \in Seq(Session(Len(slot))) /\ Len(slot) \in Nat
      /\ DOMAIN session = 1..Len(session)
  BY Lengths DEF TypeInv, RowsTyped
<1>2. PICK row \in Session(Len(slot)) : row = Scheduled(start, s)
  BY <1>1, ScheduledTyped
<1>3. row.start = start /\ row.born = start /\ row.slot = s
  BY <1>2 DEF Scheduled
<1>4. /\ Len(session') = n /\ session'[n] = row
      /\ \A i \in 1..Len(session) : session'[i] = session[i]
  BY <1>1, <1>2, AppendProperties
<1>5. \A i \in 1..n : i \in 1..Len(session) \/ i = n
  BY <1>1
<1> HIDE DEF n
<1>6. ASSUME NEW i \in 1..Len(session), s # 0, session[i].slot = s, SameDay(session[i].born, start)
      PROVE  session[i].left
  <2>1. ~SameDay(session[i].start, start)
    BY <1>1, <1>6 DEF DayTaken
  <2>2. session[i].left \/ SameDay(session[i].start, session[i].born)
    BY <1>6 DEF SessionsInv
  <2>3. QED
    BY <1>6, <2>1, <2>2 DEF SameDay
<1>7. \A i \in 1..n : session'[i].left \/ SameDay(session'[i].start, session'[i].born)
  <2>1. SameDay(row.start, row.born)
    BY <1>3 DEF SameDay
  <2>2. QED
    BY <1>4, <1>5, <2>1 DEF SessionsInv
<1>8. ASSUME NEW i \in 1..n, NEW j \in 1..n, i # j, session'[i].slot # 0,
             session'[i].slot = session'[j].slot, SameDay(session'[i].born, session'[j].born)
      PROVE  session'[i].left \/ session'[j].left
  <2>1. CASE i \in 1..Len(session) /\ j \in 1..Len(session)
    BY <1>4, <1>8, <2>1 DEF SessionsInv
  <2>2. CASE i \in 1..Len(session) /\ j = n
    BY <1>3, <1>4, <1>6, <1>8, <2>2
  <2>3. CASE i = n /\ j \in 1..Len(session)
    <3>1. s # 0 /\ session[j].slot = s /\ SameDay(session[j].born, start)
      BY <1>3, <1>4, <1>8, <2>3 DEF SameDay
    <3>2. session[j].left
      BY <1>6, <2>3, <3>1
    <3>3. QED
      BY <1>4, <2>3, <3>2
  <2>4. QED
    BY <1>5, <1>8, <2>1, <2>2, <2>3
<1>9. QED
  BY <1>4, <1>7, <1>8 DEF SessionsInv, SameDay

LEMMA SessionsCancelled ==
    ASSUME TypeInv, SessionsInv, NEW i \in Nat, session' = Cancelled(i)
    PROVE  SessionsInv'
<1>1. session \in [1..Len(session) -> Session(Len(slot))] /\ Len(session) \in Nat
  BY SessionIsTyped DEF TypeInv
<1>2. session' \in [1..Len(session) -> Session(Len(slot))]
  BY CancelledTyped DEF TypeInv
<1>3. Len(session') = Len(session)
  BY <1>1, <1>2, SeqOf
<1>4. ASSUME NEW n \in 1..Len(session) PROVE SessionStep(session[n], session'[n])
  <2>1. CASE n = i
    <3>1. session'[n] = [session[n] EXCEPT !.status = "cancelled"] /\ session[n] \in Session(Len(slot))
      BY <1>1, <2>1 DEF Cancelled
    <3>2. /\ session'[n].slot = session[n].slot /\ session'[n].born = session[n].born
          /\ session'[n].left = session[n].left /\ session'[n].start = session[n].start
      BY <3>1 DEF Session
    <3>3. QED
      BY <3>2 DEF SessionStep
  <2>2. CASE n # i
    BY <1>1, <2>2, SessionAlone DEF Cancelled
  <2>3. QED
    BY <2>1, <2>2
<1>5. QED
  BY <1>3, <1>4, SessionsKept

LEMMA SessionsMove ==
    ASSUME TypeInv, SessionsInv, NEW k \in Workers, Move(k)
    PROVE  SessionsInv'
<1> DEFINE i == job[k].what.id
<1>1. PICK start \in Starts : start = job[k].what.start
  BY JobHere DEF Fits, Move
<1> HIDE DEF i
<1>2. session \in [1..Len(session) -> Session(Len(slot))] /\ Len(session) \in Nat
  BY SessionIsTyped DEF TypeInv
<1>3. CASE UNCHANGED session
  BY <1>3, SessionsSame
<1>4. CASE session' = [session EXCEPT ![i].start = start,
                                      ![i].left = @ \/ ~SameDay(start, session[i].born)]
  <2>1. DOMAIN session' = 1..Len(session)
    BY <1>2, <1>4
  <2>2. session' \in Seq(Session(Len(slot))')
    <3>1. TypeInv'
      BY TypeMove
    <3>2. QED
      BY <3>1 DEF TypeInv, RowsTyped
  <2>3. Len(session') = Len(session)
    BY <1>2, <2>1, <2>2, LenProperties
  <2>4. ASSUME NEW n \in 1..Len(session) PROVE SessionStep(session[n], session'[n])
    <3>1. CASE n = i
      <4>1. session'[n] = [session[n] EXCEPT !.start = start,
                                 !.left = session[n].left \/ ~SameDay(start, session[n].born)]
        BY <1>2, <1>4, <3>1
      <4>2. session[n] \in Session(Len(slot))
        BY <1>2
      <4>3. /\ session'[n].slot = session[n].slot /\ session'[n].born = session[n].born
            /\ session'[n].start = start
            /\ session'[n].left = (session[n].left \/ ~SameDay(start, session[n].born))
        BY <4>1, <4>2 DEF Session
      <4>4. (session[n].left => session'[n].left) /\ (session'[n].left \/ SameDay(start, session[n].born))
        BY <4>3, Zenon
      <4>5. QED
        BY <4>3, <4>4 DEF SessionStep
    <3>2. CASE n # i
      BY <1>2, <1>4, <3>2, SessionAlone
    <3>3. QED
      BY <3>1, <3>2
  <2>5. QED
    BY <2>3, <2>4, SessionsKept
<1>5. QED
  BY <1>1, <1>3, <1>4 DEF Move, i

LEMMA SessionsFill ==
    ASSUME TypeInv, SessionsInv, NEW k \in Workers, Fill(k)
    PROVE  SessionsInv'
<1>1. Fits(job[k], Len(question), Len(draft), Len(slot)) /\ Len(slot) \in Nat /\ job[k] \in Job
  BY JobHere
<1>2. PICK f \in job[k].fill :
         \/ UNCHANGED session
         \/ /\ ~DayTaken(f[1], [week |-> f[2], pos |-> slot[f[1]].pos])
            /\ session' = Append(session, Scheduled([week |-> f[2], pos |-> slot[f[1]].pos], f[1]))
  BY DEF Fill
<1>3. f[1] \in 1..Len(slot) /\ f[2] \in Weeks
  BY <1>1, <1>2 DEF Fits, Job
<1>4. [week |-> f[2], pos |-> slot[f[1]].pos] \in Starts
  <2>1. slot[f[1]] \in Slot(Len(draft))
    BY <1>3, Lengths DEF TypeInv
  <2>2. slot[f[1]].pos \in Positions
    BY <2>1 DEF Slot
  <2>3. QED
    BY <1>3, <2>2 DEF Starts
<1>5. PICK start \in Starts, s \in 0..Len(slot) : start = [week |-> f[2], pos |-> slot[f[1]].pos] /\ s = f[1]
  BY <1>1, <1>3, <1>4
<1>6. CASE UNCHANGED session
  BY <1>6, SessionsSame
<1>7. CASE ~DayTaken(s, start) /\ session' = Append(session, Scheduled(start, s))
  BY <1>7, SessionsAdded
<1>8. QED
  BY <1>2, <1>5, <1>6, <1>7

LEMMA SessionsSweep ==
    ASSUME TypeInv, SessionsInv, NEW k \in Workers, NEW booked \in SUBSET DOMAIN session, Sweep(k, booked)
    PROVE  SessionsInv'
<1>1. session \in [1..Len(session) -> Session(Len(slot))] /\ Len(session) \in Nat
  BY SessionIsTyped DEF TypeInv
<1>2. \A i \in 1..Len(session) : session'[i] = session[i] \/ session'[i] = [session[i] EXCEPT !.status = "cancelled"]
  BY <1>1 DEF Sweep
<1>3. Len(session') = Len(session)
  <2>1. DOMAIN session' = 1..Len(session)
    BY <1>1 DEF Sweep
  <2>2. session' \in Seq(Session(Len(slot))')
    <3>1. TypeInv'
      BY TypeSweep
    <3>2. QED
      BY <3>1 DEF TypeInv, RowsTyped
  <2>3. QED
    BY <1>1, <2>1, <2>2, LenProperties
<1>4. ASSUME NEW n \in 1..Len(session) PROVE SessionStep(session[n], session'[n])
  <2>1. CASE session'[n] = [session[n] EXCEPT !.status = "cancelled"]
    <3>1. /\ session'[n].slot = session[n].slot /\ session'[n].born = session[n].born
          /\ session'[n].left = session[n].left /\ session'[n].start = session[n].start
      BY <1>1, <2>1 DEF Session
    <3>2. QED
      BY <3>1 DEF SessionStep
  <2>2. QED
    BY <1>2, <2>1, SessionAlone
<1>5. QED
  BY <1>3, <1>4, SessionsKept

LEMMA SessionsStep ==
    ASSUME TypeInv, SessionsInv, [Next]_vars
    PROVE  SessionsInv'
<1>1. ASSUME NEW k \in Workers, Assistant(k)
      PROVE  SessionsInv'
  <2>1. CASE UNCHANGED session
    BY <2>1, SessionsSame
  <2>2. CASE \/ \E word \in {"yes", "no", "other"}, sms \in BOOLEAN : Message(k, word, sms)
             \/ \E q \in DOMAIN question, yes \in BOOLEAN : Confirm(k, q, yes)
             \/ Route(k) \/ CountCalls(k) \/ Judge(k) \/ AskOverflow(k)
    <3>1. UNCHANGED rows
      BY <2>2, Zenon DEF Message, Confirm, Route, CountCalls, Judge, AskOverflow
    <3>2. QED
      BY <3>1, <2>1 DEF rows
  <2>3. CASE \/ Reply(k) \/ MarkReasked(k) \/ DropReasked(k) \/ Consume(k)
             \/ RecordCall(k) \/ Retire(k) \/ Unlink(k) \/ Ask(k)
    <3>1. UNCHANGED session
      BY <2>3, Zenon DEF Reply, MarkReasked, DropReasked, Consume, RecordCall, Retire, Unlink, Ask
    <3>2. QED
      BY <3>1, <2>1
  <2>4. CASE Add(k)
    <3>1. PICK start \in Starts : start = job[k].what.start
      BY <2>4, JobHere DEF Fits, Add
    <3>2. 0 \in 0..Len(slot) /\ session' = Append(session, Scheduled(start, 0))
      BY <2>4, <3>1, JobHere DEF Add
    <3>3. QED
      BY <3>2, SessionsAdded
  <2>5. CASE Move(k)
    BY <2>5, SessionsMove
  <2>6. CASE Run(k)
    <3>1. PICK c \in Readings : c = job[k].what
      BY JobHere DEF Job
    <3>2. CASE c.intent = "session.cancel" /\ session' = Cancelled(c.id)
      <4>1. c.id \in Nat
        BY <3>2 DEF Readings, Unknown
      <4>2. QED
        BY <3>2, <4>1, SessionsCancelled
    <3>3. QED
      BY <2>1, <2>6, <3>1, <3>2 DEF Run
  <2>7. QED
    BY <1>1, <2>2, <2>3, <2>4, <2>5, <2>6 DEF Assistant
<1>2. ASSUME NEW k \in Workers, Setup(k)
      PROVE  SessionsInv'
  <2>1. UNCHANGED session
    BY <1>2 DEF Setup, SetupMessage, SaveDraft, Publish, FindType, AddType, SkipHeld, FindOffer, AddOffer, rows
  <2>2. QED
    BY <2>1, SessionsSame
<1>3. ASSUME NEW k \in Workers, Weekly(k)
      PROVE  SessionsInv'
  <2>1. CASE \/ \E positions \in Weeklies : GenerateWeek(k, positions)
             \/ FindSlot(k) \/ AddSlot(k) \/ TopUp(k)
             \/ \E s \in ActiveSlots : Remove(k, s)
    <3>1. UNCHANGED session
      BY <2>1 DEF GenerateWeek, FindSlot, AddSlot, TopUp, Remove, rows
    <3>2. QED
      BY <3>1, SessionsSame
  <2>2. QED
    BY <1>3, <2>1, SessionsFill, SessionsSweep DEF Weekly
<1>4. CASE \E i \in DOMAIN session : CancelOnScreen(i)
  <2>1. PICK i \in DOMAIN session : CancelOnScreen(i)
    BY <1>4
  <2>2. i \in Nat /\ session' = Cancelled(i)
    BY <2>1, Lengths DEF CancelOnScreen, TypeInv
  <2>3. QED
    BY <2>2, SessionsCancelled
<1>5. CASE (\E d \in DOMAIN draft : Discard(d)) \/ NextWeek \/ UNCHANGED vars
  <2>1. UNCHANGED session
    BY <1>5 DEF Discard, NextWeek, rows, vars
  <2>2. QED
    BY <2>1, SessionsSame
<1>6. QED
  BY <1>1, <1>2, <1>3, <1>4, <1>5 DEF Next

LEMMA SessionsInit == Init => SessionsInv
BY DEF Init, SessionsInv

LEMMA SessionsGive == TypeInv /\ SessionsInv => OncePerDay
BY Lengths DEF TypeInv, SessionsInv, OncePerDay

(* A weekly slot puts one session on a day, however many ticks, Publish taps *)
(* and saved weekly times fill it at once (OncePerDay).                      *)
THEOREM FilledOnce == Spec => []OncePerDay
<1>1. Init => TypeInv /\ SessionsInv
  BY TypeInit, SessionsInit
<1>2. TypeInv /\ SessionsInv /\ [Next]_vars => (TypeInv /\ SessionsInv)'
  BY TypeStep, SessionsStep
<1>3. TypeInv /\ SessionsInv => OncePerDay
  BY SessionsGive
<1>4. QED
  BY <1>1, <1>2, <1>3, PTL DEF Spec
=============================================================================
