-------------------------- MODULE Refunds_proofs --------------------------
(* What holds of Refunds for every number of bookings, workers and tries,  *)
(* wherever a handler stops, whatever the relay answers and reports.       *)
EXTENDS Refunds, SumLemmas, SequenceTheorems, FiniteSetTheorems, TLAPS

(* The rows the payment bought, and what they are once it is refunded.     *)
Rows ==
    /\ child \in [Children -> Booking]
    /\ credit \in Seq(Credit)

(* Every credit is that of one of the bookings: none escapes the refund.   *)
Named ==
    /\ \A c \in Children : child[c].credit \in 0..Len(credit)
    /\ \A i \in 1..Len(credit) : \E c \in Children : child[c].credit = i

RowInv == Rows /\ Named

AllGone ==
    /\ \A c \in Children : child[c].status = "refunded"
    /\ \A i \in 1..Len(credit) : credit[i].withdrawn /\ credit[i].left = 0

AppliedIsGone == refund.applied => AllGone

AppliedHasRow == refund.applied => refund.status # "none"

(* Only a worker at an event inserts a row. *)
InsertsForEvents == \A k \in Workers : job[k].op = "insert" => job[k].e \in Report

(* Who tells the parent is the one who applied the refund, and tells once. *)
TellsOnce ==
    /\ told \in {0, 1}
    /\ ~refund.applied => told = 0 /\ \A k \in Workers : job[k].op # "tell"
    /\ \A k \in Workers : job[k].op = "tell" => told = 0 /\ \A l \in Workers : job[l].op = "tell" => l = k

----------------------------------------------------------------------------
(* Sequences of credits. *)

LEMMA CreditRows ==
    ASSUME Rows
    PROVE  /\ Len(credit) \in Nat /\ DOMAIN credit = 1..Len(credit)
           /\ \A i \in 1..Len(credit) : credit[i] \in Credit
BY DEF Rows

LEMMA SeqOfCredits ==
    ASSUME NEW n \in Nat, NEW s \in [1..n -> Credit]
    PROVE  s \in Seq(Credit) /\ Len(s) = n
<1>1. s \in Seq(Credit)
  BY SeqDef
<1>2. QED
  BY <1>1, LenProperties

(* The credits may change in what is left, held and withdrawn; a withdrawn *)
(* and empty one stays so.                                                 *)
SameCredits ==
    /\ credit' \in Seq(Credit) /\ Len(credit') = Len(credit)
    /\ \A i \in 1..Len(credit) :
          credit[i].withdrawn /\ credit[i].left = 0 => credit'[i].withdrawn /\ credit'[i].left = 0

LEMMA SameCreditsKeepRows ==
    ASSUME RowInv, SameCredits, UNCHANGED child
    PROVE  RowInv' /\ (AllGone => AllGone')
BY DEF RowInv, Rows, Named, SameCredits, AllGone

LEMMA HoldingKeeps ==
    ASSUME Rows, NEW ids, credit' = Holding(ids)
    PROVE  SameCredits
<1> DEFINE n == Len(credit)
<1>1. n \in Nat /\ DOMAIN credit = 1..n /\ \A i \in 1..n : credit[i] \in Credit
  BY CreditRows
<1>2. credit' = [i \in 1..n |-> IF i \in ids THEN [credit[i] EXCEPT !.held = TRUE] ELSE credit[i]]
  BY <1>1 DEF Holding
<1>3. \A i \in 1..n : /\ credit'[i] \in Credit
                      /\ credit'[i].withdrawn = credit[i].withdrawn /\ credit'[i].left = credit[i].left
  BY <1>1, <1>2 DEF Credit
<1>4. credit' \in [1..n -> Credit]
  BY <1>2, <1>3
<1>5. QED
  BY <1>1, <1>3, <1>4, SeqOfCredits DEF SameCredits

LEMMA ReleaseKeeps ==
    ASSUME Rows, NEW k \in Workers, Release(k)
    PROVE  SameCredits
<1> DEFINE n == Len(credit)
<1>1. n \in Nat /\ DOMAIN credit = 1..n /\ \A i \in 1..n : credit[i] \in Credit
  BY CreditRows
<1>2. credit' = [i \in 1..n |-> IF credit[i].withdrawn THEN credit[i] ELSE [credit[i] EXCEPT !.held = FALSE]]
  BY <1>1 DEF Release
<1>3. \A i \in 1..n : /\ credit'[i] \in Credit
                      /\ credit'[i].withdrawn = credit[i].withdrawn /\ credit'[i].left = credit[i].left
  BY <1>1, <1>2 DEF Credit
<1>4. credit' \in [1..n -> Credit]
  BY <1>2, <1>3
<1>5. QED
  BY <1>1, <1>3, <1>4, SeqOfCredits DEF SameCredits

(* One credit changes, and is not one that is withdrawn and empty.         *)
LEMMA OneCreditKeeps ==
    ASSUME Rows, NEW i \in 1..Len(credit), NEW row \in Credit, credit' = [credit EXCEPT ![i] = row],
           credit[i].withdrawn /\ credit[i].left = 0 => row.withdrawn /\ row.left = 0
    PROVE  SameCredits
<1> DEFINE n == Len(credit)
<1>1. n \in Nat /\ DOMAIN credit = 1..n /\ \A j \in 1..n : credit[j] \in Credit
  BY CreditRows
<1>2. credit' = [j \in 1..n |-> IF j = i THEN row ELSE credit[j]]
  BY <1>1 DEF Rows
<1>3. credit' \in [1..n -> Credit]
  BY <1>1, <1>2
<1>4. QED
  BY <1>1, <1>2, <1>3, SeqOfCredits DEF SameCredits

(* What restoreCredit leaves. *)
LEMMA RestoredRow ==
    ASSUME Rows, NEW i \in 1..Len(credit)
    PROVE  \E row \in Credit :
              /\ Restored(i) = [credit EXCEPT ![i] = row]
              /\ credit[i].withdrawn /\ credit[i].left = 0 => row.withdrawn /\ row.left = 0
<1>1. credit[i] \in Credit /\ DOMAIN credit = 1..Len(credit)
  BY CreditRows
<1>2. CASE credit[i].withdrawn
  <2>1. Restored(i) = credit /\ credit = [credit EXCEPT ![i] = credit[i]]
    BY <1>1, <1>2 DEF Restored, Rows
  <2>2. QED
    BY <1>1, <2>1
<1>3. CASE ~credit[i].withdrawn
  <2> DEFINE row == [credit[i] EXCEPT !.left = @ + 1]
  <2>1. row \in Credit /\ Restored(i) = [credit EXCEPT ![i] = row]
    BY <1>1, <1>3 DEF Restored, Credit
  <2>2. QED
    BY <1>3, <2>1
<1>4. QED
  BY <1>2, <1>3

LEMMA NewCredit ==
    ASSUME Rows, NEW row \in Credit, credit' = Append(credit, row)
    PROVE  credit' \in Seq(Credit) /\ Len(credit') = Len(credit) + 1
BY AppendProperties DEF Rows

----------------------------------------------------------------------------
(* The bookings' steps keep the rows. *)

LEMMA GiveBackKeeps ==
    ASSUME RowInv, NEW c \in Children, NEW b \in Booking, b.credit = child[c].credit, GiveBack(c, b)
    PROVE  RowInv'
<1>1. Rows /\ Named /\ child[c] \in Booking /\ Len(credit) \in Nat
  BY CreditRows DEF RowInv, Rows
<1>2. CASE child[c].credit # None
  <2> DEFINE i == child[c].credit
  <2>1. i \in 1..Len(credit) /\ credit' = Restored(i) /\ child' = [child EXCEPT ![c] = b]
    BY <1>1, <1>2 DEF GiveBack, Named, None
  <2>2. SameCredits
    BY <1>1, <2>1, RestoredRow, OneCreditKeeps
  <2>3. \A d \in Children : child'[d].credit = child[d].credit
    BY <1>1, <2>1 DEF Rows
  <2>4. QED
    BY <1>1, <2>1, <2>2, <2>3 DEF RowInv, Rows, Named, SameCredits
<1>3. CASE child[c].credit = None
  <2> DEFINE row == [left |-> 1, drawn |-> 0, held |-> HeldFromTheStart, withdrawn |-> FALSE]
             n == Len(credit)
             new == [b EXCEPT !.credit = n + 1]
  <2>1. row \in Credit /\ credit' = Append(credit, row) /\ child' = [child EXCEPT ![c] = new]
    BY <1>3 DEF GiveBack, Credit, HeldFromTheStart
  <2>2. credit' \in Seq(Credit) /\ Len(credit') = n + 1
    <3> HIDE DEF row
    <3>1. QED
      BY <1>1, <2>1, NewCredit
  <2>3. new \in Booking /\ new.credit = n + 1
    BY <1>1 DEF Booking
  <2>4. Rows'
    BY <1>1, <2>1, <2>2, <2>3 DEF Rows
  <2>5. child'[c].credit = n + 1 /\ \A d \in Children \ {c} : child'[d] = child[d]
    BY <1>1, <2>1, <2>3 DEF Rows
  <2>6. \A d \in Children : child'[d].credit \in 0..(n + 1)
    BY <1>1, <2>5 DEF Named
  <2>7. \A i \in 1..(n + 1) : \E d \in Children : child'[d].credit = i
    <3>1. TAKE i \in 1..(n + 1)
    <3>2. CASE i = n + 1
      BY <2>5, <3>2
    <3>3. CASE i # n + 1
      <4>1. PICK d \in Children : child[d].credit = i
        BY <1>1, <3>3 DEF Named
      <4>2. d # c
        BY <1>1, <1>3, <4>1 DEF None
      <4>3. QED
        BY <2>5, <4>1, <4>2
    <3>4. QED
      BY <3>2, <3>3
  <2>8. QED
    BY <2>2, <2>4, <2>6, <2>7 DEF RowInv, Named
<1>4. QED
  BY <1>2, <1>3

LEMMA StatusKeeps ==
    ASSUME RowInv, NEW c \in Children, NEW b \in Booking, b.credit = child[c].credit,
           child' = [child EXCEPT ![c] = b], UNCHANGED credit
    PROVE  RowInv'
<1>1. \A d \in Children : child'[d].credit = child[d].credit
  BY DEF RowInv, Rows
<1>2. QED
  BY <1>1 DEF RowInv, Rows, Named

(* What becomes of the bookings, without the refund. *)
BookingStep ==
    \/ \E c \in Children : MarkNoShow(c) \/ CancelByParent(c) \/ Waive(c) \/ CancelSessionBooking(c)
    \/ \E i \in DOMAIN credit : Draw(i) \/ Return(i)

LEMMA BookingSteps ==
    ASSUME RowInv, BookingStep
    PROVE  RowInv' /\ (AllGone => AllGone')
<1>1. Rows /\ Named /\ \A c \in Children : child[c] \in Booking
  BY DEF RowInv, Rows
<1>2. ASSUME NEW c \in Children, MarkNoShow(c)
      PROVE  RowInv' /\ ~AllGone
  <2> DEFINE b == [child[c] EXCEPT !.status = "noshow"]
  <2>1. b \in Booking /\ b.credit = child[c].credit
    BY <1>1 DEF Booking
  <2>2. child' = [child EXCEPT ![c] = b] /\ UNCHANGED credit /\ ~AllGone
    BY <1>1, <1>2 DEF MarkNoShow, Rows, AllGone
  <2>3. QED
    BY <2>1, <2>2, StatusKeeps
<1>3. ASSUME NEW c \in Children, CancelByParent(c)
      PROVE  RowInv' /\ ~AllGone
  <2> DEFINE b == [child[c] EXCEPT !.status = "cancelled"]
             d == [child[c] EXCEPT !.status = "cancelled", !.late = TRUE]
  <2>1. b \in Booking /\ d \in Booking /\ b.credit = child[c].credit /\ d.credit = child[c].credit
    BY <1>1 DEF Booking
  <2>2. ~AllGone
    BY <1>3 DEF CancelByParent, Live, AllGone
  <2>3. CASE GiveBack(c, b)
    BY <2>1, <2>2, <2>3, GiveBackKeeps
  <2>4. CASE child' = [child EXCEPT ![c] = d] /\ UNCHANGED credit
    BY <2>1, <2>2, <2>4, StatusKeeps
  <2>5. GiveBack(c, b) \/ (child' = [child EXCEPT ![c] = d] /\ UNCHANGED credit)
    BY <1>1, <1>3 DEF CancelByParent, Rows
  <2>6. QED
    BY <2>3, <2>4, <2>5
<1>4. ASSUME NEW c \in Children, Waive(c)
      PROVE  RowInv' /\ ~AllGone
  <2> DEFINE b == [child[c] EXCEPT !.waived = TRUE]
  <2>1. b \in Booking /\ b.credit = child[c].credit
    BY <1>1 DEF Booking
  <2>2. GiveBack(c, b) /\ ~AllGone
    BY <1>4 DEF Waive, Waivable, AllGone
  <2>3. QED
    BY <2>1, <2>2, GiveBackKeeps
<1>5. ASSUME NEW c \in Children, CancelSessionBooking(c)
      PROVE  RowInv' /\ ~AllGone
  <2> DEFINE b == [child[c] EXCEPT !.status = "cancelled"]
  <2>1. b \in Booking /\ b.credit = child[c].credit
    BY <1>1 DEF Booking
  <2>2. ~AllGone
    BY <1>5 DEF CancelSessionBooking, Live, AllGone
  <2>3. GiveBack(c, b) \/ (child' = [child EXCEPT ![c] = b] /\ UNCHANGED credit)
    BY <1>1, <1>5 DEF CancelSessionBooking, Rows
  <2>4. QED
    BY <2>1, <2>2, <2>3, GiveBackKeeps, StatusKeeps
<1>6. ASSUME NEW i \in DOMAIN credit, Draw(i)
      PROVE  RowInv' /\ (AllGone => AllGone')
  <2> DEFINE row == [credit[i] EXCEPT !.left = @ - 1, !.drawn = @ + 1]
  <2>1. i \in 1..Len(credit) /\ credit[i] \in Credit
    BY <1>1, CreditRows
  <2>2. credit[i].left # 0 /\ row \in Credit /\ UNCHANGED child
    BY <1>6, <2>1 DEF Draw, Usable, Credit
  <2>5. credit' = [credit EXCEPT ![i] = row]
    <3>1. [credit EXCEPT ![i].left = @ - 1, ![i].drawn = @ + 1] = [credit EXCEPT ![i] = row]
      BY <1>1, <2>1, CreditRows DEF Rows, Credit
    <3>2. QED
      BY <1>6, <3>1 DEF Draw
  <2>3. SameCredits
    <3> HIDE DEF row
    <3>1. QED
      BY <1>1, <2>1, <2>2, <2>5, OneCreditKeeps
  <2>4. QED
    BY <2>2, <2>3, SameCreditsKeepRows
<1>7. ASSUME NEW i \in DOMAIN credit, Return(i)
      PROVE  RowInv' /\ (AllGone => AllGone')
  <2>1. i \in 1..Len(credit) /\ credit[i] \in Credit
    BY <1>1, CreditRows
  <2>2. PICK row \in Credit :
              /\ Restored(i) = [credit EXCEPT ![i] = row]
              /\ credit[i].withdrawn /\ credit[i].left = 0 => row.withdrawn /\ row.left = 0
    BY <1>1, <2>1, RestoredRow
  <2>3. row.drawn = credit[i].drawn
    <3>1. [credit EXCEPT ![i] = row][i] = row /\ Restored(i)[i].drawn = credit[i].drawn
      BY <2>1, CreditRows, <1>1 DEF Restored, Credit
    <3>2. QED
      BY <2>2, <3>1
  <2> DEFINE new == [row EXCEPT !.drawn = @ - 1]
  <2>4. /\ new \in Credit /\ credit' = [credit EXCEPT ![i] = new] /\ UNCHANGED child
        /\ new.withdrawn = row.withdrawn /\ new.left = row.left
    BY <1>1, <1>7, <2>1, <2>2, <2>3, CreditRows DEF Return, Credit
  <2>5. SameCredits
    <3> HIDE DEF new
    <3>1. QED
      BY <1>1, <2>1, <2>2, <2>4, OneCreditKeeps
  <2>6. QED
    BY <2>4, <2>5, SameCreditsKeepRows
<1>8. QED
  BY <1>2, <1>3, <1>4, <1>5, <1>6, <1>7 DEF BookingStep

LEMMA ApplyKeeps ==
    ASSUME RowInv, NEW k \in Workers, Apply(k), ToApply
    PROVE  RowInv' /\ AllGone'
<1> DEFINE n == Len(credit)
<1>1. n \in Nat /\ DOMAIN credit = 1..n /\ \A i \in 1..n : credit[i] \in Credit
  BY CreditRows DEF RowInv
<1>2. \A i \in 1..n : i \in CreditIds
  BY DEF RowInv, Named, CreditIds, None
<1>3. credit' = [i \in 1..n |-> [credit[i] EXCEPT !.left = 0, !.held = TRUE, !.withdrawn = TRUE]]
  BY <1>1, <1>2 DEF Apply
<1>4. credit' \in [1..n -> Credit] /\ \A i \in 1..n : credit'[i].withdrawn /\ credit'[i].left = 0
  BY <1>1, <1>3 DEF Credit
<1>5. credit' \in Seq(Credit) /\ Len(credit') = n
  BY <1>1, <1>4, SeqOfCredits
<1>6. child' = [c \in Children |-> [child[c] EXCEPT !.status = "refunded"]]
  BY DEF Apply
<1>7. \A c \in Children : /\ child'[c] \in Booking /\ child'[c].status = "refunded"
                          /\ child'[c].credit = child[c].credit
  BY <1>6 DEF RowInv, Rows, Booking
<1>8. child' \in [Children -> Booking]
  BY <1>6, <1>7
<1>9. QED
  BY <1>4, <1>5, <1>7, <1>8 DEF RowInv, Rows, Named, AllGone

----------------------------------------------------------------------------
(* Everything but the rows. *)

Rest ==
    /\ kind \in Kinds
    /\ refund \in Refund
    /\ session \in {"scheduled", "cancelled"}
    /\ started \in BOOLEAN
    /\ told \in Nat
    /\ relay \in [Refs -> {"none", "pending", "succeeded", "failed", "bounced"}]
    /\ reports \subseteq Report
    /\ job \in [Workers -> Job]
    /\ faults \in 0..MaxFaults

RestInv == Rest /\ InsertsForEvents /\ AppliedHasRow /\ TellsOnce

HistoryInv == freed \in BOOLEAN /\ twice \subseteq Children

LEMMA Split == TypeOK <=> Rows /\ Rest /\ HistoryInv
BY DEF TypeOK, Rows, Rest, HistoryInv

LEMMA RefsAre ==
    /\ Tries \subseteq Refs /\ Whole \in Refs /\ Part \in Refs /\ None \notin Refs
BY BoundsAssumption DEF Tries, Refs, Whole, Part, None

LEMMA JobFields ==
    ASSUME Rest, NEW k \in Workers, job[k].op # "idle"
    PROVE  job[k].r \in Refs /\ job[k].e \in Report \cup {NoReport}
BY DEF Rest, Job, Idle

LEMMA AtIsJob ==
    ASSUME NEW op \in {"call", "pending", "unanswered", "ref", "fail", "release", "insert", "apply", "tell", "finish"},
           NEW r \in Refs, NEW e \in Report \cup {NoReport}
    PROVE  At(op, r, e) \in Job /\ At(op, r, e).op = op /\ At(op, r, e).r = r /\ At(op, r, e).e = e
BY DEF At, Job

(* Nobody starts telling, and nobody inserts but for an event.             *)
JobsKept ==
    /\ job' \in [Workers -> Job]
    /\ InsertsForEvents'
    /\ \A l \in Workers : job'[l].op = "tell" => job[l].op = "tell"

LEMMA SameJobs ==
    ASSUME Rest, InsertsForEvents, UNCHANGED job
    PROVE  JobsKept
BY DEF Rest, InsertsForEvents, JobsKept

LEMMA GoKeeps ==
    ASSUME Rest, InsertsForEvents, NEW k \in Workers, NEW j \in Job, Go(k, j),
           j.op = "insert" => j.e \in Report, j.op # "tell"
    PROVE  JobsKept
BY DEF Rest, InsertsForEvents, JobsKept, Go

LEMMA IdleKeeps ==
    ASSUME Rest, InsertsForEvents, NEW k \in Workers, Go(k, Idle)
    PROVE  JobsKept
<1>1. Idle \in Job /\ Idle.op = "idle"
  BY DEF Idle, Job
<1>2. QED
  BY <1>1, GoKeeps

LEMMA AtKeeps ==
    ASSUME Rest, InsertsForEvents, NEW k \in Workers,
           NEW op \in {"call", "pending", "unanswered", "ref", "fail", "release", "insert", "apply", "finish"},
           NEW r \in Refs, NEW e \in Report \cup {NoReport}, op = "insert" => e \in Report, Go(k, At(op, r, e))
    PROVE  JobsKept
<1>1. At(op, r, e) \in Job /\ At(op, r, e).op = op /\ At(op, r, e).e = e
  BY AtIsJob
<1>2. QED
  BY <1>1, GoKeeps

LEMMA DoneKeeps ==
    ASSUME Rest, InsertsForEvents, NEW k \in Workers, job[k].op # "idle", Done(k)
    PROVE  JobsKept
<1>1. job[k].r \in Refs /\ job[k].e \in Report \cup {NoReport}
  BY JobFields
<1>2. Go(k, Idle) \/ Go(k, At("finish", job[k].r, job[k].e))
  BY DEF Done
<1>3. QED
  BY <1>1, <1>2, IdleKeeps, AtKeeps

(* A step that neither applies the refund nor tells the parent.            *)
LEMMA QuietKeeps ==
    ASSUME RestInv, JobsKept, told' = told,
           kind' = kind, session' \in {"scheduled", "cancelled"}, started' \in BOOLEAN,
           relay' \in [Refs -> {"none", "pending", "succeeded", "failed", "bounced"}],
           reports' \subseteq Report, faults' \in 0..MaxFaults,
           refund' \in Refund, refund'.applied = refund.applied, refund'.status # "none" \/ refund'.status = refund.status
    PROVE  RestInv'
<1>1. Rest'
  BY DEF RestInv, Rest, JobsKept
<1>2. AppliedHasRow' /\ InsertsForEvents'
  BY DEF RestInv, AppliedHasRow, JobsKept
<1>3. TellsOnce'
  BY DEF RestInv, TellsOnce, JobsKept
<1>4. QED
  BY <1>1, <1>2, <1>3 DEF RestInv

----------------------------------------------------------------------------
(* Every step keeps the rest. *)

LEMMA ClaimRest ==
    ASSUME RestInv, NEW k \in Workers, Claim(k)
    PROVE  RestInv'
<1>1. Rest /\ InsertsForEvents
  BY DEF RestInv
<1>2. NextAttempt \in Refs /\ NextAttempt \in Nat
  BY RefsAre DEF Claim, Tries
<1>3. JobsKept
  <2>1. Go(k, At("call", NextAttempt, NoReport))
    BY DEF Claim
  <2>2. QED
    BY <1>1, <1>2, <2>1, AtKeeps
<1>4. refund' \in Refund /\ refund'.applied = refund.applied /\ refund'.status # "none"
  BY <1>1, <1>2 DEF Claim, Rest, Refund
<1>5. QED
  BY <1>1, <1>3, <1>4, QuietKeeps DEF Claim, world, Rest

LEMMA CallRest ==
    ASSUME RestInv, NEW k \in Workers, Call(k)
    PROVE  RestInv'
<1> DEFINE a == job[k].r
<1>1. Rest /\ InsertsForEvents /\ a \in Refs /\ NoReport \in Report \cup {NoReport}
  BY JobFields DEF RestInv, Call
<1>2. \A s \in {"none", "pending", "succeeded", "failed", "bounced"} :
         /\ Go(k, Answered(a, s)) => JobsKept
         /\ Reported(a, s) \subseteq Report \/ s = "none"
  <2>1. SUFFICES ASSUME NEW s \in {"none", "pending", "succeeded", "failed", "bounced"}
                 PROVE  /\ Go(k, Answered(a, s)) => JobsKept
                        /\ Reported(a, s) \subseteq Report
    OBVIOUS
  <2>2. Go(k, Answered(a, s)) => JobsKept
    <3>1. PICK op \in {"pending", "apply", "ref"} : Answered(a, s) = At(op, a, NoReport)
      BY DEF Answered
    <3>2. QED
      BY <1>1, <3>1, AtKeeps
  <2>3. Reported(a, s) \subseteq Report
    BY <1>1 DEF Reported, Report
  <2>4. QED
    BY <2>2, <2>3
<1>3. Go(k, At("fail", a, NoReport)) \/ Go(k, At("unanswered", a, NoReport)) => JobsKept
  BY <1>1, AtKeeps
<1>4. relay[a] \in {"none", "pending", "succeeded", "failed", "bounced"}
  BY <1>1 DEF Rest
<1>5. /\ JobsKept
      /\ relay' \in [Refs -> {"none", "pending", "succeeded", "failed", "bounced"}]
      /\ reports' \subseteq Report
  <2>1. CASE relay' = relay /\ reports' = reports /\ (Go(k, At("fail", a, NoReport)) \/ Go(k, At("unanswered", a, NoReport)) \/ Go(k, Answered(a, relay[a])))
    BY <1>1, <1>2, <1>3, <1>4, <2>1 DEF Rest
  <2>2. CASE \E s \in {"pending", "succeeded", "failed"} :
                /\ relay' = [relay EXCEPT ![a] = s]
                /\ reports' = reports \cup Reported(a, s)
                /\ Go(k, Answered(a, s)) \/ Go(k, At("unanswered", a, NoReport))
    BY <1>1, <1>2, <1>3, <2>2 DEF Rest
  <2>3. QED
    BY <2>1, <2>2 DEF Call
<1>6. QED
  BY <1>1, <1>5, QuietKeeps DEF Call, bought, world, Rest

LEMMA NotesRest ==
    ASSUME RestInv, NEW k \in Workers, NotePending(k) \/ NoteUnanswered(k) \/ NoteRef(k)
    PROVE  RestInv'
<1>1. Rest /\ InsertsForEvents /\ job[k].r \in Refs
  BY JobFields DEF RestInv, NotePending, NoteUnanswered, NoteRef
<1>2. JobsKept
  <2>1. Go(k, Idle) \/ Go(k, At("fail", job[k].r, NoReport))
    BY DEF NotePending, NoteUnanswered, NoteRef
  <2>2. QED
    BY <1>1, <2>1, IdleKeeps, AtKeeps
<1>3. /\ refund' \in Refund /\ refund'.applied = refund.applied
      /\ refund'.status # "none" \/ refund'.status = refund.status
  BY <1>1 DEF NotePending, NoteUnanswered, NoteRef, Rest, Refund
<1>4. QED
  BY <1>1, <1>2, <1>3, QuietKeeps DEF NotePending, NoteUnanswered, NoteRef, bought, world, Rest

LEMMA FailRest ==
    ASSUME RestInv, NEW k \in Workers, MarkFailed(k) \/ Release(k)
    PROVE  RestInv'
<1>1. Rest /\ InsertsForEvents /\ job[k].op # "idle" /\ job[k].r \in Refs /\ job[k].e \in Report \cup {NoReport}
  BY JobFields DEF RestInv, MarkFailed, Release
<1>2. JobsKept
  <2>1. Done(k) \/ Go(k, At("release", job[k].r, job[k].e))
    BY DEF MarkFailed, Release
  <2>2. QED
    BY <1>1, <2>1, DoneKeeps, AtKeeps
<1>3. /\ refund' \in Refund /\ refund'.applied = refund.applied
      /\ refund'.status # "none" \/ refund'.status = refund.status
  BY <1>1 DEF MarkFailed, Release, Rest, Refund
<1>4. QED
  BY <1>1, <1>2, <1>3, QuietKeeps DEF MarkFailed, Release, bought, world, Rest

LEMMA HandleRest ==
    ASSUME RestInv, NEW k \in Workers, NEW e \in Report, Handle(k, e)
    PROVE  RestInv'
<1>1. Rest /\ InsertsForEvents /\ e.ref \in Refs
  BY DEF RestInv, Report
<1>2. JobsKept
  <2>1. PICK op \in {"insert", "fail", "finish", "apply"} : Go(k, At(op, e.ref, e))
    BY DEF Handle
  <2>2. QED
    BY <1>1, <2>1, AtKeeps
<1>3. QED
  BY <1>1, <1>2, QuietKeeps DEF Handle, bought, world, Rest

LEMMA InsertRest ==
    ASSUME RestInv, NEW k \in Workers, Insert(k)
    PROVE  RestInv'
<1> DEFINE e == job[k].e
<1>1. Rest /\ InsertsForEvents /\ e \in Report /\ e.ref \in Refs
  BY DEF RestInv, InsertsForEvents, Insert, Report
<1>2. JobsKept
  <2>1. PICK op \in {"finish", "apply"} : Go(k, At(op, e.ref, e))
    BY DEF Insert
  <2>2. QED
    BY <1>1, <2>1, AtKeeps
<1>3. PICK status \in {"failed", "partial", "requested"} :
         refund' = IF refund.status = "none" THEN RefundRow(status, e.ref, FALSE) ELSE refund
  BY DEF Insert
<1>4. RefundRow(status, e.ref, FALSE) \in Refund
  BY <1>1 DEF RefundRow, Refund
<1>5. refund.status = "none" => ~refund.applied
  BY DEF RestInv, AppliedHasRow
<1>6. /\ refund' \in Refund /\ refund'.applied = refund.applied
      /\ refund'.status # "none" \/ refund'.status = refund.status
  BY <1>1, <1>3, <1>4, <1>5 DEF Rest, Refund, RefundRow
<1>7. QED
  BY <1>1, <1>2, <1>6, QuietKeeps DEF Insert, bought, world, Rest

LEMMA ApplyRest ==
    ASSUME RestInv, NEW k \in Workers, Apply(k)
    PROVE  RestInv' /\ refund'.applied
<1>1. Rest /\ InsertsForEvents /\ job[k].op # "idle" /\ job[k].r \in Refs /\ job[k].e \in Report \cup {NoReport}
  BY JobFields DEF RestInv, Apply
<1>2. refund' \in Refund /\ refund'.applied /\ refund'.status = "refunded"
  BY <1>1 DEF Apply, Rest, Refund
<1>3. CASE ~ToApply
  <2>1. JobsKept
    BY <1>1, <1>3, DoneKeeps DEF Apply
  <2>2. refund'.applied = refund.applied
    BY <1>1, <1>2, <1>3 DEF ToApply, Rest, Refund
  <2>3. QED
    BY <1>1, <1>2, <2>1, <2>2, QuietKeeps DEF Apply, world, Rest
<1>4. CASE ToApply
  <2> DEFINE j == At("tell", job[k].r, job[k].e)
  <2>1. j \in Job /\ j.op = "tell"
    BY <1>1, AtIsJob
  <2>2. job' = [job EXCEPT ![k] = j]
    BY <1>4 DEF Apply, Go
  <2>3. Rest'
    BY <1>1, <1>2, <2>1, <2>2 DEF Apply, Rest, world
  <2>4. InsertsForEvents' /\ AppliedHasRow'
    BY <1>1, <1>2, <2>1, <2>2 DEF Rest, InsertsForEvents, AppliedHasRow
  <2>5. told = 0 /\ told' = 0 /\ \A l \in Workers : job[l].op # "tell"
    BY <1>4 DEF RestInv, TellsOnce, ToApply, Apply
  <2>6. \A l \in Workers : job'[l].op = "tell" => l = k
    BY <1>1, <2>2, <2>5 DEF Rest
  <2>7. TellsOnce'
    BY <1>2, <2>5, <2>6 DEF TellsOnce
  <2>8. QED
    BY <1>2, <2>3, <2>4, <2>7 DEF RestInv
<1>5. QED
  BY <1>3, <1>4

LEMMA TellRest ==
    ASSUME RestInv, NEW k \in Workers, Tell(k)
    PROVE  RestInv'
<1>1. Rest /\ InsertsForEvents /\ job[k].op = "tell"
  BY DEF RestInv, Tell
<1>2. JobsKept
  BY <1>1, DoneKeeps DEF Tell
<1>3. told = 0 /\ told' = 1 /\ refund.applied /\ \A l \in Workers : job[l].op = "tell" => l = k
  BY <1>1 DEF RestInv, TellsOnce, Tell
<1>4. job'[k].op # "tell"
  <2>1. job'[k] = Idle \/ job'[k] = At("finish", job[k].r, job[k].e)
    BY <1>1 DEF Tell, Done, Go, Rest
  <2>2. QED
    BY <2>1 DEF Idle, At
<1>5. \A l \in Workers : job'[l].op # "tell"
  BY <1>2, <1>3, <1>4 DEF JobsKept
<1>6. Rest' /\ refund' = refund
  BY <1>1, <1>2, <1>3 DEF Tell, Rest, JobsKept, bought, world
<1>7. TellsOnce'
  BY <1>3, <1>5, <1>6 DEF TellsOnce
<1>8. QED
  BY <1>2, <1>6, <1>7 DEF RestInv, JobsKept, AppliedHasRow

LEMMA EndsRest ==
    ASSUME RestInv, NEW k \in Workers, Finish(k) \/ Crash(k)
    PROVE  RestInv'
<1>1. Rest /\ InsertsForEvents
  BY DEF RestInv
<1>2. JobsKept
  BY <1>1, IdleKeeps DEF Finish, Crash
<1>3. reports' \subseteq Report /\ faults' \in 0..MaxFaults
  BY <1>1, BoundsAssumption DEF Finish, Crash, Rest
<1>4. QED
  BY <1>1, <1>2, <1>3, QuietKeeps DEF Finish, Crash, bought, world, Rest

LEMMA WorldRest ==
    ASSUME RestInv,
           \/ GrowStale \/ Start \/ CancelSession \/ BookingStep
           \/ \E r \in Tries, s \in {"succeeded", "failed", "bounced"} : Confirm(r, s)
           \/ \E how \in Outside : RefundOutside(how)
    PROVE  RestInv'
<1>2. ASSUME GrowStale PROVE RestInv'
  <2>1. refund' \in Refund /\ refund'.applied = refund.applied /\ refund'.status = refund.status /\ JobsKept
    BY <1>2, SameJobs DEF GrowStale, RestInv, Rest, Refund
  <2>2. QED
    BY <1>2, <2>1, QuietKeeps DEF GrowStale, bought, world, RestInv, Rest
<1>3. ASSUME Start \/ CancelSession PROVE RestInv'
  <2>1. JobsKept
    BY <1>3, SameJobs DEF Start, CancelSession, RestInv
  <2>2. QED
    BY <1>3, <2>1, QuietKeeps DEF Start, CancelSession, bought, RestInv, Rest
<1>4. ASSUME BookingStep PROVE RestInv'
  <2>1. UNCHANGED <<refund, told, relay, reports, job, faults, world>>
    BY <1>4 DEF BookingStep, MarkNoShow, CancelByParent, Waive, CancelSessionBooking, Draw, Return
  <2>2. JobsKept
    BY <2>1, SameJobs DEF RestInv
  <2>3. QED
    BY <2>1, <2>2, QuietKeeps DEF world, RestInv, Rest
<1>5. ASSUME NEW r \in Refs, NEW s \in {"succeeded", "failed", "bounced"},
             relay' = [relay EXCEPT ![r] = s], reports' = reports \cup Reported(r, s),
             UNCHANGED <<refund, told, job, faults, bought, world>>
      PROVE  RestInv'
  <2>1. JobsKept /\ Reported(r, s) \subseteq Report
    BY <1>5, SameJobs DEF RestInv, Reported, Report
  <2>2. /\ relay' \in [Refs -> {"none", "pending", "succeeded", "failed", "bounced"}]
        /\ reports' \subseteq Report
    BY <1>5, <2>1 DEF RestInv, Rest
  <2>3. QED
    BY <1>5, <2>1, <2>2, QuietKeeps DEF bought, world, RestInv, Rest
<1>6. ASSUME NEW r \in Tries, NEW s \in {"succeeded", "failed", "bounced"}, Confirm(r, s) PROVE RestInv'
  BY <1>5, <1>6, RefsAre DEF Confirm
<1>7. ASSUME NEW how \in Outside, RefundOutside(how) PROVE RestInv'
  BY <1>5, <1>7, RefsAre DEF RefundOutside
<1>8. QED
  BY <1>2, <1>3, <1>4, <1>6, <1>7

----------------------------------------------------------------------------
(* The two parts together. *)

Inv == RowInv /\ RestInv /\ AppliedIsGone /\ HistoryInv

LEMMA Initially ==
    ASSUME Init
    PROVE  Inv
<1>1. RowInv
  <2> DEFINE row == [left |-> PackSessions - Cardinality(Children), drawn |-> 0, held |-> FALSE, withdrawn |-> FALSE]
  <2>1. row \in Credit
    BY ChildrenAssumption, PackAssumption, FS_CardinalityType DEF Credit
  <2>2. child \in [Children -> Booking]
    BY DEF Init, Booking, None
  <2>3. CASE kind = "pack"
    <3>1. credit = <<row>> /\ \A c \in Children : child[c].credit = 1
      BY <2>3 DEF Init
    <3> HIDE DEF row
    <3>2. credit \in Seq(Credit) /\ Len(credit) = 1
      BY <2>1, <3>1
    <3>3. PICK c \in Children : TRUE
      BY ChildrenAssumption
    <3>4. QED
      BY <2>2, <3>1, <3>2, <3>3 DEF RowInv, Rows, Named
  <2>4. CASE kind # "pack"
    <3>1. credit = <<>> /\ \A c \in Children : child[c].credit = 0
      BY <2>4 DEF Init, None
    <3>2. credit \in Seq(Credit) /\ Len(credit) = 0
      BY <3>1
    <3>3. QED
      BY <2>2, <3>1, <3>2 DEF RowInv, Rows, Named
  <2>5. QED
    BY <2>3, <2>4
<1>2. refund \in Refund /\ ~refund.applied
  BY DEF Init, NoRefund, RefundRow, Refund, None
<1>3. Rest
  <2>1. job \in [Workers -> Job] /\ faults \in 0..MaxFaults /\ reports \subseteq Report
    BY BoundsAssumption DEF Init, Job
  <2>2. relay \in [Refs -> {"none", "pending", "succeeded", "failed", "bounced"}]
    BY DEF Init
  <2>3. QED
    BY <1>2, <2>1, <2>2 DEF Init, Rest
<1>4. \A k \in Workers : job[k].op = "idle"
  BY DEF Init, Idle
<1>5. QED
  BY <1>1, <1>2, <1>3, <1>4 DEF Inv, RestInv, InsertsForEvents, AppliedHasRow, TellsOnce, AppliedIsGone, HistoryInv, Init

LEMMA RestSteps ==
    ASSUME RestInv, Next
    PROVE  RestInv'
<1>1. ASSUME NEW k \in Workers, Claim(k) \/ Step(k) \/ Crash(k)
      PROVE  RestInv'
  BY <1>1, ClaimRest, CallRest, NotesRest, FailRest, InsertRest, ApplyRest, TellRest, EndsRest DEF Step
<1>2. ASSUME NEW e \in Report, Deliver(e)
      PROVE  RestInv'
  BY <1>2, HandleRest DEF Deliver
<1>3. QED
  BY <1>1, <1>2, WorldRest DEF Next, BookingStep

(* Only applying a refund marks it applied. *)
LEMMA OnlyApplyApplies ==
    ASSUME RestInv, Next, \A k \in Workers : ~Apply(k)
    PROVE  refund'.applied = refund.applied
<1>1. refund \in Refund
  BY DEF RestInv, Rest
<1>2. ASSUME NEW k \in Workers, Insert(k)
      PROVE  refund'.applied = refund.applied
  <2>1. refund' = refund \/ (refund.status = "none" /\ refund'.applied = FALSE)
    BY <1>2 DEF Insert, RefundRow
  <2>2. CASE refund' = refund
    BY <2>2
  <2>3. CASE refund.status = "none" /\ refund'.applied = FALSE
    <3>1. refund.applied \in BOOLEAN
      BY <1>1 DEF Refund
    <3>2. ~refund.applied
      BY <2>3 DEF RestInv, AppliedHasRow
    <3>3. refund.applied = FALSE
      BY <3>1, <3>2
    <3>4. QED
      BY <2>3, <3>3
  <2>4. QED
    BY <2>1, <2>2, <2>3
<1>3. ASSUME NEW k \in Workers,
             Claim(k) \/ NotePending(k) \/ NoteUnanswered(k) \/ NoteRef(k) \/ MarkFailed(k)
      PROVE  refund'.applied = refund.applied
  BY <1>1, <1>3 DEF Claim, NotePending, NoteUnanswered, NoteRef, MarkFailed, Refund
<1>4. ASSUME NEW k \in Workers, Call(k) \/ Release(k) \/ Tell(k) \/ Finish(k) \/ Crash(k)
      PROVE  refund'.applied = refund.applied
  BY <1>4 DEF Call, Release, Tell, Finish, Crash
<1>5. ASSUME NEW e \in Report, Deliver(e)
      PROVE  refund'.applied = refund.applied
  BY <1>5 DEF Deliver, Handle
<1>6. ASSUME GrowStale PROVE refund'.applied = refund.applied
  BY <1>1, <1>6 DEF GrowStale, Refund
<1>7. ASSUME \/ Start \/ CancelSession
             \/ \E r \in Tries, s \in {"succeeded", "failed", "bounced"} : Confirm(r, s)
             \/ \E how \in Outside : RefundOutside(how)
      PROVE  refund'.applied = refund.applied
  BY <1>7 DEF Start, CancelSession, Confirm, RefundOutside
<1>8. ASSUME BookingStep PROVE refund'.applied = refund.applied
  BY <1>8 DEF BookingStep, MarkNoShow, CancelByParent, Waive, CancelSessionBooking, Draw, Return
<1>9. ASSUME NEW k \in Workers, Claim(k) \/ Step(k) \/ Crash(k)
      PROVE  refund'.applied = refund.applied
  BY <1>2, <1>3, <1>4, <1>9 DEF Step
<1>10. QED
  BY <1>5, <1>6, <1>7, <1>8, <1>9 DEF Next, BookingStep

LEMMA RowSteps ==
    ASSUME Inv, Next
    PROVE  RowInv' /\ AppliedIsGone'
<1>1. RowInv /\ RestInv /\ Rows /\ (refund.applied => AllGone)
  BY DEF Inv, RowInv, AppliedIsGone
<1>2. CASE \E k \in Workers : Apply(k)
  <2>1. PICK k \in Workers : Apply(k)
    BY <1>2
  <2>2. CASE ToApply
    BY <1>1, <2>1, <2>2, ApplyKeeps DEF AppliedIsGone
  <2>3. CASE ~ToApply
    <3>1. UNCHANGED bought /\ refund.applied
      BY <2>1, <2>3 DEF Apply, ToApply
    <3>2. QED
      BY <1>1, <3>1 DEF bought, RowInv, Rows, Named, AllGone, AppliedIsGone
  <2>4. QED
    BY <2>2, <2>3
<1>3. CASE \A k \in Workers : ~Apply(k)
  <2>1. refund'.applied = refund.applied
    BY <1>1, <1>3, OnlyApplyApplies
  <2>2. RowInv' /\ (AllGone => AllGone')
    <3>1. CASE UNCHANGED bought
      BY <1>1, <3>1 DEF bought, RowInv, Rows, Named, AllGone
    <3>2. CASE \E k \in Workers : Claim(k)
      <4>1. UNCHANGED child /\ (credit' = credit \/ credit' = Holding(CreditIds))
        BY <3>2 DEF Claim
      <4>2. QED
        BY <1>1, <3>1, <4>1, HoldingKeeps, SameCreditsKeepRows DEF bought
    <3>3. CASE \E k \in Workers : Release(k)
      BY <1>1, <3>3, ReleaseKeeps, SameCreditsKeepRows DEF Release
    <3>4. CASE BookingStep
      BY <1>1, <3>4, BookingSteps
    <3>5. ASSUME NEW k \in Workers,
                 \/ Call(k) \/ NotePending(k) \/ NoteUnanswered(k) \/ NoteRef(k) \/ MarkFailed(k)
                 \/ Insert(k) \/ Tell(k) \/ Finish(k) \/ Crash(k)
          PROVE  UNCHANGED bought
      BY <3>5 DEF Call, NotePending, NoteUnanswered, NoteRef, MarkFailed, Insert, Tell, Finish, Crash
    <3>6. ASSUME \/ GrowStale \/ Start \/ CancelSession
                 \/ \E e \in Report : Deliver(e)
                 \/ \E r \in Tries, s \in {"succeeded", "failed", "bounced"} : Confirm(r, s)
                 \/ \E how \in Outside : RefundOutside(how)
          PROVE  UNCHANGED bought
      BY <3>6 DEF GrowStale, Start, CancelSession, Deliver, Handle, Confirm, RefundOutside
    <3>7. ASSUME NEW k \in Workers, Claim(k) \/ Step(k) \/ Crash(k)
          PROVE  RowInv' /\ (AllGone => AllGone')
      BY <1>3, <3>1, <3>2, <3>3, <3>5, <3>7 DEF Step
    <3>8. QED
      BY <3>1, <3>4, <3>6, <3>7 DEF Next, BookingStep
  <2>3. QED
    BY <1>1, <2>1, <2>2 DEF AppliedIsGone
<1>4. QED
  BY <1>2, <1>3

LEMMA HistorySteps ==
    ASSUME HistoryInv, Next
    PROVE  HistoryInv'
<1>1. CASE UNCHANGED history
  BY <1>1 DEF history, HistoryInv
<1>2. ASSUME NEW k \in Workers, Claim(k) \/ Step(k) \/ Crash(k)
      PROVE  HistoryInv'
  <2>1. CASE Claim(k) \/ Release(k)
    BY <2>1 DEF Claim, Release, HistoryInv
  <2>2. CASE \/ Call(k) \/ NotePending(k) \/ NoteUnanswered(k) \/ NoteRef(k) \/ MarkFailed(k)
             \/ Insert(k) \/ Apply(k) \/ Tell(k) \/ Finish(k) \/ Crash(k)
    BY <1>1, <2>2 DEF Call, NotePending, NoteUnanswered, NoteRef, MarkFailed, Insert, Apply, Tell, Finish, Crash
  <2>3. QED
    BY <1>2, <2>1, <2>2 DEF Step
<1>3. ASSUME NEW c \in Children, CancelByParent(c)
      PROVE  HistoryInv'
  BY <1>3 DEF CancelByParent, HistoryInv
<1>4. ASSUME \/ GrowStale \/ Start \/ CancelSession
             \/ \E e \in Report : Deliver(e)
             \/ \E r \in Tries, s \in {"succeeded", "failed", "bounced"} : Confirm(r, s)
             \/ \E how \in Outside : RefundOutside(how)
             \/ \E c \in Children : MarkNoShow(c) \/ Waive(c) \/ CancelSessionBooking(c)
             \/ \E i \in DOMAIN credit : Draw(i) \/ Return(i)
      PROVE  HistoryInv'
  BY <1>1, <1>4 DEF GrowStale, Start, CancelSession, Deliver, Handle, Confirm, RefundOutside, MarkNoShow, Waive,
                    CancelSessionBooking, Draw, Return
<1>5. QED
  BY <1>2, <1>3, <1>4 DEF Next

LEMMA Inductive ==
    ASSUME Inv, [Next]_vars
    PROVE  Inv'
<1>1. CASE Next
  BY <1>1, RowSteps, RestSteps, HistorySteps DEF Inv
<1>2. CASE UNCHANGED vars
  BY <1>2 DEF vars, Inv, RowInv, Rows, Named, RestInv, Rest, InsertsForEvents, AppliedHasRow, TellsOnce,
              AppliedIsGone, AllGone, HistoryInv
<1>3. QED
  BY <1>1, <1>2

LEMMA AlwaysInv == Spec => []Inv
<1>1. Init => Inv
  BY Initially
<1>2. Inv /\ [Next]_vars => Inv'
  BY Inductive
<1>3. QED
  BY <1>1, <1>2, PTL DEF Spec

(* Every row, answer and job stays in its type; in particular no credit is *)
(* drawn below zero (decrementCredit).                                     *)
THEOREM Typing == Spec => []TypeOK
<1>1. Inv => TypeOK
  BY Split DEF Inv, RowInv, RestInv
<1>2. QED
  BY <1>1, AlwaysInv, PTL

(* The parent is told of a refund once, whichever of the relay's answer,   *)
(* its events and their redeliveries applies it (applyRefunded).           *)
THEOREM ParentToldOnce == Spec => []ToldOnce
<1>1. Inv => ToldOnce
  BY DEF Inv, RestInv, TellsOnce, ToldOnce
<1>2. QED
  BY <1>1, AlwaysInv, PTL

(* What a refund withdrew stays withdrawn: no cancel, give-back or use of  *)
(* a credit afterwards makes a session of it again (restoreCredit).        *)
THEOREM NothingAfterRefund == Spec => []RefundedGivesNothing
<1>1. Inv => RefundedGivesNothing
  <2>1. SUFFICES ASSUME Inv, refund.applied
                 PROVE  /\ \A c \in Children : ~Live(c)
                        /\ \A i \in DOMAIN credit : credit[i].left = 0
    BY DEF RefundedGivesNothing
  <2>2. AllGone /\ DOMAIN credit = 1..Len(credit)
    BY <2>1, CreditRows DEF Inv, RowInv, AppliedIsGone
  <2>3. QED
    BY <2>2 DEF AllGone, Live
<1>2. QED
  BY <1>1, AlwaysInv, PTL

----------------------------------------------------------------------------
(* What is applied went back.                                              *)

Gone(m, r) == m[r] \in {"succeeded", "bounced"}

(* The relay's refunds: the whole payment goes back in one piece outside,  *)
(* or a part of it, not both; a try is made for a row the coach asked for. *)
MoneyTrue(m, row) ==
    /\ m[Part] \in {"none", "succeeded"} /\ m[Whole] \in {"none", "succeeded"}
    /\ m[Part] = "none" \/ m[Whole] = "none"
    /\ \A a \in Tries : m[a] # "none" => row.asked

(* What a worker is at is true: who calls does it for a try of the whole   *)
(* payment; who is about to apply a refund, or works for an event that     *)
(* reports one, has one that went through; only a row the coach asked for  *)
(* is finished by a part of it, or failed.                                 *)
JobTrue(m, row, j) ==
    /\ j.op = "call" => j.r \in Tries /\ row.asked
    /\ j.op = "apply" => Gone(m, j.r) /\ (j.r = Part => row.asked)
    /\ j.op # "idle" /\ j.e.what = "refunded" => Gone(m, j.e.ref)
    /\ j.op # "idle" /\ j.e.what = "failed" => row.asked

JobsTrue == \A k \in Workers : JobTrue(relay, refund, job[k])

ReportTrue(m, row, e) ==
    /\ e.what = "refunded" => Gone(m, e.ref)
    /\ e.what = "failed" => row.asked

ReportsTrue == \A e \in reports : ReportTrue(relay, refund, e)

(* A row the coach never asked for is that of a part, or of the whole      *)
(* payment refunded outside.                                               *)
RowTrue ==
    /\ refund.asked => refund.status # "none"
    /\ refund.asked \/ refund.status \in {"none", "partial"} \/ Gone(relay, Whole)

AppliedIsTrue ==
    refund.applied => \/ \E r \in Refs \ {Part} : Gone(relay, r)
                      \/ Gone(relay, Part) /\ refund.asked

Truth == MoneyTrue(relay, refund) /\ JobsTrue /\ ReportsTrue /\ RowTrue /\ AppliedIsTrue

MoneyKept ==
    /\ MoneyTrue(relay', refund')
    /\ refund.asked => refund'.asked
    /\ \A r \in Refs : Gone(relay, r) => Gone(relay', r)

LEMMA RefsDiffer == Whole # Part /\ Whole \notin Tries /\ Part \notin Tries
BY BoundsAssumption DEF Tries, Whole, Part

LEMMA SameMoney ==
    ASSUME Truth, UNCHANGED relay, refund.asked => refund'.asked
    PROVE  MoneyKept
BY DEF Truth, MoneyKept, MoneyTrue, Gone

LEMMA OtherJobsTrue ==
    ASSUME Rest, Truth, MoneyKept, NEW k \in Workers, NEW j, Go(k, j), JobTrue(relay', refund', j)
    PROVE  JobsTrue'
<1>1. SUFFICES ASSUME NEW l \in Workers PROVE JobTrue(relay', refund', job'[l])
  BY DEF JobsTrue
<1>2. CASE l = k
  <2>1. job'[l] = j
    BY <1>2 DEF Go, Rest
  <2>2. QED
    BY <2>1 DEF JobTrue
<1>3. CASE l # k
  <2>1. job'[l] = job[l] /\ JobTrue(relay, refund, job[l])
    BY <1>3 DEF Go, Rest, Truth, JobsTrue
  <2>2. job[l].op # "idle" => job[l].r \in Refs /\ (job[l].e \in Report \/ job[l].e = NoReport)
    BY JobFields
  <2>3. job[l].op # "idle" /\ job[l].e.what = "refunded" => job[l].e.ref \in Refs
    BY <2>2 DEF Report, NoReport
  <2>4. QED
    BY <2>1, <2>2, <2>3 DEF JobTrue, MoneyKept
<1>4. QED
  BY <1>2, <1>3

LEMMA IdleTrue == ASSUME Rest, Truth, MoneyKept, NEW k \in Workers, Go(k, Idle) PROVE JobsTrue'
<1>1. JobTrue(relay', refund', Idle)
  BY DEF JobTrue, Idle
<1>2. QED
  BY <1>1, OtherJobsTrue

LEMMA AtTrue ==
    ASSUME Rest, Truth, MoneyKept, NEW k \in Workers, NEW r \in Refs,
           NEW op \in {"call", "pending", "unanswered", "ref", "fail", "release", "insert", "apply", "tell", "finish"},
           NEW e \in Report \cup {NoReport}, Go(k, At(op, r, e)),
           op = "call" => r \in Tries /\ refund'.asked, op = "apply" => Gone(relay', r) /\ (r = Part => refund'.asked),
           ReportTrue(relay, refund, e)
    PROVE  JobsTrue'
<1>1. e.what = "refunded" => e.ref \in Refs
  BY DEF Report, NoReport
<1>2. At(op, r, e).op = op /\ At(op, r, e).r = r /\ At(op, r, e).e = e
  BY DEF At
<1>3. JobTrue(relay', refund', At(op, r, e))
  BY <1>1, <1>2 DEF JobTrue, ReportTrue, MoneyKept
<1>4. QED
  BY <1>3, OtherJobsTrue

LEMMA DoneTrue ==
    ASSUME Rest, Truth, MoneyKept, NEW k \in Workers, job[k].op # "idle", Done(k)
    PROVE  JobsTrue'
<1>1. job[k].r \in Refs /\ job[k].e \in Report \cup {NoReport}
  BY JobFields
<1>2. ReportTrue(relay, refund, job[k].e)
  BY DEF Truth, JobsTrue, JobTrue, ReportTrue
<1>3. CASE Go(k, Idle)
  BY <1>3, IdleTrue
<1>4. CASE Go(k, At("finish", job[k].r, job[k].e))
  <2> DEFINE r == job[k].r  e == job[k].e
  <2>1. r \in Refs /\ e \in Report \cup {NoReport} /\ Go(k, At("finish", r, e)) /\ ReportTrue(relay, refund, e)
    BY <1>1, <1>2, <1>4
  <2> HIDE DEF r, e
  <2>2. QED
    BY <2>1, AtTrue
<1>5. QED
  BY <1>3, <1>4 DEF Done

LEMMA SameJobsTrue ==
    ASSUME Rest, Truth, MoneyKept, UNCHANGED job
    PROVE  JobsTrue'
<1>1. ASSUME NEW l \in Workers PROVE JobTrue(relay', refund', job[l])
  <2>1. JobTrue(relay, refund, job[l])
    BY DEF Truth, JobsTrue
  <2>2. job[l].op # "idle" => job[l].r \in Refs /\ (job[l].e \in Report \/ job[l].e = NoReport)
    BY JobFields
  <2>3. job[l].op # "idle" /\ job[l].e.what = "refunded" => job[l].e.ref \in Refs
    BY <2>2 DEF Report, NoReport
  <2>4. QED
    BY <2>1, <2>2, <2>3 DEF JobTrue, MoneyKept
<1>2. QED
  BY <1>1 DEF JobsTrue, JobTrue

LEMMA SameReportsTrue ==
    ASSUME Rest, Truth, MoneyKept, reports' \subseteq reports
    PROVE  ReportsTrue'
BY DEF Rest, Truth, ReportsTrue, ReportTrue, MoneyKept, Report

LEMMA AppliedStaysTrue ==
    ASSUME Truth, MoneyKept, refund'.applied = refund.applied
    PROVE  AppliedIsTrue'
BY RefsAre DEF Truth, AppliedIsTrue, MoneyKept

LEMMA RowStaysTrue ==
    ASSUME Truth, MoneyKept, refund'.asked = refund.asked, refund'.status = refund.status
    PROVE  RowTrue'
BY RefsAre DEF Truth, RowTrue, MoneyKept

(* Refund r becomes s at the relay, and is reported. *)
LEMMA MoneyMoves ==
    ASSUME Rest, Truth, UNCHANGED refund, NEW r \in Refs, NEW s \in {"pending", "succeeded", "failed", "bounced"},
           relay[r] # "bounced", relay[r] = "succeeded" => s = "bounced",
           r \in Tries => refund.asked, s = "failed" => refund.asked,
           r \notin Tries => s = "succeeded" /\ relay[Part] = "none" /\ relay[Whole] = "none",
           relay' = [relay EXCEPT ![r] = s], reports' = reports \cup Reported(r, s),
           s = "bounced" => r \in Tries
    PROVE  MoneyKept /\ ReportsTrue' /\ (s = "succeeded" => Gone(relay', r))
<1>1. relay'[r] = s /\ \A q \in Refs \ {r} : relay'[q] = relay[q]
  BY DEF Rest
<1>2. \A q \in Refs : Gone(relay, q) => Gone(relay', q)
  BY <1>1 DEF Gone
<1>3. MoneyTrue(relay', refund')
  <2>1. /\ relay[Part] \in {"none", "succeeded"} /\ relay[Whole] \in {"none", "succeeded"}
        /\ relay[Part] = "none" \/ relay[Whole] = "none"
        /\ \A a \in Tries : relay[a] # "none" => refund.asked
    BY DEF Truth, MoneyTrue
  <2>2. CASE r \in Tries
    <3>1. relay'[Part] = relay[Part] /\ relay'[Whole] = relay[Whole]
      BY <1>1, <2>2, RefsAre, RefsDiffer
    <3>2. QED
      BY <2>1, <2>2, <3>1 DEF MoneyTrue
  <2>3. CASE r \notin Tries
    <3>1. \A a \in Tries : relay'[a] = relay[a]
      BY <1>1, <2>3, RefsAre
    <3>2. relay'[Part] \in {"none", "succeeded"} /\ relay'[Whole] \in {"none", "succeeded"}
      BY <1>1, <2>3, RefsAre
    <3>3. relay'[Part] = "none" \/ relay'[Whole] = "none"
      BY <1>1, <2>3, RefsAre, RefsDiffer
    <3>4. QED
      BY <2>1, <3>1, <3>2, <3>3 DEF MoneyTrue
  <2>4. QED
    BY <2>2, <2>3
<1>4. MoneyKept
  BY <1>2, <1>3 DEF MoneyKept
<1>5. \A e \in Reported(r, s) : /\ e.what = "refunded" => e.ref = r /\ s = "succeeded"
                               /\ e.what = "failed" => refund.asked
  BY DEF Reported
<1>6. ReportsTrue'
  <2>1. SUFFICES ASSUME NEW e \in reports' PROVE ReportTrue(relay', refund', e)
    BY DEF ReportsTrue, ReportTrue
  <2>2. CASE e \in reports
    <3>1. ReportTrue(relay, refund, e) /\ e.ref \in Refs
      BY <2>2 DEF Truth, ReportsTrue, Rest, Report
    <3>2. QED
      BY <1>4, <3>1 DEF ReportTrue, MoneyKept
  <2>3. CASE e \in Reported(r, s)
    <3>1. e.what = "refunded" => Gone(relay', e.ref)
      <4>1. SUFFICES ASSUME e.what = "refunded" PROVE relay'[e.ref] \in {"succeeded", "bounced"}
        BY DEF Gone
      <4>2. e.ref = r /\ s = "succeeded"
        BY <2>3, <4>1 DEF Reported
      <4>3. relay'[e.ref] = "succeeded"
        BY <1>1, <4>2
      <4>4. QED
        BY <4>3
    <3>2. QED
      BY <1>5, <2>3, <3>1 DEF ReportTrue
  <2>4. QED
    BY <2>2, <2>3
<1>7. QED
  BY <1>1, <1>4, <1>6 DEF Gone

LEMMA InitiallyTrue ==
    ASSUME Init
    PROVE  Truth
BY RefsAre DEF Init, Truth, MoneyTrue, JobsTrue, JobTrue, ReportsTrue, RowTrue, AppliedIsTrue, Idle, NoRefund, RefundRow

(* A step that asks nothing of the relay and applies nothing.              *)
LEMMA QuietTrue ==
    ASSUME Rest, Truth, UNCHANGED relay, reports' \subseteq reports, refund'.applied = refund.applied,
           refund.asked => refund'.asked, RowTrue', MoneyKept => JobsTrue'
    PROVE  Truth'
<1>1. MoneyKept
  BY SameMoney
<1>2. QED
  BY <1>1, SameReportsTrue, AppliedStaysTrue DEF Truth, MoneyKept

LEMMA CallTrue ==
    ASSUME Rest, Truth, NEW k \in Workers, Call(k)
    PROVE  Truth'
<1> DEFINE a == job[k].r
<1>1. /\ a \in Refs /\ a \in Tries /\ a # Part /\ refund.asked /\ UNCHANGED refund
      /\ NoReport \in Report \cup {NoReport} /\ ReportTrue(relay, refund, NoReport)
  BY JobFields, RefsDiffer DEF Call, NoReport, Truth, JobsTrue, JobTrue, ReportTrue
<1>2. MoneyKept => /\ Go(k, At("fail", a, NoReport)) => JobsTrue'
                   /\ Go(k, At("unanswered", a, NoReport)) => JobsTrue'
  BY <1>1, AtTrue
<1>3. ASSUME NEW s, MoneyKept, s = "succeeded" => Gone(relay', a), Go(k, Answered(a, s))
      PROVE  JobsTrue'
  <2>1. PICK op \in {"pending", "apply", "ref"} :
           Answered(a, s) = At(op, a, NoReport) /\ (op = "apply" => s = "succeeded")
    BY DEF Answered
  <2>2. QED
    BY <1>1, <1>3, <2>1, AtTrue
<1>4. CASE /\ relay' = relay /\ reports' = reports
           /\ \/ Go(k, At("fail", a, NoReport)) \/ Go(k, At("unanswered", a, NoReport))
              \/ Go(k, Answered(a, relay[a]))
  <2>1. MoneyKept
    BY <1>1, <1>4, SameMoney
  <2>2. JobsTrue' /\ RowTrue'
    BY <1>1, <1>2, <1>3, <1>4, <2>1, RowStaysTrue DEF Gone
  <2>3. QED
    BY <1>1, <1>4, <2>2, QuietTrue
<1>5. CASE \E s \in {"pending", "succeeded", "failed"} :
              /\ relay[a] = "none"
              /\ relay' = [relay EXCEPT ![a] = s]
              /\ reports' = reports \cup Reported(a, s)
              /\ Go(k, Answered(a, s)) \/ Go(k, At("unanswered", a, NoReport))
  <2>1. PICK s \in {"pending", "succeeded", "failed"} :
              /\ relay[a] = "none"
              /\ relay' = [relay EXCEPT ![a] = s]
              /\ reports' = reports \cup Reported(a, s)
              /\ Go(k, Answered(a, s)) \/ Go(k, At("unanswered", a, NoReport))
    BY <1>5
  <2>2. MoneyKept /\ ReportsTrue' /\ (s = "succeeded" => Gone(relay', a))
    BY <1>1, <2>1, MoneyMoves
  <2>3. JobsTrue'
    BY <1>2, <1>3, <2>1, <2>2
  <2>4. QED
    BY <1>1, <2>2, <2>3, AppliedStaysTrue, RowStaysTrue DEF Truth, MoneyKept
<1>6. \/ UNCHANGED <<relay, reports>> /\ Go(k, At("fail", a, NoReport))
      \/ UNCHANGED <<relay, reports>> /\ Go(k, At("unanswered", a, NoReport))
      \/ UNCHANGED <<relay, reports>> /\ Go(k, Answered(a, relay[a]))
      \/ \E s \in {"pending", "succeeded", "failed"} :
            /\ relay[a] = "none"
            /\ relay' = [relay EXCEPT ![a] = s]
            /\ reports' = reports \cup Reported(a, s)
            /\ Go(k, Answered(a, s)) \/ Go(k, At("unanswered", a, NoReport))
  BY DEF Call
<1>7. QED
  BY <1>4, <1>5, <1>6

(* A worker's report, and where it stands. *)
LEMMA WorkerHas ==
    ASSUME Rest, Truth, NEW k \in Workers, job[k].op # "idle"
    PROVE  job[k].r \in Refs /\ job[k].e \in Report \cup {NoReport} /\ ReportTrue(relay, refund, job[k].e)
BY JobFields DEF Truth, JobsTrue, JobTrue, ReportTrue

LEMMA ClaimTrue ==
    ASSUME Rest, Truth, NEW k \in Workers, Claim(k)
    PROVE  Truth'
<1>1. /\ refund'.asked = TRUE /\ refund'.applied = refund.applied /\ refund'.status = "requested"
      /\ UNCHANGED <<relay, reports>>
  BY DEF Claim, Rest, Refund
<1>2. /\ NextAttempt \in Refs /\ NextAttempt \in Tries /\ NextAttempt # Part
      /\ Go(k, At("call", NextAttempt, NoReport)) /\ ReportTrue(relay, refund, NoReport)
  BY RefsAre, RefsDiffer DEF Claim, ReportTrue, NoReport
<1>3. MoneyKept => JobsTrue'
  BY <1>1, <1>2, AtTrue
<1>4. RowTrue'
  BY <1>1 DEF RowTrue
<1>5. QED
  BY <1>1, <1>3, <1>4, QuietTrue

(* What the others write to the row, or say. *)
LEMMA NotesTrue ==
    ASSUME Rest, Truth, NEW k \in Workers,
           \/ NotePending(k) \/ NoteUnanswered(k) \/ NoteRef(k) \/ MarkFailed(k) \/ Release(k)
           \/ Tell(k) \/ Finish(k) \/ Crash(k)
    PROVE  Truth'
<1>1. UNCHANGED relay /\ reports' \subseteq reports
  BY DEF NotePending, NoteUnanswered, NoteRef, MarkFailed, Release, Tell, Finish, Crash
<1>2. /\ refund'.asked = refund.asked /\ refund'.applied = refund.applied
      /\ refund'.status # refund.status =>
            refund.status \in {"requested", "pending", "refunded"} /\ refund'.status # "none"
  BY DEF NotePending, NoteUnanswered, NoteRef, MarkFailed, MayFail, Release, Tell, Finish, Crash, Rest, Refund
<1>3. MoneyKept
  BY <1>1, <1>2, SameMoney
<1>4. RowTrue'
  BY <1>2, <1>3, RefsAre DEF Truth, RowTrue, MoneyKept
<1>5. CASE NotePending(k) \/ NoteUnanswered(k) \/ Finish(k) \/ Crash(k)
  <2>1. JobsTrue'
    BY <1>3, <1>5, IdleTrue DEF NotePending, NoteUnanswered, Finish, Crash
  <2>2. QED
    BY <1>1, <1>2, <1>4, <2>1, QuietTrue
<1>6. CASE NoteRef(k)
  <2>1. job[k].r \in Refs /\ Go(k, At("fail", job[k].r, NoReport)) /\ ReportTrue(relay, refund, NoReport)
    BY <1>6, WorkerHas DEF NoteRef, ReportTrue, NoReport
  <2>2. JobsTrue'
    BY <1>3, <2>1, AtTrue
  <2>3. QED
    BY <1>1, <1>2, <1>4, <2>2, QuietTrue
<1>7. CASE MarkFailed(k) \/ Release(k) \/ Tell(k)
  <2>1. job[k].op # "idle" /\ (Done(k) \/ Go(k, At("release", job[k].r, job[k].e)))
    BY <1>7 DEF MarkFailed, Release, Tell
  <2>2. CASE Done(k)
    BY <1>1, <1>2, <1>3, <1>4, <2>1, <2>2, DoneTrue, QuietTrue
  <2>3. CASE Go(k, At("release", job[k].r, job[k].e))
    <3> DEFINE r == job[k].r  e == job[k].e
    <3>1. r \in Refs /\ e \in Report \cup {NoReport} /\ Go(k, At("release", r, e)) /\ ReportTrue(relay, refund, e)
      BY <2>1, <2>3, WorkerHas
    <3> HIDE DEF r, e
    <3>2. JobsTrue'
      BY <1>3, <3>1, AtTrue
    <3>3. QED
      BY <1>1, <1>2, <1>4, <3>2, QuietTrue
  <2>4. QED
    BY <2>1, <2>2, <2>3
<1>8. QED
  BY <1>5, <1>6, <1>7

(* A row nobody asked for: of a part, or of the whole payment. *)
LEMMA InsertTrue ==
    ASSUME RestInv, Truth, NEW k \in Workers, Insert(k)
    PROVE  Truth'
<1> DEFINE e == job[k].e
           status == IF e.what = "failed" THEN "failed" ELSE IF e.ref = Part THEN "partial" ELSE "requested"
<1>1. /\ Rest /\ e \in Report /\ e.ref \in Refs /\ e.what \in {"refunded", "failed"} /\ ReportTrue(relay, refund, e)
      /\ UNCHANGED <<relay, reports>>
  BY WorkerHas DEF RestInv, InsertsForEvents, Insert, Report
<1>2. /\ refund' = IF refund.status = "none" THEN RefundRow(status, e.ref, FALSE) ELSE refund
      /\ Go(k, At(IF e.what = "failed" \/ refund'.status = "partial" THEN "finish" ELSE "apply", e.ref, e))
  BY DEF Insert
<1> HIDE DEF e
<1>3. CASE refund.status # "none"
  <2>1. refund' = refund
    BY <1>2, <1>3
  <2>2. MoneyKept /\ RowTrue'
    BY <1>1, <2>1, SameMoney DEF Truth, RowTrue
  <2>3. PICK op \in {"finish", "apply"} :
           Go(k, At(op, e.ref, e)) /\ (op = "apply" => e.what # "failed" /\ refund.status # "partial")
    BY <1>2, <2>1
  <2>4. op = "apply" => Gone(relay', e.ref) /\ (e.ref = Part => refund'.asked)
    <3>1. SUFFICES ASSUME op = "apply" PROVE Gone(relay, e.ref) /\ (e.ref = Part => refund.asked)
      BY <1>1, <2>1
    <3>2. Gone(relay, e.ref)
      BY <1>1, <2>3, <3>1 DEF ReportTrue
    <3>3. e.ref = Part => ~Gone(relay, Whole)
      BY <3>2 DEF Truth, MoneyTrue, Gone
    <3>4. QED
      BY <1>3, <2>3, <3>1, <3>2, <3>3 DEF Truth, RowTrue
  <2>5. JobsTrue'
    BY <1>1, <2>2, <2>3, <2>4, AtTrue
  <2>6. QED
    BY <1>1, <2>1, <2>2, <2>5, QuietTrue
<1>4. CASE refund.status = "none"
  <2>1. ~refund.asked
    BY <1>4 DEF Truth, RowTrue
  <2>2. e.what = "refunded" /\ Gone(relay, e.ref) /\ e.ref \notin Tries
    BY <1>1, <2>1 DEF ReportTrue, Truth, MoneyTrue, Gone
  <2>3. e.ref \in {Whole, Part}
    BY <1>1, <2>2, BoundsAssumption DEF Refs, Tries, Whole, Part
  <2>4. /\ refund'.status = status /\ status = IF e.ref = Part THEN "partial" ELSE "requested"
        /\ refund'.asked = FALSE /\ refund'.applied = FALSE
    BY <1>2, <1>4, <2>2 DEF RefundRow
  <2>5. RowTrue'
    BY <1>1, <2>2, <2>3, <2>4 DEF RowTrue
  <2>6. MoneyKept
    BY <1>1, <2>1, SameMoney
  <2>7. PICK op \in {"finish", "apply"} : Go(k, At(op, e.ref, e)) /\ (op = "apply" => e.ref # Part)
    BY <1>2, <2>4
  <2>8. op = "apply" => Gone(relay', e.ref)
    BY <1>1, <2>2
  <2>9. JobsTrue'
    BY <1>1, <2>6, <2>7, <2>8, AtTrue
  <2>10. AppliedIsTrue'
    BY <2>4 DEF AppliedIsTrue
  <2>11. QED
    BY <1>1, <2>5, <2>6, <2>9, <2>10, SameReportsTrue DEF Truth, MoneyKept
<1>5. QED
  BY <1>3, <1>4

LEMMA HandleTrue ==
    ASSUME RestInv, Truth, NEW k \in Workers, NEW e \in Report, Handle(k, e)
    PROVE  Truth'
<1>1. /\ Rest /\ e.ref \in Refs /\ e.what \in {"refunded", "failed"} /\ ReportTrue(relay, refund, e)
      /\ UNCHANGED <<relay, reports, refund>>
  BY DEF RestInv, Report, Handle, Truth, ReportsTrue
<1>2. MoneyKept /\ RowTrue'
  BY <1>1, SameMoney DEF Truth, RowTrue
<1>3. PICK op \in {"insert", "fail", "finish", "apply"} :
         /\ Go(k, At(op, e.ref, e))
         /\ op = "apply" => e.what # "failed" /\ refund.status \notin {"none", "partial"}
  BY DEF Handle
<1>4. op = "apply" => Gone(relay', e.ref) /\ (e.ref = Part => refund'.asked)
  <2>1. SUFFICES ASSUME op = "apply" PROVE Gone(relay, e.ref) /\ (e.ref = Part => refund.asked)
    BY <1>1
  <2>2. Gone(relay, e.ref)
    BY <1>1, <1>3, <2>1 DEF ReportTrue
  <2>3. e.ref = Part => ~Gone(relay, Whole)
    BY <2>2 DEF Truth, MoneyTrue, Gone
  <2>4. QED
    BY <1>3, <2>1, <2>2, <2>3 DEF Truth, RowTrue
<1>5. JobsTrue'
  BY <1>1, <1>2, <1>3, <1>4, AtTrue
<1>6. QED
  BY <1>1, <1>2, <1>5, QuietTrue

LEMMA ApplyTrue ==
    ASSUME RestInv, Truth, NEW k \in Workers, Apply(k)
    PROVE  Truth'
<1>1. /\ Rest /\ UNCHANGED <<relay, reports>> /\ job[k].op = "apply" /\ job[k].op # "idle"
      /\ refund'.asked = refund.asked /\ refund'.status = "refunded"
  BY DEF RestInv, Apply, Rest, Refund
<1>2. MoneyKept /\ ReportsTrue'
  BY <1>1, SameMoney, SameReportsTrue
<1>3. /\ job[k].r \in Refs /\ job[k].e \in Report \cup {NoReport} /\ ReportTrue(relay, refund, job[k].e)
      /\ Gone(relay, job[k].r) /\ (job[k].r = Part => refund.asked)
  BY <1>1, WorkerHas DEF Truth, JobsTrue, JobTrue
<1>4. JobsTrue'
  <2>1. CASE Done(k)
    BY <1>1, <1>2, <2>1, DoneTrue
  <2>2. CASE Go(k, At("tell", job[k].r, job[k].e))
    <3> DEFINE r == job[k].r  e == job[k].e
    <3>1. r \in Refs /\ e \in Report \cup {NoReport} /\ Go(k, At("tell", r, e)) /\ ReportTrue(relay, refund, e)
      BY <1>3, <2>2
    <3> HIDE DEF r, e
    <3>2. QED
      BY <1>1, <1>2, <3>1, AtTrue
  <2>3. QED
    BY <2>1, <2>2 DEF Apply
<1>5. AppliedIsTrue'
  BY <1>1, <1>3, RefsAre DEF AppliedIsTrue
<1>6. RowTrue'
  <2>1. refund.asked \/ Gone(relay, Whole)
    <3>1. CASE job[k].r \in Tries
      BY <1>3, <3>1 DEF Truth, MoneyTrue, Gone
    <3>2. CASE job[k].r \notin Tries
      <4>1. job[k].r \in {Whole, Part}
        BY <1>3, <3>2, BoundsAssumption DEF Refs, Tries, Whole, Part
      <4>2. QED
        BY <1>3, <4>1
    <3>3. QED
      BY <3>1, <3>2
  <2>2. QED
    BY <1>1, <2>1 DEF RowTrue
<1>7. QED
  BY <1>2, <1>4, <1>5, <1>6 DEF Truth, MoneyKept

LEMMA RelayTrue ==
    ASSUME RestInv, Truth, UNCHANGED <<refund, job>>,
           NEW r \in Refs, NEW s \in {"pending", "succeeded", "failed", "bounced"},
           relay[r] # "bounced", relay[r] = "succeeded" => s = "bounced",
           r \in Tries => refund.asked, s \in {"failed", "bounced"} => r \in Tries,
           r \notin Tries => s = "succeeded" /\ relay[Part] = "none" /\ relay[Whole] = "none",
           relay' = [relay EXCEPT ![r] = s], reports' = reports \cup Reported(r, s)
    PROVE  Truth'
<1>1. Rest
  BY DEF RestInv
<1>2. MoneyKept /\ ReportsTrue'
  BY <1>1, MoneyMoves
<1>3. QED
  BY <1>1, <1>2, SameJobsTrue, AppliedStaysTrue, RowStaysTrue DEF Truth, MoneyKept

LEMMA TruthSteps ==
    ASSUME RestInv, Truth, Next
    PROVE  Truth'
<1>1. Rest
  BY DEF RestInv
<1>2. ASSUME NEW k \in Workers, Claim(k) \/ Step(k) \/ Crash(k)
      PROVE  Truth'
  BY <1>1, <1>2, ClaimTrue, CallTrue, NotesTrue, InsertTrue, ApplyTrue DEF Step
<1>3. ASSUME NEW e \in Report, Deliver(e)
      PROVE  Truth'
  BY <1>3, HandleTrue DEF Deliver
<1>4. ASSUME NEW r \in Tries, NEW s \in {"succeeded", "failed", "bounced"}, Confirm(r, s)
      PROVE  Truth'
  <2>1. r \in Refs /\ UNCHANGED <<refund, job>>
    BY <1>4, RefsAre DEF Confirm
  <2>2. relay[r] \in {"pending", "succeeded"} /\ (relay[r] = "succeeded" => s = "bounced")
    BY <1>4 DEF Confirm
  <2>3. refund.asked
    BY <2>2 DEF Truth, MoneyTrue
  <2>4. QED
    BY <1>4, <2>1, <2>2, <2>3, RelayTrue DEF Confirm
<1>5. ASSUME NEW how \in Outside, RefundOutside(how)
      PROVE  Truth'
  <2>1. PICK r \in {Whole, Part} :
            /\ relay[r] = "none" /\ MoneyOut = {} /\ (r = Whole => relay[Part] = "none")
            /\ relay' = [relay EXCEPT ![r] = "succeeded"] /\ reports' = reports \cup Reported(r, "succeeded")
            /\ UNCHANGED <<refund, job>>
    BY <1>5, OutsideAssumption DEF RefundOutside
  <2>2. relay[Part] = "none" /\ relay[Whole] = "none"
    <3>1. relay[Whole] # "succeeded"
      BY <2>1, RefsAre, RefsDiffer DEF MoneyOut
    <3>2. QED
      BY <2>1, <3>1 DEF Truth, MoneyTrue
  <2>3. r \in Refs /\ r \notin Tries
    BY <2>1, RefsAre, RefsDiffer
  <2>4. QED
    BY <2>1, <2>2, <2>3, RelayTrue
<1>6. ASSUME UNCHANGED <<relay, reports, job>>, refund'.applied = refund.applied,
             refund'.asked = refund.asked, refund'.status = refund.status
      PROVE  Truth'
  <2>1. MoneyKept
    BY <1>6, SameMoney
  <2>2. QED
    BY <1>1, <1>6, <2>1, SameJobsTrue, RowStaysTrue, QuietTrue
<1>7. ASSUME GrowStale \/ Start \/ CancelSession
      PROVE  Truth'
  BY <1>1, <1>6, <1>7 DEF GrowStale, Start, CancelSession, Rest, Refund
<1>8. ASSUME BookingStep
      PROVE  Truth'
  <2>1. UNCHANGED <<relay, reports, job, refund>>
    BY <1>8 DEF BookingStep, MarkNoShow, CancelByParent, Waive, CancelSessionBooking, Draw, Return
  <2>2. QED
    BY <1>6, <2>1
<1>9. QED
  BY <1>2, <1>3, <1>4, <1>5, <1>7, <1>8 DEF Next, BookingStep

(* The bookings end and the credits go only when the payment went back:    *)
(* not on a call that is pending, refused or unanswered, and not on the    *)
(* failure of a try (requestRefund, applyRefunded); on a refund of a part  *)
(* only if the coach had asked for one before.                             *)
THEOREM RefundedWentBack == Spec => []AppliedMeansRefunded
<1>1. Init => Inv /\ Truth
  BY Initially, InitiallyTrue
<1>2. Inv /\ Truth /\ [Next]_vars => (Inv /\ Truth)'
  <2>1. ASSUME Inv, Truth, Next PROVE Truth'
    BY <2>1, TruthSteps DEF Inv
  <2>2. ASSUME Truth, UNCHANGED vars PROVE Truth'
    BY <2>2 DEF vars, Truth, JobsTrue, ReportsTrue, RowTrue, AppliedIsTrue
  <2>3. QED
    BY <2>1, <2>2, Inductive
<1>3. Inv /\ Truth => AppliedMeansRefunded
  BY RefsAre DEF Truth, MoneyTrue, AppliedIsTrue, AppliedMeansRefunded, Gone
<1>4. QED
  BY <1>1, <1>2, <1>3, PTL DEF Spec

(* A booking that stands was not cancelled late, and one still booked was  *)
(* not given back.                                                         *)
WellKept(b) ==
    /\ b.status = "booked" => ~b.late /\ ~b.waived
    /\ b.status = "noshow" => ~b.late

Fresh == \A c \in Children : WellKept(child[c])

(* What came back twice is over, and comes back no more. *)
Over(b) == b.status \in {"cancelled", "refunded"}

TwiceAreOver == twice \subseteq Children /\ \A c \in twice : Over(child[c])

SessionsInv == Fresh /\ TwiceAreOver /\ NeverMoreThanBought

----------------------------------------------------------------------------
(* What the credits are worth. *)

WorthOf(s) == [i \in DOMAIN s |-> s[i].left + s[i].drawn]

Worth(s) == SumFunction(WorthOf(s))

LEMMA WorthIs ==
    ASSUME NEW s \in Seq(Credit)
    PROVE  /\ IsFiniteSet(1..Len(s)) /\ Len(s) \in Nat
           /\ Worth(s) = SumFunctionOnSet(WorthOf(s), 1..Len(s)) /\ Worth(s) \in Nat
           /\ \A i \in 1..Len(s) : WorthOf(s)[i] \in Nat /\ WorthOf(s)[i] = s[i].left + s[i].drawn
<1>1. Len(s) \in Nat /\ DOMAIN s = 1..Len(s) /\ \A i \in 1..Len(s) : s[i] \in Credit
  OBVIOUS
<1>2. \A i \in 1..Len(s) : WorthOf(s)[i] = s[i].left + s[i].drawn /\ s[i].left \in Nat /\ s[i].drawn \in Nat
  BY <1>1 DEF WorthOf, Credit
<1>3. \A i \in 1..Len(s) : WorthOf(s)[i] \in Nat
  BY <1>2
<1>4. IsFiniteSet(1..Len(s))
  BY <1>1, FS_Interval
<1>5. DOMAIN WorthOf(s) = 1..Len(s)
  BY <1>1 DEF WorthOf
<1>6. Worth(s) = SumFunctionOnSet(WorthOf(s), 1..Len(s))
  BY <1>5 DEF Worth, SumFunction
<1>7. SumFunctionOnSet(WorthOf(s), 1..Len(s)) \in Nat
  BY <1>3, <1>4, SumType
<1>8. QED
  BY <1>1, <1>2, <1>3, <1>4, <1>6, <1>7

LEMMA WorthLess ==
    ASSUME NEW s \in Seq(Credit), NEW t \in Seq(Credit), Len(t) = Len(s),
           \A i \in 1..Len(s) : t[i].left + t[i].drawn <= s[i].left + s[i].drawn
    PROVE  Worth(t) <= Worth(s)
<1>1. /\ IsFiniteSet(1..Len(s))
      /\ Worth(s) = SumFunctionOnSet(WorthOf(s), 1..Len(s))
      /\ Worth(t) = SumFunctionOnSet(WorthOf(t), 1..Len(s))
  BY WorthIs
<1>2. \A i \in 1..Len(s) : WorthOf(s)[i] \in Nat /\ WorthOf(t)[i] \in Nat /\ WorthOf(t)[i] <= WorthOf(s)[i]
  BY WorthIs
<1>3. SumFunctionOnSet(WorthOf(t), 1..Len(s)) <= SumFunctionOnSet(WorthOf(s), 1..Len(s))
  BY <1>1, <1>2, SumLess
<1>4. QED
  BY <1>1, <1>3

(* One session more on one credit. *)
LEMMA WorthOneMore ==
    ASSUME NEW s \in Seq(Credit), NEW t \in Seq(Credit), Len(t) = Len(s), NEW j \in 1..Len(s),
           \A i \in 1..Len(s) \ {j} : t[i] = s[i],
           t[j].left + t[j].drawn <= s[j].left + s[j].drawn + 1
    PROVE  Worth(t) <= Worth(s) + 1
<1>1. /\ IsFiniteSet(1..Len(s))
      /\ Worth(s) = SumFunctionOnSet(WorthOf(s), 1..Len(s))
      /\ Worth(t) = SumFunctionOnSet(WorthOf(t), 1..Len(s))
      /\ Worth(s) \in Nat /\ Worth(t) \in Nat
  BY WorthIs
<1>2. \A i \in 1..Len(s) : WorthOf(s)[i] \in Nat /\ WorthOf(t)[i] \in Nat
  BY WorthIs
<1>3. \A i \in 1..Len(s) \ {j} : WorthOf(t)[i] = WorthOf(s)[i]
  BY WorthIs
<1>4. WorthOf(t)[j] <= WorthOf(s)[j] + 1
  BY WorthIs
<1>5. PICK f, g, S, a : f = WorthOf(s) /\ g = WorthOf(t) /\ S = 1..Len(s) /\ a = j
  OBVIOUS
<1>6. SumFunctionOnSet(g, S) = SumFunctionOnSet(f, S) - f[a] + g[a]
  <2>1. IsFiniteSet(S)
    BY <1>1, <1>5
  <2>0. a \in S
    BY <1>5
  <2>2. \A i \in S : f[i] \in Nat
    BY <1>2, <1>5
  <2>5. \A i \in S : g[i] \in Nat
    BY <1>2, <1>5
  <2>3. \A i \in S \ {a} : g[i] = f[i]
    BY <1>3, <1>5
  <2>4. QED
    BY <2>0, <2>1, <2>2, <2>3, <2>5, SumChange
<1>7. f[a] \in Nat /\ g[a] \in Nat /\ g[a] <= f[a] + 1
  BY <1>2, <1>4, <1>5
<1>8. Worth(s) = SumFunctionOnSet(f, S) /\ Worth(t) = SumFunctionOnSet(g, S)
  BY <1>1, <1>5
<1>9. QED
  BY <1>1, <1>6, <1>7, <1>8

(* A new credit. *)
LEMMA WorthGrows ==
    ASSUME NEW s \in Seq(Credit), NEW row \in Credit, NEW t, t = Append(s, row)
    PROVE  Worth(t) = Worth(s) + row.left + row.drawn
<1> DEFINE n == Len(s)
<1>1. n \in Nat /\ t \in Seq(Credit) /\ Len(t) = n + 1 /\ t[n + 1] = row /\ \A i \in 1..n : t[i] = s[i]
  BY AppendProperties
<1>2. 1..(n + 1) = (1..n) \cup {n + 1} /\ n + 1 \notin 1..n
  BY <1>1
<1>3. /\ IsFiniteSet(1..n) /\ Worth(s) = SumFunctionOnSet(WorthOf(s), 1..n) /\ Worth(s) \in Nat
      /\ Worth(t) = SumFunctionOnSet(WorthOf(t), 1..(n + 1))
  BY <1>1, WorthIs
<1>4. \A i \in 1..(n + 1) : WorthOf(t)[i] \in Nat /\ WorthOf(t)[i] = t[i].left + t[i].drawn
  BY <1>1, WorthIs
<1>5. \A i \in 1..n : WorthOf(t)[i] = WorthOf(s)[i]
  BY <1>1, <1>4, WorthIs
<1>6. SumFunctionOnSet(WorthOf(t), 1..n) = SumFunctionOnSet(WorthOf(s), 1..n)
  BY <1>3, <1>5, SumSame
<1> HIDE DEF n
<1>7. SumFunctionOnSet(WorthOf(t), (1..n) \cup {n + 1}) = WorthOf(t)[n + 1] + SumFunctionOnSet(WorthOf(t), 1..n)
  <2>1. \A i \in (1..n) \cup {n + 1} : WorthOf(t)[i] \in Nat
    BY <1>2, <1>4
  <2>2. QED
    BY <1>2, <1>3, <2>1, SumAdd
<1>8. WorthOf(t)[n + 1] = row.left + row.drawn /\ row.left \in Nat /\ row.drawn \in Nat
  BY <1>1, <1>4 DEF Credit
<1>9. Worth(t) = SumFunctionOnSet(WorthOf(t), (1..n) \cup {n + 1})
  BY <1>2, <1>3
<1>10. Worth(t) = WorthOf(t)[n + 1] + Worth(s)
  BY <1>3, <1>6, <1>7, <1>9
<1>11. QED
  BY <1>3, <1>8, <1>10

Uses(b) == (b.status \in {"booked", "noshow"} \/ (b.status = "cancelled" /\ b.late)) /\ ~b.waived

LEMMA OwnIs ==
    /\ Own \subseteq Children /\ IsFiniteSet(Own) /\ Cardinality(Own) \in Nat
    /\ \A c \in Children : c \in Own <=> Uses(child[c])
<1>1. Own \subseteq Children /\ \A c \in Children : c \in Own <=> Uses(child[c])
  BY DEF Own, UsesOwnSession, Live, Uses
<1>2. QED
  BY <1>1, ChildrenAssumption, FS_Subset, FS_CardinalityType

LEMMA OwnIsNext ==
    /\ Own' \subseteq Children /\ IsFiniteSet(Own') /\ Cardinality(Own') \in Nat
    /\ \A c \in Children : c \in Own' <=> Uses(child'[c])
<1>1. Own' \subseteq Children /\ \A c \in Children : c \in Own' <=> Uses(child'[c])
  BY DEF Own, UsesOwnSession, Live, Uses
<1>2. QED
  BY <1>1, ChildrenAssumption, FS_Subset, FS_CardinalityType

LEMMA BoughtIs == NeverMoreThanBought <=> Cardinality(Own) + Worth(credit) <= Bought + Cardinality(twice)
BY DEF NeverMoreThanBought, Worth, WorthOf

LEMMA BoughtIsNext == NeverMoreThanBought' <=> Cardinality(Own') + Worth(credit') <= Bought' + Cardinality(twice')
BY DEF NeverMoreThanBought, Worth, WorthOf

LEMMA TwiceCounts == ASSUME TwiceAreOver PROVE IsFiniteSet(twice) /\ Cardinality(twice) \in Nat
BY ChildrenAssumption, FS_Subset, FS_CardinalityType DEF TwiceAreOver

LEMMA BoughtNat == ASSUME Rest PROVE Bought \in Nat
BY ChildrenAssumption, PackAssumption, FS_CardinalityType DEF Bought

(* Nothing comes in hand, and no session of a booking's own comes back. *)
LEMMA SessionsKept ==
    ASSUME RowInv, RowInv', Rest, SessionsInv, kind' = kind, Own' \subseteq Own, Fresh', UNCHANGED twice,
           \A c \in Children : Over(child[c]) => Over(child'[c]),
           Len(credit') = Len(credit),
           \A i \in 1..Len(credit) : credit'[i].left + credit'[i].drawn <= credit[i].left + credit[i].drawn
    PROVE  SessionsInv'
<1>1. credit \in Seq(Credit) /\ credit' \in Seq(Credit) /\ Bought \in Nat /\ Bought' = Bought
  BY BoughtNat DEF RowInv, Rows, Bought
<1>2. Worth(credit) \in Nat /\ Worth(credit') \in Nat /\ Cardinality(twice) \in Nat
  BY <1>1, WorthIs, TwiceCounts DEF SessionsInv
<1>3. Worth(credit') <= Worth(credit)
  <2>1. PICK s \in Seq(Credit), t \in Seq(Credit) : s = credit /\ t = credit'
    BY <1>1
  <2>2. Len(t) = Len(s) /\ \A i \in 1..Len(s) : t[i].left + t[i].drawn <= s[i].left + s[i].drawn
    BY <2>1
  <2>3. Worth(t) <= Worth(s)
    BY <2>2, WorthLess
  <2>4. QED
    BY <2>1, <2>3
<1>4. Cardinality(Own') <= Cardinality(Own) /\ Cardinality(Own) \in Nat /\ Cardinality(Own') \in Nat
  <2>1. PICK A, B : A = Own /\ B = Own'
    OBVIOUS
  <2>2. IsFiniteSet(A) /\ B \subseteq A
    BY <2>1, OwnIs
  <2>3. Cardinality(B) <= Cardinality(A)
    BY <2>2, FS_Subset
  <2>4. QED
    BY <2>1, <2>3, OwnIs, OwnIsNext
<1>5. Cardinality(Own) + Worth(credit) <= Bought + Cardinality(twice)
  BY BoughtIs DEF SessionsInv
<1>6. Cardinality(Own') + Worth(credit') <= Bought' + Cardinality(twice')
  BY <1>1, <1>2, <1>3, <1>4, <1>5
<1>7. TwiceAreOver'
  BY DEF SessionsInv, TwiceAreOver
<1>8. QED
  BY <1>6, <1>7, BoughtIsNext DEF SessionsInv

(* What a booking gives back is one session, no more. *)
LEMMA GiveBackWorth ==
    ASSUME RowInv, RowInv', NEW c \in Children, NEW b, GiveBack(c, b)
    PROVE  Worth(credit') <= Worth(credit) + 1
<1>1. /\ credit \in Seq(Credit) /\ credit' \in Seq(Credit) /\ Len(credit) \in Nat
      /\ Worth(credit) \in Nat /\ Worth(credit') \in Nat
  BY CreditRows, WorthIs DEF RowInv, Rows
<1>2. CASE child[c].credit # None
  <2>1. child[c].credit \in 1..Len(credit) /\ credit' = Restored(child[c].credit)
    BY <1>1, <1>2 DEF GiveBack, RowInv, Named, None
  <2>2. PICK i \in 1..Len(credit) : i = child[c].credit
    BY <2>1
  <2>3. credit[i] \in Credit /\ DOMAIN credit = 1..Len(credit)
    BY <1>1
  <2>4. /\ Len(credit') = Len(credit) /\ \A j \in 1..Len(credit) \ {i} : credit'[j] = credit[j]
        /\ credit'[i].left + credit'[i].drawn <= credit[i].left + credit[i].drawn + 1
    <3>1. CASE credit[i].withdrawn
      <4>1. credit' = credit
        BY <2>1, <2>2, <3>1 DEF Restored
      <4>2. credit[i].left + credit[i].drawn <= credit[i].left + credit[i].drawn + 1
        BY <2>3 DEF Credit
      <4>3. QED
        BY <4>1, <4>2
    <3>2. CASE ~credit[i].withdrawn
      <4>1. credit' = [credit EXCEPT ![i].left = @ + 1]
        BY <2>1, <2>2, <3>2 DEF Restored
      <4>2. credit'[i].left = credit[i].left + 1 /\ credit'[i].drawn = credit[i].drawn
        BY <2>3, <4>1 DEF Credit
      <4>3. credit[i].left \in Nat /\ credit[i].drawn \in Nat
        BY <2>3 DEF Credit
      <4>4. QED
        BY <1>1, <4>1, <4>2, <4>3
    <3>3. QED
      BY <3>1, <3>2
  <2>5. PICK s \in Seq(Credit), t \in Seq(Credit) : s = credit /\ t = credit'
    BY <1>1
  <2>6. Len(t) = Len(s) /\ i \in 1..Len(s) /\ \A j \in 1..Len(s) \ {i} : t[j] = s[j]
    BY <2>4, <2>5
  <2>7. t[i].left + t[i].drawn <= s[i].left + s[i].drawn + 1
    BY <2>4, <2>5
  <2>8. Worth(t) <= Worth(s) + 1
    BY <2>6, <2>7, WorthOneMore
  <2>9. QED
    BY <2>5, <2>8
<1>3. CASE child[c].credit = None
  <2> DEFINE row == [left |-> 1, drawn |-> 0, held |-> HeldFromTheStart, withdrawn |-> FALSE]
  <2>1. row \in Credit /\ row.left = 1 /\ row.drawn = 0 /\ credit' = Append(credit, row)
    BY <1>3 DEF GiveBack, Credit, HeldFromTheStart
  <2> HIDE DEF row
  <2>2. PICK s \in Seq(Credit), t \in Seq(Credit) : s = credit /\ t = credit'
    BY <1>1
  <2>3. t = Append(s, row)
    BY <2>1, <2>2
  <2>4. Worth(t) = Worth(s) + row.left + row.drawn
    BY <2>1, <2>3, WorthGrows
  <2>5. QED
    BY <1>1, <2>1, <2>2, <2>4
<1>4. QED
  BY <1>2, <1>3

LEMMA GiveBackRows ==
    ASSUME RowInv, NEW c \in Children, NEW b \in Booking, GiveBack(c, b)
    PROVE  /\ \A d \in Children \ {c} : child'[d] = child[d]
           /\ child'[c].status = b.status /\ child'[c].late = b.late /\ child'[c].waived = b.waived
<1>1. PICK nb : /\ child' = [child EXCEPT ![c] = nb]
                /\ nb.status = b.status /\ nb.late = b.late /\ nb.waived = b.waived
  BY DEF GiveBack, Booking
<1>2. QED
  BY <1>1 DEF RowInv, Rows

(* A booking gives back the one session it used. *)
LEMMA GiveBackSessions ==
    ASSUME RowInv, RowInv', Rest, SessionsInv, kind' = kind, UNCHANGED twice,
           NEW c \in Own, NEW b \in Booking, ~Uses(b), WellKept(b), Over(child[c]) => Over(b), GiveBack(c, b)
    PROVE  SessionsInv'
<1>1. credit \in Seq(Credit) /\ credit' \in Seq(Credit) /\ Bought \in Nat /\ Bought' = Bought /\ c \in Children
  BY OwnIs, BoughtNat DEF RowInv, Rows, Bought
<1>2. /\ \A d \in Children \ {c} : child'[d] = child[d]
      /\ child'[c].status = b.status /\ child'[c].late = b.late /\ child'[c].waived = b.waived
  BY <1>1, GiveBackRows
<1>3. Fresh' /\ TwiceAreOver'
  BY <1>2 DEF SessionsInv, Fresh, WellKept, TwiceAreOver, Over
<1>4. Own' = Own \ {c}
  <2>1. \A d \in Children : d \in Own' <=> d \in Own /\ d # c
    <3>1. TAKE d \in Children
    <3>2. CASE d = c
      BY <1>2, <3>2, OwnIsNext DEF Uses
    <3>3. CASE d # c
      BY <1>2, <3>3, OwnIsNext, OwnIs
    <3>4. QED
      BY <3>2, <3>3
  <2>2. QED
    BY <2>1, OwnIs, OwnIsNext
<1>5. Cardinality(Own') = Cardinality(Own) - 1 /\ Cardinality(Own) \in Nat /\ Cardinality(Own') \in Nat
  <2>1. PICK A : A = Own
    OBVIOUS
  <2>2. IsFiniteSet(A) /\ c \in A
    BY <2>1, OwnIs
  <2>3. Cardinality(A \ {c}) = Cardinality(A) - 1
    BY <2>2, FS_RemoveElement
  <2>4. QED
    BY <1>4, <2>1, <2>3, OwnIs, OwnIsNext
<1>6. /\ Worth(credit) \in Nat /\ Worth(credit') \in Nat /\ Cardinality(twice) \in Nat
      /\ Cardinality(Own) + Worth(credit) <= Bought + Cardinality(twice)
  BY <1>1, WorthIs, BoughtIs, TwiceCounts DEF SessionsInv
<1>7. Worth(credit') <= Worth(credit) + 1
  BY <1>1, GiveBackWorth
<1>8. Cardinality(Own') + Worth(credit') <= Bought' + Cardinality(twice')
  BY <1>1, <1>5, <1>6, <1>7
<1>9. QED
  BY <1>3, <1>8, BoughtIsNext DEF SessionsInv

(* A no-show already given back is cancelled in time: one session more. *)
LEMMA GiveBackTwice ==
    ASSUME RowInv, RowInv', Rest, SessionsInv, kind' = kind, NEW c \in Children, twice' = twice \cup {c},
           NEW b \in Booking, ~Uses(b), ~Uses(child[c]), ~Over(child[c]), WellKept(b), Over(b), GiveBack(c, b)
    PROVE  SessionsInv'
<1>1. credit \in Seq(Credit) /\ credit' \in Seq(Credit) /\ Bought \in Nat /\ Bought' = Bought
  BY BoughtNat DEF RowInv, Rows, Bought
<1>2. /\ \A d \in Children \ {c} : child'[d] = child[d]
      /\ child'[c].status = b.status /\ child'[c].late = b.late /\ child'[c].waived = b.waived
  BY GiveBackRows
<1>3. Fresh' /\ TwiceAreOver'
  BY <1>2 DEF SessionsInv, Fresh, WellKept, TwiceAreOver, Over
<1>4. Own' = Own
  <2>1. \A d \in Children : d \in Own' <=> d \in Own
    <3>1. TAKE d \in Children
    <3>2. CASE d = c
      BY <1>2, <3>2, OwnIsNext, OwnIs DEF Uses
    <3>3. CASE d # c
      BY <1>2, <3>3, OwnIsNext, OwnIs
    <3>4. QED
      BY <3>2, <3>3
  <2>2. QED
    BY <2>1, OwnIs, OwnIsNext
<1>5. Cardinality(twice') = Cardinality(twice) + 1 /\ Cardinality(twice) \in Nat
  <2>1. c \notin twice
    BY DEF SessionsInv, TwiceAreOver
  <2>2. IsFiniteSet(twice) /\ Cardinality(twice) \in Nat
    BY TwiceCounts DEF SessionsInv
  <2>3. Cardinality(twice \cup {c}) = Cardinality(twice) + 1
    BY <2>1, <2>2, FS_AddElement
  <2>4. QED
    BY <2>2, <2>3
<1>6. /\ Worth(credit) \in Nat /\ Worth(credit') \in Nat /\ Cardinality(Own) \in Nat
      /\ Cardinality(Own) + Worth(credit) <= Bought + Cardinality(twice)
  BY <1>1, WorthIs, BoughtIs, OwnIs DEF SessionsInv
<1>7. Worth(credit') <= Worth(credit) + 1
  BY GiveBackWorth
<1>8. Cardinality(Own') + Worth(credit') <= Bought' + Cardinality(twice')
  BY <1>1, <1>4, <1>5, <1>6, <1>7
<1>9. QED
  BY <1>3, <1>8, BoughtIsNext DEF SessionsInv

LEMMA SessionsOfStatus ==
    ASSUME RowInv, RowInv', Rest, SessionsInv, kind' = kind, UNCHANGED <<credit, twice>>,
           NEW c \in Children, NEW b \in Booking, WellKept(b), Over(child[c]) => Over(b),
           Uses(b) => Uses(child[c]), child' = [child EXCEPT ![c] = b]
    PROVE  SessionsInv'
<1>1. child'[c] = b /\ \A d \in Children \ {c} : child'[d] = child[d]
  BY DEF RowInv, Rows
<1>2. Fresh'
  BY <1>1 DEF SessionsInv, Fresh, WellKept
<1>3. Own' \subseteq Own
  <2>1. \A d \in Children : d \in Own' => d \in Own
    BY <1>1, OwnIs, OwnIsNext
  <2>2. QED
    BY <2>1, OwnIsNext
<1>4. \A d \in Children : Over(child[d]) => Over(child'[d])
  BY <1>1
<1>5. /\ Len(credit') = Len(credit)
      /\ \A i \in 1..Len(credit) : credit'[i].left + credit'[i].drawn <= credit[i].left + credit[i].drawn
  BY CreditRows DEF RowInv, Credit
<1>6. QED
  BY <1>2, <1>3, <1>4, <1>5, SessionsKept

LEMMA SessionsOfCredits ==
    ASSUME RowInv, RowInv', Rest, SessionsInv, kind' = kind, UNCHANGED <<child, twice>>,
           Len(credit') = Len(credit),
           \A i \in 1..Len(credit) : credit'[i].left + credit'[i].drawn <= credit[i].left + credit[i].drawn
    PROVE  SessionsInv'
<1>1. Fresh'
  BY DEF SessionsInv, Fresh
<1>2. Own' = Own
  BY OwnIs, OwnIsNext
<1>3. QED
  BY <1>1, <1>2, SessionsKept

LEMMA SessionsOfBookings ==
    ASSUME RowInv, RowInv', Rest, SessionsInv, BookingStep
    PROVE  SessionsInv'
<1>1. /\ kind' = kind /\ Rows /\ \A c \in Children : child[c] \in Booking /\ WellKept(child[c])
  BY DEF BookingStep, MarkNoShow, CancelByParent, Waive, CancelSessionBooking, Draw, Return, world,
         RowInv, Rows, SessionsInv, Fresh
<1>2. ASSUME NEW c \in Children, MarkNoShow(c)
      PROVE  SessionsInv'
  <2> DEFINE b == [child[c] EXCEPT !.status = "noshow"]
  <2>1. b \in Booking /\ WellKept(b) /\ (Uses(b) => Uses(child[c])) /\ ~Over(child[c])
    BY <1>1, <1>2 DEF Booking, MarkNoShow, WellKept, Uses, Over
  <2>2. child' = [child EXCEPT ![c] = b] /\ UNCHANGED <<credit, twice>>
    BY <1>1, <1>2 DEF MarkNoShow, Rows, history
  <2> HIDE DEF b
  <2>3. QED
    BY <1>1, <2>1, <2>2, SessionsOfStatus
<1>3. ASSUME NEW c \in Children, CancelByParent(c)
      PROVE  SessionsInv'
  <2> DEFINE b == [child[c] EXCEPT !.status = "cancelled"]
             d == [child[c] EXCEPT !.status = "cancelled", !.late = TRUE]
  <2>1. child[c].status \in {"booked", "noshow"} /\ ~child[c].late
    BY <1>1, <1>3 DEF CancelByParent, Live, WellKept
  <2>2. /\ b \in Booking /\ WellKept(b) /\ ~Uses(b) /\ Over(b) /\ ~Over(child[c])
        /\ d \in Booking /\ WellKept(d) /\ (Uses(d) => Uses(child[c])) /\ Over(d)
        /\ Uses(child[c]) <=> ~child[c].waived
    BY <1>1, <2>1 DEF Booking, WellKept, Uses, Over
  <2>3. CASE GiveBack(c, b) /\ twice' = IF child[c].waived THEN twice \cup {c} ELSE twice
    <3> HIDE DEF b
    <3>1. CASE child[c].waived
      BY <1>1, <2>2, <2>3, <3>1, GiveBackTwice
    <3>2. CASE ~child[c].waived
      BY <1>1, <2>2, <2>3, <3>2, OwnIs, GiveBackSessions
    <3>3. QED
      BY <3>1, <3>2
  <2>4. CASE child' = [child EXCEPT ![c] = d] /\ UNCHANGED <<credit, twice>>
    <3> HIDE DEF d
    <3>1. QED
      BY <1>1, <2>2, <2>4, SessionsOfStatus
  <2>5. \/ GiveBack(c, b) /\ twice' = IF child[c].waived THEN twice \cup {c} ELSE twice
        \/ child' = [child EXCEPT ![c] = d] /\ UNCHANGED <<credit, twice>>
    BY <1>1, <1>3 DEF CancelByParent, Rows
  <2>6. QED
    BY <2>3, <2>4, <2>5
<1>4. ASSUME NEW c \in Children, Waive(c)
      PROVE  SessionsInv'
  <2> DEFINE b == [child[c] EXCEPT !.waived = TRUE]
  <2>1. b \in Booking /\ WellKept(b) /\ ~Uses(b) /\ c \in Own /\ (Over(child[c]) => Over(b))
    BY <1>1, <1>4, OwnIs DEF Booking, Waive, Waivable, WellKept, Uses, Over
  <2>2. GiveBack(c, b) /\ UNCHANGED twice
    BY <1>4 DEF Waive, history
  <2> HIDE DEF b
  <2>3. QED
    BY <1>1, <2>1, <2>2, GiveBackSessions
<1>5. ASSUME NEW c \in Children, CancelSessionBooking(c)
      PROVE  SessionsInv'
  <2> DEFINE b == [child[c] EXCEPT !.status = "cancelled"]
  <2>1. b \in Booking /\ WellKept(b) /\ Over(b) /\ UNCHANGED twice
    BY <1>1, <1>5 DEF Booking, WellKept, Over, CancelSessionBooking, history
  <2>2. CASE child[c].waived
    <3>1. ~Uses(b) /\ child' = [child EXCEPT ![c] = b] /\ UNCHANGED credit
      BY <1>1, <1>5, <2>2 DEF CancelSessionBooking, Uses, Rows, Booking
    <3> HIDE DEF b
    <3>2. QED
      BY <1>1, <2>1, <3>1, SessionsOfStatus
  <2>3. CASE ~child[c].waived
    <3>1. GiveBack(c, b) /\ c \in Own /\ ~Uses(b)
      BY <1>1, <1>5, <2>3, OwnIs DEF CancelSessionBooking, Live, WellKept, Uses, Booking
    <3> HIDE DEF b
    <3>2. QED
      BY <1>1, <2>1, <3>1, GiveBackSessions
  <2>4. QED
    BY <2>2, <2>3
<1>6. ASSUME NEW i \in DOMAIN credit, Draw(i) \/ Return(i)
      PROVE  SessionsInv'
  <2>1. i \in 1..Len(credit) /\ \A j \in 1..Len(credit) : credit[j] \in Credit
    BY <1>1, CreditRows
  <2>2. Len(credit') = Len(credit) /\ \A j \in 1..Len(credit) \ {i} : credit'[j] = credit[j]
    BY <1>1, <1>6, <2>1 DEF Draw, Return, Restored, Rows
  <2>3. credit'[i].left + credit'[i].drawn <= credit[i].left + credit[i].drawn
    <3>1. credit[i].left \in Nat /\ credit[i].drawn \in Nat
      BY <2>1 DEF Credit
    <3>2. CASE Draw(i)
      <4>1. credit'[i].left = credit[i].left - 1 /\ credit'[i].drawn = credit[i].drawn + 1
        BY <1>1, <2>1, <3>2 DEF Draw, Rows, Credit
      <4>2. QED
        BY <3>1, <4>1
    <3>3. CASE Return(i)
      <4>1. CASE credit[i].withdrawn
        <5>1. credit' = [credit EXCEPT ![i].drawn = @ - 1]
          BY <3>3, <4>1 DEF Return, Restored
        <5>2. credit'[i].left = credit[i].left /\ credit'[i].drawn = credit[i].drawn - 1
          BY <1>1, <2>1, <5>1 DEF Rows, Credit
        <5>3. QED
          BY <3>1, <5>2
      <4>2. CASE ~credit[i].withdrawn
        <5>1. PICK s : s = [credit EXCEPT ![i].left = @ + 1] /\ credit' = [s EXCEPT ![i].drawn = @ - 1]
          BY <3>3, <4>2 DEF Return, Restored
        <5>2. s[i] = [credit[i] EXCEPT !.left = @ + 1] /\ i \in DOMAIN s
          BY <1>1, <2>1, <5>1, CreditRows DEF Rows
        <5>3. credit'[i] = [s[i] EXCEPT !.drawn = @ - 1]
          BY <5>1, <5>2
        <5>4. credit'[i].left = credit[i].left + 1 /\ credit'[i].drawn = credit[i].drawn - 1
          BY <2>1, <5>2, <5>3 DEF Credit
        <5>5. QED
          BY <3>1, <5>4
      <4>3. QED
        BY <4>1, <4>2
    <3>4. QED
      BY <1>6, <3>2, <3>3
  <2>4. \A j \in 1..Len(credit) : credit'[j].left + credit'[j].drawn <= credit[j].left + credit[j].drawn
    <3>1. TAKE j \in 1..Len(credit)
    <3>2. CASE j = i
      BY <2>3, <3>2
    <3>3. CASE j # i
      <4>1. credit'[j] = credit[j] /\ credit[j].left \in Nat /\ credit[j].drawn \in Nat
        BY <2>1, <2>2, <3>3 DEF Credit
      <4>2. QED
        BY <4>1
    <3>4. QED
      BY <3>2, <3>3
  <2>5. UNCHANGED <<child, twice>>
    BY <1>6 DEF Draw, Return, history
  <2>6. QED
    BY <1>1, <2>2, <2>4, <2>5, SessionsOfCredits
<1>7. QED
  BY <1>2, <1>3, <1>4, <1>5, <1>6 DEF BookingStep

(* What the refund's steps do to the credits puts nothing in hand.         *)
NoMoreInHand ==
    /\ Len(credit') = Len(credit)
    /\ \A i \in 1..Len(credit) : credit'[i].left + credit'[i].drawn <= credit[i].left + credit[i].drawn

LEMMA ClaimHands == ASSUME Rows, NEW k \in Workers, Claim(k) PROVE NoMoreInHand
<1>1. \A i \in 1..Len(credit) : credit[i] \in Credit /\ credit[i].left \in Nat /\ credit[i].drawn \in Nat
  BY CreditRows DEF Credit
<1>2. DOMAIN credit = 1..Len(credit) /\ Len(credit) \in Nat
  BY CreditRows
<1>3. CASE credit' = credit
  BY <1>1, <1>3 DEF NoMoreInHand
<1>4. CASE credit' = Holding(CreditIds)
  <2>1. Len(credit') = Len(credit)
    BY <1>4, HoldingKeeps DEF SameCredits
  <2>2. \A i \in 1..Len(credit) : credit'[i] = IF i \in CreditIds THEN [credit[i] EXCEPT !.held = TRUE] ELSE credit[i]
    BY <1>2, <1>4 DEF Holding
  <2>3. \A i \in 1..Len(credit) : credit'[i].left = credit[i].left /\ credit'[i].drawn = credit[i].drawn
    BY <1>1, <2>2 DEF Credit
  <2>4. QED
    BY <1>1, <2>1, <2>3 DEF NoMoreInHand
<1>5. QED
  BY <1>3, <1>4 DEF Claim

LEMMA ReleaseHands == ASSUME Rows, NEW k \in Workers, Release(k) PROVE NoMoreInHand
<1>1. \A i \in 1..Len(credit) : credit[i] \in Credit /\ credit[i].left \in Nat /\ credit[i].drawn \in Nat
  BY CreditRows DEF Credit
<1>2. DOMAIN credit = 1..Len(credit) /\ Len(credit) \in Nat
  BY CreditRows
<1>3. Len(credit') = Len(credit)
  BY ReleaseKeeps DEF SameCredits
<1>4. \A i \in 1..Len(credit) :
         credit'[i] = IF credit[i].withdrawn THEN credit[i] ELSE [credit[i] EXCEPT !.held = FALSE]
  BY <1>2 DEF Release
<1>5. \A i \in 1..Len(credit) : credit'[i].left = credit[i].left /\ credit'[i].drawn = credit[i].drawn
  BY <1>1, <1>4 DEF Credit
<1>6. QED
  BY <1>1, <1>3, <1>5 DEF NoMoreInHand

LEMMA ApplyHands ==
    ASSUME RowInv, NEW k \in Workers, Apply(k), ToApply
    PROVE  NoMoreInHand /\ (\A c \in Children : child'[c].status = "refunded" /\ child'[c].credit = child[c].credit)
<1>1. /\ \A i \in 1..Len(credit) : credit[i] \in Credit /\ credit[i].left \in Nat /\ credit[i].drawn \in Nat
      /\ DOMAIN credit = 1..Len(credit) /\ Len(credit) \in Nat
  BY CreditRows DEF Credit, RowInv
<1>2. Len(credit') = Len(credit)
  <2>1. \A i \in 1..Len(credit) : i \in CreditIds
    BY DEF RowInv, Named, CreditIds, None
  <2>2. DOMAIN credit' = 1..Len(credit)
    BY <1>1 DEF Apply
  <2>3. credit' \in Seq(Credit)
    BY ApplyKeeps DEF RowInv, Rows
  <2>4. QED
    BY <1>1, <2>2, <2>3, LenProperties
<1>3. \A i \in 1..Len(credit) :
         credit'[i] = IF i \in CreditIds THEN [credit[i] EXCEPT !.left = 0, !.held = TRUE, !.withdrawn = TRUE]
                      ELSE credit[i]
  BY <1>1 DEF Apply
<1>4. \A i \in 1..Len(credit) : credit'[i].drawn = credit[i].drawn /\ credit'[i].left \in {0, credit[i].left}
  BY <1>1, <1>3 DEF Credit
<1>5. \A i \in 1..Len(credit) : credit'[i].left + credit'[i].drawn <= credit[i].left + credit[i].drawn
  BY <1>1, <1>4
<1>6. \A c \in Children : child'[c] = [child[c] EXCEPT !.status = "refunded"]
  BY DEF Apply
<1>7. QED
  BY <1>2, <1>5, <1>6 DEF NoMoreInHand, RowInv, Rows, Booking

LEMMA SessionsSteps ==
    ASSUME Inv, SessionsInv, Next
    PROVE  SessionsInv'
<1>1. RowInv /\ RowInv' /\ Rows /\ Rest
  BY RowSteps DEF Inv, RowInv, RestInv, Rest
<1>2. CASE BookingStep
  BY <1>1, <1>2, SessionsOfBookings
<1>3. ASSUME UNCHANGED bought, kind' = kind, UNCHANGED history
      PROVE  SessionsInv'
  <2>1. \A i \in 1..Len(credit) : credit[i].left \in Nat /\ credit[i].drawn \in Nat
    BY <1>1, CreditRows DEF Credit
  <2>2. /\ UNCHANGED <<child, twice>> /\ Len(credit') = Len(credit)
        /\ \A i \in 1..Len(credit) : credit'[i].left + credit'[i].drawn <= credit[i].left + credit[i].drawn
    BY <1>3, <2>1 DEF bought, history
  <2>3. QED
    BY <1>1, <1>3, <2>2, SessionsOfCredits
<1>4. ASSUME \/ GrowStale \/ Start \/ CancelSession
             \/ \E e \in Report : Deliver(e)
             \/ \E r \in Tries, s \in {"succeeded", "failed", "bounced"} : Confirm(r, s)
             \/ \E how \in Outside : RefundOutside(how)
      PROVE  SessionsInv'
  <2>1. UNCHANGED bought /\ kind' = kind /\ UNCHANGED history
    BY <1>4 DEF GrowStale, Start, CancelSession, Deliver, Handle, Confirm, RefundOutside, world
  <2>2. QED
    BY <1>3, <2>1
<1>5. ASSUME NEW k \in Workers, Claim(k) \/ Step(k) \/ Crash(k)
      PROVE  SessionsInv'
  <2>1. kind' = kind
    BY <1>5 DEF Claim, Step, Call, NotePending, NoteUnanswered, NoteRef, MarkFailed, Release, Insert, Apply, Tell,
                Finish, Crash, world
  <2>2. CASE Claim(k) \/ Release(k)
    <3>1. UNCHANGED <<child, twice>>
      BY <2>2 DEF Claim, Release
    <3>2. NoMoreInHand
      BY <1>1, <2>2, ClaimHands, ReleaseHands
    <3>3. QED
      BY <1>1, <2>1, <3>1, <3>2, SessionsOfCredits DEF NoMoreInHand
  <2>3. CASE Apply(k)
    <3>1. CASE ToApply
      <4>1. NoMoreInHand /\ \A c \in Children : child'[c].status = "refunded" /\ child'[c].credit = child[c].credit
        BY <1>1, <2>3, <3>1, ApplyHands
      <4>2. Fresh' /\ \A c \in Children : Over(child[c]) => Over(child'[c])
        BY <4>1 DEF Fresh, WellKept, Over
      <4>3. Own' = {} /\ UNCHANGED twice
        BY <2>3, <4>1, OwnIsNext DEF Uses, Apply, history
      <4>4. QED
        BY <1>1, <2>1, <4>1, <4>2, <4>3, SessionsKept DEF NoMoreInHand
    <3>2. CASE ~ToApply
      <4>1. UNCHANGED bought /\ UNCHANGED history
        BY <2>3, <3>2 DEF Apply
      <4>2. QED
        BY <1>3, <2>1, <4>1
    <3>3. QED
      BY <3>1, <3>2
  <2>4. CASE \/ Call(k) \/ NotePending(k) \/ NoteUnanswered(k) \/ NoteRef(k) \/ MarkFailed(k)
             \/ Insert(k) \/ Tell(k) \/ Finish(k) \/ Crash(k)
    <3>1. UNCHANGED bought /\ UNCHANGED history
      BY <2>4 DEF Call, NotePending, NoteUnanswered, NoteRef, MarkFailed, Insert, Tell, Finish, Crash
    <3>2. QED
      BY <1>3, <2>1, <3>1
  <2>5. QED
    BY <1>5, <2>2, <2>3, <2>4 DEF Step
<1>6. QED
  BY <1>2, <1>4, <1>5 DEF Next, BookingStep

LEMMA InitiallySessions ==
    ASSUME Init
    PROVE  SessionsInv
<1>1. Rows /\ Rest
  BY Initially DEF Inv, RowInv, RestInv
<1>2. /\ \A c \in Children : /\ child[c].status = "booked" /\ ~child[c].late /\ ~child[c].waived
                             /\ child[c].credit = IF kind = "pack" THEN 1 ELSE None
      /\ Cardinality(Children) \in Nat /\ twice = {} /\ Cardinality(twice) = 0
  BY ChildrenAssumption, FS_CardinalityType, FS_EmptySet DEF Init
<1>3. Own = Children
  BY <1>2, OwnIs DEF Uses
<1>4. CASE kind = "pack"
  <2> DEFINE row == [left |-> PackSessions - Cardinality(Children), drawn |-> 0, held |-> FALSE, withdrawn |-> FALSE]
  <2>1. row \in Credit /\ row.left = PackSessions - Cardinality(Children) /\ row.drawn = 0
    BY <1>2, PackAssumption DEF Credit
  <2>2. credit = <<row>>
    BY <1>4 DEF Init
  <2> HIDE DEF row
  <2>3. PICK s : s = <<>>
    OBVIOUS
  <2>4. s \in Seq(Credit) /\ Len(s) = 0 /\ credit = Append(s, row)
    BY <2>2, <2>3
  <2>5. Worth(s) = 0
    <3>1. Worth(s) = SumFunctionOnSet(WorthOf(s), 1..0)
      BY <2>4, WorthIs
    <3>2. 1..0 = {}
      OBVIOUS
    <3>3. QED
      BY <3>1, <3>2, SumEmpty
  <2>6. Worth(credit) = Worth(s) + row.left + row.drawn
    BY <2>1, <2>4, WorthGrows
  <2>7. Cardinality(Own) + Worth(credit) <= Bought + Cardinality(twice)
    BY <1>2, <1>3, <1>4, <2>1, <2>5, <2>6, PackAssumption DEF Bought
  <2>8. QED
    BY <1>2, <2>7, BoughtIs DEF SessionsInv, Fresh, WellKept, TwiceAreOver
<1>5. CASE kind # "pack"
  <2>1. credit = <<>> /\ Len(credit) = 0 /\ credit \in Seq(Credit)
    BY <1>5 DEF Init
  <2>2. Worth(credit) = 0
    <3>1. Worth(credit) = SumFunctionOnSet(WorthOf(credit), 1..0)
      BY <2>1, WorthIs
    <3>2. 1..0 = {}
      OBVIOUS
    <3>3. QED
      BY <3>1, <3>2, SumEmpty
  <2>3. Cardinality(Own) + Worth(credit) <= Bought + Cardinality(twice)
    BY <1>2, <1>3, <1>5, <2>2 DEF Bought
  <2>4. QED
    BY <1>2, <2>3, BoughtIs DEF SessionsInv, Fresh, WellKept, TwiceAreOver
<1>6. QED
  BY <1>4, <1>5

LEMMA SessionsStay ==
    ASSUME SessionsInv, UNCHANGED vars
    PROVE  SessionsInv'
<1>1. Own' = Own /\ Bought' = Bought
  BY OwnIs, OwnIsNext DEF vars, Bought
<1>2. NeverMoreThanBought'
  BY <1>1, BoughtIs, BoughtIsNext DEF vars, SessionsInv
<1>3. QED
  BY <1>1, <1>2 DEF vars, SessionsInv, Fresh, TwiceAreOver

(* However its bookings are cancelled, given back, drawn on and returned, a *)
(* payment is worth no more sessions than it bought, but one more for each  *)
(* no-show that was given back and then cancelled in time (restoreCredit,   *)
(* waiveBooking, cancelScheduledSession, cancelByParent).                   *)
THEOREM NoSessionTwice == Spec => []NeverMoreThanBought
<1>1. Init => Inv /\ SessionsInv
  BY Initially, InitiallySessions
<1>2. Inv /\ SessionsInv /\ [Next]_vars => (Inv /\ SessionsInv)'
  <2>1. ASSUME Inv, SessionsInv, Next PROVE SessionsInv'
    BY <2>1, SessionsSteps
  <2>2. QED
    BY <2>1, SessionsStay, Inductive
<1>3. Inv /\ SessionsInv => NeverMoreThanBought
  BY DEF SessionsInv
<1>4. QED
  BY <1>1, <1>2, <1>3, PTL DEF Spec

----------------------------------------------------------------------------
(* What is asked back is held, and none of it used elsewhere. *)

Asked(row) == row.asked /\ row.status \in {"requested", "pending"} /\ ~row.applied

AllHeld == \A i \in DOMAIN credit : credit[i].held

(* Only applyRefunded withdraws a credit. *)
NoneWithdrawn == ~refund.applied => \A i \in 1..Len(credit) : ~credit[i].withdrawn

LeftOf(s) == [i \in DOMAIN s |-> s[i].left]

Left(s) == SumFunction(LeftOf(s))

(* The bookings whose session became credit i. *)
Back(own, ch, i) == {c \in Children \ own : ch[c].credit = i}

(* UsedElsewhere is nothing: a drop-in's credits are worth the bookings    *)
(* they come from, a pack's what its bookings do not use.                  *)
NoneLost(what, own, ch, cr) ==
    IF what = "dropin"
    THEN \A i \in 1..Len(cr) : Cardinality(Back(own, ch, i)) <= cr[i].left
    ELSE PackSessions <= Cardinality(own) + Left(cr)

NoneUsed == NoneLost(kind, Own, child, credit)

HeldInv == NoneWithdrawn /\ (Asked(refund) /\ ~freed => AllHeld /\ NoneUsed)

LEMMA LeftIs ==
    ASSUME NEW s \in Seq(Credit)
    PROVE  /\ IsFiniteSet(1..Len(s)) /\ Len(s) \in Nat
           /\ Left(s) = SumFunctionOnSet(LeftOf(s), 1..Len(s)) /\ Left(s) \in Nat
           /\ \A i \in 1..Len(s) : LeftOf(s)[i] \in Nat /\ LeftOf(s)[i] = s[i].left
<1>1. Len(s) \in Nat /\ DOMAIN s = 1..Len(s) /\ \A i \in 1..Len(s) : s[i] \in Credit
  OBVIOUS
<1>2. \A i \in 1..Len(s) : LeftOf(s)[i] = s[i].left /\ LeftOf(s)[i] \in Nat
  BY <1>1 DEF LeftOf, Credit
<1>3. IsFiniteSet(1..Len(s))
  BY <1>1, FS_Interval
<1>4. DOMAIN LeftOf(s) = 1..Len(s)
  BY <1>1 DEF LeftOf
<1>5. Left(s) = SumFunctionOnSet(LeftOf(s), 1..Len(s))
  BY <1>4 DEF Left, SumFunction
<1>6. SumFunctionOnSet(LeftOf(s), 1..Len(s)) \in Nat
  <2>1. \A i \in 1..Len(s) : LeftOf(s)[i] \in Nat
    BY <1>2
  <2>2. QED
    BY <1>3, <2>1, SumType
<1>7. QED
  BY <1>1, <1>2, <1>3, <1>5, <1>6

LEMMA LeftMore ==
    ASSUME NEW s \in Seq(Credit), NEW t \in Seq(Credit), Len(t) = Len(s),
           \A i \in 1..Len(s) : s[i].left <= t[i].left
    PROVE  Left(s) <= Left(t)
<1>1. /\ IsFiniteSet(1..Len(s))
      /\ Left(s) = SumFunctionOnSet(LeftOf(s), 1..Len(s))
      /\ Left(t) = SumFunctionOnSet(LeftOf(t), 1..Len(s))
  BY LeftIs
<1>2. \A i \in 1..Len(s) : LeftOf(s)[i] \in Nat /\ LeftOf(t)[i] \in Nat /\ LeftOf(s)[i] <= LeftOf(t)[i]
  BY LeftIs
<1>3. SumFunctionOnSet(LeftOf(s), 1..Len(s)) <= SumFunctionOnSet(LeftOf(t), 1..Len(s))
  BY <1>1, <1>2, SumLess
<1>4. QED
  BY <1>1, <1>3

LEMMA LeftOneMore ==
    ASSUME NEW s \in Seq(Credit), NEW t \in Seq(Credit), Len(t) = Len(s), NEW j \in 1..Len(s),
           \A i \in 1..Len(s) \ {j} : t[i].left = s[i].left, t[j].left = s[j].left + 1
    PROVE  Left(t) = Left(s) + 1
<1>1. /\ IsFiniteSet(1..Len(s))
      /\ Left(s) = SumFunctionOnSet(LeftOf(s), 1..Len(s))
      /\ Left(t) = SumFunctionOnSet(LeftOf(t), 1..Len(s))
      /\ Left(s) \in Nat /\ Left(t) \in Nat
  BY LeftIs
<1>2. /\ \A i \in 1..Len(s) : LeftOf(s)[i] \in Nat /\ LeftOf(t)[i] \in Nat
      /\ \A i \in 1..Len(s) \ {j} : LeftOf(t)[i] = LeftOf(s)[i]
      /\ LeftOf(t)[j] = LeftOf(s)[j] + 1
  BY LeftIs
<1>3. PICK f, g, S, a : f = LeftOf(s) /\ g = LeftOf(t) /\ S = 1..Len(s) /\ a = j
  OBVIOUS
<1>4. SumFunctionOnSet(g, S) = SumFunctionOnSet(f, S) - f[a] + g[a]
  <2>1. IsFiniteSet(S)
    BY <1>1, <1>3
  <2>2. a \in S
    BY <1>3
  <2>3. \A i \in S : f[i] \in Nat
    BY <1>2, <1>3
  <2>4. \A i \in S : g[i] \in Nat
    BY <1>2, <1>3
  <2>5. \A i \in S \ {a} : g[i] = f[i]
    BY <1>2, <1>3
  <2>6. QED
    BY <2>1, <2>2, <2>3, <2>4, <2>5, SumChange
<1>5. f[a] \in Nat /\ g[a] = f[a] + 1
  BY <1>2, <1>3
<1>6. Left(s) = SumFunctionOnSet(f, S) /\ Left(t) = SumFunctionOnSet(g, S)
  BY <1>1, <1>3
<1>7. QED
  BY <1>1, <1>4, <1>5, <1>6

LEMMA LeftGrows ==
    ASSUME NEW s \in Seq(Credit), NEW row \in Credit, NEW t, t = Append(s, row)
    PROVE  Left(t) = Left(s) + row.left
<1> DEFINE n == Len(s)
<1>1. n \in Nat /\ t \in Seq(Credit) /\ Len(t) = n + 1 /\ t[n + 1] = row /\ \A i \in 1..n : t[i] = s[i]
  BY AppendProperties
<1>2. 1..(n + 1) = (1..n) \cup {n + 1} /\ n + 1 \notin 1..n
  BY <1>1
<1>3. /\ IsFiniteSet(1..n) /\ Left(s) = SumFunctionOnSet(LeftOf(s), 1..n) /\ Left(s) \in Nat
      /\ Left(t) = SumFunctionOnSet(LeftOf(t), 1..(n + 1))
  BY <1>1, LeftIs
<1>4. \A i \in 1..(n + 1) : LeftOf(t)[i] \in Nat /\ LeftOf(t)[i] = t[i].left
  BY <1>1, LeftIs
<1>5. \A i \in 1..n : LeftOf(t)[i] = LeftOf(s)[i]
  BY <1>1, <1>4, LeftIs
<1>6. SumFunctionOnSet(LeftOf(t), 1..n) = SumFunctionOnSet(LeftOf(s), 1..n)
  BY <1>3, <1>5, SumSame
<1>7. LeftOf(t)[n + 1] = row.left /\ row.left \in Nat
  BY <1>1, <1>4 DEF Credit
<1> HIDE DEF n
<1>8. SumFunctionOnSet(LeftOf(t), (1..n) \cup {n + 1}) = LeftOf(t)[n + 1] + SumFunctionOnSet(LeftOf(t), 1..n)
  <2>1. \A i \in (1..n) \cup {n + 1} : LeftOf(t)[i] \in Nat
    BY <1>2, <1>4
  <2>2. QED
    BY <1>2, <1>3, <2>1, SumAdd
<1>9. Left(t) = LeftOf(t)[n + 1] + Left(s)
  BY <1>2, <1>3, <1>6, <1>8
<1>10. QED
  BY <1>3, <1>7, <1>9

LEMMA BackCounts ==
    ASSUME NEW own, NEW ch, NEW i
    PROVE  IsFiniteSet(Back(own, ch, i)) /\ Cardinality(Back(own, ch, i)) \in Nat
<1>1. Back(own, ch, i) \subseteq Children
  BY DEF Back
<1>2. QED
  BY <1>1, ChildrenAssumption, FS_Subset, FS_CardinalityType

LEMMA OneMore ==
    ASSUME NEW A, IsFiniteSet(A), NEW c
    PROVE  /\ IsFiniteSet(A \cup {c}) /\ Cardinality(A \cup {c}) \in Nat
           /\ Cardinality(A \cup {c}) <= Cardinality(A) + 1
<1>1. Cardinality(A) \in Nat
  BY FS_CardinalityType
<1>2. CASE c \in A
  <2>1. A \cup {c} = A
    BY <1>2
  <2>2. QED
    BY <1>1, <2>1
<1>3. CASE c \notin A
  <2>1. IsFiniteSet(A \cup {c}) /\ Cardinality(A \cup {c}) = Cardinality(A) + 1
    BY <1>3, FS_AddElement
  <2>2. QED
    BY <1>1, <2>1
<1>4. QED
  BY <1>2, <1>3

(* Bookings stay where they were, and no credit gets less. *)
LEMMA NoneLostMeanwhile ==
    ASSUME NEW what, NEW own, NEW ch, NEW ch2, NEW cr \in Seq(Credit), NEW cr2 \in Seq(Credit),
           own \subseteq Children, NoneLost(what, own, ch, cr),
           \A c \in Children : ch2[c].credit = ch[c].credit,
           Len(cr2) = Len(cr), \A i \in 1..Len(cr) : cr[i].left <= cr2[i].left
    PROVE  NoneLost(what, own, ch2, cr2)
<1>1. CASE what = "dropin"
  <2>1. SUFFICES ASSUME NEW i \in 1..Len(cr) PROVE Cardinality(Back(own, ch2, i)) <= cr2[i].left
    BY <1>1 DEF NoneLost
  <2>2. Back(own, ch2, i) = Back(own, ch, i)
    BY DEF Back
  <2>3. Cardinality(Back(own, ch, i)) <= cr[i].left /\ cr[i].left <= cr2[i].left
    BY <1>1 DEF NoneLost
  <2>4. cr[i] \in Credit /\ cr2[i] \in Credit
    OBVIOUS
  <2>5. cr[i].left \in Nat /\ cr2[i].left \in Nat
    BY <2>4 DEF Credit
  <2>6. QED
    BY <2>2, <2>3, <2>5, BackCounts
<1>2. CASE what # "dropin"
  <2>1. PackSessions <= Cardinality(own) + Left(cr)
    BY <1>2 DEF NoneLost
  <2>2. Left(cr) <= Left(cr2) /\ Left(cr) \in Nat /\ Left(cr2) \in Nat
    BY LeftMore, LeftIs
  <2>3. Cardinality(own) \in Nat
    BY ChildrenAssumption, FS_Subset, FS_CardinalityType
  <2>4. PackSessions <= Cardinality(own) + Left(cr2)
    BY <2>1, <2>2, <2>3, PackAssumption
  <2>5. QED
    BY <1>2, <2>4 DEF NoneLost
<1>3. QED
  BY <1>1, <1>2

(* A booking no longer uses a session, and one comes back. *)
LEMMA NoneLostGivenBack ==
    ASSUME NEW what, NEW own, NEW own2, NEW ch, NEW ch2, NEW cr \in Seq(Credit), NEW cr2 \in Seq(Credit),
           own \subseteq Children, NoneLost(what, own, ch, cr),
           NEW c \in Children, own \ {c} \subseteq own2, own2 \subseteq own,
           \A d \in Children \ {c} : ch2[d].credit = ch[d].credit,
           \A d \in Children : ch[d].credit <= Len(cr),
           NEW j, j = ch2[c].credit,
           \/ /\ j \in 1..Len(cr) /\ Len(cr2) = Len(cr)
              /\ \A i \in 1..Len(cr) \ {j} : cr2[i].left = cr[i].left
              /\ cr2[j].left = cr[j].left + 1
           \/ /\ j = Len(cr) + 1
              /\ \E row \in Credit : row.left = 1 /\ cr2 = Append(cr, row)
    PROVE  NoneLost(what, own2, ch2, cr2)
<1>0. /\ Len(cr) \in Nat /\ \A i \in 1..Len(cr) : cr[i] \in Credit /\ cr[i].left \in Nat
      /\ Len(cr2) \in Nat /\ \A i \in 1..Len(cr2) : cr2[i] \in Credit /\ cr2[i].left \in Nat
  <2>1. \A i \in 1..Len(cr) : cr[i] \in Credit
    OBVIOUS
  <2>2. \A i \in 1..Len(cr2) : cr2[i] \in Credit
    OBVIOUS
  <2>3. \A i \in 1..Len(cr) : cr[i].left \in Nat
    BY <2>1 DEF Credit
  <2>4. \A i \in 1..Len(cr2) : cr2[i].left \in Nat
    BY <2>2 DEF Credit
  <2>5. Len(cr) \in Nat /\ Len(cr2) \in Nat
    OBVIOUS
  <2>6. QED
    BY <2>1, <2>2, <2>3, <2>4, <2>5
<1>1. \A i : Back(own2, ch2, i) \subseteq Back(own, ch, i) \cup {c} /\ (i # j => Back(own2, ch2, i) \subseteq Back(own, ch, i))
  BY DEF Back
<1>2. ASSUME NEW i PROVE /\ Cardinality(Back(own2, ch2, i)) <= Cardinality(Back(own, ch, i)) + 1
                         /\ i # j => Cardinality(Back(own2, ch2, i)) <= Cardinality(Back(own, ch, i))
  <2>1. PICK A, B : A = Back(own, ch, i) /\ B = Back(own2, ch2, i)
    OBVIOUS
  <2>2. IsFiniteSet(A) /\ IsFiniteSet(B) /\ Cardinality(A) \in Nat /\ Cardinality(B) \in Nat
    BY <2>1, BackCounts
  <2>3. B \subseteq A \cup {c} /\ (i # j => B \subseteq A)
    BY <1>1, <2>1
  <2>4. IsFiniteSet(A \cup {c}) /\ Cardinality(A \cup {c}) \in Nat /\ Cardinality(A \cup {c}) <= Cardinality(A) + 1
    BY <2>2, OneMore
  <2>5. Cardinality(B) <= Cardinality(A \cup {c})
    BY <2>3, <2>4, FS_Subset
  <2>6. i # j => Cardinality(B) <= Cardinality(A)
    BY <2>2, <2>3, FS_Subset
  <2>7. Cardinality(B) <= Cardinality(A) + 1
    BY <2>2, <2>4, <2>5
  <2>8. QED
    BY <2>1, <2>6, <2>7
<1>3. ASSUME j = Len(cr) + 1 PROVE Cardinality(Back(own, ch, j)) = 0
  <2>1. Back(own, ch, j) = {}
    BY <1>0, <1>3 DEF Back
  <2>2. QED
    BY <2>1, FS_EmptySet
<1>4. ASSUME j = Len(cr) + 1, NEW row \in Credit, row.left = 1, cr2 = Append(cr, row)
      PROVE  /\ Len(cr2) = Len(cr) + 1 /\ cr2[Len(cr) + 1].left = 1 /\ \A i \in 1..Len(cr) : cr2[i].left = cr[i].left
             /\ Left(cr2) = Left(cr) + 1
  <2>1. Len(cr2) = Len(cr) + 1 /\ cr2[Len(cr) + 1] = row /\ \A i \in 1..Len(cr) : cr2[i] = cr[i]
    BY <1>4, AppendProperties
  <2>2. Left(cr2) = Left(cr) + row.left
    BY <1>4, LeftGrows
  <2>3. QED
    BY <1>4, <2>1, <2>2
<1>5. CASE what = "dropin"
  <2>1. SUFFICES ASSUME NEW i \in 1..Len(cr2) PROVE Cardinality(Back(own2, ch2, i)) <= cr2[i].left
    BY <1>5 DEF NoneLost
  <2>2. Cardinality(Back(own2, ch2, i)) \in Nat /\ Cardinality(Back(own, ch, i)) \in Nat /\ cr2[i].left \in Nat
    BY <1>0, BackCounts
  <2>3. i \in 1..Len(cr) => Cardinality(Back(own, ch, i)) <= cr[i].left /\ cr[i].left \in Nat
    BY <1>0, <1>5 DEF NoneLost
  <2>4. CASE j \in 1..Len(cr)
    <3>1. Len(cr2) = Len(cr) /\ (i # j => cr2[i].left = cr[i].left) /\ (i = j => cr2[i].left = cr[i].left + 1)
      BY <1>0, <2>4
    <3>2. QED
      BY <1>2, <2>2, <2>3, <3>1
  <2>5. CASE j = Len(cr) + 1
    <3>1. PICK row \in Credit : row.left = 1 /\ cr2 = Append(cr, row)
      BY <1>0, <2>5
    <3>2. /\ i \in 1..Len(cr) \/ i = j
          /\ (i = j => cr2[i].left = 1) /\ (i \in 1..Len(cr) => cr2[i].left = cr[i].left /\ i # j)
      BY <1>0, <1>4, <2>5, <3>1
    <3>3. QED
      BY <1>2, <1>3, <2>2, <2>3, <2>5, <3>2
  <2>6. QED
    BY <2>4, <2>5
<1>6. CASE what # "dropin"
  <2>1. PackSessions <= Cardinality(own) + Left(cr) /\ Left(cr) \in Nat
    BY <1>6, LeftIs DEF NoneLost
  <2>2. Left(cr2) = Left(cr) + 1
    <3>1. CASE j \in 1..Len(cr)
      <4>1. /\ Len(cr2) = Len(cr) /\ \A i \in 1..Len(cr) \ {j} : cr2[i].left = cr[i].left
            /\ cr2[j].left = cr[j].left + 1
        BY <1>0, <3>1
      <4>2. QED
        BY <3>1, <4>1, LeftOneMore
    <3>2. CASE j = Len(cr) + 1
      BY <1>0, <1>4, <3>2
    <3>3. QED
      BY <3>1, <3>2
  <2>3. Cardinality(own) <= Cardinality(own2) + 1 /\ Cardinality(own) \in Nat /\ Cardinality(own2) \in Nat
    <3>1. IsFiniteSet(own) /\ IsFiniteSet(own2) /\ Cardinality(own) \in Nat /\ Cardinality(own2) \in Nat
      BY ChildrenAssumption, FS_Subset, FS_CardinalityType
    <3>2. IsFiniteSet(own2 \cup {c}) /\ Cardinality(own2 \cup {c}) \in Nat
          /\ Cardinality(own2 \cup {c}) <= Cardinality(own2) + 1
      BY <3>1, OneMore
    <3>3. own \subseteq own2 \cup {c}
      OBVIOUS
    <3>4. Cardinality(own) <= Cardinality(own2 \cup {c})
      BY <3>2, <3>3, FS_Subset
    <3>5. QED
      BY <3>1, <3>2, <3>4
  <2>4. PackSessions <= Cardinality(own2) + Left(cr2)
    BY <2>1, <2>2, <2>3, PackAssumption
  <2>5. QED
    BY <1>6, <2>4 DEF NoneLost
<1>7. QED
  BY <1>5, <1>6

LEMMA IdsAre == ASSUME RowInv PROVE CreditIds = 1..Len(credit) /\ DOMAIN credit = 1..Len(credit) /\ IsFiniteSet(1..Len(credit))
<1>1. Len(credit) \in Nat /\ DOMAIN credit = 1..Len(credit)
  BY CreditRows DEF RowInv
<1>2. \A i \in CreditIds : i \in 1..Len(credit)
  BY <1>1 DEF CreditIds, RowInv, Named, None
<1>3. \A i \in 1..Len(credit) : i \in CreditIds
  BY <1>1 DEF CreditIds, RowInv, Named, None
<1>4. CreditIds = 1..Len(credit)
  BY <1>2, <1>3
<1>5. IsFiniteSet(1..Len(credit))
  BY <1>1, FS_Interval
<1>6. QED
  BY <1>1, <1>4, <1>5

LEMMA ZeroOrLess == ASSUME NEW n \in Int PROVE AtLeastZero(n) \in Nat /\ (AtLeastZero(n) = 0 <=> n <= 0)
BY DEF AtLeastZero

(* purchaseCredits finds none used elsewhere. *)
LEMMA ElsewhereIs == ASSUME RowInv, Rest PROVE UsedElsewhere = 0 <=> NoneUsed
<1>1. /\ CreditIds = 1..Len(credit) /\ IsFiniteSet(1..Len(credit)) /\ credit \in Seq(Credit)
      /\ \A i \in 1..Len(credit) : credit[i].left \in Nat
  BY IdsAre, CreditRows DEF RowInv, Rows, Credit
<1>2. CASE kind = "dropin"
  <2>1. PICK S, f : S = CreditIds /\ f = [i \in CreditIds |-> AtLeastZero(Cardinality(Back(Own, child, i)) - credit[i].left)]
    OBVIOUS
  <2>2. UsedElsewhere = SumFunctionOnSet(f, S)
    BY <1>2, <2>1 DEF UsedElsewhere, Back, SumFunction
  <2>3. \A i \in S : f[i] \in Nat /\ (f[i] = 0 <=> Cardinality(Back(Own, child, i)) <= credit[i].left)
    <3>1. TAKE i \in S
    <3>2. PICK n \in Int : n = Cardinality(Back(Own, child, i)) - credit[i].left
      BY <1>1, <2>1, BackCounts
    <3>3. f[i] = AtLeastZero(n)
      BY <2>1, <3>2
    <3>4. n <= 0 <=> Cardinality(Back(Own, child, i)) <= credit[i].left
      BY <1>1, <2>1, <3>2, BackCounts
    <3>5. QED
      BY <3>3, <3>4, ZeroOrLess
  <2>4. S = 1..Len(credit) /\ IsFiniteSet(S)
    BY <1>1, <2>1
  <2>5. \A i \in S : f[i] \in Nat
    BY <2>3
  <2>6. (\A i \in S : f[i] = 0) => SumFunctionOnSet(f, S) = 0
    BY <2>4, SumZero
  <2>7. SumFunctionOnSet(f, S) = 0 => \A i \in S : f[i] = 0
    BY <2>4, <2>5, SumOfNone
  <2>8. NoneUsed <=> \A i \in S : f[i] = 0
    BY <1>2, <2>3, <2>4 DEF NoneUsed, NoneLost
  <2>9. QED
    BY <2>2, <2>6, <2>7, <2>8
<1>3. CASE kind # "dropin"
  <2>1. DOMAIN credit = 1..Len(credit)
    BY <1>1
  <2>2. Unused = Left(credit)
    BY <1>1, <2>1 DEF Unused, Left, LeftOf
  <2>3. PICK n \in Int : n = PackSessions - Cardinality(Own) - Unused
    BY <1>1, <2>2, LeftIs, OwnIs, PackAssumption
  <2>4. UsedElsewhere = AtLeastZero(n)
    BY <1>3, <2>3 DEF UsedElsewhere
  <2>5. NoneUsed <=> n <= 0
    BY <1>1, <1>3, <2>2, <2>3, LeftIs, OwnIs, PackAssumption DEF NoneUsed, NoneLost
  <2>6. QED
    BY <2>4, <2>5, ZeroOrLess
<1>4. QED
  BY <1>2, <1>3


LEMMA NoneUsedMeanwhile ==
    ASSUME RowInv, RowInv', Rest, NoneUsed, kind' = kind, Own' = Own,
           \A c \in Children : child'[c].credit = child[c].credit,
           Len(credit') = Len(credit), \A i \in 1..Len(credit) : credit[i].left <= credit'[i].left
    PROVE  NoneUsed'
<1>1. credit \in Seq(Credit) /\ credit' \in Seq(Credit) /\ Own \subseteq Children
  BY OwnIs DEF RowInv, Rows
<1>2. NoneLost(kind, Own, child', credit')
  BY <1>1, NoneLostMeanwhile DEF NoneUsed
<1>3. QED
  BY <1>2 DEF NoneUsed

(* A booking given back meanwhile leaves a credit that is held. *)
LEMMA GiveBackHeld ==
    ASSUME RowInv, RowInv', Rest, NEW c \in Children, NEW b \in Booking, b.credit = child[c].credit, GiveBack(c, b),
           Uses(b) => Uses(child[c]), kind' = kind, UNCHANGED refund
    PROVE  /\ NoneWithdrawn => NoneWithdrawn'
           /\ NoneWithdrawn /\ Asked(refund) /\ AllHeld /\ NoneUsed => AllHeld' /\ NoneUsed'
<1>1. /\ credit \in Seq(Credit) /\ DOMAIN credit = 1..Len(credit) /\ Len(credit) \in Nat
      /\ \A i \in 1..Len(credit) : credit[i] \in Credit
      /\ credit' \in Seq(Credit) /\ Own \subseteq Children /\ child \in [Children -> Booking]
      /\ \A d \in Children : child[d].credit \in 0..Len(credit)
  BY CreditRows, OwnIs DEF RowInv, Rows, Named
<1>2. Own \ {c} \subseteq Own' /\ Own' \subseteq Own
  <2>1. \A d \in Children \ {c} : child'[d] = child[d]
    BY GiveBackRows
  <2>2. child'[c].status = b.status /\ child'[c].late = b.late /\ child'[c].waived = b.waived
    BY GiveBackRows
  <2>3. \A d \in Children \ {c} : d \in Own' <=> d \in Own
    BY <2>1, OwnIs, OwnIsNext
  <2>4. c \in Own' => c \in Own
    BY <2>2, OwnIs, OwnIsNext DEF Uses
  <2>5. QED
    BY <2>3, <2>4, OwnIs, OwnIsNext
<1>3. CASE child[c].credit # None
  <2>1. child[c].credit \in 1..Len(credit) /\ credit' = Restored(child[c].credit) /\ child' = [child EXCEPT ![c] = b]
    BY <1>1, <1>3 DEF GiveBack, None
  <2>2. PICK i \in 1..Len(credit) : i = child[c].credit
    BY <2>1
  <2>3. CASE credit[i].withdrawn
    <3>1. credit' = credit
      BY <2>1, <2>2, <2>3 DEF Restored
    <3>2. NoneWithdrawn => refund.applied
      BY <2>3 DEF NoneWithdrawn
    <3>3. QED
      BY <3>1, <3>2 DEF NoneWithdrawn, Asked
  <2>4. CASE ~credit[i].withdrawn
    <3>1. credit' = [credit EXCEPT ![i].left = @ + 1]
      BY <2>1, <2>2, <2>4 DEF Restored
    <3>2. DOMAIN credit' = 1..Len(credit) /\ Len(credit') = Len(credit) /\ \A j \in 1..Len(credit) \ {i} : credit'[j] = credit[j]
      BY <1>1, <3>1
    <3>3. credit'[i].held = credit[i].held /\ credit'[i].withdrawn = credit[i].withdrawn /\ credit'[i].left = credit[i].left + 1
      <4>1. credit[i] \in Credit /\ credit'[i] = [credit[i] EXCEPT !.left = @ + 1]
        BY <1>1, <3>1
      <4>2. QED
        BY <4>1 DEF Credit
    <3>4. \A j \in 1..Len(credit) : credit'[j].held = credit[j].held /\ credit'[j].withdrawn = credit[j].withdrawn
      BY <3>2, <3>3
    <3>5. (NoneWithdrawn => NoneWithdrawn') /\ (AllHeld => AllHeld')
      BY <1>1, <3>2, <3>4 DEF NoneWithdrawn, AllHeld
    <3>6. child'[c].credit = i /\ \A d \in Children \ {c} : child'[d].credit = child[d].credit
      BY <1>1, <2>1, <2>2
    <3>7. /\ i \in 1..Len(credit) /\ Len(credit') = Len(credit)
          /\ \A j \in 1..Len(credit) \ {i} : credit'[j].left = credit[j].left
          /\ credit'[i].left = credit[i].left + 1
      BY <3>2, <3>3
    <3>8. \A d \in Children : child[d].credit <= Len(credit)
      BY <1>1
    <3>9. NoneUsed => NoneLost(kind, Own', child', credit')
      <4>1. SUFFICES ASSUME NoneUsed PROVE NoneLost(kind, Own', child', credit')
        OBVIOUS
      <4>0. PICK cr \in Seq(Credit), cr2 \in Seq(Credit) : cr = credit /\ cr2 = credit'
        BY <1>1
      <4>2. PICK own, own2, ch, ch2 : own = Own /\ own2 = Own' /\ ch = child /\ ch2 = child'
        OBVIOUS
      <4>3. own \subseteq Children /\ own \ {c} \subseteq own2 /\ own2 \subseteq own /\ NoneLost(kind, own, ch, cr)
        BY <1>1, <1>2, <4>1, <4>0, <4>2 DEF NoneUsed
      <4>4. /\ \A d \in Children \ {c} : ch2[d].credit = ch[d].credit
            /\ \A d \in Children : ch[d].credit <= Len(cr)
            /\ i = ch2[c].credit
        BY <3>6, <3>8, <4>0, <4>2
      <4>5. /\ i \in 1..Len(cr) /\ Len(cr2) = Len(cr)
            /\ \A j \in 1..Len(cr) \ {i} : cr2[j].left = cr[j].left
            /\ cr2[i].left = cr[i].left + 1
        BY <3>7, <4>0, <4>2
      <4>6. NoneLost(kind, own2, ch2, cr2)
        BY <4>3, <4>4, <4>5, NoneLostGivenBack
      <4>7. QED
        BY <4>0, <4>2, <4>6
    <3>10. QED
      BY <3>5, <3>9 DEF NoneUsed
  <2>5. QED
    BY <2>3, <2>4
<1>4. CASE child[c].credit = None
  <2> DEFINE row == [left |-> 1, drawn |-> 0, held |-> HeldFromTheStart, withdrawn |-> FALSE]
  <2>1. row \in Credit /\ row.left = 1 /\ row.held = HeldFromTheStart /\ row.withdrawn = FALSE /\ credit' = Append(credit, row)
    BY <1>4 DEF GiveBack, Credit, HeldFromTheStart
  <2>2. Asked(refund) => HeldFromTheStart
    BY DEF HeldFromTheStart, Asked
  <2> HIDE DEF row
  <2>3. /\ DOMAIN credit' = 1..(Len(credit) + 1) /\ Len(credit') = Len(credit) + 1 /\ credit'[Len(credit) + 1] = row
        /\ \A i \in 1..Len(credit) : credit'[i] = credit[i]
    BY <1>1, <2>1, AppendProperties
  <2>4. \A i \in 1..(Len(credit) + 1) : i = Len(credit) + 1 \/ i \in 1..Len(credit)
    BY <1>1
  <2>5. NoneWithdrawn => NoneWithdrawn'
    BY <2>1, <2>3, <2>4 DEF NoneWithdrawn
  <2>6. Asked(refund) /\ AllHeld => AllHeld'
    BY <1>1, <2>1, <2>2, <2>3, <2>4 DEF AllHeld
  <2>7. child'[c].credit = Len(credit) + 1 /\ \A d \in Children \ {c} : child'[d].credit = child[d].credit
    <3>1. child' = [child EXCEPT ![c] = [b EXCEPT !.credit = Len(credit) + 1]]
      BY <1>4 DEF GiveBack
    <3>2. QED
      BY <1>1, <3>1 DEF Booking
  <2>8. \A d \in Children : child[d].credit <= Len(credit)
    BY <1>1
  <2>9. \E r \in Credit : r.left = 1 /\ credit' = Append(credit, r)
    BY <2>1
  <2>10. NoneUsed => NoneLost(kind, Own', child', credit')
    <3>1. SUFFICES ASSUME NoneUsed PROVE NoneLost(kind, Own', child', credit')
      OBVIOUS
    <3>0. PICK cr \in Seq(Credit), cr2 \in Seq(Credit) : cr = credit /\ cr2 = credit'
      BY <1>1
    <3>2. PICK own, own2, ch, ch2 : own = Own /\ own2 = Own' /\ ch = child /\ ch2 = child'
      OBVIOUS
    <3>3. own \subseteq Children /\ own \ {c} \subseteq own2 /\ own2 \subseteq own /\ NoneLost(kind, own, ch, cr)
      BY <1>1, <1>2, <3>1, <3>0, <3>2 DEF NoneUsed
    <3>4. /\ \A d \in Children \ {c} : ch2[d].credit = ch[d].credit
          /\ \A d \in Children : ch[d].credit <= Len(cr)
          /\ Len(cr) + 1 = ch2[c].credit
      BY <2>7, <2>8, <3>0, <3>2
    <3>5. \E r \in Credit : r.left = 1 /\ cr2 = Append(cr, r)
      BY <2>9, <3>0, <3>2
    <3>6. NoneLost(kind, own2, ch2, cr2)
      BY <3>3, <3>4, <3>5, NoneLostGivenBack
    <3>7. QED
      BY <3>0, <3>2, <3>6
  <2>11. QED
    BY <2>5, <2>6, <2>10 DEF NoneUsed
<1>5. QED
  BY <1>3, <1>4

LEMMA StatusHeld ==
    ASSUME RowInv, RowInv', Rest, NEW c \in Children, NEW b \in Booking, b.credit = child[c].credit,
           child' = [child EXCEPT ![c] = b], UNCHANGED <<credit, refund>>, kind' = kind, Uses(b) <=> Uses(child[c])
    PROVE  /\ NoneWithdrawn => NoneWithdrawn'
           /\ AllHeld /\ NoneUsed => AllHeld' /\ NoneUsed'
<1>1. child'[c] = b /\ \A d \in Children \ {c} : child'[d] = child[d]
  BY DEF RowInv, Rows
<1>2. Own' = Own
  <2>1. \A d \in Children : d \in Own' <=> d \in Own
    BY <1>1, OwnIs, OwnIsNext
  <2>2. QED
    BY <2>1, OwnIs, OwnIsNext
<1>3. \A d \in Children : child'[d].credit = child[d].credit
  BY <1>1
<1>4. Len(credit') = Len(credit) /\ \A i \in 1..Len(credit) : credit[i].left <= credit'[i].left
  <2>1. \A i \in 1..Len(credit) : credit[i].left \in Nat
    BY CreditRows DEF RowInv, Credit
  <2>2. QED
    BY <2>1
<1>5. NoneUsed => NoneUsed'
  BY <1>2, <1>3, <1>4, NoneUsedMeanwhile
<1>6. QED
  BY <1>5 DEF NoneWithdrawn, AllHeld

LEMMA BookingsHeld ==
    ASSUME RowInv, RowInv', Rest, Fresh, HeldInv, BookingStep
    PROVE  HeldInv'
<1>1. /\ kind' = kind /\ UNCHANGED <<refund, freed>> /\ child \in [Children -> Booking]
      /\ \A c \in Children : child[c] \in Booking /\ WellKept(child[c])
  BY DEF BookingStep, MarkNoShow, CancelByParent, Waive, CancelSessionBooking, Draw, Return, world, history,
         RowInv, Rows, Fresh
<1>2. Asked(refund') = Asked(refund) /\ freed' = freed
  BY <1>1
<1>3. ASSUME NEW c \in Children, NEW b \in Booking, b.credit = child[c].credit,
             \/ GiveBack(c, b) /\ (Uses(b) => Uses(child[c]))
             \/ child' = [child EXCEPT ![c] = b] /\ UNCHANGED credit /\ (Uses(b) <=> Uses(child[c]))
      PROVE  HeldInv'
  <2>1. /\ NoneWithdrawn => NoneWithdrawn'
        /\ NoneWithdrawn /\ Asked(refund) /\ AllHeld /\ NoneUsed => AllHeld' /\ NoneUsed'
    <3>1. CASE GiveBack(c, b) /\ (Uses(b) => Uses(child[c]))
      BY <1>1, <1>3, <3>1, GiveBackHeld
    <3>2. CASE child' = [child EXCEPT ![c] = b] /\ UNCHANGED credit /\ (Uses(b) <=> Uses(child[c]))
      BY <1>1, <1>3, <3>2, StatusHeld
    <3>3. QED
      BY <1>3, <3>1, <3>2
  <2>2. QED
    BY <1>2, <2>1 DEF HeldInv
<1>4. ASSUME NEW c \in Children, MarkNoShow(c)
      PROVE  HeldInv'
  <2> DEFINE b == [child[c] EXCEPT !.status = "noshow"]
  <2>1. b \in Booking /\ b.credit = child[c].credit /\ (Uses(b) <=> Uses(child[c]))
    BY <1>1, <1>4 DEF Booking, MarkNoShow, Uses
  <2>2. child' = [child EXCEPT ![c] = b] /\ UNCHANGED credit
    BY <1>1, <1>4 DEF MarkNoShow
  <2> HIDE DEF b
  <2>3. QED
    BY <1>3, <2>1, <2>2
<1>5. ASSUME NEW c \in Children, CancelByParent(c)
      PROVE  HeldInv'
  <2> DEFINE b == [child[c] EXCEPT !.status = "cancelled"]
             d == [child[c] EXCEPT !.status = "cancelled", !.late = TRUE]
  <2>1. child[c].status \in {"booked", "noshow"} /\ ~child[c].late
    BY <1>1, <1>5 DEF CancelByParent, Live, WellKept
  <2>2. /\ b \in Booking /\ b.credit = child[c].credit /\ ~Uses(b)
        /\ d \in Booking /\ d.credit = child[c].credit /\ (Uses(d) <=> Uses(child[c]))
    BY <1>1, <2>1 DEF Booking, Uses
  <2>3. GiveBack(c, b) \/ (child' = [child EXCEPT ![c] = d] /\ UNCHANGED credit)
    BY <1>1, <1>5 DEF CancelByParent
  <2> HIDE DEF b, d
  <2>4. QED
    BY <1>3, <2>2, <2>3
<1>6. ASSUME NEW c \in Children, Waive(c)
      PROVE  HeldInv'
  <2> DEFINE b == [child[c] EXCEPT !.waived = TRUE]
  <2>1. b \in Booking /\ b.credit = child[c].credit /\ ~Uses(b) /\ GiveBack(c, b)
    BY <1>1, <1>6 DEF Booking, Waive, Uses
  <2> HIDE DEF b
  <2>2. QED
    BY <1>3, <2>1
<1>7. ASSUME NEW c \in Children, CancelSessionBooking(c)
      PROVE  HeldInv'
  <2> DEFINE b == [child[c] EXCEPT !.status = "cancelled"]
  <2>1. b \in Booking /\ b.credit = child[c].credit
    BY <1>1 DEF Booking
  <2>2. /\ child[c].waived => ~Uses(b) /\ ~Uses(child[c]) /\ child' = [child EXCEPT ![c] = b] /\ UNCHANGED credit
        /\ ~child[c].waived => ~Uses(b) /\ GiveBack(c, b)
    BY <1>1, <1>7 DEF CancelSessionBooking, Live, WellKept, Uses, Booking
  <2> HIDE DEF b
  <2>3. QED
    BY <1>3, <2>1, <2>2
<1>8. ASSUME NEW i \in DOMAIN credit, Draw(i) \/ Return(i)
      PROVE  HeldInv'
  <2>1. /\ i \in 1..Len(credit) /\ \A j \in 1..Len(credit) : credit[j] \in Credit
        /\ DOMAIN credit = 1..Len(credit) /\ credit \in Seq(Credit) /\ UNCHANGED child
    BY <1>8, CreditRows DEF RowInv, Rows, Draw, Return
  <2>2. DOMAIN credit' = 1..Len(credit) /\ Len(credit') = Len(credit) /\ \A j \in 1..Len(credit) \ {i} : credit'[j] = credit[j]
    BY <1>8, <2>1 DEF Draw, Return, Restored
  <2>3. /\ credit'[i].withdrawn = credit[i].withdrawn /\ credit'[i].held = credit[i].held
        /\ Return(i) => credit[i].left <= credit'[i].left
    <3>1. credit[i].left \in Nat /\ credit[i].drawn \in Nat /\ credit[i] \in Credit
      BY <2>1 DEF Credit
    <3>2. CASE Draw(i) /\ ~Return(i)
      <4>1. credit'[i] = [credit[i] EXCEPT !.left = @ - 1, !.drawn = @ + 1]
        BY <2>1, <3>2 DEF Draw
      <4>2. QED
        BY <3>1, <3>2, <4>1 DEF Credit
    <3>3. CASE Return(i)
      <4>1. PICK s : s = Restored(i) /\ credit' = [s EXCEPT ![i].drawn = @ - 1]
        BY <3>3 DEF Return
      <4>2. s[i] = (IF credit[i].withdrawn THEN credit[i] ELSE [credit[i] EXCEPT !.left = @ + 1]) /\ i \in DOMAIN s
        BY <2>1, <4>1 DEF Restored
      <4>3. credit'[i] = [s[i] EXCEPT !.drawn = @ - 1]
        BY <4>1, <4>2
      <4>4. s[i].left \in {credit[i].left, credit[i].left + 1} /\ s[i].held = credit[i].held /\ s[i].withdrawn = credit[i].withdrawn
        BY <3>1, <4>2 DEF Credit
      <4>5. credit'[i].left = s[i].left /\ credit'[i].held = s[i].held /\ credit'[i].withdrawn = s[i].withdrawn
        BY <3>1, <4>2, <4>3 DEF Credit
      <4>6. QED
        BY <3>1, <4>4, <4>5
    <3>4. QED
      BY <1>8, <3>2, <3>3
  <2>4. \A j \in 1..Len(credit) : credit'[j].withdrawn = credit[j].withdrawn /\ credit'[j].held = credit[j].held
    BY <2>2, <2>3
  <2>5. (NoneWithdrawn => NoneWithdrawn') /\ (AllHeld => AllHeld')
    BY <1>1, <2>1, <2>2, <2>4 DEF NoneWithdrawn, AllHeld
  <2>6. CASE ~AllHeld
    BY <1>2, <2>5, <2>6 DEF HeldInv
  <2>7. CASE AllHeld
    <3>1. Return(i)
      BY <1>8, <2>1, <2>7 DEF AllHeld, Draw, Usable
    <3>2. \A j \in 1..Len(credit) : credit[j].left <= credit'[j].left
      <4>1. \A j \in 1..Len(credit) : credit[j].left \in Nat
        BY <2>1 DEF Credit
      <4>2. QED
        BY <2>2, <2>3, <3>1, <4>1
    <3>3. Own' = Own /\ \A c \in Children : child'[c].credit = child[c].credit
      BY <2>1, OwnIs, OwnIsNext
    <3>4. NoneUsed => NoneUsed'
      BY <1>1, <2>2, <3>2, <3>3, NoneUsedMeanwhile
    <3>5. QED
      BY <1>2, <2>5, <3>4 DEF HeldInv
  <2>8. QED
    BY <2>6, <2>7
<1>9. QED
  BY <1>4, <1>5, <1>6, <1>7, <1>8 DEF BookingStep

LEMMA SameHeld ==
    ASSUME RowInv, RowInv', Rest, HeldInv, UNCHANGED bought, kind' = kind, refund'.applied = refund.applied,
           Asked(refund') /\ ~freed' => Asked(refund) /\ ~freed
    PROVE  HeldInv'
<1>1. Own' = Own /\ \A c \in Children : child'[c].credit = child[c].credit
  BY OwnIs, OwnIsNext DEF bought
<1>2. Len(credit') = Len(credit) /\ \A i \in 1..Len(credit) : credit[i].left <= credit'[i].left
  <2>1. \A i \in 1..Len(credit) : credit[i].left \in Nat
    BY CreditRows DEF RowInv, Credit
  <2>2. QED
    BY <2>1 DEF bought
<1>3. NoneUsed => NoneUsed'
  BY <1>1, <1>2, NoneUsedMeanwhile
<1>4. QED
  BY <1>3 DEF HeldInv, NoneWithdrawn, AllHeld, bought

LEMMA ClaimHeld ==
    ASSUME RowInv, RowInv', Rest, HeldInv, NEW k \in Workers, Claim(k)
    PROVE  HeldInv'
<1>1. /\ refund'.applied = refund.applied /\ kind' = kind /\ UNCHANGED child
      /\ DOMAIN credit = 1..Len(credit) /\ credit \in Seq(Credit) /\ CreditIds = 1..Len(credit)
      /\ \A i \in 1..Len(credit) : credit[i] \in Credit
  BY IdsAre, CreditRows DEF Claim, Rest, Refund, world, RowInv, Rows
<1>2. CASE refund.applied
  BY <1>1, <1>2 DEF HeldInv, NoneWithdrawn, Asked
<1>3. CASE ~refund.applied
  <2>1. NoneUsed
    BY <1>3, ElsewhereIs DEF Claim
  <2>2. credit' = [i \in 1..Len(credit) |-> [credit[i] EXCEPT !.held = TRUE]]
    BY <1>1, <1>3 DEF Claim, Holding
  <2>3. DOMAIN credit' = 1..Len(credit) /\ Len(credit') = Len(credit)
    <3>1. Holding(CreditIds) = credit'
      BY <1>3 DEF Claim
    <3>2. QED
      BY <1>1, <2>2, <3>1, HoldingKeeps DEF SameCredits, RowInv
  <2>4. \A i \in 1..Len(credit) :
           credit'[i].held = TRUE /\ credit'[i].withdrawn = credit[i].withdrawn /\ credit'[i].left = credit[i].left
    BY <1>1, <2>2 DEF Credit
  <2>5. AllHeld' /\ (NoneWithdrawn => NoneWithdrawn')
    BY <1>1, <2>3, <2>4 DEF AllHeld, NoneWithdrawn
  <2>6. \A i \in 1..Len(credit) : credit[i].left <= credit'[i].left
    <3>1. \A i \in 1..Len(credit) : credit[i].left \in Nat
      BY <1>1 DEF Credit
    <3>2. QED
      BY <2>4, <3>1
  <2>7. Own' = Own /\ \A c \in Children : child'[c].credit = child[c].credit
    BY <1>1, OwnIs, OwnIsNext
  <2>8. NoneUsed'
    BY <1>1, <2>1, <2>3, <2>6, <2>7, NoneUsedMeanwhile
  <2>9. QED
    BY <2>5, <2>8 DEF HeldInv
<1>4. QED
  BY <1>2, <1>3

LEMMA HeldSteps ==
    ASSUME Inv, Fresh, HeldInv, Next
    PROVE  HeldInv'
<1>1. RowInv /\ RowInv' /\ Rest /\ RestInv
  BY RowSteps DEF Inv, RestInv
<1>2. ASSUME NEW k \in Workers, Step(k) \/ Crash(k)
      PROVE  HeldInv'
  <2>1. kind' = kind
    BY <1>2 DEF Step, Call, NotePending, NoteUnanswered, NoteRef, MarkFailed, Release, Insert, Apply, Tell,
                Finish, Crash, world
  <2>2. CASE Release(k)
    <3>1. refund' = refund /\ freed' = (freed \/ refund.status # "failed")
      BY <2>2 DEF Release
    <3>2. ~(Asked(refund') /\ ~freed')
      BY <3>1 DEF Asked
    <3>3. credit' = [i \in 1..Len(credit) |-> IF credit[i].withdrawn THEN credit[i] ELSE [credit[i] EXCEPT !.held = FALSE]]
      BY <1>1, <2>2, CreditRows DEF Release, RowInv
    <3>4. Len(credit') = Len(credit)
      BY <1>1, <2>2, ReleaseKeeps DEF SameCredits, RowInv
    <3>5. \A i \in 1..Len(credit) : credit'[i].withdrawn = credit[i].withdrawn
      BY <1>1, <3>3, CreditRows DEF Credit, RowInv
    <3>6. QED
      BY <3>1, <3>2, <3>4, <3>5 DEF HeldInv, NoneWithdrawn
  <2>3. CASE Apply(k)
    <3>1. refund'.applied = TRUE
      BY <1>1, <2>3 DEF Apply, Rest, Refund
    <3>2. QED
      BY <3>1 DEF HeldInv, NoneWithdrawn, Asked
  <2>4. CASE Insert(k)
    <3>1. \/ refund' = refund
          \/ refund'.asked = FALSE /\ refund'.applied = FALSE /\ refund.status = "none"
      BY <2>4 DEF Insert, RefundRow
    <3>2. refund'.applied = refund.applied
      BY <1>1, <3>1 DEF RestInv, AppliedHasRow, Rest, Refund
    <3>3. UNCHANGED bought /\ freed' = freed /\ (Asked(refund') => Asked(refund))
      BY <2>4, <3>1 DEF Insert, history, Asked
    <3>4. QED
      BY <1>1, <2>1, <3>2, <3>3, SameHeld
  <2>5. CASE \/ Call(k) \/ NotePending(k) \/ NoteUnanswered(k) \/ NoteRef(k) \/ MarkFailed(k)
             \/ Tell(k) \/ Finish(k) \/ Crash(k)
    <3>1. UNCHANGED bought /\ freed' = freed
      BY <2>5 DEF Call, NotePending, NoteUnanswered, NoteRef, MarkFailed, Tell, Finish, Crash, history
    <3>2. /\ refund'.asked = refund.asked /\ refund'.applied = refund.applied
          /\ refund'.status = refund.status \/ refund.status = "requested" \/ refund'.status = "failed"
      BY <1>1, <2>5 DEF Call, NotePending, NoteUnanswered, NoteRef, MarkFailed, Tell, Finish, Crash, Rest, Refund
    <3>3. Asked(refund') => Asked(refund)
      BY <3>2 DEF Asked
    <3>4. QED
      BY <1>1, <2>1, <3>1, <3>2, <3>3, SameHeld
  <2>6. QED
    BY <1>2, <2>2, <2>3, <2>4, <2>5 DEF Step
<1>3. ASSUME \/ GrowStale \/ Start \/ CancelSession
             \/ \E e \in Report : Deliver(e)
             \/ \E r \in Tries, s \in {"succeeded", "failed", "bounced"} : Confirm(r, s)
             \/ \E how \in Outside : RefundOutside(how)
      PROVE  HeldInv'
  <2>1. /\ UNCHANGED bought /\ freed' = freed /\ kind' = kind
        /\ refund'.asked = refund.asked /\ refund'.applied = refund.applied /\ refund'.status = refund.status
    BY <1>1, <1>3 DEF GrowStale, Start, CancelSession, Deliver, Handle, Confirm, RefundOutside, Rest, Refund, world, history
  <2>2. Asked(refund') => Asked(refund)
    BY <2>1 DEF Asked
  <2>3. QED
    BY <1>1, <2>1, <2>2, SameHeld
<1>4. CASE BookingStep
  BY <1>1, <1>4, BookingsHeld
<1>5. QED
  BY <1>1, <1>2, <1>3, <1>4, ClaimHeld DEF Next, BookingStep

(* Once the coach asked for the refund every session the payment left as   *)
(* credit is held, those that come back meanwhile too, and none is used by *)
(* another booking, until the refund fails or ends the bookings; or until  *)
(* a failure still being handled frees what a later try holds (claimRefund, *)
(* holdCreditForRefund, markFailed).                                       *)
THEOREM HeldWhileAsked == Spec => []HeldOnItsWay
<1> DEFINE All == Inv /\ SessionsInv /\ HeldInv
<1>1. Init => All
  <2>1. ASSUME Init PROVE HeldInv
    <3>1. \A i \in 1..Len(credit) : ~credit[i].withdrawn
      BY <2>1 DEF Init
    <3>2. QED
      BY <2>1, <3>1 DEF Init, HeldInv, NoneWithdrawn, Asked, NoRefund, RefundRow
  <2>2. QED
    BY <2>1, Initially, InitiallySessions
<1>2. All /\ [Next]_vars => All'
  <2>1. ASSUME All, Next PROVE All'
    BY <2>1, Inductive, SessionsSteps, HeldSteps DEF SessionsInv
  <2>2. ASSUME All, UNCHANGED vars PROVE All'
    <3>1. Inv' /\ SessionsInv'
      BY <2>2, Inductive, SessionsStay
    <3>2. RowInv /\ RowInv' /\ Rest
      BY <2>2, <3>1 DEF Inv, RestInv
    <3>3. HeldInv'
      BY <2>2, <3>2, SameHeld DEF vars, bought, Asked
    <3>4. QED
      BY <3>1, <3>3
  <2>3. QED
    BY <2>1, <2>2
<1>3. All => HeldOnItsWay
  <2>1. SUFFICES ASSUME All, Asked(refund), ~freed
                 PROVE  (\A i \in DOMAIN credit : credit[i].held) /\ UsedElsewhere = 0
    BY DEF HeldOnItsWay, Asked
  <2>2. QED
    BY <2>1, ElsewhereIs DEF HeldInv, AllHeld, Inv, RestInv
<1>4. QED
  BY <1>1, <1>2, <1>3, PTL DEF Spec
=============================================================================
