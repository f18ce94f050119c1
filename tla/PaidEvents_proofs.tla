------------------------- MODULE PaidEvents_proofs -------------------------
(* What holds of PaidEvents for every number of children, payments, events *)
(* and workers, however the relay delivers and wherever a handler stops.   *)
EXTENDS PaidEvents, SumLemmas, SequenceTheorems, FiniteSetTheorems, TLAPS

(* The children of a pass stop being pending together, and until then the  *)
(* booking has no payment and no credit.                                   *)
Together == \A c \in Children : child[c].status = "pending" => child[First].status = "pending"
Unclaimed == child[First].status = "pending" => child[First].charge = NoPayment /\ child[First].credit = None

(* What grantBookingCredit looks at: a booking whose purchase was granted  *)
(* is tied to a credit.                                                    *)
GrantTied == Granted # {} => child[First].credit # None

(* What the handlers under way know, whatever happens meanwhile.           *)
Handled == Handling \cup {"answer"}
JobTrue(j) ==
    /\ j.op \in Handled => j.e = NoEvent \/ names[j.e] # NoPayment
    /\ j.op = "grant" \/ (j.op = "confirm" /\ j.e # NoEvent) => child[First].charge = names[j.e]
    /\ j.op \in {"finish", "answer"} => Settled(j.e)
    /\ j.op = "keep" => j.reason # "none"
    /\ j.op = "settle" => j.seen.charge \in {NoPayment, child[First].charge}

JobsTrue == \A k \in Workers : JobTrue(job[k])

ClaimedIsNamed == \A e \in Events : e \in answered \/ row[e] # "none" => names[e] # NoPayment

Inv == /\ Together /\ Unclaimed /\ GrantTied
       /\ JobsTrue /\ ClaimedIsNamed /\ AnsweredIsSettled

----------------------------------------------------------------------------
(* What the records hold. *)

LEMMA JobFields ==
    ASSUME TypeOK, NEW k \in Workers
    PROVE  /\ job[k] \in Job
           /\ job[k].op \in {"look", "book", "credit", "settle", "keep", "grant", "finish", "answer"} => job[k].e \in Events
           /\ job[k].op = "settle" => job[k].seen \in Booking
           /\ job[k].op = "keep" => job[k].reason \in Reasons
           /\ job[k].op = "grant" => job[k].then \in {"confirm", "finish"}
           /\ job[k].op = "confirm" => job[k].e \in Events \cup {NoEvent} /\ job[k].left \subseteq Children
           /\ job[k].op \in {"take", "spend", "putback"} => job[k].ids \in Seq(Nat)
<1>1. job[k] \in Job
  BY DEF TypeOK
<1>2. QED
  BY <1>1 DEF Job, Idle

LEMMA GoTyped ==
    ASSUME TypeOK, NEW k \in Workers, NEW j \in Job, Go(k, j)
    PROVE  job' \in [Workers -> Job]
BY DEF TypeOK, Go

LEMMA Kids ==
    /\ Cardinality(Children) \in Nat /\ PackSessions - Cardinality(Children) \in Nat /\ First \in Children
BY ChildrenAssumption, WorthAssumption, FS_CardinalityType

LEMMA CreditRows ==
    ASSUME TypeOK
    PROVE  /\ Len(credit) \in Nat /\ DOMAIN credit = 1..Len(credit)
           /\ \A i \in DOMAIN credit : credit[i] \in Credit
BY DEF TypeOK

LEMMA NewCreditRows ==
    ASSUME TypeOK, NEW n \in Nat, NEW p \in Payments \cup {NoPayment}, credit' = NewCredit(n, p)
    PROVE  /\ credit' \in Seq(Credit)
           /\ p = NoPayment => Granted' = Granted
           /\ p # NoPayment => Granted' = Granted \cup {Len(credit) + 1}
<1> DEFINE new == [left |-> n, of |-> p]
<1>1. new \in Credit /\ credit \in Seq(Credit) /\ credit' = Append(credit, new)
  BY DEF Credit, TypeOK, NewCredit
<1>2. /\ credit' \in Seq(Credit)
      /\ Len(credit') = Len(credit) + 1
      /\ \A i \in 1..Len(credit) : credit'[i] = credit[i]
      /\ credit'[Len(credit) + 1] = new
  BY <1>1, AppendProperties
<1>3. DOMAIN credit = 1..Len(credit) /\ DOMAIN credit' = 1..(Len(credit) + 1) /\ Len(credit) \in Nat
  BY <1>1, <1>2
<1>4. QED
  BY <1>2, <1>3 DEF Granted

LEMMA SameCreditRows ==
    ASSUME TypeOK, NEW i \in Nat, NEW n, i \in DOMAIN credit => n \in Nat,
           credit' = [credit EXCEPT ![i].left = n]
    PROVE  credit' \in Seq(Credit) /\ Granted' = Granted
<1>1. CASE i \notin DOMAIN credit
  <2>1. credit' = credit
    BY <1>1, CreditRows DEF TypeOK
  <2>2. QED
    BY <2>1 DEF TypeOK, Granted
<1>2. CASE i \in DOMAIN credit
  <2> DEFINE new == [credit[i] EXCEPT !.left = n]
  <2>1. new \in Credit /\ new.of = credit[i].of /\ credit' = [credit EXCEPT ![i] = new]
    BY <1>2, CreditRows DEF Credit
  <2>2. /\ credit' \in Seq(Credit) /\ Len(credit') = Len(credit)
        /\ \A j \in 1..Len(credit) : credit'[j] = IF j = i THEN new ELSE credit[j]
    <3>1. credit \in Seq(Credit) /\ i \in 1..Len(credit)
      BY <1>2, CreditRows DEF TypeOK
    <3> HIDE DEF new
    <3>2. QED
      BY <2>1, <3>1, ExceptSeq
  <2>3. DOMAIN credit = 1..Len(credit) /\ DOMAIN credit' = 1..Len(credit)
    BY <2>2, CreditRows
  <2>4. QED
    BY <2>1, <2>2, <2>3 DEF Granted
<1>3. QED
  BY <1>1, <1>2

(* The rows a step leaves: what was paid and granted is as it was, no      *)
(* credit tie is undone, and who is pending changes for nobody.            *)
Untouched ==
    /\ child' \in [Children -> Booking] /\ credit' \in Seq(Credit)
    /\ Granted' = Granted
    /\ \A c \in Children :
          /\ child'[c].charge = child[c].charge
          /\ child[c].credit # None => child'[c].credit # None
          /\ child'[c].status = "pending" <=> child[c].status = "pending"
          /\ child[c].status = "pending" => child'[c] = child[c]

LEMMA SameRows ==
    ASSUME TypeOK, UNCHANGED booked
    PROVE  Untouched
BY DEF TypeOK, booked, Untouched, Granted

LEMMA GiveBackRows ==
    ASSUME TypeOK, NEW c \in Children, child[c].status # "pending",
           NEW status \in {"late", "cancelled"}, GiveBack(c, status)
    PROVE  Untouched
<1>1. child[c] \in Booking
  BY DEF TypeOK
<1>2. CASE child[c].credit # None
  <2>1. /\ credit' = [credit EXCEPT ![child[c].credit].left = credit[child[c].credit].left + 1]
        /\ child' = [child EXCEPT ![c].status = status]
    BY <1>2 DEF GiveBack
  <2>2. child[c].credit \in Nat /\ (child[c].credit \in DOMAIN credit => credit[child[c].credit].left + 1 \in Nat)
    BY <1>1, CreditRows DEF Booking, Credit
  <2>3. credit' \in Seq(Credit) /\ Granted' = Granted
    BY <2>1, <2>2, SameCreditRows
  <2>4. QED
    BY <2>1, <2>3 DEF TypeOK, Booking, Untouched
<1>3. CASE child[c].credit = None /\ PaidDropIn(c)
  <2>1. /\ credit' = NewCredit(1, NoPayment)
        /\ child' = [child EXCEPT ![c].status = status, ![c].credit = Len(credit) + 1]
    BY <1>3 DEF GiveBack
  <2>2. credit' \in Seq(Credit) /\ Granted' = Granted
    BY <2>1, NewCreditRows
  <2>3. Len(credit) + 1 \in Nat /\ Len(credit) + 1 # None
    BY CreditRows DEF None
  <2>4. QED
    BY <1>3, <2>1, <2>2, <2>3 DEF TypeOK, Booking, Untouched
<1>4. CASE child[c].credit = None /\ ~PaidDropIn(c)
  <2>1. child' = [child EXCEPT ![c].status = status] /\ credit' = credit
    BY <1>4 DEF GiveBack
  <2>2. QED
    BY <2>1 DEF TypeOK, Booking, Untouched, Granted
<1>5. QED
  BY <1>2, <1>3, <1>4

LEMMA CancelRows ==
    ASSUME TypeOK, NEW c \in Children, CancelByParent(c) \/ Waive(c) \/ CancelSessionBooking(c)
    PROVE  Untouched
<1>1. CASE GiveBack(c, "cancelled")
  BY <1>1, GiveBackRows DEF CancelByParent, Waive, Waivable, CancelSessionBooking
<1>2. CASE child' = [child EXCEPT ![c].status = "late"] /\ UNCHANGED credit /\ child[c].status = "booked"
  BY <1>2 DEF TypeOK, Booking, Untouched, Granted
<1>3. QED
  BY <1>1, <1>2 DEF CancelByParent, Waive, CancelSessionBooking

----------------------------------------------------------------------------
(* Type correctness. *)

LEMMA InitTyped ==
    ASSUME Init
    PROVE  TypeOK
<1>1. credit \in Seq(Credit)
  <2>1. [left |-> OwnCredit, of |-> NoPayment] \in Credit
    BY WorthAssumption DEF Credit
  <2>2. QED
    BY <2>1 DEF Init
<1>2. child \in [Children -> Booking]
  BY DEF Init, Booking, None
<1>3. job \in [Workers -> Job] /\ kept \in [Events -> Reasons]
  BY DEF Init, Job, Reasons
<1>4. names \in [Events -> Payments \cup {NoPayment}] /\ order \in [Payments -> Order \cup {NoOrder}]
  BY DEF Init
<1>5. row \in [Events -> {"none", "claimed", "stale", "done"}] /\ told \in [Children -> Nat] /\ faults \in 0..MaxFaults
  BY WorthAssumption DEF Init
<1>6. QED
  BY <1>1, <1>2, <1>3, <1>4, <1>5 DEF Init, TypeOK

LEMMA BookRows ==
    ASSUME TypeOK, NEW k \in Workers, Book(k)
    PROVE  /\ child' \in [Children -> Booking] /\ job' \in [Workers -> Job] /\ names[job[k].e] \in Payments \cup {NoPayment}
           /\ child' = BookedBy(names[job[k].e]) \/ UNCHANGED child
<1> DEFINE e == job[k].e
<1>1. e \in Events /\ names[e] \in Payments \cup {NoPayment}
  BY JobFields DEF Book, TypeOK
<1>2. BookedBy(names[e]) \in [Children -> Booking]
  BY <1>1 DEF BookedBy, TypeOK, Booking
<1>3. child[First] \in Booking
  BY Kids DEF TypeOK
<1>4. /\ SettleJob(e, child[First]) \in Job /\ At("credit", e) \in Job /\ KeepJob(e, "session_full") \in Job
      /\ GrantJob(e, "confirm") \in Job /\ ConfirmJob(e, Children) \in Job
  BY <1>1, <1>3 DEF SettleJob, At, KeepJob, GrantJob, ConfirmJob, Job, Reasons
<1> DEFINE next == {SettleJob(e, child[First]), At("credit", e), KeepJob(e, "session_full"),
                    GrantJob(e, "confirm"), ConfirmJob(e, Children)}
<1>5. /\ \E j \in next : Go(k, j)
      /\ child' = BookedBy(names[e]) \/ UNCHANGED child
  BY DEF Book, EventOf
<1>6. job' \in [Workers -> Job]
  BY <1>4, <1>5, GoTyped
<1>7. QED
  BY <1>1, <1>2, <1>5, <1>6 DEF TypeOK

LEMMA GrantRows ==
    ASSUME TypeOK, NEW k \in Workers, Grant(k)
    PROVE  /\ child' \in [Children -> Booking] /\ credit' \in Seq(Credit) /\ job' \in [Workers -> Job]
           /\ \A c \in Children :
                 /\ child'[c].charge = child[c].charge /\ child'[c].status = child[c].status
                 /\ child[c].credit # None => child'[c].credit # None
           /\ \/ UNCHANGED booked
              \/ /\ child[First].credit = None /\ child'[First].credit # None
                 /\ names[job[k].e] # NoPayment => Granted' = Granted \cup {Len(credit) + 1}
<1>1. job[k].e \in Events /\ job[k].then \in {"confirm", "finish"} /\ names[job[k].e] \in Payments \cup {NoPayment}
  BY JobFields DEF Grant, TypeOK
<1>2. ConfirmJob(job[k].e, Children) \in Job /\ At("finish", job[k].e) \in Job
  BY <1>1 DEF ConfirmJob, At, Job
<1>3. job' \in [Workers -> Job]
  BY <1>2, GoTyped DEF Grant, EventOf
<1>4. CASE UNCHANGED booked
  BY <1>3, <1>4 DEF TypeOK, booked
<1>5. CASE Grantable(First) /\ credit' = NewCredit(PackSessions - Cardinality(Children), PaidBy(k))
  <2>1. /\ credit' \in Seq(Credit)
        /\ names[job[k].e] # NoPayment => Granted' = Granted \cup {Len(credit) + 1}
    BY <1>1, <1>5, Kids, NewCreditRows DEF PaidBy, EventOf
  <2>2. Len(credit) + 1 \in Nat /\ Len(credit) + 1 # None
    BY CreditRows DEF None
  <2>3. child' = [c \in Children |-> IF child[c].credit = None
                                   THEN [child[c] EXCEPT !.credit = Len(credit) + 1] ELSE child[c]]
    BY <1>5 DEF Grant, Grantable
  <2>4. child' \in [Children -> Booking]
    <3>1. \A c \in Children : [child[c] EXCEPT !.credit = Len(credit) + 1] \in Booking
      BY <2>2 DEF TypeOK, Booking
    <3>2. QED
      BY <2>3, <3>1 DEF TypeOK
  <2>5. QED
    BY <1>3, <1>5, <2>1, <2>2, <2>3, <2>4, Kids DEF TypeOK, Booking, Grantable
<1>6. QED
  BY <1>4, <1>5 DEF Grant

LEMMA CreditInsteadRows ==
    ASSUME TypeOK, NEW k \in Workers, CreditInstead(k)
    PROVE  /\ job[k].e \in Events /\ names[job[k].e] \in Payments \cup {NoPayment}
           /\ child' \in [Children -> Booking] /\ credit' \in Seq(Credit) /\ job' \in [Workers -> Job]
           /\ \/ UNCHANGED booked /\ Go(k, SettleJob(job[k].e, child[First]))
              \/ /\ child[First].status = "pending" /\ Go(k, KeepJob(job[k].e, "session_cancelled"))
                 /\ child' = [c \in Children |->
                        IF c \in Pending
                        THEN [status |-> "cancelled", charge |-> names[job[k].e], credit |-> Len(credit) + 1]
                        ELSE child[c]]
                 /\ Len(credit) + 1 # None
                 /\ names[job[k].e] # NoPayment => Granted' = Granted \cup {Len(credit) + 1}
<1>1. job[k].e \in Events /\ names[job[k].e] \in Payments \cup {NoPayment}
  BY JobFields DEF CreditInstead, TypeOK
<1>2. child[First] \in Booking
  BY Kids DEF TypeOK
<1>3. SettleJob(job[k].e, child[First]) \in Job /\ KeepJob(job[k].e, "session_cancelled") \in Job
  BY <1>1, <1>2 DEF SettleJob, KeepJob, Job, Reasons
<1>4. CASE child[First].status # "pending"
  <2>1. UNCHANGED booked /\ Go(k, SettleJob(job[k].e, child[First]))
    BY <1>4 DEF CreditInstead, EventOf
  <2>2. job' \in [Workers -> Job]
    BY <1>3, <2>1, GoTyped
  <2>3. QED
    BY <1>1, <2>1, <2>2 DEF TypeOK, booked
<1>5. CASE child[First].status = "pending"
  <2> DEFINE p == names[job[k].e]
  <2>1. /\ credit' = NewCredit(Worth(p), p) /\ Go(k, KeepJob(job[k].e, "session_cancelled"))
        /\ child' = [c \in Children |->
                IF c \in Pending THEN [status |-> "cancelled", charge |-> p, credit |-> Len(credit) + 1] ELSE child[c]]
    BY <1>5 DEF CreditInstead, EventOf, PaidBy
  <2>2. Worth(p) \in Nat
    BY Kids, WorthAssumption DEF Worth
  <2>3. credit' \in Seq(Credit) /\ (p # NoPayment => Granted' = Granted \cup {Len(credit) + 1})
    BY <1>1, <2>1, <2>2, NewCreditRows
  <2>4. Len(credit) + 1 \in Nat /\ Len(credit) + 1 # None
    BY CreditRows DEF None
  <2>5. child' \in [Children -> Booking]
    BY <1>1, <2>1, <2>4 DEF TypeOK, Booking
  <2>6. job' \in [Workers -> Job]
    BY <1>3, <2>1, GoTyped
  <2>7. QED
    BY <1>1, <1>5, <2>1, <2>3, <2>4, <2>5, <2>6
<1>6. QED
  BY <1>4, <1>5

LEMMA CheckoutRows ==
    ASSUME TypeOK, NEW k \in Workers, Checkout(k) \/ Take(k) \/ PutBack(k)
    PROVE  Untouched /\ UNCHANGED child /\ job' \in [Workers -> Job] /\ job'[k].op \in {"idle", "take", "spend", "putback"}
<1>1. CASE Checkout(k)
  <2>1. CreditsJob("take", <<>>) \in Job
    BY DEF CreditsJob, Job
  <2>2. job' \in [Workers -> Job] /\ job'[k].op = "take"
    BY <1>1, <2>1, GoTyped DEF Checkout, Go, TypeOK, CreditsJob
  <2>3. QED
    BY <1>1, <2>2, SameRows DEF Checkout, booked
<1>2. CASE Take(k)
  <2>1. job[k].ids \in Seq(Nat)
    BY <1>2, JobFields DEF Take
  <2>2. CASE \E op \in {"spend", "putback"} : Go(k, CreditsJob(op, job[k].ids)) /\ UNCHANGED credit
    <3>1. CreditsJob("spend", job[k].ids) \in Job /\ CreditsJob("putback", job[k].ids) \in Job
      BY <2>1 DEF CreditsJob, Job
    <3>2. job' \in [Workers -> Job] /\ job'[k].op \in {"spend", "putback"}
      BY <2>2, <3>1, GoTyped DEF Go, TypeOK, CreditsJob
    <3>3. QED
      BY <1>2, <2>2, <3>2, SameRows DEF Take, booked
  <2>3. ASSUME NEW i \in Usable, credit' = [credit EXCEPT ![i].left = credit[i].left - 1],
               Go(k, CreditsJob("take", Append(job[k].ids, i)))
        PROVE  Untouched /\ UNCHANGED child /\ job' \in [Workers -> Job] /\ job'[k].op \in {"idle", "take", "spend", "putback"}
    <3>1. i \in Nat /\ (i \in DOMAIN credit => credit[i].left - 1 \in Nat)
      BY <2>3, CreditRows DEF Usable, Credit
    <3>2. credit' \in Seq(Credit) /\ Granted' = Granted
      BY <2>3, <3>1, SameCreditRows
    <3>3. Append(job[k].ids, i) \in Seq(Nat)
      BY <2>1, <3>1, AppendProperties
    <3>4. CreditsJob("take", Append(job[k].ids, i)) \in Job
      BY <3>3 DEF CreditsJob, Job
    <3>5. job' \in [Workers -> Job] /\ job'[k].op = "take"
      BY <2>3, <3>4, GoTyped DEF Go, TypeOK, CreditsJob
    <3>6. QED
      BY <1>2, <3>2, <3>5 DEF Take, Untouched, TypeOK
  <2>4. QED
    BY <1>2, <2>2, <2>3 DEF Take
<1>3. CASE PutBack(k)
  <2>1. job[k].ids \in Seq(Nat)
    BY <1>3, JobFields DEF PutBack
  <2>2. CASE job[k].ids = <<>>
    <3>1. job' \in [Workers -> Job] /\ job'[k].op = "idle"
      BY <1>3, <2>2, GoTyped DEF PutBack, Go, TypeOK, Job, Idle
    <3>2. QED
      BY <1>3, <2>2, <3>1, SameRows DEF PutBack, booked
  <2>3. CASE job[k].ids # <<>>
    <3>1. Head(job[k].ids) \in Nat /\ Tail(job[k].ids) \in Seq(Nat)
      BY <2>1, <2>3, HeadTailProperties
    <3>2. Head(job[k].ids) \in DOMAIN credit => credit[Head(job[k].ids)].left + 1 \in Nat
      BY CreditRows DEF Credit
    <3>3. credit' = [credit EXCEPT ![Head(job[k].ids)].left = credit[Head(job[k].ids)].left + 1]
      BY <1>3, <2>3 DEF PutBack
    <3>4. credit' \in Seq(Credit) /\ Granted' = Granted
      BY <3>1, <3>2, <3>3, SameCreditRows
    <3>5. CreditsJob("putback", Tail(job[k].ids)) \in Job
      BY <3>1 DEF CreditsJob, Job
    <3>6. Go(k, CreditsJob("putback", Tail(job[k].ids)))
      BY <1>3, <2>3 DEF PutBack
    <3>7. job' \in [Workers -> Job] /\ job'[k].op = "putback"
      BY <3>5, <3>6, GoTyped DEF Go, TypeOK, CreditsJob
    <3>8. QED
      BY <1>3, <3>4, <3>7 DEF PutBack, Untouched, TypeOK
  <2>4. QED
    BY <2>2, <2>3
<1>4. QED
  BY <1>1, <1>2, <1>3

LEMMA SpendRows ==
    ASSUME TypeOK, NEW k \in Workers, Spend(k)
    PROVE  /\ child' \in [Children -> Booking] /\ job' \in [Workers -> Job]
           /\ \/ Go(k, ConfirmJob(NoEvent, Children)) /\ Pending # {}
                 /\ \A c \in Children :
                       /\ child'[c].charge = child[c].charge
                       /\ c \in Pending => child'[c].status = "booked" /\ child'[c].credit # None
                       /\ c \notin Pending => child'[c] = child[c]
              \/ Go(k, CreditsJob("putback", job[k].ids)) /\ UNCHANGED child
<1>1. job[k].ids \in Seq(Nat)
  BY JobFields DEF Spend
<1>2. CreditsJob("putback", job[k].ids) \in Job /\ ConfirmJob(NoEvent, Children) \in Job
  BY <1>1 DEF CreditsJob, ConfirmJob, Job
<1>3. job' \in [Workers -> Job]
  BY <1>2, GoTyped DEF Spend
<1>4. CASE Go(k, CreditsJob("putback", job[k].ids)) /\ UNCHANGED child
  BY <1>3, <1>4 DEF TypeOK
<1>5. ASSUME NEW ids \in [Children -> DOMAIN credit], Pending # {}, Go(k, ConfirmJob(NoEvent, Children)),
             child' = [c \in Children |->
                IF c \in Pending THEN [child[c] EXCEPT !.status = "booked", !.credit = ids[c]] ELSE child[c]]
      PROVE  /\ child' \in [Children -> Booking]
             /\ \A c \in Children :
                       /\ child'[c].charge = child[c].charge
                       /\ c \in Pending => child'[c].status = "booked" /\ child'[c].credit # None
                       /\ c \notin Pending => child'[c] = child[c]
  <2>1. \A c \in Children : ids[c] \in Nat /\ ids[c] # None
    BY CreditRows DEF None
  <2>2. QED
    BY <1>5, <2>1 DEF TypeOK, Booking
<1>6. QED
  BY <1>3, <1>4, <1>5 DEF Spend
LEMMA StepTyped ==
    ASSUME TypeOK, NEW k \in Workers, Step(k)
    PROVE  TypeOK'
<1>1. CASE Look(k)
  <2>1. job[k].e \in Events /\ child[First] \in Booking
    BY <1>1, JobFields, Kids DEF Look, TypeOK
  <2>2. \E j \in Job : Go(k, j)
    BY <1>1, <2>1 DEF Look, EventOf, Job, Reasons, KeepJob, SettleJob, At
  <2>3. job' \in [Workers -> Job]
    BY <2>2, GoTyped
  <2>4. QED
    BY <1>1, <2>3 DEF Look, TypeOK, inbox, booked, world
<1>2. CASE Book(k)
  BY <1>2, BookRows DEF Book, TypeOK, inbox, world
<1>3. CASE Grant(k)
  BY <1>3, GrantRows DEF Grant, TypeOK, inbox, world
<1>4. CASE Confirm(k)
  <2>1. job[k].e \in Events \cup {NoEvent} /\ job[k].left \subseteq Children
    BY <1>4, JobFields DEF Confirm
  <2>2. /\ Idle \in Job /\ (job[k].e # NoEvent => At("finish", job[k].e) \in Job)
        /\ \A c \in job[k].left : ConfirmJob(job[k].e, job[k].left \ {c}) \in Job
    BY <2>1 DEF Job, At, ConfirmJob
  <2>3. /\ \E j \in Job : Go(k, j)
        /\ told' = told \/ \E c \in job[k].left : told' = [told EXCEPT ![c] = told[c] + 1]
    BY <1>4, <2>2 DEF Confirm, EventOf
  <2>4. job' \in [Workers -> Job]
    BY <2>3, GoTyped
  <2>5. told' \in [Children -> Nat]
    BY <2>1, <2>3 DEF TypeOK
  <2>6. QED
    BY <1>4, <2>4, <2>5 DEF Confirm, TypeOK, inbox, booked, world
<1>5. CASE CreditInstead(k)
  BY <1>5, CreditInsteadRows DEF CreditInstead, TypeOK, inbox, world
<1>6. CASE Settle(k)
  <2>1. job[k].e \in Events
    BY <1>6, JobFields DEF Settle
  <2>2. \E j \in Job : Go(k, j)
    BY <1>6, <2>1 DEF Settle, EventOf, FinishBegun, SecondPayment, GrantJob, At, KeepJob, Job, Reasons
  <2>3. job' \in [Workers -> Job]
    BY <2>2, GoTyped
  <2>4. QED
    BY <1>6, <2>3 DEF Settle, TypeOK, inbox, booked, world
<1>7. CASE Keep(k)
  <2>1. job[k].e \in Events /\ job[k].reason \in Reasons
    BY <1>7, JobFields DEF Keep
  <2>2. At("finish", job[k].e) \in Job
    BY <2>1 DEF At, Job
  <2>3. job' \in [Workers -> Job] /\ kept' \in [Events -> Reasons]
    BY <1>7, <2>1, <2>2, GoTyped DEF Keep, EventOf, TypeOK
  <2>4. QED
    BY <1>7, <2>3 DEF Keep, TypeOK, booked, world
<1>8. CASE Finish(k)
  <2>1. At("answer", job[k].e) \in Job
    BY <1>8, JobFields DEF Finish, At, Job
  <2>2. job' \in [Workers -> Job] /\ row' \in [Events -> {"none", "claimed", "stale", "done"}]
    BY <1>8, <2>1, JobFields, GoTyped DEF Finish, EventOf, TypeOK
  <2>3. QED
    BY <1>8, <2>2 DEF Finish, TypeOK, booked, world
<1>9. CASE Answer(k)
  <2>1. Idle \in Job
    BY DEF Job
  <2>2. job' \in [Workers -> Job] /\ answered' \subseteq Events
    BY <1>9, <2>1, JobFields, GoTyped DEF Answer, EventOf, TypeOK
  <2>3. QED
    BY <1>9, <2>2 DEF Answer, TypeOK, booked, world
<1>10. CASE Take(k) \/ PutBack(k)
  BY <1>10, CheckoutRows DEF Take, PutBack, Untouched, TypeOK, inbox, world
<1>11. CASE Spend(k)
  BY <1>11, SpendRows DEF Spend, TypeOK, inbox, world
<1>12. QED
  BY <1>1, <1>2, <1>3, <1>4, <1>5, <1>6, <1>7, <1>8, <1>9, <1>10, <1>11 DEF Step

LEMMA NextTyped ==
    ASSUME TypeOK, [Next]_vars
    PROVE  TypeOK'
<1>1. ASSUME NEW r \in Reports, Report(r.event, r.payment, r.order)
      PROVE  TypeOK'
  <2>1. r.event \in Events /\ r.payment \in Payments /\ r.order \in Order
    BY ReportsAssumption
  <2>2. /\ names' \in [Events -> Payments \cup {NoPayment}] /\ order' \in [Payments -> Order \cup {NoOrder}]
        /\ late' \subseteq Payments
    BY <1>1, <2>1 DEF Report, TypeOK
  <2>3. QED
    BY <1>1, <2>2 DEF Report, TypeOK, inbox, booked
<1>2. CASE Start \/ CancelSession
  BY <1>2 DEF Start, CancelSession, TypeOK, inbox, booked
<1>3. ASSUME NEW e \in Events, NEW k \in Workers, Claim(k, e) \/ AnswerAgain(k, e)
      PROVE  TypeOK'
  <2>1. faults' \in 0..MaxFaults
    BY <1>3, WorthAssumption DEF Claim, AnswerAgain, DeliveredAgain, TypeOK
  <2>2. At("look", e) \in Job
    BY DEF At, Job
  <2>3. job' \in [Workers -> Job]
    BY <1>3, <2>2, GoTyped DEF Claim, AnswerAgain, TypeOK
  <2>4. row' \in [Events -> {"none", "claimed", "stale", "done"}] /\ answered' \subseteq Events
    BY <1>3 DEF Claim, AnswerAgain, TypeOK
  <2>5. QED
    BY <1>3, <2>1, <2>3, <2>4 DEF Claim, AnswerAgain, TypeOK, booked, world
<1>4. ASSUME NEW e \in Events, GrowStale(e)
      PROVE  TypeOK'
  BY <1>4 DEF GrowStale, TypeOK, booked, world
<1>5. ASSUME NEW k \in Workers, Fail(k) \/ Crash(k)
      PROVE  TypeOK'
  <2>1. Idle \in Job
    BY DEF Job
  <2>2. job' \in [Workers -> Job]
    BY <1>5, <2>1, GoTyped DEF Fail, Crash
  <2>3. faults' \in 0..MaxFaults /\ row' \in [Events -> {"none", "claimed", "stale", "done"}]
    BY <1>5, WorthAssumption DEF Fail, Crash, TypeOK, inbox
  <2>4. QED
    BY <1>5, <2>2, <2>3 DEF Fail, Crash, TypeOK, inbox, booked, world
<1>6. ASSUME NEW k \in Workers, Step(k)
      PROVE  TypeOK'
  BY <1>6, StepTyped
<1>7. ASSUME NEW k \in Workers, Checkout(k)
      PROVE  TypeOK'
  BY <1>7, CheckoutRows DEF Checkout, Untouched, TypeOK, inbox, world
<1>8. ASSUME NEW c \in Children, CancelByParent(c) \/ Waive(c) \/ CancelSessionBooking(c)
      PROVE  TypeOK'
  BY <1>8, CancelRows DEF CancelByParent, Waive, CancelSessionBooking, Untouched, TypeOK, inbox, world
<1>9. CASE UNCHANGED vars
  BY <1>9 DEF vars, TypeOK
<1>10. QED
  BY <1>1, <1>2, <1>3, <1>4, <1>5, <1>6, <1>7, <1>8, <1>9 DEF Next, Deliver

(* Every variable keeps its type, for all values of the constants.         *)
THEOREM Typing == Spec => []TypeOK
<1>1. Init => TypeOK
  BY InitTyped
<1>2. TypeOK /\ [Next]_vars => TypeOK'
  BY NextTyped
<1>3. QED
  BY <1>1, <1>2, PTL DEF Spec
----------------------------------------------------------------------------
(* What no step undoes: the payment a booking took, an event kept, and     *)
(* what an event is about.                                                 *)
Stays ==
    /\ child[First].charge # NoPayment => child'[First].charge = child[First].charge
    /\ \A e \in Events : kept[e] # "none" => kept'[e] # "none"
    /\ \A e \in Events : names[e] # NoPayment => names'[e] = names[e]

(* The invariant's part about the booking's rows. *)
RowsInv == Together /\ Unclaimed /\ GrantTied

LEMMA UntouchedRows ==
    ASSUME TypeOK, RowsInv, Untouched
    PROVE  RowsInv'
<1>1. First \in Children
  BY Kids
<1>2. Together'
  BY <1>1 DEF Untouched, RowsInv, Together
<1>3. Unclaimed'
  BY <1>1 DEF Untouched, RowsInv, Unclaimed, None
<1>4. GrantTied'
  BY <1>1 DEF Untouched, RowsInv, GrantTied, None
<1>5. QED
  BY <1>2, <1>3, <1>4 DEF RowsInv

LEMMA BookRowsInv ==
    ASSUME TypeOK, RowsInv, NEW k \in Workers, Book(k)
    PROVE  RowsInv' /\ Stays
<1>1. Granted' = Granted /\ UNCHANGED <<kept, names>>
  BY DEF Book, Granted, inbox, world
<1>2. CASE UNCHANGED child
  <2>1. Untouched
    BY <1>2, SameRows DEF Book, booked
  <2>2. QED
    BY <1>1, <1>2, <2>1, UntouchedRows DEF Stays
<1>3. CASE child' = BookedBy(names[job[k].e])
  <2>1. \A c \in Children : child'[c].status # "pending" /\ child'[c].credit = child[c].credit
    BY <1>3 DEF BookedBy, Pending, TypeOK, Booking
  <2>2. child[First].charge # NoPayment => child'[First] = child[First]
    BY <1>3, Kids DEF BookedBy, Pending, RowsInv, Unclaimed
  <2>3. QED
    BY <1>1, <2>1, <2>2, Kids DEF Stays, RowsInv, Together, Unclaimed, GrantTied
<1>4. QED
  BY <1>2, <1>3, BookRows

LEMMA GrantRowsInv ==
    ASSUME TypeOK, RowsInv, JobsTrue, NEW k \in Workers, Grant(k)
    PROVE  RowsInv' /\ Stays
<1>1. UNCHANGED <<kept, names>> /\ child'[First].charge = child[First].charge
  BY Kids, GrantRows DEF Grant, inbox, world
<1>2. CASE UNCHANGED booked
  BY <1>1, <1>2, SameRows, UntouchedRows DEF Stays
<1>3. CASE child[First].credit = None /\ child'[First].credit # None
  <2>1. child[First].status # "pending"
    <3>1. child[First].charge # NoPayment
      BY JobFields, EventsAssumption DEF JobsTrue, JobTrue, Grant, Handled, Handling
    <3>2. QED
      BY <3>1 DEF RowsInv, Unclaimed
  <2>2. Together' /\ GrantTied'
    BY <1>3, Kids, GrantRows DEF RowsInv, Together, GrantTied
  <2>3. QED
    BY <1>1, <2>1, <2>2, Kids, GrantRows DEF Stays, RowsInv, Unclaimed
<1>4. QED
  BY <1>2, <1>3, GrantRows

LEMMA CreditInsteadRowsInv ==
    ASSUME TypeOK, RowsInv, NEW k \in Workers, CreditInstead(k)
    PROVE  RowsInv' /\ Stays
<1>1. UNCHANGED <<kept, names>>
  BY DEF CreditInstead, inbox, world
<1>2. CASE UNCHANGED booked
  <2>1. child' = child
    BY <1>2 DEF booked
  <2>2. QED
    BY <1>1, <1>2, <2>1, SameRows, UntouchedRows DEF Stays
<1>3. CASE /\ child[First].status = "pending" /\ Len(credit) + 1 # None
           /\ child' = [c \in Children |->
                  IF c \in Pending
                  THEN [status |-> "cancelled", charge |-> names[job[k].e], credit |-> Len(credit) + 1]
                  ELSE child[c]]
  <2>1. \A c \in Children : child'[c].status # "pending"
    BY <1>3 DEF Pending
  <2>2. child'[First].credit # None
    BY <1>3, Kids DEF Pending
  <2>3. child[First].charge = NoPayment
    BY <1>3 DEF RowsInv, Unclaimed
  <2>4. QED
    BY <1>1, <2>1, <2>2, <2>3, Kids DEF Stays, RowsInv, Together, Unclaimed, GrantTied
<1>4. QED
  BY <1>2, <1>3, CreditInsteadRows

LEMMA SpendRowsInv ==
    ASSUME TypeOK, RowsInv, NEW k \in Workers, Spend(k)
    PROVE  RowsInv' /\ Stays
<1>1. UNCHANGED <<kept, names>> /\ Granted' = Granted /\ child'[First].charge = child[First].charge
  BY Kids, SpendRows DEF Spend, Granted, inbox, world
<1>2. CASE UNCHANGED child
  <2>1. Untouched
    BY <1>2, SameRows DEF Spend, booked
  <2>2. QED
    BY <1>1, <2>1, UntouchedRows DEF Stays
<1>3. CASE \A c \in Children :
              /\ c \in Pending => child'[c].status = "booked" /\ child'[c].credit # None
              /\ c \notin Pending => child'[c] = child[c]
  <2>1. \A c \in Children : child'[c].status # "pending"
    BY <1>3 DEF Pending
  <2>2. child[First].credit # None => child'[First].credit # None
    BY <1>3, Kids
  <2>3. QED
    BY <1>1, <2>1, <2>2, Kids DEF Stays, RowsInv, Together, Unclaimed, GrantTied
<1>4. QED
  BY <1>2, <1>3, SpendRows

LEMMA NextRowsInv ==
    ASSUME TypeOK, RowsInv, JobsTrue, [Next]_vars
    PROVE  RowsInv' /\ Stays
<1>1. ASSUME Untouched, UNCHANGED <<kept, names>>
      PROVE  RowsInv' /\ Stays
  BY <1>1, UntouchedRows, Kids DEF Untouched, Stays
<1>2. ASSUME UNCHANGED booked, UNCHANGED <<kept, names>>
      PROVE  RowsInv' /\ Stays
  BY <1>1, <1>2, SameRows
<1>3. ASSUME NEW r \in Reports, Report(r.event, r.payment, r.order)
      PROVE  RowsInv' /\ Stays
  <2>1. Untouched /\ UNCHANGED kept
    BY <1>3, SameRows DEF Report, inbox
  <2>2. \A e \in Events : names[e] # NoPayment => names'[e] = names[e]
    BY <1>3 DEF Report, TypeOK
  <2>3. QED
    BY <2>1, <2>2, UntouchedRows, Kids DEF Untouched, Stays
<1>4. CASE Start \/ CancelSession
  BY <1>2, <1>4 DEF Start, CancelSession, inbox
<1>5. ASSUME NEW e \in Events, NEW k \in Workers, Claim(k, e) \/ AnswerAgain(k, e)
      PROVE  RowsInv' /\ Stays
  BY <1>2, <1>5 DEF Claim, AnswerAgain, world
<1>6. ASSUME NEW e \in Events, GrowStale(e)
      PROVE  RowsInv' /\ Stays
  BY <1>2, <1>6 DEF GrowStale, world
<1>7. ASSUME NEW k \in Workers, Fail(k) \/ Crash(k)
      PROVE  RowsInv' /\ Stays
  BY <1>2, <1>7 DEF Fail, Crash, inbox, world
<1>8. ASSUME NEW k \in Workers, Look(k) \/ Confirm(k) \/ Settle(k)
      PROVE  RowsInv' /\ Stays
  BY <1>2, <1>8 DEF Look, Confirm, Settle, inbox, world
<1>9. ASSUME NEW k \in Workers, Finish(k) \/ Answer(k)
      PROVE  RowsInv' /\ Stays
  BY <1>2, <1>9 DEF Finish, Answer, inbox, world
<1>10. ASSUME NEW k \in Workers, Keep(k)
       PROVE  RowsInv' /\ Stays
  <2>1. Untouched /\ names' = names
    BY <1>10, SameRows DEF Keep, world
  <2>2. \A e \in Events : kept[e] # "none" => kept'[e] # "none"
    BY <1>10 DEF Keep, EventOf, TypeOK
  <2>3. QED
    BY <2>1, <2>2, UntouchedRows, Kids DEF Untouched, Stays
<1>11. ASSUME NEW k \in Workers, Checkout(k) \/ Take(k) \/ PutBack(k)
       PROVE  RowsInv' /\ Stays
  BY <1>1, <1>11, CheckoutRows DEF Checkout, Take, PutBack, inbox, world
<1>12. ASSUME NEW c \in Children, CancelByParent(c) \/ Waive(c) \/ CancelSessionBooking(c)
       PROVE  RowsInv' /\ Stays
  BY <1>1, <1>12, CancelRows DEF CancelByParent, Waive, CancelSessionBooking, inbox, world
<1>13. CASE UNCHANGED vars
  BY <1>2, <1>13 DEF vars, booked
<1>14. ASSUME NEW k \in Workers, Step(k)
       PROVE  RowsInv' /\ Stays
  BY <1>8, <1>9, <1>10, <1>11, <1>14, BookRowsInv, GrantRowsInv, CreditInsteadRowsInv, SpendRowsInv DEF Step
<1>15. QED
  BY <1>3, <1>4, <1>5, <1>6, <1>7, <1>11, <1>12, <1>13, <1>14 DEF Next, Deliver
----------------------------------------------------------------------------
(* What the handlers know, and what the answers rest on. *)

LEMMA JobKept ==
    ASSUME TypeOK, Stays, NEW k \in Workers, JobTrue(job[k]), job'[k] = job[k]
    PROVE  JobTrue(job[k])'
<1>1. CASE job[k].op \in Handled /\ job[k].e \in Events
  <2>1. names[job[k].e] # NoPayment /\ names'[job[k].e] = names[job[k].e]
    BY <1>1, EventsAssumption DEF JobTrue, Stays
  <2>2. Settled(job[k].e) => Settled(job[k].e)'
    BY <1>1, <2>1 DEF Stays, Settled
  <2>3. job[k].op = "settle" => job[k].seen.charge \in {NoPayment, child'[First].charge}
    BY DEF JobTrue, Stays
  <2>4. QED
    BY <2>1, <2>2, <2>3 DEF JobTrue, Stays
<1>2. CASE job[k].op \notin Handled \/ job[k].e \notin Events
  <2>1. job[k].op \notin Handled \/ (job[k].op = "confirm" /\ job[k].e = NoEvent)
    BY <1>2, JobFields DEF Handled, Handling
  <2>2. QED
    BY <2>1 DEF JobTrue, Handled, Handling
<1>3. QED
  BY <1>1, <1>2

LEMMA OneJob ==
    ASSUME TypeOK, JobsTrue, Stays, NEW k \in Workers, NEW j, Go(k, j), JobTrue(job[k])'
    PROVE  JobsTrue'
<1>1. \A l \in Workers : l # k => job'[l] = job[l]
  BY DEF Go, TypeOK
<1>2. QED
  BY <1>1, JobKept DEF JobsTrue

LEMMA GoDone ==
    ASSUME TypeOK, NEW k \in Workers, NEW j, Go(k, j)
    PROVE  job'[k] = j
BY DEF TypeOK, Go

(* A worker with a job for an event knows what it is about.                *)
LEMMA Named ==
    ASSUME TypeOK, JobsTrue, NEW k \in Workers, job[k].op \in Handled \ {"confirm"}
    PROVE  job[k].e \in Events /\ names[job[k].e] # NoPayment
BY JobFields, EventsAssumption DEF JobsTrue, JobTrue, Handled, Handling

LEMMA StepJobs ==
    ASSUME TypeOK, RowsInv, RowsInv', JobsTrue, Stays, NEW k \in Workers, Step(k)
    PROVE  JobsTrue'
<1>1. CASE Look(k)
  <2> DEFINE e == job[k].e
  <2>1. names' = names /\ child' = child /\ names[e] # NoPayment
    BY <1>1, Named DEF Look, world, booked, Handled, Handling
  <2>2. \E j : /\ Go(k, j) /\ j.e = e
               /\ j.op = "look" \/ j.op = "book" \/ j.op = "credit" \/ (j.op = "keep" /\ j.reason # "none")
                  \/ (j.op = "settle" /\ j.seen = child[First])
    BY <1>1 DEF Look, EventOf, KeepJob, SettleJob, At
  <2>3. PICK j : /\ Go(k, j) /\ j.e = e
                 /\ j.op = "look" \/ j.op = "book" \/ j.op = "credit" \/ (j.op = "keep" /\ j.reason # "none")
                    \/ (j.op = "settle" /\ j.seen = child[First])
    BY <2>2
  <2>4. job'[k] = j
    BY <2>3, GoDone
  <2>5. JobTrue(job[k])'
    BY <2>1, <2>3, <2>4 DEF JobTrue
  <2>6. QED
    BY <2>3, <2>5, OneJob
<1>2. CASE Book(k)
  <2> DEFINE e == job[k].e
  <2>1. names' = names /\ names[e] # NoPayment
    BY <1>2, Named DEF Book, world, Handled, Handling
  <2>2. \E j : /\ Go(k, j) /\ j.e = e
               /\ \/ j.op = "settle" /\ j.seen = child[First] /\ child' = child
                  \/ j.op = "credit"
                  \/ j.op = "keep" /\ j.reason # "none"
                  \/ j.op \in {"grant", "confirm"} /\ Pending # {} /\ child' = BookedBy(names[e])
    BY <1>2 DEF Book, EventOf, SettleJob, At, KeepJob, GrantJob, ConfirmJob
  <2>3. PICK j : /\ Go(k, j) /\ j.e = e
                 /\ \/ j.op = "settle" /\ j.seen = child[First] /\ child' = child
                    \/ j.op = "credit"
                    \/ j.op = "keep" /\ j.reason # "none"
                    \/ j.op \in {"grant", "confirm"} /\ Pending # {} /\ child' = BookedBy(names[e])
    BY <2>2
  <2>4. Pending # {} /\ child' = BookedBy(names[e]) => child'[First].charge = names[e]
    <3>1. Pending # {} => First \in Pending
      BY Kids DEF Pending, RowsInv, Together
    <3>2. child[First] \in Booking
      BY Kids DEF TypeOK
    <3>3. QED
      BY <3>1, <3>2, Kids DEF BookedBy, Booking
  <2>5. job'[k] = j
    BY <2>3, GoDone
  <2>6. JobTrue(job[k])'
    BY <2>1, <2>3, <2>4, <2>5 DEF JobTrue
  <2>7. QED
    BY <2>3, <2>6, OneJob
<1>3. CASE Grant(k)
  <2> DEFINE e == job[k].e
  <2>1. names' = names /\ names[e] # NoPayment /\ child[First].charge = names[e]
    BY <1>3, Named DEF Grant, world, Handled, Handling, JobsTrue, JobTrue
  <2>2. child'[First].charge = names'[e]
    BY <1>3, <2>1, Kids, GrantRows
  <2>3. PICK j \in {ConfirmJob(e, Children), At("finish", e)} : Go(k, j)
    BY <1>3 DEF Grant, EventOf
  <2>4. job'[k] = j
    BY <2>3, GoDone
  <2>5. JobTrue(job[k])'
    BY <2>1, <2>2, <2>3, <2>4 DEF JobTrue, Settled, ConfirmJob, At
  <2>6. QED
    BY <2>3, <2>5, OneJob
<1>4. CASE Confirm(k)
  <2> DEFINE e == job[k].e
  <2>1. names' = names /\ child' = child /\ (e = NoEvent \/ names[e] # NoPayment)
        /\ (e # NoEvent => child[First].charge = names[e])
    BY <1>4 DEF Confirm, world, booked, Handled, Handling, JobsTrue, JobTrue
  <2>2. \E j : /\ Go(k, j)
               /\ j.op = "idle" \/ (j.op = "finish" /\ j.e = e /\ e # NoEvent) \/ (j.op = "confirm" /\ j.e = e)
    <3>1. CASE job[k].left = {} /\ e = NoEvent
      <4>1. Go(k, Idle) /\ Idle.op = "idle"
        BY <1>4, <3>1 DEF Confirm, EventOf, Idle
      <4>2. QED
        BY <4>1
    <3>2. CASE job[k].left = {} /\ e # NoEvent
      <4>1. Go(k, At("finish", e)) /\ At("finish", e).op = "finish" /\ At("finish", e).e = e
        BY <1>4, <3>2 DEF Confirm, EventOf, At
      <4>2. QED
        BY <3>2, <4>1
    <3>3. CASE job[k].left # {}
      <4>1. PICK c \in job[k].left : Go(k, ConfirmJob(e, job[k].left \ {c}))
        BY <1>4, <3>3 DEF Confirm, EventOf
      <4>2. ConfirmJob(e, job[k].left \ {c}).op = "confirm" /\ ConfirmJob(e, job[k].left \ {c}).e = e
        BY DEF ConfirmJob
      <4>3. QED
        BY <4>1, <4>2
    <3>4. QED
      BY <3>1, <3>2, <3>3
  <2>3. PICK j : /\ Go(k, j)
                 /\ j.op = "idle" \/ (j.op = "finish" /\ j.e = e /\ e # NoEvent) \/ (j.op = "confirm" /\ j.e = e)
    BY <2>2
  <2>4. job'[k] = j
    BY <2>3, GoDone
  <2>5. JobTrue(job[k])'
    BY <2>1, <2>3, <2>4 DEF JobTrue, Settled, Handled, Handling
  <2>6. QED
    BY <2>3, <2>5, OneJob
<1>5. CASE CreditInstead(k)
  <2> DEFINE e == job[k].e
  <2>1. names' = names /\ names[e] # NoPayment
    BY <1>5, Named DEF CreditInstead, world, Handled, Handling
  <2>2. CASE Go(k, SettleJob(e, child[First])) /\ UNCHANGED booked
    <3>1. job'[k] = SettleJob(e, child[First]) /\ child' = child
      BY <2>2, GoDone DEF booked
    <3>2. JobTrue(job[k])'
      BY <2>1, <3>1 DEF JobTrue, SettleJob
    <3>3. QED
      BY <2>2, <3>2, OneJob
  <2>3. CASE Go(k, KeepJob(e, "session_cancelled"))
    <3>1. job'[k] = KeepJob(e, "session_cancelled")
      BY <2>3, GoDone
    <3>2. JobTrue(job[k])'
      BY <2>1, <3>1 DEF JobTrue, KeepJob
    <3>3. QED
      BY <2>3, <3>2, OneJob
  <2>4. QED
    BY <1>5, <2>2, <2>3, CreditInsteadRows
<1>6. CASE Settle(k)
  <2> DEFINE e == job[k].e
  <2>1. /\ names' = names /\ child' = child /\ names[e] # NoPayment
        /\ job[k].seen.charge \in {NoPayment, child[First].charge}
    BY <1>6, Named DEF Settle, world, booked, Handled, Handling, JobsTrue, JobTrue
  <2>2. \E j : /\ Go(k, j) /\ j.e = e
               /\ \/ j.op = "keep" /\ j.reason # "none"
                  \/ j.op \in {"grant", "finish"} /\ job[k].seen.charge = names[e]
    BY <1>6 DEF Settle, EventOf, OurOwn, FinishBegun, SecondPayment, GrantJob, At, KeepJob
  <2>3. PICK j : /\ Go(k, j) /\ j.e = e
                 /\ \/ j.op = "keep" /\ j.reason # "none"
                    \/ j.op \in {"grant", "finish"} /\ job[k].seen.charge = names[e]
    BY <2>2
  <2>4. job'[k] = j
    BY <2>3, GoDone
  <2>5. JobTrue(job[k])'
    BY <2>1, <2>3, <2>4 DEF JobTrue, Settled
  <2>6. QED
    BY <2>3, <2>5, OneJob
<1>7. CASE Keep(k)
  <2> DEFINE e == job[k].e
  <2>1. e \in Events /\ names' = names /\ names[e] # NoPayment /\ job[k].reason # "none"
    BY <1>7, Named DEF Keep, world, Handled, Handling, JobsTrue, JobTrue
  <2>2. Go(k, At("finish", e)) /\ kept'[e] # "none"
    BY <1>7, <2>1 DEF Keep, EventOf, TypeOK
  <2>3. job'[k] = At("finish", e)
    BY <2>2, GoDone
  <2>4. JobTrue(job[k])'
    BY <2>1, <2>2, <2>3 DEF JobTrue, Settled, At
  <2>5. QED
    BY <2>2, <2>4, OneJob
<1>8. CASE Finish(k)
  <2> DEFINE e == job[k].e
  <2>1. names' = names /\ child' = child /\ kept' = kept /\ names[e] # NoPayment /\ Settled(e)
    BY <1>8, Named DEF Finish, world, booked, Handled, Handling, JobsTrue, JobTrue
  <2>2. Go(k, At("answer", e))
    BY <1>8 DEF Finish, EventOf
  <2>3. job'[k] = At("answer", e)
    BY <2>2, GoDone
  <2>4. JobTrue(job[k])'
    BY <2>1, <2>3 DEF JobTrue, Settled, At
  <2>5. QED
    BY <2>2, <2>4, OneJob
<1>9. CASE Answer(k)
  <2>1. Go(k, Idle) /\ job'[k] = Idle
    BY <1>9, GoDone DEF Answer
  <2>2. JobTrue(job[k])'
    BY <2>1 DEF JobTrue, Idle, Handled, Handling
  <2>3. QED
    BY <2>1, <2>2, OneJob
<1>10. CASE Take(k) \/ PutBack(k)
  <2>1. job'[k].op \in {"idle", "take", "spend", "putback"}
    BY <1>10, CheckoutRows
  <2>2. JobTrue(job[k])'
    BY <2>1 DEF JobTrue, Handled, Handling
  <2>3. \E j : Go(k, j)
    BY <1>10 DEF Take, PutBack
  <2>4. QED
    BY <2>2, <2>3, OneJob
<1>11. CASE Spend(k)
  <2>1. PICK j \in {ConfirmJob(NoEvent, Children), CreditsJob("putback", job[k].ids)} : Go(k, j)
    BY <1>11, SpendRows
  <2>2. job'[k] = j
    BY <2>1, GoDone
  <2>3. JobTrue(job[k])'
    BY <2>1, <2>2 DEF JobTrue, Handled, Handling, ConfirmJob, CreditsJob
  <2>4. QED
    BY <2>1, <2>3, OneJob
<1>12. QED
  BY <1>1, <1>2, <1>3, <1>4, <1>5, <1>6, <1>7, <1>8, <1>9, <1>10, <1>11 DEF Step
LEMMA AllJobs ==
    ASSUME TypeOK, JobsTrue, Stays, UNCHANGED job
    PROVE  JobsTrue'
BY JobKept DEF JobsTrue

LEMMA NextJobs ==
    ASSUME TypeOK, RowsInv, RowsInv', JobsTrue, Stays, [Next]_vars
    PROVE  JobsTrue'
<1>1. ASSUME NEW r \in Reports, Report(r.event, r.payment, r.order)
      PROVE  JobsTrue'
  BY <1>1, AllJobs DEF Report
<1>2. CASE Start \/ CancelSession \/ UNCHANGED vars
  BY <1>2, AllJobs DEF Start, CancelSession, vars
<1>3. ASSUME NEW e \in Events, GrowStale(e)
      PROVE  JobsTrue'
  BY <1>3, AllJobs DEF GrowStale
<1>4. ASSUME NEW c \in Children, CancelByParent(c) \/ Waive(c) \/ CancelSessionBooking(c)
      PROVE  JobsTrue'
  BY <1>4, AllJobs DEF CancelByParent, Waive, CancelSessionBooking
<1>5. ASSUME NEW e \in Events, NEW k \in Workers, Claim(k, e) \/ AnswerAgain(k, e)
      PROVE  JobsTrue'
  <2>1. CASE Claim(k, e)
    <3>1. Go(k, At("look", e)) /\ names[e] # NoPayment /\ names' = names
      BY <2>1 DEF Claim, world
    <3>2. job'[k] = At("look", e)
      BY <3>1, GoDone
    <3>3. JobTrue(job[k])'
      BY <3>1, <3>2 DEF JobTrue, At
    <3>4. QED
      BY <3>1, <3>3, OneJob
  <2>2. QED
    BY <1>5, <2>1, AllJobs DEF AnswerAgain
<1>6. ASSUME NEW k \in Workers, Fail(k) \/ Crash(k)
      PROVE  JobsTrue'
  <2>1. Go(k, Idle)
    BY <1>6 DEF Fail, Crash
  <2>2. job'[k] = Idle
    BY <2>1, GoDone
  <2>3. JobTrue(job[k])'
    BY <2>2 DEF JobTrue, Idle, Handled, Handling
  <2>4. QED
    BY <2>1, <2>3, OneJob
<1>7. ASSUME NEW k \in Workers, Checkout(k)
      PROVE  JobsTrue'
  <2>1. Go(k, CreditsJob("take", <<>>))
    BY <1>7 DEF Checkout
  <2>2. job'[k] = CreditsJob("take", <<>>)
    BY <2>1, GoDone
  <2>3. JobTrue(job[k])'
    BY <2>2 DEF JobTrue, CreditsJob, Handled, Handling
  <2>4. QED
    BY <2>1, <2>3, OneJob
<1>8. QED
  BY <1>1, <1>2, <1>3, <1>4, <1>5, <1>6, <1>7, StepJobs DEF Next, Deliver

AnswersInv == ClaimedIsNamed /\ AnsweredIsSettled

LEMMA AnswersStay ==
    ASSUME TypeOK, AnswersInv, Stays,
           NEW e \in Events, names[e] # NoPayment,
           \A f \in Events : f # e => /\ row'[f] # "none" => row[f] # "none"
                                      /\ row'[f] = "done" => row[f] = "done"
                                      /\ f \in answered' => f \in answered,
           e \in answered' \/ row'[e] = "done" => Settled(e)
    PROVE  AnswersInv'
<1>1. \A f \in Events : names[f] # NoPayment /\ Settled(f) => Settled(f)'
  BY DEF Settled, Stays
<1>2. \A f \in Events : names[f] # NoPayment => names'[f] # NoPayment
  BY DEF Stays
<1>3. ASSUME NEW f \in Events, f \in answered' \/ row'[f] # "none"
      PROVE  names'[f] # NoPayment
  BY <1>2, <1>3 DEF AnswersInv, ClaimedIsNamed
<1>4. ASSUME NEW f \in Events, f \in answered' \/ row'[f] = "done"
      PROVE  Settled(f)'
  <2>1. CASE f = e
    BY <1>1, <1>4, <2>1
  <2>2. CASE f # e
    BY <1>1, <1>4, <2>2 DEF AnswersInv, ClaimedIsNamed, AnsweredIsSettled
  <2>3. QED
    BY <2>1, <2>2
<1>5. QED
  BY <1>3, <1>4 DEF AnswersInv, ClaimedIsNamed, AnsweredIsSettled

LEMMA SameAnswers ==
    ASSUME TypeOK, AnswersInv, Stays, UNCHANGED <<row, answered>>
    PROVE  AnswersInv'
<1>1. \A f \in Events : names[f] # NoPayment /\ Settled(f) => Settled(f)'
  BY DEF Settled, Stays
<1>2. ASSUME NEW f \in Events, f \in answered \/ row[f] # "none"
      PROVE  names'[f] # NoPayment
  BY <1>2 DEF AnswersInv, ClaimedIsNamed, Stays
<1>3. ASSUME NEW f \in Events, f \in answered \/ row[f] = "done"
      PROVE  Settled(f)'
  BY <1>1, <1>3 DEF AnswersInv, ClaimedIsNamed, AnsweredIsSettled
<1>4. QED
  BY <1>2, <1>3 DEF AnswersInv, ClaimedIsNamed, AnsweredIsSettled

LEMMA NextAnswers ==
    ASSUME TypeOK, JobsTrue, AnswersInv, Stays, [Next]_vars
    PROVE  AnswersInv'
<1>1. ASSUME NEW r \in Reports, Report(r.event, r.payment, r.order)
      PROVE  AnswersInv'
  BY <1>1, SameAnswers DEF Report, inbox
<1>2. CASE Start \/ CancelSession \/ UNCHANGED vars
  BY <1>2, SameAnswers DEF Start, CancelSession, vars, inbox
<1>3. ASSUME NEW c \in Children, CancelByParent(c) \/ Waive(c) \/ CancelSessionBooking(c)
      PROVE  AnswersInv'
  BY <1>3, SameAnswers DEF CancelByParent, Waive, CancelSessionBooking, inbox
<1>4. ASSUME NEW e \in Events, NEW k \in Workers, Claim(k, e)
      PROVE  AnswersInv'
  <2>1. names[e] # NoPayment /\ row' = [row EXCEPT ![e] = "claimed"] /\ answered' = answered
    BY <1>4 DEF Claim
  <2>2. e \in answered => Settled(e)
    BY DEF AnswersInv, AnsweredIsSettled
  <2>3. QED
    BY <2>1, <2>2, AnswersStay DEF TypeOK
<1>5. ASSUME NEW e \in Events, NEW k \in Workers, AnswerAgain(k, e)
      PROVE  AnswersInv'
  <2>1. names[e] # NoPayment /\ row' = row /\ answered' = answered \cup {e} /\ Settled(e)
    BY <1>5 DEF AnswerAgain, AnswersInv, AnsweredIsSettled
  <2>2. QED
    BY <2>1, AnswersStay
<1>6. ASSUME NEW e \in Events, GrowStale(e)
      PROVE  AnswersInv'
  <2>1. row[e] # "none" /\ row' = [row EXCEPT ![e] = "stale"] /\ answered' = answered
    BY <1>6 DEF GrowStale
  <2>2. names[e] # NoPayment /\ (e \in answered => Settled(e))
    BY <2>1 DEF AnswersInv, AnsweredIsSettled, ClaimedIsNamed
  <2>3. QED
    BY <2>1, <2>2, AnswersStay DEF TypeOK
<1>7. ASSUME NEW k \in Workers, Fail(k)
      PROVE  AnswersInv'
  <2> DEFINE e == job[k].e
  <2>1. e \in Events /\ names[e] # NoPayment
    BY <1>7, JobFields, EventsAssumption DEF Fail, EventOf, Handling, Handled, JobsTrue, JobTrue
  <2>2. row' = (IF row[e] = "done" THEN row ELSE [row EXCEPT ![e] = "none"]) /\ answered' = answered
    BY <1>7 DEF Fail, EventOf
  <2>3. e \in answered \/ row[e] = "done" => Settled(e)
    BY <2>1 DEF AnswersInv, AnsweredIsSettled
  <2>4. QED
    BY <2>1, <2>2, <2>3, AnswersStay DEF TypeOK
<1>8. ASSUME NEW k \in Workers, Crash(k) \/ Checkout(k)
      PROVE  AnswersInv'
  BY <1>8, SameAnswers DEF Crash, Checkout, inbox
<1>9. ASSUME NEW k \in Workers, Finish(k)
      PROVE  AnswersInv'
  <2> DEFINE e == job[k].e
  <2>1. e \in Events /\ names[e] # NoPayment /\ Settled(e)
    BY <1>9, Named DEF Finish, Handled, Handling, JobsTrue, JobTrue
  <2>2. row' = (IF row[e] = "none" THEN row ELSE [row EXCEPT ![e] = "done"]) /\ answered' = answered
    BY <1>9 DEF Finish, EventOf
  <2>3. QED
    BY <2>1, <2>2, AnswersStay DEF TypeOK
<1>10. ASSUME NEW k \in Workers, Answer(k)
       PROVE  AnswersInv'
  <2> DEFINE e == job[k].e
  <2>1. e \in Events /\ names[e] # NoPayment /\ Settled(e)
    BY <1>10, Named DEF Answer, Handled, Handling, JobsTrue, JobTrue
  <2>2. row' = row /\ answered' = answered \cup {e}
    BY <1>10 DEF Answer, EventOf
  <2>3. QED
    BY <2>1, <2>2, AnswersStay
<1>11. ASSUME NEW k \in Workers, Step(k), UNCHANGED <<row, answered>>
       PROVE  AnswersInv'
  BY <1>11, SameAnswers
<1>12. ASSUME NEW k \in Workers, Step(k)
       PROVE  Finish(k) \/ Answer(k) \/ UNCHANGED <<row, answered>>
  BY <1>12 DEF Step, Look, Book, Grant, Confirm, CreditInstead, Settle, Keep, Take, Spend, PutBack, inbox
<1>13. QED
  BY <1>1, <1>2, <1>3, <1>4, <1>5, <1>6, <1>7, <1>8, <1>9, <1>10, <1>11, <1>12 DEF Next, Deliver

LEMMA InvParts == Inv <=> RowsInv /\ JobsTrue /\ AnswersInv
BY DEF Inv, RowsInv, AnswersInv

LEMMA InitInv ==
    ASSUME Init
    PROVE  Inv
<1>1. Granted = {}
  BY DEF Init, Granted
<1>2. JobsTrue
  BY DEF Init, JobsTrue, JobTrue, Idle, Handled, Handling
<1>3. QED
  BY <1>1, <1>2, Kids DEF Init, Inv, Together, Unclaimed, GrantTied, ClaimedIsNamed, AnsweredIsSettled, None

LEMMA NextInv ==
    ASSUME TypeOK, Inv, [Next]_vars
    PROVE  Inv' /\ Stays
<1>1. RowsInv' /\ Stays
  BY InvParts, NextRowsInv
<1>2. JobsTrue'
  BY <1>1, InvParts, NextJobs
<1>3. AnswersInv'
  BY <1>1, InvParts, NextAnswers
<1>4. QED
  BY <1>1, <1>2, <1>3 DEF Inv, RowsInv, AnswersInv

(* However many handlers are at work, whoever holds the claim, and wherever *)
(* they stop: the relay is told an event is handled only when its payment is *)
(* the booking's or it is kept for the coach.                              *)
THEOREM Settles == Spec => []AnsweredIsSettled
<1>1. Init => TypeOK /\ Inv
  BY InitTyped, InitInv
<1>2. TypeOK /\ Inv /\ [Next]_vars => (TypeOK /\ Inv)'
  BY NextTyped, NextInv
<1>3. Inv => AnsweredIsSettled
  BY DEF Inv
<1>4. QED
  BY <1>1, <1>2, <1>3, PTL DEF Spec
----------------------------------------------------------------------------
(* PaidEvents implements PaymentOnce. *)

(* A step the promise does not see. *)
Still ==
    /\ UNCHANGED <<names, answered, kept>>
    /\ child'[First].charge = child[First].charge
    /\ Granted' = Granted

LEMMA StillStutters ==
    ASSUME Still
    PROVE  UNCHANGED Promise!vars
BY DEF Still, Promise!vars

LEMMA StepKeepsPromise ==
    ASSUME TypeOK, Inv, NEW k \in Workers, Step(k)
    PROVE  Promise!Next \/ UNCHANGED Promise!vars
<1>. First \in Children
  BY Kids
<1>1. CASE Look(k) \/ Confirm(k) \/ Settle(k) \/ Finish(k)
  <2>1. Still
    BY <1>1 DEF Look, Confirm, Settle, Finish, Still, inbox, booked, world, Granted
  <2>2. QED
    BY <2>1, StillStutters
<1>2. CASE Take(k) \/ PutBack(k)
  <2>1. Still
    BY <1>2, CheckoutRows DEF Take, PutBack, Still, Untouched, inbox, world
  <2>2. QED
    BY <2>1, StillStutters
<1>3. CASE Spend(k)
  <2>1. Still
    BY <1>3, SpendRows DEF Spend, Still, inbox, world, Granted
  <2>2. QED
    BY <2>1, StillStutters
<1>4. CASE Book(k)
  <2> DEFINE p == names[job[k].e]
  <2>1. UNCHANGED <<names, answered, kept>> /\ Granted' = Granted
    BY <1>4 DEF Book, inbox, world, Granted
  <2>2. CASE UNCHANGED child
    BY <2>1, <2>2, StillStutters DEF Still
  <2>3. CASE child' = BookedBy(p) /\ Pending # {}
    <3>1. p \in Payments
      BY <1>4, BookRows, Named DEF Book, Handled, Handling, Inv
    <3>2. First \in Pending /\ child[First].charge = NoPayment
      BY <2>3 DEF Pending, Inv, Together, Unclaimed
    <3>3. child'[First].charge = p
      <4>1. child[First] \in Booking
        BY DEF TypeOK
      <4>2. QED
        BY <2>3, <3>2, <4>1 DEF BookedBy, Booking
    <3>4. Promise!Book(p)
      BY <2>1, <3>2, <3>3 DEF Promise!Book
    <3>5. QED
      BY <3>1, <3>4 DEF Promise!Next
  <2>4. QED
    BY <1>4, <2>2, <2>3 DEF Book, EventOf
<1>5. CASE Grant(k)
  <2>1. UNCHANGED <<names, answered, kept>> /\ child'[First].charge = child[First].charge
    BY <1>5, GrantRows DEF Grant, inbox, world
  <2>2. CASE UNCHANGED booked
    BY <2>1, <2>2, StillStutters DEF Still, booked, Granted
  <2>3. CASE ~UNCHANGED booked
    <3>1. names[job[k].e] # NoPayment /\ child[First].charge # NoPayment
      BY <1>5, Named DEF Grant, Handled, Handling, Inv, JobsTrue, JobTrue
    <3>2. child[First].credit = None /\ Granted' = Granted \cup {Len(credit) + 1}
      BY <1>5, <2>3, <3>1, GrantRows
    <3>3. Granted = {} /\ Granted' = {Len(credit) + 1}
      BY <3>2 DEF Inv, GrantTied
    <3>4. Promise!Grant
      BY <2>1, <3>1, <3>3 DEF Promise!Grant, Promise!GiveOne
    <3>5. QED
      BY <3>4 DEF Promise!Next
  <2>4. QED
    BY <2>2, <2>3
<1>6. CASE CreditInstead(k)
  <2> DEFINE p == names[job[k].e]
  <2>1. UNCHANGED <<names, answered, kept>>
    BY <1>6 DEF CreditInstead, inbox, world
  <2>2. CASE UNCHANGED booked
    BY <2>1, <2>2, StillStutters DEF Still, booked, Granted
  <2>3. CASE ~UNCHANGED booked
    <3>1. p \in Payments
      BY <1>6, CreditInsteadRows, Named DEF CreditInstead, Handled, Handling, Inv
    <3>2. First \in Pending /\ child[First].charge = NoPayment /\ child[First].credit = None
      BY <1>6, <2>3, CreditInsteadRows DEF Pending, Inv, Unclaimed
    <3>3. child'[First].charge = p /\ (p # NoPayment => Granted' = Granted \cup {Len(credit) + 1})
      BY <1>6, <2>3, <3>2, CreditInsteadRows
    <3>4. Granted = {} /\ Granted' = {Len(credit) + 1}
      BY <3>1, <3>2, <3>3, EventsAssumption DEF Inv, GrantTied
    <3>5. Promise!Credit(p)
      BY <2>1, <3>2, <3>3, <3>4 DEF Promise!Credit, Promise!GiveOne
    <3>6. QED
      BY <3>1, <3>5 DEF Promise!Next
  <2>4. QED
    BY <2>2, <2>3
<1>7. CASE Keep(k)
  <2> DEFINE e == job[k].e
  <2>1. /\ UNCHANGED <<names, answered>> /\ child'[First].charge = child[First].charge
        /\ Granted' = Granted /\ e \in Events /\ job[k].reason # "none"
    BY <1>7, Named DEF Keep, world, booked, Granted, Handled, Handling, Inv, JobsTrue, JobTrue
  <2>2. kept' = IF kept[e] = "none" THEN [kept EXCEPT ![e] = job[k].reason] ELSE kept
    BY <1>7 DEF Keep, EventOf
  <2>3. {f \in Events : kept'[f] # "none"} = {f \in Events : kept[f] # "none"} \cup {e}
    BY <2>1, <2>2 DEF TypeOK
  <2>4. PICK f \in Events : f = e
    BY <2>1
  <2>5. Promise!Keep(f)
    BY <2>1, <2>3, <2>4 DEF Promise!Keep
  <2>6. QED
    BY <2>5 DEF Promise!Next
<1>8. CASE Answer(k)
  <2> DEFINE e == job[k].e
  <2>1. /\ UNCHANGED <<names, kept>> /\ child'[First].charge = child[First].charge /\ Granted' = Granted
        /\ e \in Events /\ names[e] # NoPayment /\ Settled(e) /\ answered' = answered \cup {e}
    BY <1>8, Named DEF Answer, EventOf, world, booked, Granted, Handled, Handling, Inv, JobsTrue, JobTrue
  <2>2. Promise!Answer(e)
    BY <2>1 DEF Promise!Answer, Settled
  <2>3. QED
    BY <2>1, <2>2 DEF Promise!Next
<1>9. QED
  BY <1>1, <1>2, <1>3, <1>4, <1>5, <1>6, <1>7, <1>8 DEF Step

LEMMA NextKeepsPromise ==
    ASSUME TypeOK, Inv, [Next]_vars
    PROVE  [Promise!Next]_(Promise!vars)
<1>. First \in Children
  BY Kids
<1>1. ASSUME NEW r \in Reports, Report(r.event, r.payment, r.order)
      PROVE  Promise!Next
  <2>1. r.event \in Events /\ r.payment \in Payments
    BY ReportsAssumption
  <2>2. Promise!Report(r.event, r.payment)
    BY <1>1 DEF Report, Promise!Report, inbox, booked, Granted
  <2>3. QED
    BY <2>1, <2>2 DEF Promise!Next
<1>2. CASE Start \/ CancelSession \/ UNCHANGED vars
  <2>1. Still
    BY <1>2 DEF Start, CancelSession, vars, Still, inbox, booked, Granted
  <2>2. QED
    BY <2>1, StillStutters
<1>3. ASSUME NEW e \in Events, NEW k \in Workers, Claim(k, e) \/ AnswerAgain(k, e)
      PROVE  [Promise!Next]_(Promise!vars)
  <2>1. CASE Claim(k, e)
    <3>1. Still
      BY <2>1 DEF Claim, Still, booked, world, Granted
    <3>2. QED
      BY <3>1, StillStutters
  <2>2. CASE AnswerAgain(k, e)
    <3>1. /\ names[e] # NoPayment /\ Settled(e) /\ answered' = answered \cup {e}
          /\ UNCHANGED <<names, kept, child>> /\ Granted' = Granted
      BY <2>2 DEF AnswerAgain, booked, world, Granted, Inv, AnsweredIsSettled
    <3>2. Promise!Answer(e)
      BY <3>1 DEF Promise!Answer, Settled
    <3>3. QED
      BY <3>2 DEF Promise!Next
  <2>3. QED
    BY <1>3, <2>1, <2>2
<1>4. ASSUME NEW e \in Events, GrowStale(e)
      PROVE  [Promise!Next]_(Promise!vars)
  <2>1. Still
    BY <1>4 DEF GrowStale, Still, booked, world, Granted
  <2>2. QED
    BY <2>1, StillStutters
<1>5. ASSUME NEW k \in Workers, Fail(k) \/ Crash(k)
      PROVE  [Promise!Next]_(Promise!vars)
  <2>1. Still
    BY <1>5 DEF Fail, Crash, Still, inbox, booked, world, Granted
  <2>2. QED
    BY <2>1, StillStutters
<1>6. ASSUME NEW k \in Workers, Checkout(k)
      PROVE  [Promise!Next]_(Promise!vars)
  <2>1. Still
    BY <1>6 DEF Checkout, Still, inbox, booked, world, Granted
  <2>2. QED
    BY <2>1, StillStutters
<1>7. ASSUME NEW c \in Children, CancelByParent(c) \/ Waive(c) \/ CancelSessionBooking(c)
      PROVE  [Promise!Next]_(Promise!vars)
  <2>1. Still
    BY <1>7, CancelRows DEF CancelByParent, Waive, CancelSessionBooking, Untouched, Still, inbox, world
  <2>2. QED
    BY <2>1, StillStutters
<1>8. QED
  BY <1>1, <1>2, <1>3, <1>4, <1>5, <1>6, <1>7, StepKeepsPromise DEF Next, Deliver

(* The booking takes one payment, for good; what the purchase leaves is    *)
(* granted once; and the relay is answered only for what was settled: the  *)
(* claim, the locks and the retries together implement PaymentOnce.        *)
THEOREM Implements == Spec => PaidOnce
<1>1. Init => TypeOK /\ Inv
  BY InitTyped, InitInv
<1>2. Init => Promise!Init
  BY Kids DEF Init, Promise!Init, Granted
<1>3. TypeOK /\ Inv /\ [Next]_vars => (TypeOK /\ Inv)'
  BY NextTyped, NextInv
<1>4. TypeOK /\ Inv /\ [Next]_vars => [Promise!Next]_(Promise!vars)
  BY NextKeepsPromise
<1>5. QED
  BY <1>1, <1>2, <1>3, <1>4, PTL DEF Spec, PaidOnce, Promise!Spec
----------------------------------------------------------------------------
(* One confirmation for each child: only the handler that booked the pass  *)
(* tells the parent, and it has each child still to tell, or has told it.  *)
Telling(j) == j.op = "confirm" \/ (j.op = "grant" /\ j.then = "confirm")
ToTell(j) == IF j.op = "confirm" THEN j.left ELSE IF Telling(j) THEN Children ELSE {}

TellInv ==
    /\ \A k, l \in Workers : Telling(job[k]) /\ Telling(job[l]) => k = l
    /\ child[First].status = "pending" =>
          (\A k \in Workers : ~Telling(job[k])) /\ (\A c \in Children : told[c] = 0)
    /\ \A k \in Workers : \A c \in ToTell(job[k]) : told[c] = 0
    /\ ConfirmedOnce

LEMMA NoMoreToTell ==
    ASSUME TypeOK, TellInv, UNCHANGED told,
           child'[First].status = "pending" => child[First].status = "pending",
           \A k \in Workers : Telling(job'[k]) => Telling(job[k]) /\ ToTell(job'[k]) \subseteq ToTell(job[k])
    PROVE  TellInv'
<1>1. \A k \in Workers : Telling(job[k])' <=> Telling(job'[k])
  BY DEF Telling
<1>2. \A k \in Workers : ToTell(job[k])' = ToTell(job'[k])
  BY DEF ToTell, Telling
<1>3. \A k \in Workers : ~Telling(job'[k]) => ToTell(job'[k]) = {}
  BY DEF ToTell, Telling
<1>4. ASSUME NEW k \in Workers, NEW c \in ToTell(job'[k])
      PROVE  told'[c] = 0
  BY <1>3, <1>4 DEF TellInv
<1>5. ConfirmedOnce'
  BY DEF TellInv, ConfirmedOnce
<1>6. QED
  BY <1>1, <1>2, <1>4, <1>5 DEF TellInv

LEMMA SameJobsTell ==
    ASSUME TypeOK, TellInv, UNCHANGED told,
           child'[First].status = "pending" => child[First].status = "pending",
           UNCHANGED job \/ \E k \in Workers : \E j : Go(k, j) /\ ~Telling(job'[k])
    PROVE  TellInv'
<1>1. \A k \in Workers : Telling(job'[k]) => job'[k] = job[k]
  BY DEF Go, TypeOK
<1>2. QED
  BY <1>1, NoMoreToTell

(* The pass is booked: nobody was telling, and nobody was told.            *)
LEMMA TellBegins ==
    ASSUME TypeOK, TellInv, UNCHANGED told, NEW k \in Workers, NEW j, Go(k, j),
           child[First].status = "pending", child'[First].status # "pending", ToTell(j) \subseteq Children
    PROVE  TellInv'
<1>1. job'[k] = j /\ \A l \in Workers : l # k => job'[l] = job[l]
  BY DEF Go, TypeOK
<1>2. \A l \in Workers : l # k => ~Telling(job'[l])
  BY <1>1 DEF TellInv
<1>3. \A l \in Workers : (Telling(job[l])' <=> Telling(job'[l])) /\ ToTell(job[l])' = ToTell(job'[l])
  BY DEF Telling, ToTell
<1>4. \A l \in Workers : ToTell(job'[l]) \subseteq Children
  BY <1>1, <1>2 DEF ToTell, Telling
<1>5. \A c \in Children : told'[c] = 0
  BY DEF TellInv
<1>6. QED
  BY <1>2, <1>3, <1>4, <1>5 DEF TellInv, ConfirmedOnce

LEMMA ConfirmTells ==
    ASSUME TypeOK, TellInv, NEW k \in Workers, Confirm(k)
    PROVE  TellInv'
<1>1. job[k].op = "confirm" /\ job[k].left \subseteq Children /\ child' = child
  BY JobFields DEF Confirm, booked
<1>2. CASE job[k].left = {}
  <2>1. told' = told /\ \E j \in {Idle, At("finish", job[k].e)} : Go(k, j)
    BY <1>2 DEF Confirm, EventOf
  <2>2. PICK j \in {Idle, At("finish", job[k].e)} : Go(k, j)
    BY <2>1
  <2>3. ~Telling(job'[k])
    BY <2>2, GoDone DEF Telling, Idle, At
  <2>4. QED
    BY <1>1, <2>1, <2>2, <2>3, SameJobsTell
<1>3. ASSUME NEW c \in job[k].left, told' = [told EXCEPT ![c] = told[c] + 1],
             Go(k, ConfirmJob(job[k].e, job[k].left \ {c}))
      PROVE  TellInv'
  <2>1. job'[k] = ConfirmJob(job[k].e, job[k].left \ {c}) /\ \A l \in Workers : l # k => job'[l] = job[l]
    BY <1>3, GoDone DEF Go, TypeOK
  <2>2. Telling(job[k]) /\ Telling(job'[k]) /\ ToTell(job[k]) = job[k].left /\ ToTell(job'[k]) = job[k].left \ {c}
    BY <1>1, <2>1 DEF Telling, ToTell, ConfirmJob
  <2>3. \A l \in Workers : (Telling(job[l])' <=> Telling(job'[l])) /\ ToTell(job[l])' = ToTell(job'[l])
    BY DEF Telling, ToTell
  <2>4. \A l \in Workers : l # k => ~Telling(job'[l]) /\ ToTell(job'[l]) = {}
    BY <2>1, <2>2 DEF TellInv, ToTell, Telling
  <2>5. child[First].status # "pending"
    BY <2>2 DEF TellInv
  <2>6. c \in Children /\ told[c] = 0 /\ told'[c] = 1 /\ \A d \in Children : d # c => told'[d] = told[d]
    BY <1>1, <1>3, <2>2 DEF TellInv, TypeOK
  <2>7. \A l \in Workers : \A d \in ToTell(job'[l]) : told'[d] = 0
    BY <1>1, <2>2, <2>4, <2>6 DEF TellInv
  <2>8. ConfirmedOnce'
    BY <2>6 DEF TellInv, ConfirmedOnce
  <2>9. QED
    BY <1>1, <2>3, <2>4, <2>5, <2>7, <2>8 DEF TellInv
<1>4. QED
  BY <1>2, <1>3 DEF Confirm, EventOf

LEMMA StepTells ==
    ASSUME TypeOK, RowsInv, TellInv, NEW k \in Workers, Step(k)
    PROVE  TellInv'
<1>. First \in Children
  BY Kids
<1>1. CASE Confirm(k)
  BY <1>1, ConfirmTells
<1>2. CASE Look(k)
  <2>1. UNCHANGED <<told, child>>
    BY <1>2 DEF Look, booked
  <2>2. PICK j \in {KeepJob(job[k].e, r) : r \in Reasons}
                  \cup {SettleJob(job[k].e, child[First]), At("credit", job[k].e), At("book", job[k].e)} : Go(k, j)
    BY <1>2 DEF Look, EventOf, Reasons
  <2>3. ~Telling(job'[k])
    BY <2>2, GoDone DEF Telling, KeepJob, SettleJob, At
  <2>4. QED
    BY <2>1, <2>2, <2>3, SameJobsTell
<1>3. CASE Book(k)
  <2> DEFINE e == job[k].e
  <2>1. told' = told
    BY <1>3 DEF Book
  <2>2. CASE /\ UNCHANGED child
             /\ \E j \in {SettleJob(e, child[First]), At("credit", e), KeepJob(e, "session_full")} : Go(k, j)
    <3>1. PICK j \in {SettleJob(e, child[First]), At("credit", e), KeepJob(e, "session_full")} : Go(k, j)
      BY <2>2
    <3>2. ~Telling(job'[k])
      BY <3>1, GoDone DEF Telling, KeepJob, SettleJob, At
    <3>3. QED
      BY <2>1, <2>2, <3>1, <3>2, SameJobsTell
  <2>3. CASE /\ Pending # {} /\ child' = BookedBy(names[e])
             /\ \E j \in {GrantJob(e, "confirm"), ConfirmJob(e, Children)} : Go(k, j)
    <3>1. PICK j \in {GrantJob(e, "confirm"), ConfirmJob(e, Children)} : Go(k, j)
      BY <2>3
    <3>2. ToTell(j) \subseteq Children
      BY DEF ToTell, Telling, GrantJob, ConfirmJob
    <3>3. First \in Pending /\ child[First] \in Booking
      BY <2>3 DEF Pending, RowsInv, Together, TypeOK
    <3>4. child[First].status = "pending" /\ child'[First].status = "booked"
      BY <2>3, <3>3 DEF Pending, BookedBy, Booking
    <3>5. QED
      BY <2>1, <3>1, <3>2, <3>4, TellBegins
  <2>4. QED
    BY <1>3, <2>2, <2>3 DEF Book, EventOf
<1>4. CASE Grant(k)
  <2>1. told' = told /\ child'[First].status = child[First].status
    BY <1>4, GrantRows DEF Grant
  <2>2. CASE job[k].then = "confirm"
    <3>1. Go(k, ConfirmJob(job[k].e, Children))
      BY <1>4, <2>2 DEF Grant, EventOf
    <3>2. job'[k] = ConfirmJob(job[k].e, Children) /\ \A l \in Workers : l # k => job'[l] = job[l]
      BY <3>1, GoDone DEF Go, TypeOK
    <3>3. Telling(job[k]) /\ ToTell(job[k]) = Children /\ ToTell(job'[k]) = Children
      BY <1>4, <2>2, <3>2 DEF Grant, Telling, ToTell, ConfirmJob
    <3>4. QED
      BY <2>1, <3>2, <3>3, NoMoreToTell
  <2>3. CASE job[k].then # "confirm"
    <3>1. Go(k, At("finish", job[k].e))
      BY <1>4, <2>3 DEF Grant, EventOf
    <3>2. ~Telling(job'[k])
      BY <3>1, GoDone DEF Telling, At
    <3>3. QED
      BY <2>1, <3>1, <3>2, SameJobsTell
  <2>4. QED
    BY <2>2, <2>3
<1>5. CASE CreditInstead(k)
  <2>1. told' = told /\ (child'[First].status = "pending" => child[First].status = "pending")
    BY <1>5, CreditInsteadRows DEF CreditInstead, booked
  <2>2. PICK j \in {SettleJob(job[k].e, child[First]), KeepJob(job[k].e, "session_cancelled")} : Go(k, j)
    BY <1>5, CreditInsteadRows
  <2>3. ~Telling(job'[k])
    BY <2>2, GoDone DEF Telling, KeepJob, SettleJob
  <2>4. QED
    BY <2>1, <2>2, <2>3, SameJobsTell
<1>6. CASE Settle(k)
  <2>1. UNCHANGED <<told, child>>
    BY <1>6 DEF Settle, booked
  <2>2. PICK j \in {GrantJob(job[k].e, "finish"), At("finish", job[k].e)} \cup {KeepJob(job[k].e, r) : r \in Reasons} : Go(k, j)
    BY <1>6 DEF Settle, EventOf, FinishBegun, SecondPayment, Reasons
  <2>3. ~Telling(job'[k])
    BY <2>2, GoDone DEF Telling, KeepJob, GrantJob, At
  <2>4. QED
    BY <2>1, <2>2, <2>3, SameJobsTell
<1>7. CASE Keep(k) \/ Finish(k) \/ Answer(k)
  <2>1. UNCHANGED <<told, child>>
    BY <1>7 DEF Keep, Finish, Answer, booked
  <2>2. PICK j \in {At("finish", job[k].e), At("answer", job[k].e), Idle} : Go(k, j)
    BY <1>7 DEF Keep, Finish, Answer, EventOf
  <2>3. ~Telling(job'[k])
    BY <2>2, GoDone DEF Telling, At, Idle
  <2>4. QED
    BY <2>1, <2>2, <2>3, SameJobsTell
<1>8. CASE Take(k) \/ PutBack(k)
  <2>1. UNCHANGED <<told, child>> /\ \E j : Go(k, j)
    BY <1>8 DEF Take, PutBack
  <2>2. ~Telling(job'[k])
    BY <1>8, CheckoutRows DEF Telling
  <2>3. QED
    BY <2>1, <2>2, SameJobsTell
<1>9. CASE Spend(k)
  <2>1. told' = told
    BY <1>9 DEF Spend
  <2>2. CASE Go(k, CreditsJob("putback", job[k].ids)) /\ UNCHANGED child
    <3>1. ~Telling(job'[k])
      BY <2>2, GoDone DEF Telling, CreditsJob
    <3>2. QED
      BY <2>1, <2>2, <3>1, SameJobsTell
  <2>3. CASE /\ Go(k, ConfirmJob(NoEvent, Children)) /\ Pending # {}
             /\ \A c \in Children : c \in Pending => child'[c].status = "booked"
    <3>1. First \in Pending
      BY <2>3 DEF Pending, RowsInv, Together
    <3>2. child[First].status = "pending" /\ child'[First].status = "booked"
      BY <2>3, <3>1 DEF Pending
    <3>3. ToTell(ConfirmJob(NoEvent, Children)) \subseteq Children
      BY DEF ToTell, ConfirmJob
    <3>4. QED
      BY <2>1, <2>3, <3>2, <3>3, TellBegins
  <2>4. QED
    BY <1>9, <2>2, <2>3, SpendRows
<1>10. QED
  BY <1>1, <1>2, <1>3, <1>4, <1>5, <1>6, <1>7, <1>8, <1>9 DEF Step

LEMMA NextTells ==
    ASSUME TypeOK, RowsInv, TellInv, [Next]_vars
    PROVE  TellInv'
<1>1. ASSUME NEW r \in Reports, Report(r.event, r.payment, r.order)
      PROVE  TellInv'
  BY <1>1, SameJobsTell DEF Report, booked
<1>2. CASE Start \/ CancelSession \/ UNCHANGED vars
  BY <1>2, SameJobsTell DEF Start, CancelSession, vars, booked
<1>3. ASSUME NEW e \in Events, GrowStale(e)
      PROVE  TellInv'
  BY <1>3, SameJobsTell DEF GrowStale, booked
<1>4. ASSUME NEW e \in Events, NEW k \in Workers, Claim(k, e) \/ AnswerAgain(k, e)
      PROVE  TellInv'
  <2>1. CASE Claim(k, e)
    <3>1. Go(k, At("look", e)) /\ UNCHANGED <<told, child>>
      BY <2>1 DEF Claim, booked
    <3>2. ~Telling(job'[k])
      BY <3>1, GoDone DEF Telling, At
    <3>3. QED
      BY <3>1, <3>2, SameJobsTell
  <2>2. QED
    BY <1>4, <2>1, SameJobsTell DEF AnswerAgain, booked
<1>5. ASSUME NEW k \in Workers, Fail(k) \/ Crash(k)
      PROVE  TellInv'
  <2>1. Go(k, Idle) /\ UNCHANGED <<told, child>>
    BY <1>5 DEF Fail, Crash, booked
  <2>2. ~Telling(job'[k])
    BY <2>1, GoDone DEF Telling, Idle
  <2>3. QED
    BY <2>1, <2>2, SameJobsTell
<1>6. ASSUME NEW k \in Workers, Checkout(k)
      PROVE  TellInv'
  <2>1. Go(k, CreditsJob("take", <<>>)) /\ UNCHANGED <<told, child>>
    BY <1>6 DEF Checkout, booked
  <2>2. ~Telling(job'[k])
    BY <2>1, GoDone DEF Telling, CreditsJob
  <2>3. QED
    BY <2>1, <2>2, SameJobsTell
<1>7. ASSUME NEW c \in Children, CancelByParent(c) \/ Waive(c) \/ CancelSessionBooking(c)
      PROVE  TellInv'
  <2>1. child'[First].status = "pending" => child[First].status = "pending"
    BY <1>7, CancelRows, Kids DEF Untouched
  <2>2. QED
    BY <1>7, <2>1, SameJobsTell DEF CancelByParent, Waive, CancelSessionBooking
<1>8. QED
  BY <1>1, <1>2, <1>3, <1>4, <1>5, <1>6, <1>7, StepTells DEF Next, Deliver

(* No child is confirmed twice, however many events, retries and checkouts *)
(* reach the booking.                                                      *)
THEOREM ToldOnce == Spec => []ConfirmedOnce
<1>1. ASSUME Init
      PROVE  TypeOK /\ Inv /\ TellInv
  <2>1. \A k \in Workers : ~Telling(job[k]) /\ ToTell(job[k]) = {}
    BY <1>1 DEF Init, Telling, ToTell, Idle
  <2>2. \A c \in Children : told[c] = 0
    BY <1>1 DEF Init
  <2>3. TellInv
    BY <2>1, <2>2 DEF TellInv, ConfirmedOnce
  <2>4. QED
    BY <1>1, <2>3, InitTyped, InitInv
<1>2. TypeOK /\ Inv /\ TellInv /\ [Next]_vars => (TypeOK /\ Inv /\ TellInv)'
  BY NextTyped, NextInv, NextTells, InvParts
<1>3. TellInv => ConfirmedOnce
  BY DEF TellInv
<1>4. QED
  BY <1>1, <1>2, <1>3, PTL DEF Spec
----------------------------------------------------------------------------
(* Sessions are not made of nothing. *)

(* What a purchase still owes of the sessions paid for: the rest of a pack *)
(* whose grant is to come.                                                 *)
Owed == IF child[First].charge # NoPayment /\ IsPack(child[First].charge) /\ child[First].credit = None
        THEN PackSessions - Cardinality(Children) ELSE 0

(* No session is made of nothing, those still owed counted; a payment's    *)
(* order is known and stays; a grant is of a pack, and a checkout books    *)
(* with as many credits as it has children.                                *)
SpentInv ==
    /\ Cardinality(InUse) + InHand + UnderWay + Owed <= PaidFor
    /\ \A e \in Events : names[e] # NoPayment => order[names[e]] # NoOrder
    /\ child[First].charge # NoPayment => order[child[First].charge] # NoOrder
    /\ \A k \in Workers : job[k].op = "grant" => IsPack(names[job[k].e])
    /\ \A k \in Workers : job[k].op = "spend" => Len(job[k].ids) = Cardinality(Children)

LEMMA CreditsFinite ==
    ASSUME TypeOK
    PROVE  /\ IsFiniteSet(DOMAIN credit)
           /\ \A i \in DOMAIN credit : credit[i].left \in Nat
<1>1. DOMAIN credit = 1..Len(credit) /\ Len(credit) \in Nat
  BY CreditRows
<1>2. IsFiniteSet(1..Len(credit))
  BY <1>1, FS_Interval
<1>3. QED
  BY <1>1, <1>2, CreditRows DEF Credit

LEMMA CarriedNat ==
    ASSUME TypeOK, NEW k \in Workers
    PROVE  Carried(k) \in Nat
<1>1. CASE job[k].op \in {"take", "spend", "putback"}
  <2>1. job[k].ids \in Seq(Nat)
    BY <1>1, JobFields
  <2>2. QED
    BY <1>1, <2>1 DEF Carried
<1>2. QED
  BY <1>1 DEF Carried

LEMMA CarriedNatNext ==
    ASSUME TypeOK', NEW k \in Workers
    PROVE  Carried(k)' \in Nat
<1>1. job'[k] \in Job
  BY DEF TypeOK
<1>2. job'[k].op \in {"take", "spend", "putback"} => job'[k].ids \in Seq(Nat)
  BY <1>1 DEF Job, Idle
<1>3. QED
  BY <1>2 DEF Carried

LEMMA CountsNat ==
    ASSUME TypeOK
    PROVE  /\ IsFiniteSet(InUse) /\ Cardinality(InUse) \in Nat
           /\ InHand \in Nat /\ UnderWay \in Nat
           /\ Owed \in Nat /\ PaidFor \in Nat
<1>1. IsFiniteSet(InUse) /\ Cardinality(InUse) \in Nat
  BY ChildrenAssumption, FS_Subset, FS_CardinalityType DEF InUse
<1>2. PICK f, g : f = [i \in DOMAIN credit |-> credit[i].left] /\ g = [k \in Workers |-> Carried(k)]
  OBVIOUS
<1>3. /\ DOMAIN f = DOMAIN credit /\ \A i \in DOMAIN credit : f[i] \in Nat
      /\ DOMAIN g = Workers /\ \A k \in Workers : g[k] \in Nat
  BY <1>2, CreditsFinite, CarriedNat
<1>4. InHand \in Nat
  BY <1>2, <1>3, CreditsFinite, SumType DEF InHand, SumFunction
<1>5. UnderWay \in Nat
  BY <1>2, <1>3, WorkersAssumption, SumType DEF UnderWay, SumFunction
<1>6. Owed \in Nat
  BY Kids DEF Owed
<1>7. PaidFor \in Nat
  BY Kids, WorthAssumption DEF PaidFor, Worth
<1>8. QED
  BY <1>1, <1>4, <1>5, <1>6, <1>7

(* A new credit adds what it is worth. *)
LEMMA InHandGrows ==
    ASSUME TypeOK, NEW n \in Nat, NEW p, credit' = NewCredit(n, p)
    PROVE  InHand' = InHand + n
<1>1. PICK m, f, g : m = Len(credit) /\ f = [i \in DOMAIN credit |-> credit[i].left]
                     /\ g = [i \in DOMAIN credit' |-> credit'[i].left]
  OBVIOUS
<1>2. m \in Nat /\ DOMAIN credit = 1..m /\ credit \in Seq(Credit)
  BY <1>1, CreditRows DEF TypeOK
<1>3. /\ Len(credit') = m + 1 /\ DOMAIN credit' = 1..(m + 1)
      /\ \A i \in 1..m : credit'[i] = credit[i]
      /\ credit'[m + 1] = [left |-> n, of |-> p]
  BY <1>1, <1>2 DEF NewCredit
<1>4a. 1..(m + 1) = (1..m) \cup {m + 1} /\ m + 1 \notin 1..m
  BY <1>2
<1>4b. IsFiniteSet(1..m)
  BY <1>2, FS_Interval
<1>4. 1..(m + 1) = (1..m) \cup {m + 1} /\ m + 1 \notin 1..m /\ IsFiniteSet(1..m)
  BY <1>4a, <1>4b
<1>5. \A i \in 1..m : credit[i].left \in Nat
  BY <1>2, CreditsFinite
<1>6. /\ \A i \in 1..m : f[i] = g[i] /\ g[i] \in Nat
      /\ g[m + 1] = n
  BY <1>1, <1>2, <1>3, <1>4, <1>5
<1>7. SumFunctionOnSet(g, (1..m) \cup {m + 1}) = g[m + 1] + SumFunctionOnSet(g, 1..m)
  BY <1>4, <1>6, SumAdd
<1>8. SumFunctionOnSet(f, 1..m) = SumFunctionOnSet(g, 1..m)
  <2>1. \A i \in 1..m : f[i] = g[i]
    BY <1>6
  <2>2. QED
    BY <1>4b, <2>1, SumSame
<1>9. InHand = SumFunctionOnSet(f, 1..m) /\ SumFunctionOnSet(f, 1..m) \in Nat
  BY <1>1, <1>2, <1>4, <1>6, SumType DEF InHand, SumFunction
<1>10. InHand' = SumFunctionOnSet(g, (1..m) \cup {m + 1})
  BY <1>1, <1>3, <1>4 DEF InHand, SumFunction
<1>11. QED
  BY <1>6, <1>7, <1>8, <1>9, <1>10

(* A change of one credit's sessions changes the sum by as much. *)
LEMMA InHandMoves ==
    ASSUME TypeOK, NEW i \in DOMAIN credit, NEW n \in Nat, credit' = [credit EXCEPT ![i].left = n]
    PROVE  InHand' = InHand - credit[i].left + n
<1>1. PICK D, f, g : D = DOMAIN credit /\ f = [j \in DOMAIN credit |-> credit[j].left]
                     /\ g = [j \in DOMAIN credit' |-> credit'[j].left]
  OBVIOUS
<1>2. IsFiniteSet(D) /\ i \in D /\ \A j \in D : credit[j].left \in Nat
  BY <1>1, CreditsFinite
<1>3. DOMAIN credit' = D /\ \A j \in D : credit'[j] = IF j = i THEN [credit[i] EXCEPT !.left = n] ELSE credit[j]
  BY <1>1
<1>4. credit'[i].left = n
  BY <1>3, <1>2, CreditRows DEF Credit
<1>5. /\ \A j \in D : f[j] \in Nat /\ g[j] \in Nat
      /\ \A j \in D \ {i} : g[j] = f[j]
      /\ g[i] = n /\ f[i] = credit[i].left
  BY <1>1, <1>2, <1>3, <1>4
<1>6. SumFunctionOnSet(g, D) = SumFunctionOnSet(f, D) - f[i] + g[i]
  BY <1>2, <1>5, SumChange
<1>7. InHand = SumFunctionOnSet(f, D) /\ InHand' = SumFunctionOnSet(g, D)
  BY <1>1, <1>3 DEF InHand, SumFunction
<1>8. QED
  BY <1>5, <1>6, <1>7

LEMMA UnderWayMoves ==
    ASSUME TypeOK, TypeOK', NEW k \in Workers, NEW j, Go(k, j)
    PROVE  UnderWay' = UnderWay - Carried(k) + Carried(k)'
<1>1. PICK f, g : f = [l \in Workers |-> Carried(l)] /\ g = [l \in Workers |-> Carried(l)']
  OBVIOUS
<1>2. \A l \in Workers \ {k} : job'[l] = job[l]
  BY DEF Go, TypeOK
<1>3. \A l \in Workers \ {k} : Carried(l)' = Carried(l)
  BY <1>2 DEF Carried
<1>4. \A l \in Workers : Carried(l) \in Nat /\ Carried(l)' \in Nat
  BY CarriedNat, CarriedNatNext
<1>5. /\ DOMAIN f = Workers /\ \A l \in Workers : f[l] \in Nat
      /\ DOMAIN g = Workers /\ \A l \in Workers : g[l] \in Nat
      /\ \A l \in Workers \ {k} : g[l] = f[l]
  BY <1>1, <1>3, <1>4
<1>6. SumFunctionOnSet(g, Workers) = SumFunctionOnSet(f, Workers) - f[k] + g[k]
  BY <1>5, WorkersAssumption, SumChange
<1>7. UnderWay = SumFunctionOnSet(f, Workers) /\ UnderWay' = SumFunctionOnSet(g, Workers)
  BY <1>1, <1>5 DEF UnderWay, SumFunction
<1>8. QED
  BY <1>1, <1>6, <1>7

(* What the steps that move no session leave as it was.                    *)
LEMMA RowsUnmoved ==
    ASSUME UNCHANGED booked, UNCHANGED order
    PROVE  /\ Cardinality(InUse)' = Cardinality(InUse) /\ InHand' = InHand
           /\ Owed' = Owed /\ PaidFor' = PaidFor
<1>1. child' = child /\ credit' = credit /\ order' = order
  BY DEF booked
<1>2. Cardinality(InUse)' = Cardinality(InUse) /\ InHand' = InHand
  BY <1>1 DEF InUse, InHand
<1>3. Owed' = Owed /\ PaidFor' = PaidFor
  BY <1>1 DEF Owed, PaidFor, IsPack, Worth
<1>4. QED
  BY <1>2, <1>3

(* What a handler goes on to may be a grant of a pack only, and a checkout *)
(* with as many credits as there are children.                             *)
NextJob(j) ==
    /\ j.op = "grant" => IsPack(names[j.e])
    /\ j.op = "spend" => Len(j.ids) = Cardinality(Children)

LEMMA GoesOn ==
    ASSUME TypeOK, SpentInv, UNCHANGED <<order, names>>, NEW k \in Workers, NEW j, Go(k, j), NextJob(j),
           child'[First].charge # NoPayment => order[child'[First].charge] # NoOrder,
           Cardinality(InUse)' + InHand' + UnderWay' + Owed' <= PaidFor'
    PROVE  SpentInv'
<1>1. job'[k] = j /\ \A l \in Workers \ {k} : job'[l] = job[l]
  BY DEF Go, TypeOK
<1>2. (\A l \in Workers : job[l].op = "grant" => IsPack(names[job[l].e]))'
  BY <1>1 DEF SpentInv, NextJob, IsPack
<1>3. (\A l \in Workers : job[l].op = "spend" => Len(job[l].ids) = Cardinality(Children))'
  BY <1>1 DEF SpentInv, NextJob
<1>4. (\A e \in Events : names[e] # NoPayment => order[names[e]] # NoOrder)'
  BY DEF SpentInv
<1>5. (child[First].charge # NoPayment => order[child[First].charge] # NoOrder)'
  OBVIOUS
<1>6. QED
  BY <1>2, <1>3, <1>4, <1>5 DEF SpentInv

(* A handler that carries no more than before, and moves no session.       *)
LEMMA GoesOnLighter ==
    ASSUME TypeOK, TypeOK', SpentInv, UNCHANGED booked, UNCHANGED <<order, names>>,
           NEW k \in Workers, NEW j, Go(k, j), NextJob(j), Carried(k)' <= Carried(k)
    PROVE  SpentInv'
<1>1. UnderWay' = UnderWay - Carried(k) + Carried(k)'
  BY UnderWayMoves
<1>2. UnderWay \in Nat /\ UnderWay' \in Int /\ Carried(k) \in Nat /\ Carried(k)' \in Nat
  <2>1. UnderWay \in Nat /\ Carried(k) \in Nat
    BY CountsNat, CarriedNat
  <2>2. Carried(k)' \in Nat
    BY CarriedNatNext
  <2>3. UnderWay' \in Int
    BY <1>1, <2>1, <2>2
  <2>4. QED
    BY <2>1, <2>2, <2>3
<1>3. UnderWay' \in Int /\ UnderWay' <= UnderWay
  BY <1>1, <1>2
<1>4. /\ Cardinality(InUse)' = Cardinality(InUse) /\ InHand' = InHand
      /\ Owed' = Owed /\ PaidFor' = PaidFor
  BY RowsUnmoved
<1>5. /\ Cardinality(InUse) \in Nat /\ InHand \in Nat /\ Owed \in Nat /\ PaidFor \in Nat
      /\ Cardinality(InUse) + InHand + UnderWay + Owed <= PaidFor
  BY CountsNat DEF SpentInv
<1>6. Cardinality(InUse)' + InHand' + UnderWay' + Owed' <= PaidFor'
  BY <1>2, <1>3, <1>4, <1>5
<1>7. child'[First].charge # NoPayment => order[child'[First].charge] # NoOrder
  BY DEF SpentInv, booked
<1>8. QED
  BY <1>6, <1>7, GoesOn

(* Of those most carry nothing.                                            *)
LEMMA GoesOnEmpty ==
    ASSUME TypeOK, TypeOK', SpentInv, UNCHANGED booked, UNCHANGED <<order, names>>,
           NEW k \in Workers, NEW j, Go(k, j), j.op \notin {"take", "spend", "putback"},
           j.op = "grant" => IsPack(names[j.e])
    PROVE  SpentInv'
<1>1. job'[k] = j
  BY DEF Go, TypeOK
<1>2. Carried(k)' = 0
  BY <1>1 DEF Carried
<1>3. Carried(k)' <= Carried(k)
  BY <1>2, CarriedNat
<1>4. QED
  BY <1>3, GoesOnLighter DEF NextJob

LEMMA CountsNatNext ==
    ASSUME TypeOK'
    PROVE  Cardinality(InUse)' \in Nat
<1>1. PICK B : B = {c \in Children : child'[c].status \in {"booked", "late"}}
  OBVIOUS
<1>2. Cardinality(B) \in Nat
  BY <1>1, ChildrenAssumption, FS_Subset, FS_CardinalityType
<1>3. QED
  BY <1>1, <1>2 DEF InUse

LEMMA AtMostBoth ==
    ASSUME NEW A, IsFiniteSet(A), NEW C, IsFiniteSet(C), NEW P, P \subseteq C, NEW B, B \subseteq A \cup P
    PROVE  Cardinality(B) <= Cardinality(A) + Cardinality(C)
<1>1. IsFiniteSet(P) /\ Cardinality(P) <= Cardinality(C)
  BY FS_Subset
<1>2. IsFiniteSet(A \cup P) /\ Cardinality(A \cup P) = Cardinality(A) + Cardinality(P) - Cardinality(A \cap P)
  BY <1>1, FS_Union
<1>3. IsFiniteSet(A \cap P)
  BY FS_Intersection
<1>4. IsFiniteSet(B) /\ Cardinality(B) <= Cardinality(A \cup P)
  BY <1>2, FS_Subset
<1>5. /\ Cardinality(A) \in Nat /\ Cardinality(P) \in Nat /\ Cardinality(C) \in Nat
      /\ Cardinality(A \cap P) \in Nat /\ Cardinality(B) \in Nat
  BY <1>1, <1>3, <1>4, FS_CardinalityType
<1>6. QED
  BY <1>1, <1>2, <1>4, <1>5

(* The booking by payment: at most all its children's sessions, and a pack *)
(* owes the rest.                                                          *)
LEMMA BookSpends ==
    ASSUME TypeOK, TypeOK', RowsInv, JobsTrue, SpentInv, NEW k \in Workers, Book(k)
    PROVE  SpentInv'
<1> DEFINE e == job[k].e
<1> DEFINE p == names[e]
<1>1. e \in Events /\ p # NoPayment /\ UNCHANGED <<order, names, credit>>
  BY Named DEF Book, Handled, Handling, world
<1>2. CASE UNCHANGED child
  <2>1. PICK j \in {SettleJob(e, child[First]), At("credit", e), KeepJob(e, "session_full")} :
           Go(k, j) /\ UNCHANGED booked
    <3>1. CASE \E j \in {SettleJob(e, child[First]), At("credit", e), KeepJob(e, "session_full")} : Go(k, j)
      BY <1>1, <1>2, <3>1 DEF booked
    <3>2. CASE Pending # {} /\ child' = BookedBy(p)
      <4>1. PICK c \in Pending : TRUE
        BY <3>2
      <4>2. child[c].status = "pending" /\ child[c] \in Booking
        BY <4>1 DEF Pending, TypeOK
      <4>3. child'[c].status = "booked"
        BY <3>2, <4>1, <4>2 DEF Pending, BookedBy, Booking
      <4>4. QED
        BY <1>2, <4>2, <4>3
    <3>3. QED
      BY <3>1, <3>2 DEF Book, EventOf
  <2>2. j.op \notin {"take", "spend", "putback", "grant"}
    BY <2>1 DEF SettleJob, At, KeepJob
  <2>3. QED
    BY <1>1, <2>1, <2>2, GoesOnEmpty
<1>3. CASE /\ Pending # {} /\ child' = BookedBy(p)
           /\ Go(k, IF IsPack(p) THEN GrantJob(e, "confirm") ELSE ConfirmJob(e, Children))
  <2>1. PICK j : j = IF IsPack(p) THEN GrantJob(e, "confirm") ELSE ConfirmJob(e, Children)
    OBVIOUS
  <2>2. Go(k, j) /\ j.op \notin {"take", "spend", "putback"} /\ (j.op = "grant" => IsPack(names[j.e]))
    BY <1>3, <2>1 DEF GrantJob, ConfirmJob
  <2>3. First \in Pending /\ First \in Children /\ child[First] \in Booking
    BY <1>3, Kids DEF Pending, RowsInv, Together, TypeOK
  <2>4. child[First].status = "pending" /\ child[First].charge = NoPayment /\ child[First].credit = None
    BY <2>3 DEF Pending, RowsInv, Unclaimed
  <2>5. child'[First].charge = p /\ child'[First].credit = None
    BY <1>3, <2>3, <2>4 DEF BookedBy, Booking
  <2>6. Cardinality(InUse)' <= Cardinality(InUse) + Cardinality(Children)
    <3>1. PICK A, B, P : A = InUse /\ P = Pending /\ B = {c \in Children : child'[c].status \in {"booked", "late"}}
      OBVIOUS
    <3>2. \A c \in Children : child'[c].status \in {"booked", "late"} => c \in InUse \/ c \in Pending
      BY <1>3 DEF BookedBy, InUse
    <3>3. B \subseteq A \cup P /\ P \subseteq Children
      BY <3>1, <3>2 DEF Pending
    <3>4. IsFiniteSet(A)
      BY <3>1, CountsNat
    <3>5. Cardinality(B) <= Cardinality(A) + Cardinality(Children) 
      BY <3>3, <3>4, ChildrenAssumption, AtMostBoth
    <3>6. QED
      BY <3>1, <3>5 DEF InUse
  <2>7. InHand' = InHand
    BY <1>1 DEF InHand
  <2>8. UnderWay' = UnderWay
    <3>1. Carried(k) = 0
      BY DEF Carried, Book
    <3>2. Carried(k)' = 0
      BY <2>2, GoDone DEF Carried
    <3>3. QED
      BY <2>2, <3>1, <3>2, UnderWayMoves, CountsNat
  <2>9. Owed = 0 /\ PaidFor = OwnCredit
    BY <2>4, WorthAssumption DEF Owed, PaidFor
  <2>10. PaidFor' = OwnCredit + Worth(p) /\ Owed' = Worth(p) - Cardinality(Children)
    <3>1. PaidFor' = OwnCredit + (IF p = NoPayment THEN 0 ELSE Worth(p))
      BY <1>1, <2>5 DEF PaidFor, Worth, IsPack
    <3>2. Owed' = IF IsPack(p) THEN PackSessions - Cardinality(Children) ELSE 0
      BY <1>1, <2>5 DEF Owed, IsPack
    <3>3. QED
      BY <1>1, <3>1, <3>2, Kids DEF Worth
  <2>11. Cardinality(InUse)' + InHand' + UnderWay' + Owed' <= PaidFor'
    <3>1. Cardinality(InUse) + InHand + UnderWay + Owed <= PaidFor
      BY DEF SpentInv
    <3>2. Cardinality(InUse)' \in Nat
      BY CountsNatNext
    <3>3. Cardinality(Children) \in Nat /\ Worth(p) \in Nat /\ OwnCredit \in Nat
      BY Kids, WorthAssumption DEF Worth
    <3>4. QED
      BY <2>6, <2>7, <2>8, <2>9, <2>10, <3>1, <3>2, <3>3, CountsNat
  <2>12. child'[First].charge # NoPayment => order[child'[First].charge] # NoOrder
    BY <1>1, <2>5 DEF SpentInv
  <2>13. QED
    BY <1>1, <2>2, <2>11, <2>12, GoesOn DEF NextJob
<1>4. QED
  BY <1>2, <1>3 DEF Book, EventOf

(* What a pack leaves becomes credit, and is owed no more.                 *)
LEMMA GrantSpends ==
    ASSUME TypeOK, TypeOK', JobsTrue, SpentInv, NEW k \in Workers, Grant(k)
    PROVE  SpentInv'
<1> DEFINE e == job[k].e
<1> DEFINE p == names[e]
<1>1. e \in Events /\ p # NoPayment /\ UNCHANGED <<order, names>> /\ child[First].charge = p /\ IsPack(p)
  BY Named DEF Grant, Handled, Handling, world, JobsTrue, JobTrue, SpentInv
<1>2. PICK j : j = IF job[k].then = "confirm" THEN ConfirmJob(e, Children) ELSE At("finish", e)
  OBVIOUS
<1>3. Go(k, j) /\ j.op \notin {"take", "spend", "putback", "grant"}
  BY <1>2 DEF Grant, EventOf, ConfirmJob, At
<1>4. CASE UNCHANGED booked
  BY <1>1, <1>3, <1>4, GoesOnEmpty
<1>5. CASE /\ child[First].credit = None
           /\ credit' = NewCredit(PackSessions - Cardinality(Children), p)
           /\ child' = [c \in Children |-> IF child[c].credit = None
                                           THEN [child[c] EXCEPT !.credit = Len(credit) + 1] ELSE child[c]]
  <2>1. \A c \in Children : child'[c].status = child[c].status /\ child'[c].charge = child[c].charge
    BY GrantRows
  <2>2. Cardinality(InUse)' = Cardinality(InUse)
    BY <2>1 DEF InUse
  <2>3. InHand' = InHand + (PackSessions - Cardinality(Children))
    BY <1>5, Kids, InHandGrows
  <2>4. UnderWay' = UnderWay
    <3>1. Carried(k) = 0
      BY DEF Carried, Grant
    <3>2. Carried(k)' = 0
      BY <1>3, GoDone DEF Carried
    <3>3. QED
      BY <1>3, <3>1, <3>2, UnderWayMoves, CountsNat
  <2>5. Owed = PackSessions - Cardinality(Children)
    BY <1>1, <1>5 DEF Owed
  <2>6. child'[First].credit # None
    <3>1. child[First] \in Booking /\ First \in Children /\ Len(credit) + 1 # None
      BY Kids, CreditRows DEF TypeOK, None
    <3>2. QED
      BY <1>5, <3>1 DEF Booking
  <2>7. Owed' = 0
    BY <2>6 DEF Owed
  <2>8. PaidFor' = PaidFor
    BY <1>1, <2>1, Kids DEF PaidFor, Worth, IsPack
  <2>9. Cardinality(InUse)' + InHand' + UnderWay' + Owed' <= PaidFor'
    <3>1. Cardinality(InUse) + InHand + UnderWay + Owed <= PaidFor
      BY DEF SpentInv
    <3>2. QED
      BY <2>2, <2>3, <2>4, <2>5, <2>7, <2>8, <3>1, CountsNat, Kids
  <2>10. child'[First].charge # NoPayment => order[child'[First].charge] # NoOrder
    BY <2>1, Kids DEF SpentInv
  <2>11. QED
    BY <1>1, <1>3, <2>9, <2>10, GoesOn DEF NextJob
<1>6. QED
  BY <1>4, <1>5 DEF Grant, Grantable, PaidBy, EventOf

(* The whole payment becomes credit.                                       *)
LEMMA CreditInsteadSpends ==
    ASSUME TypeOK, TypeOK', RowsInv, JobsTrue, SpentInv, NEW k \in Workers, CreditInstead(k)
    PROVE  SpentInv'
<1> DEFINE e == job[k].e
<1> DEFINE p == names[e]
<1>1. e \in Events /\ p # NoPayment /\ UNCHANGED <<order, names>>
  BY Named DEF CreditInstead, Handled, Handling, world
<1>2. CASE child[First].status # "pending"
  <2>1. PICK j : j = SettleJob(e, child[First])
    OBVIOUS
  <2>2. Go(k, j) /\ UNCHANGED booked
    BY <1>2, <2>1 DEF CreditInstead, EventOf
  <2>3. j.op \notin {"take", "spend", "putback", "grant"}
    BY <2>1 DEF SettleJob
  <2>4. QED
    BY <1>1, <2>2, <2>3, GoesOnEmpty
<1>3. CASE child[First].status = "pending"
  <2>1. /\ credit' = NewCredit(Worth(p), p)
        /\ child' = [c \in Children |->
                IF c \in Pending THEN [status |-> "cancelled", charge |-> p, credit |-> Len(credit) + 1] ELSE child[c]]
    BY <1>3 DEF CreditInstead, EventOf, PaidBy
  <2>2. PICK j : j = KeepJob(e, "session_cancelled")
    OBVIOUS
  <2>3. Go(k, j) /\ j.op \notin {"take", "spend", "putback", "grant"}
    BY <1>3, <2>2 DEF CreditInstead, EventOf, KeepJob
  <2>4. Worth(p) \in Nat /\ OwnCredit \in Nat
    BY Kids, WorthAssumption DEF Worth
  <2>5. InHand' = InHand + Worth(p)
    BY <2>1, <2>4, InHandGrows
  <2>6. Cardinality(InUse)' = Cardinality(InUse)
    <3>1. \A c \in Children : child'[c].status \in {"booked", "late"} <=> child[c].status \in {"booked", "late"}
      BY <2>1 DEF Pending
    <3>2. InUse' = InUse
      BY <3>1 DEF InUse
    <3>3. QED
      BY <3>2
  <2>7. UnderWay' = UnderWay
    <3>1. Carried(k) = 0
      BY DEF Carried, CreditInstead
    <3>2. Carried(k)' = 0
      BY <2>3, GoDone DEF Carried
    <3>3. QED
      BY <2>3, <3>1, <3>2, UnderWayMoves, CountsNat
  <2>8. child[First].charge = NoPayment /\ child'[First].charge = p /\ child'[First].credit # None
    <3>1. First \in Pending /\ child[First].charge = NoPayment
      BY <1>3, Kids DEF Pending, RowsInv, Unclaimed
    <3>2. Len(credit) + 1 # None
      BY CreditRows DEF None
    <3>3. QED
      BY <2>1, <3>1, <3>2, Kids
  <2>9. Owed = 0 /\ Owed' = 0 /\ PaidFor = OwnCredit
    BY <2>4, <2>8 DEF Owed, PaidFor
  <2>10. PaidFor' = OwnCredit + Worth(p)
    BY <1>1, <2>8 DEF PaidFor, Worth, IsPack
  <2>11. Cardinality(InUse)' + InHand' + UnderWay' + Owed' <= PaidFor'
    <3>1. Cardinality(InUse) + InHand + UnderWay + Owed <= PaidFor
      BY DEF SpentInv
    <3>2. QED
      BY <2>4, <2>5, <2>6, <2>7, <2>9, <2>10, <3>1, CountsNat
  <2>12. child'[First].charge # NoPayment => order[child'[First].charge] # NoOrder
    BY <1>1, <2>8 DEF SpentInv
  <2>13. QED
    BY <1>1, <2>3, <2>11, <2>12, GoesOn DEF NextJob
<1>4. QED
  BY <1>2, <1>3

(* A checkout with credits: each is taken, booked with, or put back.       *)
LEMMA TakeSpends ==
    ASSUME TypeOK, TypeOK', SpentInv, NEW k \in Workers, Take(k)
    PROVE  SpentInv'
<1>1. UNCHANGED <<order, names, child>> /\ job[k].ids \in Seq(Nat) /\ job[k].op = "take"
  BY JobFields DEF Take, world
<1>2. ASSUME NEW op \in {"spend", "putback"}, Go(k, CreditsJob(op, job[k].ids)), UNCHANGED credit,
             op = "spend" => Len(job[k].ids) = Cardinality(Children)
      PROVE  SpentInv'
  <2>1. PICK j, ids : j = CreditsJob(op, job[k].ids) /\ ids = job[k].ids
    OBVIOUS
  <2>2. j.op = op /\ j.ids = ids /\ Go(k, j)
    BY <1>2, <2>1 DEF CreditsJob
  <2>3. Carried(k) = Len(ids) /\ Carried(k)' = Len(ids)
    BY <1>1, <2>1, <2>2, GoDone DEF Carried
  <2>4. Carried(k)' <= Carried(k)
    BY <1>1, <2>1, <2>3
  <2>5. QED
    BY <1>1, <1>2, <2>1, <2>2, <2>4, GoesOnLighter DEF NextJob, booked
<1>3. ASSUME NEW i \in Usable, credit' = [credit EXCEPT ![i].left = credit[i].left - 1],
             Go(k, CreditsJob("take", Append(job[k].ids, i)))
      PROVE  SpentInv'
  <2>1. PICK j, ids, n : j = CreditsJob("take", Append(job[k].ids, i)) /\ ids = job[k].ids /\ n = credit[i].left - 1
    OBVIOUS
  <2>2. Go(k, j) /\ j.op = "take" /\ j.ids = Append(ids, i)
    BY <1>3, <2>1 DEF CreditsJob
  <2>3. i \in DOMAIN credit /\ credit[i].left \in Nat /\ n \in Nat
    BY <1>3, <2>1, CreditsFinite DEF Usable
  <2>4. InHand' = InHand - credit[i].left + n
    BY <1>3, <2>1, <2>3, InHandMoves
  <2>5. Carried(k) = Len(ids) /\ Carried(k)' = Len(ids) + 1 /\ Len(ids) \in Nat
    BY <1>1, <2>1, <2>2, GoDone DEF Carried
  <2>6. UnderWay' = UnderWay + 1
    BY <2>2, <2>5, UnderWayMoves, CountsNat
  <2>7. Cardinality(InUse)' = Cardinality(InUse) /\ Owed' = Owed /\ PaidFor' = PaidFor
    BY <1>1 DEF InUse, Owed, PaidFor, Worth, IsPack
  <2>8. Cardinality(InUse)' + InHand' + UnderWay' + Owed' <= PaidFor'
    <3>1. Cardinality(InUse) + InHand + UnderWay + Owed <= PaidFor
      BY DEF SpentInv
    <3>2. InHand' = InHand - 1
      BY <2>1, <2>3, <2>4, CountsNat
    <3>3. QED
      BY <2>6, <2>7, <3>1, <3>2, CountsNat
  <2>9. QED
    BY <1>1, <2>2, <2>8, GoesOn DEF NextJob, SpentInv
<1>4. CASE Len(job[k].ids) = Cardinality(Children) /\ Go(k, CreditsJob("spend", job[k].ids)) /\ UNCHANGED credit
  BY <1>2, <1>4
<1>5. CASE Go(k, CreditsJob("putback", job[k].ids)) /\ UNCHANGED credit
  BY <1>2, <1>5
<1>6. QED
  BY <1>3, <1>4, <1>5 DEF Take

LEMMA SpendSpends ==
    ASSUME TypeOK, TypeOK', SpentInv, NEW k \in Workers, Spend(k)
    PROVE  SpentInv'
<1>1. UNCHANGED <<order, names, credit>> /\ job[k].ids \in Seq(Nat) /\ job[k].op = "spend"
      /\ Len(job[k].ids) = Cardinality(Children)
  BY JobFields DEF Spend, world, SpentInv
<1>2. CASE Go(k, CreditsJob("putback", job[k].ids)) /\ UNCHANGED child
  <2>1. PICK j, ids : j = CreditsJob("putback", job[k].ids) /\ ids = job[k].ids
    OBVIOUS
  <2>2. j.op = "putback" /\ j.ids = ids /\ Go(k, j)
    BY <1>2, <2>1 DEF CreditsJob
  <2>3. Carried(k) = Len(ids) /\ Carried(k)' = Len(ids)
    BY <1>1, <2>1, <2>2, GoDone DEF Carried
  <2>4. Carried(k)' <= Carried(k)
    BY <1>1, <2>1, <2>3
  <2>5. QED
    BY <1>1, <1>2, <2>1, <2>2, <2>4, GoesOnLighter DEF NextJob, booked
<1>3. CASE /\ Go(k, ConfirmJob(NoEvent, Children))
           /\ \A c \in Children :
                 /\ child'[c].charge = child[c].charge
                 /\ c \in Pending => child'[c].status = "booked" /\ child'[c].credit # None
                 /\ c \notin Pending => child'[c] = child[c]
  <2>1. PICK j : j = ConfirmJob(NoEvent, Children)
    OBVIOUS
  <2>2. Go(k, j) /\ j.op = "confirm"
    BY <1>3, <2>1 DEF ConfirmJob
  <2>3. Carried(k) = Cardinality(Children) /\ Carried(k)' = 0
    BY <1>1, <2>2, GoDone DEF Carried
  <2>4. UnderWay' = UnderWay - Cardinality(Children)
    BY <2>2, <2>3, UnderWayMoves, CountsNat, Kids
  <2>5. Cardinality(InUse)' <= Cardinality(InUse) + Cardinality(Children)
    <3>1. PICK A, B, P : A = InUse /\ P = Pending /\ B = {c \in Children : child'[c].status \in {"booked", "late"}}
      OBVIOUS
    <3>2. \A c \in Children : child'[c].status \in {"booked", "late"} => c \in InUse \/ c \in Pending
      BY <1>3 DEF InUse
    <3>3. B \subseteq A \cup P /\ P \subseteq Children
      BY <3>1, <3>2 DEF Pending
    <3>4. IsFiniteSet(A)
      BY <3>1, CountsNat
    <3>5. Cardinality(B) <= Cardinality(A) + Cardinality(Children)
      BY <3>3, <3>4, ChildrenAssumption, AtMostBoth
    <3>6. QED
      BY <3>1, <3>5 DEF InUse
  <2>6. InHand' = InHand
    BY <1>1 DEF InHand
  <2>7. child'[First].charge = child[First].charge /\ (child[First].credit # None => child'[First].credit # None)
    BY <1>3, Kids
  <2>8. PaidFor' = PaidFor
    BY <1>1, <2>7 DEF PaidFor, Worth, IsPack
  <2>9. Owed' \in Nat /\ Owed' <= Owed
    BY <1>1, <2>7, Kids DEF Owed, IsPack
  <2>10. Cardinality(InUse)' + InHand' + UnderWay' + Owed' <= PaidFor'
    <3>1. Cardinality(InUse) + InHand + UnderWay + Owed <= PaidFor
      BY DEF SpentInv
    <3>2. Cardinality(InUse)' \in Nat
      BY CountsNatNext
    <3>3. QED
      BY <2>4, <2>5, <2>6, <2>8, <2>9, <3>1, <3>2, CountsNat, Kids
  <2>11. QED
    BY <1>1, <2>2, <2>7, <2>10, GoesOn DEF NextJob, SpentInv
<1>4. QED
  BY <1>2, <1>3, SpendRows

LEMMA PutBackSpends ==
    ASSUME TypeOK, TypeOK', SpentInv, NEW k \in Workers, PutBack(k)
    PROVE  SpentInv'
<1>1. UNCHANGED <<order, names, child>> /\ job[k].ids \in Seq(Nat) /\ job[k].op = "putback"
  BY JobFields DEF PutBack, world
<1>2. CASE job[k].ids = <<>>
  <2>1. Go(k, Idle) /\ UNCHANGED booked /\ Idle.op = "idle"
    BY <1>1, <1>2 DEF PutBack, booked, Idle
  <2>2. PICK j : j = Idle
    OBVIOUS
  <2>3. QED
    BY <1>1, <2>1, <2>2, GoesOnEmpty
<1>3. CASE job[k].ids # <<>>
  <2>1. PICK ids, i, n, j : /\ ids = job[k].ids /\ i = Head(job[k].ids) /\ n = credit[Head(job[k].ids)].left + 1
                            /\ j = CreditsJob("putback", Tail(job[k].ids))
    OBVIOUS
  <2>2. credit' = [credit EXCEPT ![i].left = n] /\ Go(k, j)
    BY <1>3, <2>1 DEF PutBack
  <2>3. j.op = "putback" /\ j.ids = Tail(ids) /\ Len(ids) \in Nat /\ Len(Tail(ids)) = Len(ids) - 1
    BY <1>1, <1>3, <2>1, HeadTailProperties DEF CreditsJob
  <2>4. Carried(k) = Len(ids) /\ Carried(k)' = Len(ids) - 1
    BY <1>1, <2>1, <2>2, <2>3, GoDone DEF Carried
  <2>5. UnderWay' = UnderWay - 1
    BY <2>2, <2>3, <2>4, UnderWayMoves, CountsNat
  <2>6. InHand' \in Int /\ InHand' <= InHand + 1
    <3>1. CASE i \in DOMAIN credit
      <4>1. credit[i].left \in Nat /\ n = credit[i].left + 1 /\ n \in Nat
        BY <2>1, <3>1, CreditsFinite
      <4>2. InHand' = InHand - credit[i].left + n
        BY <2>2, <3>1, <4>1, InHandMoves
      <4>3. QED
        BY <4>1, <4>2, CountsNat
    <3>2. CASE i \notin DOMAIN credit
      <4>1. credit' = credit
        BY <2>2, <3>2, CreditRows DEF TypeOK
      <4>2. InHand' = InHand
        BY <4>1 DEF InHand
      <4>3. QED
        BY <4>2, CountsNat
    <3>3. QED
      BY <3>1, <3>2
  <2>7. Cardinality(InUse)' = Cardinality(InUse) /\ Owed' = Owed /\ PaidFor' = PaidFor
    BY <1>1 DEF InUse, Owed, PaidFor, Worth, IsPack
  <2>8. Cardinality(InUse)' + InHand' + UnderWay' + Owed' <= PaidFor'
    <3>1. Cardinality(InUse) + InHand + UnderWay + Owed <= PaidFor
      BY DEF SpentInv
    <3>2. QED
      BY <2>5, <2>6, <2>7, <3>1, CountsNat
  <2>9. QED
    BY <1>1, <2>2, <2>3, <2>8, GoesOn DEF NextJob, SpentInv
<1>4. QED
  BY <1>2, <1>3

(* A cancel or a give-back: what leaves a booking is what a credit gains.  *)
LEMMA LeavesUse ==
    ASSUME TypeOK, NEW c \in InUse, NEW status, status \notin {"booked", "late"}, child'[c].status = status,
           \A d \in Children \ {c} : child'[d].status = child[d].status
    PROVE  Cardinality(InUse)' = Cardinality(InUse) - 1
<1>1. PICK A, B : A = InUse /\ B = {d \in Children : child'[d].status \in {"booked", "late"}}
  OBVIOUS
<1>2. B = A \ {c}
  BY <1>1 DEF InUse
<1>3. IsFiniteSet(A) /\ c \in A
  BY <1>1, CountsNat
<1>4. Cardinality(A \ {c}) = Cardinality(A) - 1
  BY <1>3, FS_RemoveElement
<1>5. QED
  BY <1>1, <1>2, <1>4 DEF InUse

LEMMA RowsSpend ==
    ASSUME TypeOK, SpentInv, UNCHANGED <<order, names, job>>,
           child'[First].charge = child[First].charge,
           child[First].credit # None => child'[First].credit # None,
           Cardinality(InUse)' \in Int, InHand' \in Int,
           Cardinality(InUse)' + InHand' <= Cardinality(InUse) + InHand
    PROVE  SpentInv'
<1>1. PaidFor' = PaidFor
  BY DEF PaidFor, Worth, IsPack
<1>2. Owed' \in Nat /\ Owed' <= Owed
  BY Kids DEF Owed, IsPack
<1>3. UnderWay' = UnderWay
  BY DEF UnderWay, Carried
<1>4. Cardinality(InUse) + InHand + UnderWay + Owed <= PaidFor
  BY DEF SpentInv
<1>5. Cardinality(InUse)' + InHand' + UnderWay' + Owed' <= PaidFor'
  BY <1>1, <1>2, <1>3, <1>4, CountsNat
<1>6. /\ (\A l \in Workers : job[l].op = "grant" => IsPack(names[job[l].e]))'
      /\ (\A l \in Workers : job[l].op = "spend" => Len(job[l].ids) = Cardinality(Children))'
  BY DEF SpentInv, IsPack
<1>7. /\ (\A e \in Events : names[e] # NoPayment => order[names[e]] # NoOrder)'
      /\ (child[First].charge # NoPayment => order[child[First].charge] # NoOrder)'
  BY DEF SpentInv
<1>8. QED
  BY <1>5, <1>6, <1>7 DEF SpentInv

LEMMA GiveBackSpends ==
    ASSUME TypeOK, SpentInv, UNCHANGED <<order, names, job>>, NEW c \in InUse, GiveBack(c, "cancelled")
    PROVE  SpentInv'
<1>1. c \in Children /\ child[c].status # "pending" /\ child[c] \in Booking
  BY DEF InUse, TypeOK
<1>2. Untouched
  BY <1>1, GiveBackRows
<1>3. child'[c].status = "cancelled" /\ \A d \in Children \ {c} : child'[d] = child[d]
  BY <1>1 DEF GiveBack, TypeOK, Booking
<1>4. Cardinality(InUse)' = Cardinality(InUse) - 1
  BY <1>3, LeavesUse
<1>5. InHand' \in Int /\ InHand' <= InHand + 1
  <2>1. CASE child[c].credit # None
    <3>1. PICK i, n : i = child[c].credit /\ n = credit[child[c].credit].left + 1
      OBVIOUS
    <3>2. credit' = [credit EXCEPT ![i].left = n]
      BY <2>1, <3>1 DEF GiveBack
    <3>3. CASE i \in DOMAIN credit
      <4>1. credit[i].left \in Nat /\ n = credit[i].left + 1 /\ n \in Nat
        BY <3>1, <3>3, CreditsFinite
      <4>2. InHand' = InHand - credit[i].left + n
        BY <3>2, <3>3, <4>1, InHandMoves
      <4>3. QED
        BY <4>1, <4>2, CountsNat
    <3>4. CASE i \notin DOMAIN credit
      <4>1. credit' = credit
        BY <3>2, <3>4, CreditRows DEF TypeOK
      <4>2. InHand' = InHand
        BY <4>1 DEF InHand
      <4>3. QED
        BY <4>2, CountsNat
    <3>5. QED
      BY <3>3, <3>4
  <2>2. CASE child[c].credit = None /\ PaidDropIn(c)
    <3>1. credit' = NewCredit(1, NoPayment)
      BY <2>2 DEF GiveBack
    <3>2. InHand' = InHand + 1
      BY <3>1, InHandGrows
    <3>3. QED
      BY <3>2, CountsNat
  <2>3. CASE child[c].credit = None /\ ~PaidDropIn(c)
    <3>1. credit' = credit
      BY <2>3 DEF GiveBack
    <3>2. InHand' = InHand
      BY <3>1 DEF InHand
    <3>3. QED
      BY <3>2, CountsNat
  <2>4. QED
    BY <2>1, <2>2, <2>3
<1>6. Cardinality(InUse)' \in Int /\ Cardinality(InUse)' + InHand' <= Cardinality(InUse) + InHand
  BY <1>4, <1>5, CountsNat
<1>7. child'[First].charge = child[First].charge /\ (child[First].credit # None => child'[First].credit # None)
  BY <1>2, Kids DEF Untouched
<1>8. QED
  BY <1>5, <1>6, <1>7, RowsSpend

LEMMA CancelSpends ==
    ASSUME TypeOK, SpentInv, NEW c \in Children, CancelByParent(c) \/ Waive(c) \/ CancelSessionBooking(c)
    PROVE  SpentInv'
<1>1. UNCHANGED <<order, names, job>> /\ c \in InUse
  BY DEF CancelByParent, Waive, Waivable, CancelSessionBooking, world, InUse
<1>2. CASE GiveBack(c, "cancelled")
  BY <1>1, <1>2, GiveBackSpends
<1>3. CASE child' = [child EXCEPT ![c].status = "late"] /\ UNCHANGED credit
  <2>1. \A d \in Children : /\ child'[d].status \in {"booked", "late"} <=> child[d].status \in {"booked", "late"}
                            /\ child'[d].charge = child[d].charge /\ child'[d].credit = child[d].credit
    BY <1>1, <1>3 DEF TypeOK, Booking, InUse
  <2>2. InUse' = InUse /\ InHand' = InHand
    BY <1>3, <2>1 DEF InUse, InHand
  <2>3. Cardinality(InUse)' = Cardinality(InUse)
    BY <2>2
  <2>4. QED
    BY <1>1, <2>1, <2>2, <2>3, RowsSpend, CountsNat, Kids
<1>4. QED
  BY <1>2, <1>3 DEF CancelByParent, Waive, CancelSessionBooking

LEMMA StepSpends ==
    ASSUME TypeOK, TypeOK', RowsInv, JobsTrue, SpentInv, NEW k \in Workers, Step(k)
    PROVE  SpentInv'
<1>1. CASE Look(k)
  <2>1. UNCHANGED booked /\ UNCHANGED <<order, names>>
    BY <1>1 DEF Look, world
  <2>2. PICK j \in {KeepJob(job[k].e, r) : r \in Reasons}
                  \cup {SettleJob(job[k].e, child[First]), At("credit", job[k].e), At("book", job[k].e)} : Go(k, j)
    BY <1>1 DEF Look, EventOf, Reasons
  <2>3. j.op \notin {"take", "spend", "putback", "grant"}
    BY <2>2 DEF KeepJob, SettleJob, At
  <2>4. QED
    BY <2>1, <2>2, <2>3, GoesOnEmpty
<1>2. CASE Confirm(k)
  <2>1. UNCHANGED booked /\ UNCHANGED <<order, names>>
    BY <1>2 DEF Confirm, world
  <2>2. PICK j \in {Idle, At("finish", job[k].e)} \cup {ConfirmJob(job[k].e, job[k].left \ {c}) : c \in job[k].left} : Go(k, j)
    BY <1>2 DEF Confirm, EventOf
  <2>3. j.op \notin {"take", "spend", "putback", "grant"}
    BY <2>2 DEF Idle, At, ConfirmJob
  <2>4. QED
    BY <2>1, <2>2, <2>3, GoesOnEmpty
<1>3. CASE Settle(k)
  <2>1. UNCHANGED booked /\ UNCHANGED <<order, names>>
    BY <1>3 DEF Settle, world
  <2>2. CASE Begun(job[k].e, job[k].seen) /\ Go(k, GrantJob(job[k].e, "finish"))
    <3>1. PICK j : j = GrantJob(job[k].e, "finish")
      OBVIOUS
    <3>2. j.op = "grant" /\ IsPack(names[j.e]) /\ Go(k, j)
      BY <2>2, <3>1 DEF GrantJob, Begun
    <3>3. QED
      BY <2>1, <3>2, GoesOnEmpty
  <2>3. CASE \E j \in {At("finish", job[k].e)} \cup {KeepJob(job[k].e, r) : r \in Reasons} : Go(k, j)
    <3>1. PICK j \in {At("finish", job[k].e)} \cup {KeepJob(job[k].e, r) : r \in Reasons} : Go(k, j)
      BY <2>3
    <3>2. j.op \notin {"take", "spend", "putback", "grant"}
      BY <3>1 DEF At, KeepJob
    <3>3. QED
      BY <2>1, <3>1, <3>2, GoesOnEmpty
  <2>4. QED
    BY <1>3, <2>2, <2>3 DEF Settle, EventOf, FinishBegun, SecondPayment, Reasons
<1>4. CASE Keep(k) \/ Finish(k) \/ Answer(k)
  <2>1. UNCHANGED booked /\ UNCHANGED <<order, names>>
    BY <1>4 DEF Keep, Finish, Answer, world
  <2>2. PICK j \in {At("finish", job[k].e), At("answer", job[k].e), Idle} : Go(k, j)
    BY <1>4 DEF Keep, Finish, Answer, EventOf
  <2>3. j.op \notin {"take", "spend", "putback", "grant"}
    BY <2>2 DEF Idle, At
  <2>4. QED
    BY <2>1, <2>2, <2>3, GoesOnEmpty
<1>5. QED
  BY <1>1, <1>2, <1>3, <1>4, BookSpends, GrantSpends, CreditInsteadSpends, TakeSpends, SpendSpends, PutBackSpends DEF Step

LEMMA NextSpends ==
    ASSUME TypeOK, TypeOK', RowsInv, JobsTrue, SpentInv, [Next]_vars
    PROVE  SpentInv'
<1>1. ASSUME NEW r \in Reports, Report(r.event, r.payment, r.order)
      PROVE  SpentInv'
  <2>1. PICK e, p, o : e = r.event /\ p = r.payment /\ o = r.order
    OBVIOUS
  <2>2. e \in Events /\ p \in Payments /\ o \in Order /\ o # NoOrder /\ p # NoPayment
    BY <2>1, ReportsAssumption, EventsAssumption DEF Order, NoOrder
  <2>3. /\ names' = [names EXCEPT ![e] = p] /\ order' = [order EXCEPT ![p] = o] /\ order[p] \in {NoOrder, o}
        /\ UNCHANGED booked /\ job' = job
    BY <1>1, <2>1 DEF Report
  <2>4. \A q \in Payments : order[q] # NoOrder => order'[q] = order[q]
    BY <2>2, <2>3 DEF TypeOK
  <2>5. order'[p] = o
    BY <2>2, <2>3 DEF TypeOK
  <2>6. (\A d \in Events : names[d] # NoPayment => order[names[d]] # NoOrder)'
    BY <2>2, <2>3, <2>4, <2>5 DEF SpentInv, TypeOK
  <2>7. child[First].charge \in Payments \cup {NoPayment} /\ child' = child /\ credit' = credit
    BY <2>3, Kids DEF TypeOK, Booking, booked
  <2>8. child[First].charge # NoPayment => order'[child[First].charge] = order[child[First].charge]
    BY <2>4, <2>7 DEF SpentInv
  <2>9. Owed' = Owed /\ PaidFor' = PaidFor
    BY <2>7, <2>8 DEF Owed, PaidFor, Worth, IsPack
  <2>10. Cardinality(InUse)' = Cardinality(InUse) /\ InHand' = InHand /\ UnderWay' = UnderWay
    BY <2>3, <2>7 DEF InUse, InHand, UnderWay, Carried
  <2>11. (\A l \in Workers : job[l].op = "grant" => IsPack(names[job[l].e]))'
    <3>1. ASSUME NEW l \in Workers, job[l].op = "grant"
          PROVE  IsPack(names[job[l].e])'
      <4>1. job[l].e \in Events /\ names[job[l].e] # NoPayment
        BY <3>1, Named DEF Handled, Handling
      <4>2. names'[job[l].e] = names[job[l].e]
        BY <1>1, <2>1, <2>2, <2>3, <4>1 DEF Report, TypeOK
      <4>3. names[job[l].e] \in Payments /\ order[names[job[l].e]] # NoOrder
        BY <4>1 DEF TypeOK, SpentInv
      <4>4. order'[names[job[l].e]] = order[names[job[l].e]]
        BY <2>4, <4>3
      <4>5. QED
        BY <2>3, <3>1, <4>2, <4>4 DEF SpentInv, IsPack
    <3>2. QED
      BY <2>3, <3>1
  <2>12. (\A l \in Workers : job[l].op = "spend" => Len(job[l].ids) = Cardinality(Children))'
    BY <2>3 DEF SpentInv
  <2>13. (child[First].charge # NoPayment => order[child[First].charge] # NoOrder)'
    BY <2>7, <2>8 DEF SpentInv
  <2>14. (Cardinality(InUse) + InHand + UnderWay + Owed <= PaidFor)'
    BY <2>9, <2>10 DEF SpentInv
  <2>15. QED
    BY <2>6, <2>11, <2>12, <2>13, <2>14 DEF SpentInv
<1>2. ASSUME UNCHANGED <<order, names, job>>, UNCHANGED booked
      PROVE  SpentInv'
  BY <1>2, RowsSpend, RowsUnmoved, CountsNat DEF booked
<1>3. CASE Start \/ CancelSession \/ UNCHANGED vars
  BY <1>2, <1>3 DEF Start, CancelSession, vars, booked
<1>4. ASSUME NEW e \in Events, GrowStale(e)
      PROVE  SpentInv'
  BY <1>2, <1>4 DEF GrowStale, world
<1>5. ASSUME NEW e \in Events, NEW k \in Workers, Claim(k, e)
      PROVE  SpentInv'
  <2>1. PICK j : j = At("look", e)
    OBVIOUS
  <2>2. Go(k, j) /\ UNCHANGED booked /\ UNCHANGED <<order, names>> /\ j.op = "look"
    BY <1>5, <2>1 DEF Claim, world, At
  <2>3. QED
    BY <2>2, GoesOnEmpty
<1>6. ASSUME NEW e \in Events, NEW k \in Workers, AnswerAgain(k, e)
      PROVE  SpentInv'
  BY <1>2, <1>6 DEF AnswerAgain, world
<1>7. ASSUME NEW k \in Workers, Fail(k) \/ Crash(k)
      PROVE  SpentInv'
  <2>1. PICK j : j = Idle
    OBVIOUS
  <2>2. Go(k, j) /\ UNCHANGED booked /\ UNCHANGED <<order, names>> /\ j.op = "idle"
    BY <1>7, <2>1 DEF Fail, Crash, world, Idle
  <2>3. QED
    BY <2>2, GoesOnEmpty
<1>8. ASSUME NEW k \in Workers, Checkout(k)
      PROVE  SpentInv'
  <2>1. PICK j : j = CreditsJob("take", <<>>)
    OBVIOUS
  <2>2. Go(k, j) /\ UNCHANGED booked /\ UNCHANGED <<order, names>> /\ j.op = "take" /\ j.ids = <<>>
    BY <1>8, <2>1 DEF Checkout, world, CreditsJob
  <2>3. Carried(k)' = 0
    BY <2>2, GoDone DEF Carried
  <2>4. Carried(k)' <= Carried(k)
    BY <2>3, CarriedNat
  <2>5. QED
    BY <2>2, <2>4, GoesOnLighter DEF NextJob
<1>9. QED
  BY <1>1, <1>3, <1>4, <1>5, <1>6, <1>7, <1>8, StepSpends, CancelSpends DEF Next, Deliver

LEMMA InitSpends ==
    ASSUME Init
    PROVE  SpentInv
<1>1. InUse = {}
  BY DEF Init, InUse
<1>2. Cardinality(InUse) = 0
  BY <1>1, FS_EmptySet
<1>3. InHand = OwnCredit
  <2>1. PICK f : f = [i \in DOMAIN credit |-> credit[i].left]
    OBVIOUS
  <2>2. credit = <<[left |-> OwnCredit, of |-> NoPayment]>>
    BY DEF Init
  <2>3. DOMAIN credit = {1} /\ credit[1].left = OwnCredit /\ OwnCredit \in Nat
    BY <2>2, WorthAssumption
  <2>4. DOMAIN f = {1} /\ f[1] = OwnCredit
    BY <2>1, <2>3
  <2>5. SumFunctionOnSet(f, {1}) = f[1] + SumFunctionOnSet(f, {1} \ {1})
    <3>1. IsFiniteSet({1}) /\ 1 \in {1}
      BY FS_Singleton
    <3>2. \A x \in {1} : f[x] \in Nat
      BY <2>3, <2>4
    <3>3. QED
      BY <3>1, <3>2, SumTake
  <2>6. SumFunctionOnSet(f, {1} \ {1}) = 0
    BY SumEmpty
  <2>7. QED
    BY <2>1, <2>3, <2>4, <2>5, <2>6 DEF InHand, SumFunction
<1>4. UnderWay = 0
  <2>1. PICK f : f = [k \in Workers |-> Carried(k)]
    OBVIOUS
  <2>2. DOMAIN f = Workers /\ \A k \in Workers : f[k] = 0
    BY <2>1 DEF Init, Carried, Idle
  <2>3. SumFunctionOnSet(f, Workers) = 0
    BY <2>2, WorkersAssumption, SumZero
  <2>4. QED
    BY <2>1, <2>2, <2>3 DEF UnderWay, SumFunction
<1>5. child[First].charge = NoPayment /\ Owed = 0 /\ PaidFor = OwnCredit /\ OwnCredit \in Nat
  BY Kids, WorthAssumption DEF Init, Owed, PaidFor
<1>6. \A k \in Workers : job[k].op = "idle"
  BY DEF Init, Idle
<1>7. \A e \in Events : names[e] = NoPayment
  BY DEF Init
<1>8. QED
  BY <1>2, <1>3, <1>4, <1>5, <1>6, <1>7 DEF SpentInv

(* No session is made out of nothing: for any number of events, payments,   *)
(* workers, children and credits, and whatever fails or stops between two    *)
(* statements, what is booked, used up, in hand or being taken is at most    *)
(* what was paid for or held before.                                       *)
THEOREM NothingFromNothing == Spec => []NeverMoreThanPaid
<1>1. Init => TypeOK /\ Inv /\ SpentInv
  BY InitTyped, InitInv, InitSpends
<1>2. TypeOK /\ Inv /\ SpentInv /\ [Next]_vars => (TypeOK /\ Inv /\ SpentInv)'
  BY NextTyped, NextInv, NextSpends, InvParts
<1>3. TypeOK /\ SpentInv => NeverMoreThanPaid
  BY CountsNat DEF SpentInv, NeverMoreThanPaid
<1>4. QED
  BY <1>1, <1>2, <1>3, PTL DEF Spec
=============================================================================
