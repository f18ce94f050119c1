---------------------------- MODULE SignIn_proofs ----------------------------
(* What holds of SignIn for every number of phones, emails, accounts, codes *)
(* and requests, wherever a handler stops.                                  *)
EXTENDS SignIn, WellFoundedInduction, FiniteSetTheorems, TLAPS

(* A handler that has used its code or link, and not yet for anything; and *)
(* one that works on a code or link at all.                                *)
Using(j)   == j.op \in {"release", "create", "reopen", "open", "mark", "taken", "setphone", "unlock"}
Holding(j) == j.op \in {"giveback", "find", "consume"} \/ Using(j)

(* What a handler carries is there. *)
JobFits(j) ==
    /\ j.op # "idle" => j.to \in Contacts
    /\ Holding(j) => j.i \in Proofs /\ proof[j.i].to = j.to
    /\ j.op \in {"open", "mark", "taken", "setphone"} => j.c \in Coaches
    /\ j.for \in {"email", "phone"} => j.c \in Coaches
    /\ j.for \in {"phone", "credits", "link"} => j.to \in Phones
    /\ j.c \in Coaches => coach[j.c].joined
    /\ j.op \in {"taken", "setphone"} => j.for = "phone"
    /\ j.op = "unlock" => j.for = "credits"

(* Rows that are free are empty, and a contact stands where it must. *)
RowsFit ==
    /\ \A i \in Proofs : /\ proof[i].kind # "none" => proof[i].to \in Contacts
                         /\ proof[i].kind = "link" => proof[i].to \in Phones
                         /\ proof[i].kind = "none" => proof[i] = NoProof
    /\ \A c \in Coaches : ~coach[c].joined => coach[c] = NoCoach
    /\ \A s \in session : coach[s.coach].joined

RowsTyped ==
    /\ coach \in [Coaches -> Coach]
    /\ proof \in [Proofs -> Proof]
    /\ session \subseteq [coach : Coaches, proof : Proofs]
    /\ unlocked \subseteq Phones

Fits == RowsFit /\ \A k \in Workers : JobFits(job[k])

TypeInv == TypeOK /\ Fits

----------------------------------------------------------------------------
LEMMA IdleIsJob == Idle \in Job
BY DEF Idle, Job

LEMMA Smallest ==
    ASSUME NEW S, S \subseteq Nat, S # {}
    PROVE  \E n \in S : \A m \in S : n <= m
<1> DEFINE R == OpToRel(<, Nat)
<1>1. IsWellFoundedOn(R, Nat)
  BY NatLessThanWellFounded
<1> HIDE DEF R
<1>2. PICK x \in S : \A y \in S : ~(<<y, x>> \in R)
  BY <1>1, WFMin
<1>3. \A y \in S : y < x => <<y, x>> \in R
  BY DEF R, OpToRel
<1>4. \A y \in S : ~(y < x)
  BY <1>2, <1>3, Zenon
<1>5. QED
  BY <1>4

LEMMA NewProofIsFree ==
    ASSUME FreeProofs # {}
    PROVE  NewProof \in Proofs /\ proof[NewProof] = NoProof
<1>1. FreeProofs \subseteq Nat /\ FreeProofs \subseteq Proofs
  BY SignInAssumption DEF FreeProofs, Proofs
<1>2. \E n \in FreeProofs : \A m \in FreeProofs : n <= m
  BY <1>1, Smallest
<1>3. NewProof \in FreeProofs
  BY <1>2 DEF NewProof
<1>4. QED
  BY <1>1, <1>3 DEF FreeProofs

LEMMA Jobs ==
    ASSUME job \in [Workers -> Job], NEW k \in Workers, NEW j \in Job, Go(k, j)
    PROVE  job' \in [Workers -> Job] /\ \A l \in Workers : job'[l] = IF l = k THEN j ELSE job[l]
BY DEF Go

(* A step that changes one job only. *)
LEMMA OneJob ==
    ASSUME TypeInv, NEW k \in Workers, NEW j \in Job, Go(k, j), JobFits(j),
           UNCHANGED <<coach, proof, session, unlocked>>
    PROVE  TypeInv'
BY Jobs DEF TypeInv, TypeOK, RowsFit, Fits, JobFits, Coaches, Proofs, Contacts

(* What a handler carries stays there. *)
LEMMA StillFits ==
    ASSUME TypeInv, NEW j \in Job, JobFits(j),
           \A n \in Proofs : proof[n].to \in Contacts => proof'[n].to = proof[n].to,
           \A c \in Coaches : coach[c].joined => coach'[c].joined
    PROVE  JobFits(j)'
BY DEF JobFits, Holding, Using

LEMMA TypeInit == Init => TypeInv
BY IdleIsJob DEF Init, TypeInv, TypeOK, RowsFit, Fits, JobFits, Idle, Holding, Using, NoCoach, Coach, NoProof, Proof, Coaches, Proofs, Contacts

LEMMA TypeRequest ==
    ASSUME TypeInv, NEW k \in Workers, Request(k)
    PROVE  TypeInv'
<1>1. ASSUME NEW t \in Contacts, NEW purpose \in {"signin", "credits"}, SendCode(k, t, purpose)
      PROVE  TypeInv'
  <2> DEFINE j == [Idle EXCEPT !.op = "expire", !.to = t,
                          !.for = IF purpose = "credits" THEN "credits" ELSE "signin"]
  <2>1. j \in Job
    BY DEF Idle, Job
  <2>2. JobFits(j)
    BY <1>1 DEF JobFits, Idle, Holding, Using, SendCode, Coaches
  <2>3. Go(k, j) /\ UNCHANGED <<coach, proof, session, unlocked>>
    BY <1>1 DEF SendCode
  <2>4. QED
    BY <2>1, <2>2, <2>3, OneJob
<1>2. ASSUME NEW for \in {"signin", "email", "phone", "credits"}, NEW t \in Contacts,
             NEW c \in Coaches \cup {0}, NEW right \in BOOLEAN, CheckCode(k, for, t, c, right)
      PROVE  TypeInv'
  <2>1. PICK i \in Working(t, PurposeOf(for)) :
          IF right
             THEN /\ proof' = [proof EXCEPT ![i].tries = @ + 1]
                  /\ Go(k, [Idle EXCEPT !.op = "giveback", !.for = for, !.to = t, !.i = i, !.c = c])
             ELSE /\ proof' = [proof EXCEPT ![i].tries = @ + 1, ![i].wrong = @ + 1]
                  /\ UNCHANGED job
    BY <1>2 DEF CheckCode
  <2> DEFINE j == [Idle EXCEPT !.op = "giveback", !.for = for, !.to = t, !.i = i, !.c = c]
  <2>2. i \in Proofs /\ proof[i].to = t /\ proof[i].kind # "none"
    BY <2>1 DEF Working, PurposeOf
  <2>3. j \in Job
    BY <2>2 DEF Idle, Job
  <2>4. JobFits(j)
    <3>1. c \in Coaches => coach[c].joined
      BY <1>2 DEF CheckCode, MayEnter, SignedIn, TypeInv, RowsFit, Fits, TypeOK, Coaches
    <3>2. /\ for \in {"email", "phone"} => c \in Coaches
          /\ for \in {"phone", "credits"} => t \in Phones
      BY <1>2 DEF CheckCode, MayEnter
    <3>3. QED
      BY <2>2, <3>1, <3>2 DEF JobFits, Idle, Holding, Using
  <2>5. UNCHANGED <<coach, session, unlocked>>
    BY <1>2 DEF CheckCode
  <2>6. /\ proof' \in [Proofs -> Proof]
        /\ \A n \in Proofs : proof'[n].to = proof[n].to /\ proof'[n].kind = proof[n].kind
        /\ \A n \in Proofs : proof[n].kind = "none" => proof'[n] = proof[n]
    BY <2>1, <2>2 DEF TypeInv, TypeOK, Proof
  <2>7. job' \in [Workers -> Job] /\ \A l \in Workers : job'[l] = job[l] \/ job'[l] = j
    BY <2>1, <2>3, Jobs DEF TypeInv, TypeOK
  <2>8. \A l \in Workers : JobFits(job[l])'
    BY <2>3, <2>4, <2>5, <2>6, <2>7, StillFits DEF TypeInv, TypeOK, RowsFit, Fits
  <2>9. QED
    BY <2>5, <2>6, <2>7, <2>8 DEF TypeInv, TypeOK, RowsFit, Fits
<1>3. ASSUME NEW i \in Proofs, OpenStartLink(k, i)
      PROVE  TypeInv'
  <2> DEFINE j == [Idle EXCEPT !.op = "consume", !.for = "link", !.to = proof[i].to, !.i = i]
  <2>1. proof[i].to \in Phones
    BY <1>3 DEF OpenStartLink, TypeInv, RowsFit, Fits
  <2>2. UNCHANGED <<coach, proof, session, unlocked>>
    BY <1>3 DEF OpenStartLink
  <2>3. ASSUME NEW c \in ByPhone(proof[i].to), Go(k, [j EXCEPT !.c = c])
        PROVE  TypeInv'
    <3>1. c \in Coaches /\ coach[c].joined
      BY <2>1, SignInAssumption DEF ByPhone, TypeInv, RowsFit, Fits, NoCoach
    <3>2. [j EXCEPT !.c = c] \in Job
      BY <2>1, <3>1 DEF Idle, Job, Contacts
    <3>3. JobFits([j EXCEPT !.c = c])
      BY <2>1, <3>1 DEF JobFits, Idle, Holding, Using, Contacts
    <3>4. QED
      BY <2>2, <2>3, <3>2, <3>3, OneJob
  <2>4. ASSUME NEW e \in {None} \cup Emails, Go(k, [j EXCEPT !.extra = e])
        PROVE  TypeInv'
    <3>2. [j EXCEPT !.extra = e] \in Job
      BY <2>1 DEF Idle, Job, Contacts
    <3>3. JobFits([j EXCEPT !.extra = e])
      BY <2>1 DEF JobFits, Idle, Holding, Using, Contacts, Coaches
    <3>4. QED
      BY <2>2, <2>4, <3>2, <3>3, OneJob
  <2>5. QED
    BY <1>3, <2>3, <2>4 DEF OpenStartLink
<1>4. QED
  BY <1>1, <1>2, <1>3 DEF Request
(* What a step leaves of the rows. *)
KeepsFit ==
    /\ RowsTyped' /\ RowsFit'
    /\ \A n \in Proofs : proof[n].to \in Contacts => proof'[n].to = proof[n].to
    /\ \A c \in Coaches : coach[c].joined => coach'[c].joined

LEMMA AnyStep ==
    ASSUME TypeInv, NEW k \in Workers, NEW j \in Job, Go(k, j), JobFits(j)', KeepsFit
    PROVE  TypeInv'
<1>1. job' \in [Workers -> Job] /\ \A l \in Workers : job'[l] = IF l = k THEN j ELSE job[l]
  BY Jobs DEF TypeInv, TypeOK
<1>2. \A l \in Workers : JobFits(job[l])'
  BY <1>1, StillFits DEF TypeInv, Fits, TypeOK, KeepsFit
<1>3. QED
  BY <1>1, <1>2 DEF TypeInv, TypeOK, RowsTyped, Fits, KeepsFit

LEMMA IdleFits == JobFits(Idle)
BY DEF JobFits, Idle, Holding, Using, Coaches

LEMMA EndsHere ==
    ASSUME TypeInv, NEW k \in Workers, Go(k, Idle), KeepsFit
    PROVE  TypeInv'
<1>1. JobFits(Idle)'
  BY IdleFits, IdleIsJob, StillFits DEF KeepsFit
<1>2. QED
  BY <1>1, IdleIsJob, AnyStep

LEMMA JobsKept ==
    ASSUME TypeInv, KeepsFit, UNCHANGED job
    PROVE  TypeInv'
<1>1. \A l \in Workers : JobFits(job[l])'
  BY StillFits DEF TypeInv, Fits, TypeOK, KeepsFit
<1>2. QED
  BY <1>1 DEF TypeInv, TypeOK, RowsTyped, Fits, KeepsFit

(* What Step writes: the same job at its next statement. *)
At(j, k, op) == /\ j = [job[k] EXCEPT !.op = op]
                /\ j.op = op /\ j.for = job[k].for /\ j.to = job[k].to /\ j.i = job[k].i
                /\ j.c = job[k].c /\ j.extra = job[k].extra /\ j.unproved = job[k].unproved

LEMMA NextStatement ==
    ASSUME TypeInv, NEW k \in Workers,
           NEW op \in {"insert", "find", "consume", "release", "create", "reopen", "open",
                       "mark", "taken", "setphone", "unlock"}
    PROVE  \E j \in Job : At(j, k, op)
<1> DEFINE t == [job[k] EXCEPT !.op = op]
<1>1. job[k] \in Job
  BY DEF TypeInv, TypeOK
<1>2. t \in Job /\ At(t, k, op)
  BY <1>1 DEF Job, At
<1>3. QED
  BY <1>2

LEMMA StepsTo ==
    ASSUME TypeInv, NEW k \in Workers,
           NEW op \in {"insert", "find", "consume", "release", "create", "reopen", "open",
                       "mark", "taken", "setphone", "unlock"},
           Step(k, op), job[k].op # "idle", op # "insert" => Holding(job[k]),
           op \in {"open", "mark", "taken", "setphone"} => job[k].c \in Coaches,
           op \in {"taken", "setphone"} => job[k].for = "phone",
           op = "unlock" => job[k].for = "credits", KeepsFit
    PROVE  TypeInv'
<1>1. PICK j \in Job : At(j, k, op)
  BY NextStatement
<1>2. Go(k, j)
  BY <1>1 DEF Step, At
<1>3. JobFits(job[k])
  BY DEF TypeInv, Fits
<1>4. JobFits(j)
  BY <1>1, <1>3 DEF At, JobFits, Holding, Using
<1>5. JobFits(j)'
  BY <1>4, StillFits DEF KeepsFit
<1>6. QED
  BY <1>2, <1>5, AnyStep

(* A handler that works on a code or link: its row is there, and filled. *)
LEMMA HeldRow ==
    ASSUME TypeInv, NEW k \in Workers, Holding(job[k])
    PROVE  /\ job[k].i \in Proofs /\ proof[job[k].i] \in Proof
           /\ proof[job[k].i].to = job[k].to /\ job[k].to \in Contacts
BY DEF TypeInv, TypeOK, Fits, JobFits, Holding, Using

(* A step that changes the use of one code or link keeps everything. *)
LEMMA OneProof ==
    ASSUME TypeInv, NEW i \in Proofs, NEW row \in Proof, row.to = proof[i].to, row.kind = proof[i].kind,
           proof[i].to \in Contacts, proof' = [proof EXCEPT ![i] = row]
    PROVE  /\ proof' \in [Proofs -> Proof]
           /\ \A n \in Proofs : proof'[n].to = proof[n].to /\ proof'[n].kind = proof[n].kind
           /\ \A n \in Proofs : proof[n].kind = "none" => proof'[n] = proof[n]
BY SignInAssumption DEF TypeInv, TypeOK, Fits, RowsFit, NoProof, Contacts

LEMMA ProofsKept ==
    ASSUME TypeInv, proof' \in [Proofs -> Proof],
           \A n \in Proofs : proof'[n].to = proof[n].to /\ proof'[n].kind = proof[n].kind,
           \A n \in Proofs : proof[n].kind = "none" => proof'[n] = proof[n],
           UNCHANGED <<coach, session>>, unlocked' \subseteq Phones
    PROVE  KeepsFit
BY DEF TypeInv, TypeOK, RowsTyped, Fits, RowsFit, KeepsFit

LEMMA OneKept ==
    ASSUME TypeInv, NEW k \in Workers, Holding(job[k]), NEW row \in Proof,
           row.to = proof[job[k].i].to, row.kind = proof[job[k].i].kind,
           proof' = [proof EXCEPT ![job[k].i] = row],
           UNCHANGED <<coach, session>>, unlocked' \subseteq Phones
    PROVE  KeepsFit
<1>1. job[k].i \in Proofs /\ proof[job[k].i].to \in Contacts
  BY HeldRow
<1>2. /\ proof' \in [Proofs -> Proof]
      /\ \A n \in Proofs : proof'[n].to = proof[n].to /\ proof'[n].kind = proof[n].kind
      /\ \A n \in Proofs : proof[n].kind = "none" => proof'[n] = proof[n]
  BY <1>1, OneProof
<1>3. QED
  BY <1>2, ProofsKept

LEMMA RowsUnchanged ==
    ASSUME TypeInv, UNCHANGED <<coach, proof, session, unlocked>>
    PROVE  KeepsFit
BY DEF TypeInv, TypeOK, RowsTyped, Fits, RowsFit, KeepsFit

LEMMA TypeExpireEarlier ==
    ASSUME TypeInv, NEW k \in Workers, ExpireEarlier(k)
    PROVE  TypeInv'
<1>1. /\ proof' \in [Proofs -> Proof]
      /\ \A n \in Proofs : proof'[n].to = proof[n].to /\ proof'[n].kind = proof[n].kind
      /\ \A n \in Proofs : proof[n].kind = "none" => proof'[n] = proof[n]
  BY DEF ExpireEarlier, EarlierOfPurpose, Working, PurposeOf, TypeInv, TypeOK, Proof
<1>2. KeepsFit
  BY <1>1, ProofsKept DEF ExpireEarlier, TypeInv, TypeOK
<1>3. QED
  BY <1>2, StepsTo DEF ExpireEarlier

(* A fresh code or link. *)
LEMMA FreshRow ==
    ASSUME NEW kind \in {"signin", "credits", "link"}, NEW to \in Contacts
    PROVE  /\ NewRow(kind, to) \in Proof
           /\ NewRow(kind, to).kind = kind /\ NewRow(kind, to).to = to
           /\ ~NewRow(kind, to).used /\ NewRow(kind, to).tries = 0 /\ NewRow(kind, to).wrong = 0
           /\ NewRow(kind, to).by = 0 /\ NewRow(kind, to).uses = 0
<1>1. NoProof \in Proof
  BY DEF NoProof, Proof
<1>2. NewRow(kind, to) \in Proof
  BY <1>1 DEF NewRow, Proof
<1>3. NewRow(kind, to).kind = kind /\ NewRow(kind, to).to = to
  BY DEF NewRow, NoProof
<1>4. /\ ~NewRow(kind, to).used /\ NewRow(kind, to).tries = 0 /\ NewRow(kind, to).wrong = 0
      /\ NewRow(kind, to).by = 0 /\ NewRow(kind, to).uses = 0
  BY DEF NewRow, NoProof
<1>5. QED
  BY <1>2, <1>3, <1>4

(* The rows after a fresh one took a free id. *)
LEMMA FreshProof ==
    ASSUME TypeInv, FreeProofs # {}, NEW row \in Proof, row.to \in Contacts, row.kind # "none",
           row.kind = "link" => row.to \in Phones,
           proof' = [proof EXCEPT ![NewProof] = row], UNCHANGED <<coach, session, unlocked>>
    PROVE  /\ KeepsFit
           /\ \A n \in Proofs : proof'[n] = proof[n] \/ (proof'[n] = row /\ proof[n] = NoProof)
<1>1. NewProof \in Proofs /\ proof[NewProof] = NoProof
  BY NewProofIsFree
<1>2. /\ proof' \in [Proofs -> Proof]
      /\ \A n \in Proofs : proof'[n] = proof[n] \/ (proof'[n] = row /\ proof[n] = NoProof)
  BY <1>1 DEF TypeInv, TypeOK
<1>3. RowsTyped' /\ RowsFit'
  BY <1>2 DEF TypeInv, TypeOK, RowsTyped, Fits, RowsFit
<1>4. \A n \in Proofs : proof[n].to \in Contacts => proof'[n].to = proof[n].to
  BY <1>2, SignInAssumption DEF NoProof, Contacts
<1>5. QED
  BY <1>2, <1>3, <1>4 DEF KeepsFit

(* The row a fresh code takes, whose purpose is what its handler is for. *)
LEMMA InsertedRow ==
    ASSUME TypeInv, NEW k \in Workers, InsertCode(k)
    PROVE  \E row \in Proof :
              /\ proof' = [proof EXCEPT ![NewProof] = row]
              /\ row.kind \in {"signin", "credits"} /\ row.to \in Contacts
              /\ ~row.used /\ row.tries = 0 /\ row.wrong = 0 /\ row.by = 0 /\ row.uses = 0
<1>1. job[k].to \in Contacts
  BY DEF TypeInv, TypeOK, Fits, JobFits, InsertCode
<1>2. PurposeOf(job[k].for) \in {"signin", "credits"}
  BY DEF PurposeOf
<1> DEFINE row == NewRow(PurposeOf(job[k].for), job[k].to)
<1>3. /\ row \in Proof /\ row.kind \in {"signin", "credits"} /\ row.to \in Contacts
      /\ ~row.used /\ row.tries = 0 /\ row.wrong = 0 /\ row.by = 0 /\ row.uses = 0
  BY <1>1, <1>2, FreshRow
<1>4. proof' = [proof EXCEPT ![NewProof] = row]
  BY DEF InsertCode
<1> HIDE DEF row
<1>5. QED
  BY <1>3, <1>4

LEMMA TypeInsertCode ==
    ASSUME TypeInv, NEW k \in Workers, InsertCode(k)
    PROVE  TypeInv'
<1>1. PICK row \in Proof : /\ proof' = [proof EXCEPT ![NewProof] = row]
                           /\ row.kind \in {"signin", "credits"} /\ row.to \in Contacts
  BY InsertedRow
<1>2. KeepsFit
  BY <1>1, FreshProof DEF InsertCode
<1>3. QED
  BY <1>2, EndsHere DEF InsertCode

LEMMA TypeGiveBack ==
    ASSUME TypeInv, NEW k \in Workers, GiveBack(k)
    PROVE  TypeInv'
<1>1. Holding(job[k])
  BY DEF GiveBack, Holding
<1>2. KeepsFit
  <2>0. [proof[job[k].i] EXCEPT !.tries = @ - 1] \in Proof
    BY <1>1, HeldRow DEF Proof
  <2>1. PICK row \in Proof : row = [proof[job[k].i] EXCEPT !.tries = @ - 1]
    BY <2>0
  <2>2. row.to = proof[job[k].i].to /\ row.kind = proof[job[k].i].kind
    BY <1>1, <2>1, HeldRow DEF Proof
  <2>3. proof' = [proof EXCEPT ![job[k].i] = row]
    BY <2>1 DEF GiveBack
  <2>4. QED
    BY <1>1, <2>2, <2>3, OneKept DEF GiveBack, TypeInv, TypeOK
<1>3. QED
  BY <1>1, <1>2, StepsTo DEF GiveBack

(* What a sign-in finds: accounts that joined. *)
LEMMA HolderJoined ==
    ASSUME TypeInv, NEW to \in Contacts, NEW c \in HoldingEmail(to)
    PROVE  c \in Coaches /\ coach[c].joined
BY SignInAssumption DEF HoldingEmail, TypeInv, Fits, RowsFit, NoCoach, Contacts

LEMMA FoundJoined ==
    ASSUME TypeInv, NEW to \in Contacts, NEW c \in ByContact(to)
    PROVE  c \in Coaches /\ coach[c].joined
BY SignInAssumption DEF ByContact, ByPhone, ByEmail, HoldingEmail, TypeInv, Fits, RowsFit, NoCoach, Contacts

LEMMA TypeFindCoach ==
    ASSUME TypeInv, NEW k \in Workers, FindCoach(k)
    PROVE  TypeInv'
<1>1. job[k] \in Job /\ Holding(job[k]) /\ JobFits(job[k]) /\ job[k].to \in Contacts /\ job[k].i \in Proofs
  BY HeldRow DEF FindCoach, Holding, TypeInv, TypeOK, Fits
<1>2. KeepsFit
  BY RowsUnchanged DEF FindCoach
<1>3. UNCHANGED <<coach, proof, session, unlocked>>
  BY DEF FindCoach
<1>4. ASSUME NEW c \in ByContact(job[k].to), Go(k, [job[k] EXCEPT !.op = "consume", !.c = c])
      PROVE  TypeInv'
  <2>1. c \in Coaches /\ coach[c].joined
    BY <1>1, FoundJoined
  <2>2. PICK j \in Job : j = [job[k] EXCEPT !.op = "consume", !.c = c]
    BY <1>1, <2>1 DEF Job
  <2>3. JobFits(j)
    BY <1>1, <2>1, <2>2 DEF JobFits, Holding, Using, Job
  <2>4. QED
    BY <1>3, <1>4, <2>2, <2>3, OneJob
<1>5. ASSUME NEW b \in BOOLEAN, Go(k, [job[k] EXCEPT !.op = "consume", !.unproved = b])
      PROVE  TypeInv'
  <2>2. PICK j \in Job : j = [job[k] EXCEPT !.op = "consume", !.unproved = b]
    BY <1>1 DEF Job
  <2>3. JobFits(j)
    BY <1>1, <2>2 DEF JobFits, Holding, Using, Job
  <2>4. QED
    BY <1>3, <1>5, <2>2, <2>3, OneJob
<1>6. ASSUME NEW e \in {None} \cup Emails, Go(k, [job[k] EXCEPT !.op = "consume", !.extra = e])
      PROVE  TypeInv'
  <2>2. PICK j \in Job : j = [job[k] EXCEPT !.op = "consume", !.extra = e]
    BY <1>1 DEF Job
  <2>3. JobFits(j)
    BY <1>1, <2>2 DEF JobFits, Holding, Using, Job
  <2>4. QED
    BY <1>3, <1>6, <2>2, <2>3, OneJob
<1>7. QED
  BY <1>2, <1>4, <1>5, <1>6, EndsHere DEF FindCoach

LEMMA TypeConsume ==
    ASSUME TypeInv, NEW k \in Workers, Consume(k)
    PROVE  TypeInv'
<1>1. Holding(job[k]) /\ job[k] \in Job /\ JobFits(job[k])
  BY DEF Consume, Holding, TypeInv, TypeOK, Fits
<1>2. CASE Consumable(job[k])
  <2>1. PICK row \in Proof :
           row = [proof[job[k].i] EXCEPT !.used = TRUE, !.live = @ /\ job[k].for = "link"]
    BY <1>1, HeldRow DEF Proof
  <2>2. row.to = proof[job[k].i].to /\ row.kind = proof[job[k].i].kind
    BY <1>1, <2>1, HeldRow DEF Proof
  <2>3. proof' = [proof EXCEPT ![job[k].i] = row]
    BY <1>2, <2>1 DEF Consume
  <2>4. KeepsFit
    BY <1>1, <2>2, <2>3, OneKept DEF Consume, TypeInv, TypeOK
  <2>5. AfterUse(job[k]) \in {"mark", "taken", "unlock", "open", "release", "create"}
    BY DEF AfterUse
  <2>6. /\ AfterUse(job[k]) \in {"open", "mark", "taken"} => job[k].c \in Coaches
        /\ AfterUse(job[k]) = "taken" => job[k].for = "phone"
        /\ AfterUse(job[k]) = "unlock" => job[k].for = "credits"
    BY <1>1 DEF AfterUse, JobFits, Job
  <2>7. QED
    BY <1>1, <1>2, <2>4, <2>5, <2>6, StepsTo DEF Consume
<1>3. CASE ~Consumable(job[k])
  <2>1. KeepsFit
    BY <1>3, RowsUnchanged DEF Consume
  <2>2. QED
    BY <1>3, <2>1, EndsHere DEF Consume
<1>4. QED
  BY <1>2, <1>3

LEMMA TypeCreateStartLink ==
    ASSUME TypeInv, NEW p \in Phones, CreateStartLink(p)
    PROVE  TypeInv'
<1> DEFINE row == NewRow("link", p)
<1>1. p \in Contacts
  BY DEF Contacts
<1>2. row \in Proof /\ row.kind = "link" /\ row.to = p
  BY <1>1, FreshRow
<1>3. /\ FreeProofs # {} /\ proof' = [proof EXCEPT ![NewProof] = row]
      /\ UNCHANGED <<coach, session, unlocked, job>>
  BY DEF CreateStartLink, RoomForProof
<1> HIDE DEF row
<1>4. KeepsFit
  BY <1>1, <1>2, <1>3, FreshProof
<1>5. QED
  BY <1>3, <1>4, JobsKept

LEMMA TypeExpire ==
    ASSUME TypeInv, NEW i \in Proofs, Expire(i)
    PROVE  TypeInv'
<1> proof[i] \in Proof
  BY DEF TypeInv, TypeOK
<1>1. proof[i].to \in Contacts
  BY DEF Expire, TypeInv, Fits, RowsFit, NoProof
<1> [proof[i] EXCEPT !.live = FALSE] \in Proof
  BY DEF Proof
<1>a. PICK row \in Proof : row = [proof[i] EXCEPT !.live = FALSE]
  OBVIOUS
<1>b. row.to = proof[i].to /\ row.kind = proof[i].kind
  BY <1>a DEF Proof
<1>c. proof' = [proof EXCEPT ![i] = row]
  BY <1>a DEF Expire
<1>2. KeepsFit
  BY <1>1, <1>b, <1>c, OneProof, ProofsKept DEF Expire, TypeInv, TypeOK
<1>3. QED
  BY <1>2, JobsKept DEF Expire

LEMMA TypeSignOut ==
    ASSUME TypeInv, NEW s \in session, SignOut(s)
    PROVE  TypeInv'
<1>1. KeepsFit
  BY DEF SignOut, TypeInv, TypeOK, RowsTyped, Fits, RowsFit, KeepsFit
<1>2. QED
  BY <1>1, JobsKept DEF SignOut

(* A step that changes the accounts, and the use of one code or link. *)
LEMMA CoachesKept ==
    ASSUME TypeInv, coach' \in [Coaches -> Coach], UNCHANGED session, unlocked' \subseteq Phones,
           \A c \in Coaches : coach[c].joined => coach'[c].joined,
           \A c \in Coaches : ~coach'[c].joined => coach'[c] = NoCoach,
           proof' \in [Proofs -> Proof],
           \A n \in Proofs : proof'[n].to = proof[n].to /\ proof'[n].kind = proof[n].kind,
           \A n \in Proofs : proof[n].kind = "none" => proof'[n] = proof[n]
    PROVE  KeepsFit
BY DEF TypeInv, TypeOK, RowsTyped, Fits, RowsFit, KeepsFit

(* The proof a handler has used, credited to an account. *)
LEMMA CreditKeeps ==
    ASSUME TypeInv, NEW k \in Workers, Holding(job[k]), NEW c \in Coaches \cup {0},
           proof' = Credited(job[k].i, c)
    PROVE  /\ proof' \in [Proofs -> Proof]
           /\ \A n \in Proofs : proof'[n].to = proof[n].to /\ proof'[n].kind = proof[n].kind
           /\ \A n \in Proofs : proof[n].kind = "none" => proof'[n] = proof[n]
<1> DEFINE i == job[k].i
<1>1. i \in Proofs /\ proof[i] \in Proof /\ proof[i].to \in Contacts
  BY HeldRow
<1>a. proof[i].uses + 1 \in Nat
  BY <1>1 DEF Proof
<1>b. PICK u \in Nat : u = proof[i].uses + 1
  BY <1>a
<1>2. [proof[i] EXCEPT !.by = c, !.uses = u] \in Proof
  BY <1>1 DEF Proof
<1>3. PICK row \in Proof : row = [proof[i] EXCEPT !.by = c, !.uses = @ + 1]
  BY <1>2, <1>b
<1>4. row.to = proof[i].to /\ row.kind = proof[i].kind
  BY <1>1, <1>3 DEF Proof
<1>5. proof' = [proof EXCEPT ![i] = row]
  BY <1>1, <1>3 DEF Credited, TypeInv, TypeOK
<1>6. QED
  BY <1>1, <1>4, <1>5, OneProof

LEMMA TypeRelease ==
    ASSUME TypeInv, NEW k \in Workers, ReleaseUnprovedEmail(k)
    PROVE  TypeInv'
<1>1. Holding(job[k])
  BY DEF ReleaseUnprovedEmail, Holding, Using
<1>2. /\ coach' \in [Coaches -> Coach]
      /\ \A c \in Coaches : coach[c].joined => coach'[c].joined
  BY DEF ReleaseUnprovedEmail, TypeInv, TypeOK, Coach
<1>3. \A c \in Coaches : ~coach'[c].joined => coach'[c] = NoCoach
  <2>1. job[k].to \in Contacts
    BY <1>1, HeldRow
  <2>2. \A c \in HoldingEmail(job[k].to) : coach[c].joined
    BY <2>1, HolderJoined
  <2>3. \A c \in Coaches : ~coach'[c].joined => coach'[c] = coach[c] /\ ~coach[c].joined
    BY <1>2, <2>2 DEF ReleaseUnprovedEmail, TypeInv, TypeOK, Coach, Releasable
  <2>4. QED
    BY <2>3 DEF TypeInv, Fits, RowsFit
<1>4. KeepsFit
  BY <1>2, <1>3, CoachesKept DEF ReleaseUnprovedEmail, TypeInv, TypeOK
<1>5. QED
  BY <1>1, <1>4, StepsTo DEF ReleaseUnprovedEmail

LEMMA TypeCreateCoach ==
    ASSUME TypeInv, NEW k \in Workers, CreateCoach(k)
    PROVE  TypeInv'
<1>1. Holding(job[k]) /\ job[k] \in Job /\ JobFits(job[k]) /\ job[k].to \in Contacts /\ job[k].i \in Proofs
  BY HeldRow DEF CreateCoach, Holding, Using, TypeInv, TypeOK, Fits
<1>2. ASSUME NEW c \in FreeCoaches,
             coach' = [coach EXCEPT ![c] =
                      [phone |-> PhoneOf(job[k]), email |-> EmailOf(job[k]),
                       proved |-> job[k].to \in Emails, joined |-> TRUE]],
             proof' = [proof EXCEPT ![job[k].i].by = c],
             Go(k, [job[k] EXCEPT !.op = "open", !.c = c])
      PROVE  TypeInv'
  <2>1. c \in Coaches
    BY DEF FreeCoaches
  <2>a. PhoneOf(job[k]) \in Phones \cup {None} /\ EmailOf(job[k]) \in Emails \cup {None}
    BY <1>1 DEF PhoneOf, EmailOf, Contacts, Job
  <2>c. [phone |-> PhoneOf(job[k]), email |-> EmailOf(job[k]),
         proved |-> job[k].to \in Emails, joined |-> TRUE] \in Coach
    BY <2>a DEF Coach
  <2>2. PICK row \in Coach : /\ row = [phone |-> PhoneOf(job[k]), email |-> EmailOf(job[k]),
                                       proved |-> job[k].to \in Emails, joined |-> TRUE]
                             /\ row.joined
    BY <2>c
  <2>3. /\ coach' \in [Coaches -> Coach] /\ coach'[c].joined
        /\ \A d \in Coaches : coach[d].joined => coach'[d].joined
        /\ \A d \in Coaches : ~coach'[d].joined => coach'[d] = NoCoach
    BY <1>2, <2>1, <2>2 DEF TypeInv, TypeOK, Fits, RowsFit
  <2>4. [proof[job[k].i] EXCEPT !.by = c] \in Proof
    BY <1>1, <2>1, HeldRow DEF Proof
  <2>5. PICK used \in Proof : used = [proof[job[k].i] EXCEPT !.by = c]
    BY <2>4
  <2>6. used.to = proof[job[k].i].to /\ used.kind = proof[job[k].i].kind
    BY <1>1, <2>5, HeldRow DEF Proof
  <2>7. proof' = [proof EXCEPT ![job[k].i] = used]
    BY <1>2, <2>5
  <2>8. /\ proof' \in [Proofs -> Proof]
        /\ \A n \in Proofs : proof'[n].to = proof[n].to /\ proof'[n].kind = proof[n].kind
        /\ \A n \in Proofs : proof[n].kind = "none" => proof'[n] = proof[n]
    BY <1>1, <2>6, <2>7, HeldRow, OneProof
  <2>9. KeepsFit
    BY <2>3, <2>8, CoachesKept DEF CreateCoach, TypeInv, TypeOK
  <2>10. [job[k] EXCEPT !.op = "open", !.c = c] \in Job
    BY <1>1, <2>1 DEF Job
  <2>11. PICK j \in Job : j = [job[k] EXCEPT !.op = "open", !.c = c]
    BY <2>10
  <2>12. /\ j.op = "open" /\ j.for = job[k].for /\ j.to = job[k].to /\ j.i = job[k].i /\ j.c = c
    BY <1>1, <2>11 DEF Job
  <2>13. JobFits(j)'
    BY <1>1, <2>1, <2>3, <2>8, <2>12 DEF JobFits, Holding, Using
  <2>14. Go(k, j)
    BY <1>2, <2>11
  <2>15. QED
    BY <2>9, <2>13, <2>14, AnyStep
<1>3. ASSUME Go(k, Idle), UNCHANGED <<coach, proof>>
      PROVE  TypeInv'
  BY <1>3, RowsUnchanged, EndsHere DEF CreateCoach
<1>4. ASSUME Step(k, "reopen"), UNCHANGED <<coach, proof>>
      PROVE  TypeInv'
  BY <1>1, <1>4, RowsUnchanged, StepsTo DEF CreateCoach
<1>5. ASSUME job[k].for = "link", NEW c \in ByPhone(job[k].to), UNCHANGED <<coach, proof>>,
             Go(k, [job[k] EXCEPT !.op = "open", !.c = c])
      PROVE  TypeInv'
  <2>1. c \in Coaches /\ coach[c].joined
    <3>1. c \in ByContact(job[k].to)
      BY <1>1, <1>5 DEF ByContact, JobFits
    <3>2. QED
      BY <1>1, <3>1, FoundJoined
  <2>2. [job[k] EXCEPT !.op = "open", !.c = c] \in Job
    BY <1>1, <2>1 DEF Job
  <2>3. PICK j \in Job : j = [job[k] EXCEPT !.op = "open", !.c = c]
    BY <2>2
  <2>4. /\ j.op = "open" /\ j.for = job[k].for /\ j.to = job[k].to /\ j.i = job[k].i /\ j.c = c
    BY <1>1, <2>3 DEF Job
  <2>5. JobFits(j)
    BY <1>1, <2>1, <2>4 DEF JobFits, Holding, Using
  <2>6. Go(k, j)
    BY <1>5, <2>3
  <2>7. QED
    BY <1>5, <2>5, <2>6, OneJob DEF CreateCoach
<1>6. QED
  BY <1>2, <1>3, <1>4, <1>5 DEF CreateCoach

LEMMA TypeReopen ==
    ASSUME TypeInv, NEW k \in Workers, ReopenStartLink(k)
    PROVE  TypeInv'
<1>1. Holding(job[k])
  BY DEF ReopenStartLink, Holding, Using
<1>2. [proof[job[k].i] EXCEPT !.used = FALSE] \in Proof
  BY <1>1, HeldRow DEF Proof
<1>3. PICK row \in Proof : row = [proof[job[k].i] EXCEPT !.used = FALSE]
  BY <1>2
<1>4. row.to = proof[job[k].i].to /\ row.kind = proof[job[k].i].kind
  BY <1>1, <1>3, HeldRow DEF Proof
<1>5. proof' = [proof EXCEPT ![job[k].i] = row]
  BY <1>3 DEF ReopenStartLink
<1>6. KeepsFit
  BY <1>1, <1>4, <1>5, OneKept DEF ReopenStartLink, TypeInv, TypeOK
<1>7. QED
  BY <1>6, EndsHere DEF ReopenStartLink

LEMMA TypeCreateSession ==
    ASSUME TypeInv, NEW k \in Workers, CreateCoachSession(k)
    PROVE  TypeInv'
<1>1. Holding(job[k]) /\ job[k].i \in Proofs /\ job[k].c \in Coaches /\ coach[job[k].c].joined
  BY HeldRow DEF CreateCoachSession, Holding, Using, TypeInv, Fits, JobFits
<1>2. /\ proof' \in [Proofs -> Proof]
      /\ \A n \in Proofs : proof'[n].to = proof[n].to /\ proof'[n].kind = proof[n].kind
      /\ \A n \in Proofs : proof[n].kind = "none" => proof'[n] = proof[n]
  BY <1>1, CreditKeeps DEF CreateCoachSession
<1>3. session' \subseteq [coach : Coaches, proof : Proofs] /\ \A s \in session' : coach[s.coach].joined
  BY <1>1 DEF CreateCoachSession, TypeInv, TypeOK, Fits, RowsFit
<1>4. KeepsFit
  BY <1>2, <1>3 DEF CreateCoachSession, TypeInv, TypeOK, RowsTyped, Fits, RowsFit, KeepsFit
<1>5. QED
  BY <1>4, EndsHere DEF CreateCoachSession

LEMMA TypeMarkEmail ==
    ASSUME TypeInv, NEW k \in Workers, MarkEmailVerified(k)
    PROVE  TypeInv'
<1>1. Holding(job[k]) /\ job[k].c \in Coaches /\ coach[job[k].c].joined
  BY DEF MarkEmailVerified, Holding, Using, TypeInv, Fits, JobFits
<1>2. /\ proof' \in [Proofs -> Proof]
      /\ \A n \in Proofs : proof'[n].to = proof[n].to /\ proof'[n].kind = proof[n].kind
      /\ \A n \in Proofs : proof[n].kind = "none" => proof'[n] = proof[n]
  BY <1>1, CreditKeeps DEF MarkEmailVerified
<1>3. /\ coach' \in [Coaches -> Coach]
      /\ \A c \in Coaches : coach[c].joined => coach'[c].joined
      /\ \A c \in Coaches : ~coach'[c].joined => coach'[c] = NoCoach
  <2> coach[job[k].c] \in Coach
    BY <1>1 DEF TypeInv, TypeOK
  <2> [coach[job[k].c] EXCEPT !.proved = TRUE] \in Coach
    BY DEF Coach
  <2>1. PICK row \in Coach : row = [coach[job[k].c] EXCEPT !.proved = TRUE] /\ row.joined
    BY <1>1 DEF Coach
  <2>2. coach' = coach \/ coach' = [coach EXCEPT ![job[k].c] = row]
    BY <2>1 DEF MarkEmailVerified
  <2>3. QED
    BY <1>1, <2>1, <2>2 DEF TypeInv, TypeOK, Fits, RowsFit
<1>4. KeepsFit
  BY <1>2, <1>3, CoachesKept DEF MarkEmailVerified, TypeInv, TypeOK
<1>5. QED
  BY <1>4, EndsHere DEF MarkEmailVerified

LEMMA TypeLookForPhone ==
    ASSUME TypeInv, NEW k \in Workers, LookForPhone(k)
    PROVE  TypeInv'
<1>1. Holding(job[k]) /\ job[k].c \in Coaches /\ job[k].for = "phone"
  BY DEF LookForPhone, Holding, Using, TypeInv, Fits, JobFits
<1>2. KeepsFit
  BY RowsUnchanged DEF LookForPhone
<1>3. QED
  BY <1>1, <1>2, EndsHere, StepsTo DEF LookForPhone

LEMMA TypeSetPhone ==
    ASSUME TypeInv, NEW k \in Workers, SetCoachPhone(k)
    PROVE  TypeInv'
<1>1. Holding(job[k]) /\ job[k].c \in Coaches /\ coach[job[k].c].joined
  BY DEF SetCoachPhone, Holding, Using, TypeInv, Fits, JobFits
<1>2. CASE OtherHas(job[k])
  BY <1>2, RowsUnchanged, EndsHere DEF SetCoachPhone
<1>3. CASE ~OtherHas(job[k])
  <2>1. /\ proof' \in [Proofs -> Proof]
        /\ \A n \in Proofs : proof'[n].to = proof[n].to /\ proof'[n].kind = proof[n].kind
        /\ \A n \in Proofs : proof[n].kind = "none" => proof'[n] = proof[n]
    BY <1>1, <1>3, CreditKeeps DEF SetCoachPhone
  <2>2. job[k].to \in Phones
    BY DEF TypeInv, Fits, JobFits, SetCoachPhone
  <2>3. /\ coach' \in [Coaches -> Coach]
        /\ \A c \in Coaches : coach[c].joined => coach'[c].joined
        /\ \A c \in Coaches : ~coach'[c].joined => coach'[c] = NoCoach
    BY <1>1, <1>3, <2>2 DEF SetCoachPhone, TypeInv, TypeOK, Fits, RowsFit, Coach
  <2>4. KeepsFit
    BY <2>1, <2>3, CoachesKept DEF SetCoachPhone, TypeInv, TypeOK
  <2>5. QED
    BY <2>4, EndsHere DEF SetCoachPhone
<1>4. QED
  BY <1>2, <1>3

LEMMA TypeMarkPhone ==
    ASSUME TypeInv, NEW k \in Workers, MarkPhoneVerified(k)
    PROVE  TypeInv'
<1>1. Holding(job[k]) /\ job[k].to \in Phones
  BY DEF MarkPhoneVerified, Holding, Using, TypeInv, Fits, JobFits
<1>2. /\ proof' \in [Proofs -> Proof]
      /\ \A n \in Proofs : proof'[n].to = proof[n].to /\ proof'[n].kind = proof[n].kind
      /\ \A n \in Proofs : proof[n].kind = "none" => proof'[n] = proof[n]
  BY <1>1, CreditKeeps DEF MarkPhoneVerified
<1>3. KeepsFit
  BY <1>1, <1>2, ProofsKept DEF MarkPhoneVerified, TypeInv, TypeOK
<1>4. QED
  BY <1>3, EndsHere DEF MarkPhoneVerified

LEMMA TypeNext == TypeInv /\ [Next]_vars => TypeInv'
<1> SUFFICES ASSUME TypeInv, [Next]_vars PROVE TypeInv'
  OBVIOUS
<1>1. ASSUME NEW k \in Workers, Work(k) PROVE TypeInv'
  BY <1>1, TypeExpireEarlier, TypeInsertCode, TypeGiveBack, TypeFindCoach, TypeConsume,
     TypeRelease, TypeCreateCoach, TypeReopen, TypeCreateSession, TypeMarkEmail,
     TypeLookForPhone, TypeSetPhone, TypeMarkPhone DEF Work
<1>2. CASE UNCHANGED vars
  BY <1>2 DEF vars, TypeInv, TypeOK, Fits, RowsFit, JobFits
<1>3. QED
  BY <1>1, <1>2, TypeRequest, TypeCreateStartLink, TypeExpire, TypeSignOut DEF Next

(* Rows and requests are what the handlers can write, however they are     *)
(* interleaved and wherever they stop.                                     *)
THEOREM Typing == Spec => []TypeOK
<1>1. TypeInv => TypeOK
  BY DEF TypeInv
<1>2. QED
  BY <1>1, TypeInit, TypeNext, PTL DEF Spec

----------------------------------------------------------------------------
(* No account is ever left without a way in: only unproved emails are      *)
(* released.                                                               *)
LEMMA WayIn == TypeInv /\ NoOneLockedOut /\ [Next]_vars => NoOneLockedOut'
<1> SUFFICES ASSUME TypeInv, NoOneLockedOut, [Next]_vars PROVE NoOneLockedOut'
  OBVIOUS
<1> coach \in [Coaches -> Coach]
  BY DEF TypeInv, TypeOK
<1>1. CASE UNCHANGED coach
  BY <1>1 DEF NoOneLockedOut
<1>2. ASSUME NEW k \in Workers, ReleaseUnprovedEmail(k) PROVE NoOneLockedOut'
  BY <1>2 DEF ReleaseUnprovedEmail, Releasable, NoOneLockedOut, Coach
<1>3. ASSUME NEW k \in Workers, CreateCoach(k) PROVE NoOneLockedOut'
  <2>1. job[k].to \in Contacts
    BY <1>3, HeldRow DEF CreateCoach, Holding, Using
  <2>2. PhoneOf(job[k]) # None \/ job[k].to \in Emails
    BY <2>1, SignInAssumption DEF PhoneOf, Contacts
  <2>3. ASSUME NEW c \in Coaches,
               coach' = [coach EXCEPT ![c] =
                      [phone |-> PhoneOf(job[k]), email |-> EmailOf(job[k]),
                       proved |-> job[k].to \in Emails, joined |-> TRUE]]
        PROVE  NoOneLockedOut'
    BY <2>2, <2>3 DEF NoOneLockedOut
  <2>4. QED
    BY <1>1, <1>3, <2>3 DEF CreateCoach, FreeCoaches
<1>4. ASSUME NEW k \in Workers, MarkEmailVerified(k) PROVE NoOneLockedOut'
  BY <1>4 DEF MarkEmailVerified, NoOneLockedOut, Coach
<1>5. ASSUME NEW k \in Workers, SetCoachPhone(k) PROVE NoOneLockedOut'
  <2>1. job[k].to \in Phones /\ job[k].to # None
    BY <1>5, SignInAssumption DEF SetCoachPhone, TypeInv, Fits, JobFits
  <2>2. QED
    BY <1>5, <2>1 DEF SetCoachPhone, NoOneLockedOut, Coach
<1>6. QED
  BY <1>1, <1>2, <1>3, <1>4, <1>5 DEF Next, Request, Work, vars, SendCode, CheckCode, OpenStartLink,
     CreateStartLink, Expire, SignOut, ExpireEarlier, InsertCode, GiveBack, FindCoach, Consume,
     ReopenStartLink, CreateCoachSession, LookForPhone, MarkPhoneVerified

(* Every account keeps a phone or a proved email, whoever else signs in,   *)
(* proves or is released meanwhile (releaseUnprovedEmail, createCoach).    *)
THEOREM WayInKept == Spec => []NoOneLockedOut
<1>1. Init => NoOneLockedOut
  BY DEF Init, NoOneLockedOut, NoCoach
<1>2. QED
  BY <1>1, TypeInit, TypeNext, WayIn, PTL DEF Spec

----------------------------------------------------------------------------
(* A used code or link is in the hands of one handler until it has done    *)
(* what it does, and of none from then on.                                 *)
UseInv ==
    /\ \A k \in Workers : Using(job[k]) => proof[job[k].i].used /\ proof[job[k].i].uses = 0
    /\ \A k \in Workers, l \in Workers :
          Using(job[k]) /\ Using(job[l]) /\ job[k].i = job[l].i => k = l
    /\ \A i \in Proofs : ~proof[i].used => proof[i].uses = 0
    /\ \A i \in Proofs : proof[i].uses <= 1

(* A step that uses nothing and undoes no use. *)
QuietRows ==
    \A n \in Proofs : \/ proof'[n].used = proof[n].used /\ proof'[n].uses = proof[n].uses
                      \/ ~proof[n].used /\ ~proof'[n].used /\ proof'[n].uses = 0
QuietJobs == \A l \in Workers : Using(job'[l]) => Using(job[l]) /\ job'[l].i = job[l].i

LEMMA Quiet ==
    ASSUME TypeInv, UseInv, QuietRows, QuietJobs
    PROVE  UseInv'
<1>1. \A l \in Workers : Using(job[l]) => job[l].i \in Proofs
  BY HeldRow DEF Holding
<1>2. QED
  BY <1>1 DEF UseInv, QuietRows, QuietJobs, Using

(* A handler at its next statement, which uses nothing new. *)
LEMMA QuietGo ==
    ASSUME TypeInv, NEW k \in Workers, NEW j, Go(k, j),
           Using(j) => Using(job[k]) /\ j.i = job[k].i
    PROVE  QuietJobs
<1>1. \A l \in Workers : job'[l] = IF l = k THEN j ELSE job[l]
  BY DEF Go, TypeInv, TypeOK
<1>2. QED
  BY <1>1 DEF QuietJobs

LEMMA QuietIdle == ASSUME TypeInv, NEW k \in Workers, Go(k, Idle) PROVE QuietJobs
BY QuietGo DEF Using, Idle

LEMMA QuietRequest ==
    ASSUME TypeInv, NEW k \in Workers, Request(k)
    PROVE  QuietRows /\ QuietJobs
<1> job \in [Workers -> Job] /\ proof \in [Proofs -> Proof]
  BY DEF TypeInv, TypeOK
<1>1. ASSUME NEW t \in Contacts, NEW purpose \in {"signin", "credits"}, SendCode(k, t, purpose)
      PROVE  QuietRows /\ QuietJobs
  BY <1>1 DEF SendCode, QuietRows, QuietJobs, Go, Using, Idle
<1>2. ASSUME NEW for \in {"signin", "email", "phone", "credits"}, NEW t \in Contacts,
             NEW c \in Coaches \cup {0}, NEW right \in BOOLEAN, CheckCode(k, for, t, c, right)
      PROVE  QuietRows /\ QuietJobs
  <2>1. QuietRows
    BY <1>2 DEF CheckCode, QuietRows, Proof
  <2>2. CASE right
    <3>1. PICK i \in Proofs : Go(k, [Idle EXCEPT !.op = "giveback", !.for = for, !.to = t, !.i = i, !.c = c])
      BY <1>2, <2>2 DEF CheckCode, Working
    <3>2. ~Using([Idle EXCEPT !.op = "giveback", !.for = for, !.to = t, !.i = i, !.c = c])
      BY DEF Using, Idle
    <3>3. QED
      BY <2>1, <3>1, <3>2, QuietGo
  <2>3. CASE ~right
    BY <1>2, <2>1, <2>3 DEF CheckCode, QuietJobs
  <2>4. QED
    BY <2>2, <2>3
<1>3. ASSUME NEW i \in Proofs, OpenStartLink(k, i)
      PROVE  QuietRows /\ QuietJobs
  <2> DEFINE j == [Idle EXCEPT !.op = "consume", !.for = "link", !.to = proof[i].to, !.i = i]
  <2>1. QuietRows
    BY <1>3 DEF OpenStartLink, QuietRows
  <2>2. ASSUME NEW c, Go(k, [j EXCEPT !.c = c]) PROVE QuietJobs
    <3>1. ~Using([j EXCEPT !.c = c])
      BY DEF Using, Idle
    <3>2. QED
      BY <2>2, <3>1, QuietGo
  <2>3. ASSUME NEW e, Go(k, [j EXCEPT !.extra = e]) PROVE QuietJobs
    <3>1. ~Using([j EXCEPT !.extra = e])
      BY DEF Using, Idle
    <3>2. QED
      BY <2>3, <3>1, QuietGo
  <2>4. QED
    BY <1>3, <2>1, <2>2, <2>3 DEF OpenStartLink
<1>4. QED
  BY <1>1, <1>2, <1>3 DEF Request

LEMMA QuietInsert ==
    ASSUME TypeInv, NEW row \in Proof, ~row.used, row.uses = 0, FreeProofs # {},
           proof' = [proof EXCEPT ![NewProof] = row]
    PROVE  QuietRows
<1>1. NewProof \in Proofs /\ proof[NewProof] = NoProof
  BY NewProofIsFree
<1>2. ~proof[NewProof].used
  BY <1>1 DEF NoProof
<1>3. \A n \in Proofs : proof'[n] = IF n = NewProof THEN row ELSE proof[n]
  BY <1>1 DEF TypeInv, TypeOK
<1>4. QED
  BY <1>2, <1>3 DEF QuietRows

LEMMA UseConsume ==
    ASSUME TypeInv, UseInv, NEW k \in Workers, Consume(k)
    PROVE  UseInv'
<1> DEFINE i == job[k].i
<1>0. job \in [Workers -> Job] /\ proof \in [Proofs -> Proof] /\ i \in Proofs
  BY HeldRow DEF TypeInv, TypeOK, Consume, Holding
<1>a. \A l \in Workers : Using(job[l]) => job[l].i \in Proofs
  BY HeldRow DEF Holding
<1>1. CASE Consumable(job[k])
  <2>1. ~proof[i].used /\ proof[i].uses = 0
    BY <1>0, <1>1 DEF Consumable, UseInv
  <2>2. \A n \in Proofs : /\ n # i => proof'[n] = proof[n]
                          /\ n = i => proof'[n].used /\ proof'[n].uses = proof[n].uses
    BY <1>0, <1>1 DEF Consume, Proof
  <2>3. \A l \in Workers : IF l = k THEN job'[l].i = i ELSE job'[l] = job[l]
    BY <1>0, <1>1 DEF Consume, Step, Go, Job
  <2>4. \A l \in Workers : Using(job[l]) => job[l].i # i
    BY <2>1 DEF UseInv
  <2> HIDE DEF i
  <2>5. \A l \in Workers : Using(job'[l]) => job'[l].i \in Proofs /\ (job'[l].i = i <=> l = k)
    BY <1>0, <1>a, <2>3, <2>4
  <2>6. \A l \in Workers : Using(job'[l]) => proof'[job'[l].i].used /\ proof'[job'[l].i].uses = 0
    BY <1>0, <2>1, <2>2, <2>3, <2>5 DEF UseInv
  <2>7. \A l \in Workers, m \in Workers :
           Using(job'[l]) /\ Using(job'[m]) /\ job'[l].i = job'[m].i => l = m
    BY <2>3, <2>5 DEF UseInv
  <2>8. \A n \in Proofs : (~proof'[n].used => proof'[n].uses = 0) /\ proof'[n].uses <= 1
    BY <2>1, <2>2 DEF UseInv
  <2>9. QED
    BY <2>6, <2>7, <2>8 DEF UseInv, Using
<1>2. CASE ~Consumable(job[k])
  <2>1. QuietRows /\ QuietJobs
    BY <1>0, <1>2 DEF Consume, QuietRows, QuietJobs, Go, Using, Idle
  <2>2. QED
    BY <2>1, Quiet
<1>3. QED
  BY <1>1, <1>2

(* The handler that holds a used code or link lets go of it. *)
LEMMA LetGo ==
    ASSUME TypeInv, UseInv, NEW k \in Workers, Using(job[k]), Go(k, Idle),
           proof' \in [Proofs -> Proof],
           \A n \in Proofs : n # job[k].i => proof'[n] = proof[n],
           proof'[job[k].i].uses <= 1,
           ~proof'[job[k].i].used => proof'[job[k].i].uses = 0
    PROVE  UseInv'
<1>1. job \in [Workers -> Job]
  BY DEF TypeInv, TypeOK
<1>2. \A l \in Workers : IF l = k THEN ~Using(job'[l]) ELSE job'[l] = job[l]
  BY <1>1 DEF Go, Using, Idle
<1>3. \A l \in Workers : Using(job[l]) => job[l].i \in Proofs
  BY HeldRow DEF Holding
<1>4. \A l \in Workers : Using(job'[l]) => l # k /\ job'[l] = job[l] /\ job[l].i # job[k].i
  BY <1>2 DEF UseInv, Using
<1>5. \A l \in Workers : Using(job'[l]) => proof'[job'[l].i].used /\ proof'[job'[l].i].uses = 0
  BY <1>3, <1>4 DEF UseInv
<1>6. \A l \in Workers, m \in Workers :
         Using(job'[l]) /\ Using(job'[m]) /\ job'[l].i = job'[m].i => l = m
  BY <1>4 DEF UseInv
<1>7. \A n \in Proofs : (~proof'[n].used => proof'[n].uses = 0) /\ proof'[n].uses <= 1
  BY DEF UseInv
<1>8. QED
  BY <1>5, <1>6, <1>7 DEF UseInv, Using

LEMMA UseCredit ==
    ASSUME TypeInv, UseInv, NEW k \in Workers, Using(job[k]), Go(k, Idle), NEW c \in Coaches \cup {0},
           proof' = Credited(job[k].i, c)
    PROVE  UseInv'
<1>1. Holding(job[k]) /\ job[k].i \in Proofs /\ proof[job[k].i] \in Proof
  BY HeldRow DEF Holding
<1>2. proof' \in [Proofs -> Proof]
  BY <1>1, CreditKeeps
<1>3. proof[job[k].i].uses = 0 /\ proof[job[k].i].used
  BY DEF UseInv
<1>4. proof'[job[k].i].uses = proof[job[k].i].uses + 1
  BY <1>1 DEF Credited, Proof, TypeInv, TypeOK
<1>a. proof'[job[k].i].used = proof[job[k].i].used
  BY <1>1 DEF Credited, Proof, TypeInv, TypeOK
<1>5. \A n \in Proofs : n # job[k].i => proof'[n] = proof[n]
  BY DEF Credited, TypeInv, TypeOK
<1>6. proof'[job[k].i].uses <= 1
  BY <1>3, <1>4
<1>7. QED
  BY <1>2, <1>3, <1>a, <1>5, <1>6, LetGo

LEMMA UseNext == TypeInv /\ UseInv /\ [Next]_vars => UseInv'
<1> SUFFICES ASSUME TypeInv, UseInv, [Next]_vars PROVE UseInv'
  OBVIOUS
<1> job \in [Workers -> Job] /\ proof \in [Proofs -> Proof]
  BY DEF TypeInv, TypeOK
<1>1. ASSUME NEW p \in Phones, CreateStartLink(p) PROVE UseInv'
  <2>1. PICK row \in Proof : row = NewRow("link", p) /\ ~row.used /\ row.uses = 0
    BY FreshRow DEF Contacts
  <2>2. QuietRows
    BY <1>1, <2>1, QuietInsert DEF CreateStartLink, RoomForProof
  <2>3. QuietJobs
    BY <1>1 DEF CreateStartLink, QuietJobs
  <2>4. QED
    BY <2>2, <2>3, Quiet
<1>2. ASSUME NEW i \in Proofs, Expire(i) PROVE UseInv'
  BY <1>2, Quiet DEF Expire, QuietRows, QuietJobs, Proof
<1>3. ASSUME NEW s \in session, SignOut(s) PROVE UseInv'
  BY <1>3, Quiet DEF SignOut, QuietRows, QuietJobs
<1>4. ASSUME NEW k \in Workers, Request(k) PROVE UseInv'
  BY <1>4, QuietRequest, Quiet
<1>5. CASE UNCHANGED vars
  BY <1>5, Quiet DEF vars, QuietRows, QuietJobs
<1>6. ASSUME NEW k \in Workers, Work(k) PROVE UseInv'
  <2>1. CASE ExpireEarlier(k)
    <3>1. QuietRows
      BY <2>1 DEF ExpireEarlier, QuietRows, Proof
    <3>2. QuietJobs
      BY <2>1 DEF ExpireEarlier, QuietJobs, Step, Go, Using, Job
    <3>3. QED
      BY <3>1, <3>2, Quiet
  <2>2. CASE InsertCode(k)
    <3>1. PICK row \in Proof : proof' = [proof EXCEPT ![NewProof] = row] /\ ~row.used /\ row.uses = 0
      BY <2>2, InsertedRow
    <3>2. QuietRows
      BY <2>2, <3>1, QuietInsert DEF InsertCode
    <3>3. QuietJobs
      BY <2>2 DEF InsertCode, QuietJobs, Go, Using, Idle
    <3>4. QED
      BY <3>2, <3>3, Quiet
  <2>3. CASE GiveBack(k)
    <3>1. QuietRows
      BY <2>3 DEF GiveBack, QuietRows, Proof
    <3>2. QuietJobs
      BY <2>3 DEF GiveBack, QuietJobs, Step, Go, Using, Job
    <3>3. QED
      BY <3>1, <3>2, Quiet
  <2>4. CASE FindCoach(k)
    <3>1. QuietRows
      BY <2>4 DEF FindCoach, QuietRows
    <3>2. QuietJobs
      <4>1. ASSUME NEW c, Go(k, [job[k] EXCEPT !.op = "consume", !.c = c]) PROVE QuietJobs
        <5>1. ~Using([job[k] EXCEPT !.op = "consume", !.c = c])
          BY DEF Using, Job
        <5>2. QED
          BY <4>1, <5>1, QuietGo
      <4>2. ASSUME NEW b, Go(k, [job[k] EXCEPT !.op = "consume", !.unproved = b]) PROVE QuietJobs
        <5>1. ~Using([job[k] EXCEPT !.op = "consume", !.unproved = b])
          BY DEF Using, Job
        <5>2. QED
          BY <4>2, <5>1, QuietGo
      <4>3. ASSUME NEW e, Go(k, [job[k] EXCEPT !.op = "consume", !.extra = e]) PROVE QuietJobs
        <5>1. ~Using([job[k] EXCEPT !.op = "consume", !.extra = e])
          BY DEF Using, Job
        <5>2. QED
          BY <4>3, <5>1, QuietGo
      <4>4. QED
        BY <2>4, <4>1, <4>2, <4>3, QuietIdle DEF FindCoach
    <3>3. QED
      BY <3>1, <3>2, Quiet
  <2>5. CASE Consume(k)
    BY <2>5, UseConsume
  <2>6. CASE ReleaseUnprovedEmail(k)
    <3>1. QuietRows
      BY <2>6 DEF ReleaseUnprovedEmail, QuietRows
    <3>2. QuietJobs
      BY <2>6 DEF ReleaseUnprovedEmail, QuietJobs, Step, Go, Using, Job
    <3>3. QED
      BY <3>1, <3>2, Quiet
  <2>7. CASE CreateCoach(k)
    <3>1. QuietRows
      <4>1. ASSUME NEW c, proof' = [proof EXCEPT ![job[k].i].by = c] PROVE QuietRows
        BY <4>1 DEF QuietRows, Proof
      <4>2. ASSUME UNCHANGED proof PROVE QuietRows
        BY <4>2 DEF QuietRows
      <4>3. QED
        BY <2>7, <4>1, <4>2 DEF CreateCoach
    <3>2. QuietJobs
      <4>1. Using(job[k]) /\ job[k] \in Job
        BY <2>7 DEF CreateCoach, Using
      <4>2. ASSUME NEW c, Go(k, [job[k] EXCEPT !.op = "open", !.c = c]) PROVE QuietJobs
        <5>1. [job[k] EXCEPT !.op = "open", !.c = c].i = job[k].i
          BY <4>1 DEF Job
        <5>2. QED
          BY <4>1, <4>2, <5>1, QuietGo
      <4>3. ASSUME Step(k, "reopen") PROVE QuietJobs
        <5>1. [job[k] EXCEPT !.op = "reopen"].i = job[k].i
          BY <4>1 DEF Job
        <5>2. QED
          BY <4>1, <4>3, <5>1, QuietGo DEF Step
      <4>4. QED
        BY <2>7, <4>2, <4>3, QuietIdle DEF CreateCoach
    <3>3. QED
      BY <3>1, <3>2, Quiet
  <2>8. CASE ReopenStartLink(k)
    <3>1. Using(job[k]) /\ job[k].i \in Proofs /\ proof[job[k].i] \in Proof
      BY <2>8, HeldRow DEF ReopenStartLink, Using, Holding
    <3>2. [proof[job[k].i] EXCEPT !.used = FALSE] \in Proof
      BY <3>1 DEF Proof
    <3>3. proof' \in [Proofs -> Proof] /\ \A n \in Proofs : n # job[k].i => proof'[n] = proof[n]
      BY <2>8, <3>1, <3>2 DEF ReopenStartLink
    <3>4. proof'[job[k].i].uses = proof[job[k].i].uses
      BY <2>8, <3>1 DEF ReopenStartLink, Proof
    <3>5. proof'[job[k].i].uses = 0
      BY <3>1, <3>4 DEF UseInv
    <3>6. proof'[job[k].i].uses <= 1
      BY <3>5
    <3>7. Go(k, Idle)
      BY <2>8 DEF ReopenStartLink
    <3>8. QED
      BY <3>1, <3>3, <3>5, <3>6, <3>7, LetGo
  <2>9. CASE CreateCoachSession(k)
    <3>1. Using(job[k]) /\ job[k].c \in Coaches
      BY <2>9 DEF CreateCoachSession, Using, TypeInv, Fits, JobFits
    <3>2. QED
      BY <2>9, <3>1, UseCredit DEF CreateCoachSession
  <2>10. CASE MarkEmailVerified(k)
    <3>1. Using(job[k]) /\ job[k].c \in Coaches
      BY <2>10 DEF MarkEmailVerified, Using, TypeInv, Fits, JobFits
    <3>2. QED
      BY <2>10, <3>1, UseCredit DEF MarkEmailVerified
  <2>11. CASE LookForPhone(k)
    <3>1. QuietRows
      BY <2>11 DEF LookForPhone, QuietRows
    <3>2. QuietJobs
      BY <2>11 DEF LookForPhone, QuietJobs, Step, Go, Using, Idle, Job
    <3>3. QED
      BY <3>1, <3>2, Quiet
  <2>12. CASE SetCoachPhone(k)
    <3>1. Using(job[k]) /\ job[k].c \in Coaches
      BY <2>12 DEF SetCoachPhone, Using, TypeInv, Fits, JobFits
    <3>2. CASE OtherHas(job[k])
      BY <2>12, <3>2, Quiet DEF SetCoachPhone, QuietRows, QuietJobs, Go, Using, Idle
    <3>3. CASE ~OtherHas(job[k])
      BY <2>12, <3>1, <3>3, UseCredit DEF SetCoachPhone
    <3>4. QED
      BY <3>2, <3>3
  <2>13. CASE MarkPhoneVerified(k)
    BY <2>13, UseCredit DEF MarkPhoneVerified, Using
  <2>14. QED
    BY <1>6, <2>1, <2>2, <2>3, <2>4, <2>5, <2>6, <2>7, <2>8, <2>9, <2>10, <2>11, <2>12, <2>13 DEF Work
<1>7. QED
  BY <1>1, <1>2, <1>3, <1>4, <1>5, <1>6 DEF Next

(* A code or link that is sent twice at once, or put back because the name *)
(* or email was taken, still does what it does once (consumeOtp,           *)
(* consumeStartLink, reopenStartLink).                                     *)
THEOREM OneUse == Spec => []UsedOnce
<1>1. Init => UseInv
  BY DEF Init, UseInv, Using, Idle, NoProof
<1>2. UseInv => UsedOnce
  BY DEF UseInv, UsedOnce
<1>3. QED
  BY <1>1, <1>2, TypeInit, TypeNext, UseNext, PTL DEF Spec

----------------------------------------------------------------------------
(* A code's tries are the wrong ones, and the right ones not given back    *)
(* yet or never to be.                                                     *)
Checking(i) == {k \in Workers : job[k].op = "giveback" /\ job[k].i = i}

TriesInv == \A i \in Proofs : /\ proof[i].tries = proof[i].wrong + Cardinality(Checking(i))
                              /\ proof[i].tries <= MaxTries

SameTries == \A n \in Proofs : proof'[n].tries = proof[n].tries /\ proof'[n].wrong = proof[n].wrong
SameChecks == \A l \in Workers : /\ job'[l].op = "giveback" <=> job[l].op = "giveback"
                                 /\ job[l].op = "giveback" => job'[l].i = job[l].i

LEMMA SameTry ==
    ASSUME TriesInv, SameTries, SameChecks
    PROVE  TriesInv'
<1>1. \A i \in Proofs : Checking(i)' = Checking(i)
  BY DEF SameChecks, Checking
<1>2. QED
  BY <1>1 DEF TriesInv, SameTries

LEMMA CheckingCount ==
    ASSUME NEW i \in Proofs
    PROVE  IsFiniteSet(Checking(i)) /\ Cardinality(Checking(i)) \in Nat
<1>1. Checking(i) \subseteq Workers
  BY DEF Checking
<1>2. IsFiniteSet(Checking(i))
  BY <1>1, SignInAssumption, FS_Subset
<1>3. QED
  BY <1>2, FS_CardinalityType

(* A handler at a statement that is not the one that gives a try back. *)
LEMMA NotGiving ==
    ASSUME TypeInv, NEW k \in Workers, job[k].op # "giveback", NEW j, Go(k, j), j.op # "giveback"
    PROVE  SameChecks
<1>1. \A l \in Workers : job'[l] = IF l = k THEN j ELSE job[l]
  BY DEF Go, TypeInv, TypeOK
<1>2. QED
  BY <1>1 DEF SameChecks

LEMMA IdleNotGiving == ASSUME TypeInv, NEW k \in Workers, job[k].op # "giveback", Go(k, Idle) PROVE SameChecks
BY NotGiving DEF Idle

LEMMA StepNotGiving ==
    ASSUME TypeInv, NEW k \in Workers, job[k].op # "giveback", NEW op, op # "giveback", Step(k, op)
    PROVE  SameChecks
<1>1. [job[k] EXCEPT !.op = op].op = op
  BY DEF TypeInv, TypeOK, Job
<1>2. QED
  BY <1>1, NotGiving DEF Step

LEMMA TriesCheck ==
    ASSUME TypeInv, TriesInv, NEW k \in Workers,
           NEW for \in {"signin", "email", "phone", "credits"}, NEW t \in Contacts,
           NEW c \in Coaches \cup {0}, NEW right \in BOOLEAN, CheckCode(k, for, t, c, right)
    PROVE  TriesInv'
<1> job \in [Workers -> Job] /\ proof \in [Proofs -> Proof] /\ job[k].op = "idle"
  BY DEF TypeInv, TypeOK, CheckCode, Idle
<1>1. PICK i \in Proofs :
        /\ Takes(i)
        /\ IF right
             THEN /\ proof' = [proof EXCEPT ![i].tries = @ + 1]
                  /\ Go(k, [Idle EXCEPT !.op = "giveback", !.for = for, !.to = t, !.i = i, !.c = c])
             ELSE /\ proof' = [proof EXCEPT ![i].tries = @ + 1, ![i].wrong = @ + 1]
                  /\ UNCHANGED job
  BY DEF CheckCode, Working
<1>2. \A n \in Proofs : /\ IsFiniteSet(Checking(n)) /\ Cardinality(Checking(n)) \in Nat
                        /\ proof[n].tries \in Int /\ proof[n].wrong \in Nat
  BY CheckingCount DEF Proof
<1>3. proof[i].tries + 1 <= MaxTries
  BY <1>1, <1>2, SignInAssumption DEF Takes
<1>4. CASE right
  <2>1. \A n \in Proofs : /\ proof'[n].tries = IF n = i THEN proof[n].tries + 1 ELSE proof[n].tries
                          /\ proof'[n].wrong = proof[n].wrong
    BY <1>1, <1>4 DEF Proof
  <2> DEFINE j == [Idle EXCEPT !.op = "giveback", !.for = for, !.to = t, !.i = i, !.c = c]
  <2>2. j.op = "giveback" /\ j.i = i
    BY DEF Idle
  <2>a. Go(k, j)
    BY <1>1, <1>4
  <2> HIDE DEF j
  <2>3. \A l \in Workers : job'[l] = IF l = k THEN j ELSE job[l]
    BY <2>a DEF Go
  <2>4. k \notin Checking(i) /\ Checking(i)' = Checking(i) \cup {k}
    BY <2>2, <2>3 DEF Checking
  <2>5. \A n \in Proofs : n # i => Checking(n)' = Checking(n)
    BY <2>2, <2>3 DEF Checking
  <2>6. Cardinality(Checking(i)') = Cardinality(Checking(i)) + 1
    BY <1>2, <2>4, FS_AddElement
  <2>7. ASSUME NEW n \in Proofs
        PROVE  proof'[n].tries = proof'[n].wrong + Cardinality(Checking(n)') /\ proof'[n].tries <= MaxTries
    <3>1. CASE n = i
      <4>1. PICK a \in Nat, w \in Nat, b \in Int :
               a = Cardinality(Checking(i)) /\ w = proof[i].wrong /\ b = proof[i].tries
        BY <1>2
      <4>2. b = w + a
        BY <4>1 DEF TriesInv
      <4>3. proof'[i].wrong = w /\ proof'[i].tries = b + 1 /\ Cardinality(Checking(i)') = a + 1
        BY <2>1, <2>6, <4>1
      <4>4. b + 1 <= MaxTries
        BY <1>3, <4>1
      <4>5. QED
        BY <3>1, <4>2, <4>3, <4>4
    <3>2. CASE n # i
      BY <2>1, <2>5, <3>2 DEF TriesInv
    <3>3. QED
      BY <3>1, <3>2
  <2>8. QED
    BY <2>7 DEF TriesInv, Checking
<1>5. CASE ~right
  <2>1. \A n \in Proofs : /\ proof'[n].tries = IF n = i THEN proof[n].tries + 1 ELSE proof[n].tries
                          /\ proof'[n].wrong = IF n = i THEN proof[n].wrong + 1 ELSE proof[n].wrong
    BY <1>1, <1>5 DEF Proof
  <2>2. \A n \in Proofs : Checking(n)' = Checking(n)
    BY <1>1, <1>5 DEF Checking
  <2>3. QED
    <3>1. ASSUME NEW n \in Proofs
          PROVE  proof'[n].tries = proof'[n].wrong + Cardinality(Checking(n)') /\ proof'[n].tries <= MaxTries
      <4>1. PICK a \in Nat, w \in Nat, b \in Int :
               a = Cardinality(Checking(n)) /\ w = proof[n].wrong /\ b = proof[n].tries
        BY <1>2
      <4>2. b = w + a /\ b <= MaxTries
        BY <4>1 DEF TriesInv
      <4>3. Cardinality(Checking(n)') = a
        BY <2>2, <4>1
      <4>4. CASE n = i
        <5>1. b + 1 <= MaxTries /\ proof'[n].tries = b + 1 /\ proof'[n].wrong = w + 1
          BY <1>3, <2>1, <4>1, <4>4
        <5>2. QED
          BY <4>2, <4>3, <5>1
      <4>5. CASE n # i
        <5>1. proof'[n].tries = b /\ proof'[n].wrong = w
          BY <2>1, <4>1, <4>5
        <5>2. QED
          BY <4>2, <4>3, <5>1
      <4>6. QED
        BY <4>4, <4>5
    <3>2. QED
      BY <3>1 DEF TriesInv, Checking
<1>6. QED
  BY <1>4, <1>5

LEMMA TriesGiveBack ==
    ASSUME TypeInv, TriesInv, NEW k \in Workers, GiveBack(k)
    PROVE  TriesInv'
<1>0. PICK i \in Proofs : i = job[k].i
  BY HeldRow DEF GiveBack, Holding
<1>1. job \in [Workers -> Job] /\ proof \in [Proofs -> Proof]
  BY DEF TypeInv, TypeOK
<1>2. \A n \in Proofs : /\ IsFiniteSet(Checking(n)) /\ Cardinality(Checking(n)) \in Nat
                        /\ proof[n].tries \in Int /\ proof[n].wrong \in Nat
  BY <1>1, CheckingCount DEF Proof
<1>3. \A n \in Proofs : /\ proof'[n].tries = IF n = i THEN proof[n].tries - 1 ELSE proof[n].tries
                        /\ proof'[n].wrong = proof[n].wrong
  BY <1>0, <1>1 DEF GiveBack, Proof
<1>4. \A l \in Workers : IF l = k THEN job'[l].op # "giveback" ELSE job'[l] = job[l]
  BY <1>1 DEF GiveBack, Step, Go, Job
<1>a. job[k].op = "giveback" /\ job[k].i = i
  BY <1>0 DEF GiveBack
<1>5. k \in Checking(i) /\ Checking(i)' = Checking(i) \ {k}
  BY <1>4, <1>a DEF Checking
<1>6. \A n \in Proofs : n # i => Checking(n)' = Checking(n)
  BY <1>4, <1>a DEF Checking
<1>7. Cardinality(Checking(i)') = Cardinality(Checking(i)) - 1
  <2>1. IsFiniteSet(Checking(i))
    BY <1>1, <1>2
  <2>2. Cardinality(Checking(i) \ {k}) = Cardinality(Checking(i)) - 1
    BY <1>5, <2>1, FS_RemoveElement
  <2>3. QED
    BY <1>5, <2>2
<1>8. ASSUME NEW n \in Proofs
      PROVE  proof'[n].tries = proof'[n].wrong + Cardinality(Checking(n)') /\ proof'[n].tries <= MaxTries
  <2>1. CASE n = i
    <3>1. PICK a \in Nat, w \in Nat, b \in Int :
             a = Cardinality(Checking(i)) /\ w = proof[i].wrong /\ b = proof[i].tries
      BY <1>1, <1>2
    <3>2. b = w + a /\ b <= MaxTries
      BY <1>1, <3>1 DEF TriesInv
    <3>3. proof'[i].wrong = w /\ proof'[i].tries = b - 1 /\ Cardinality(Checking(i)') = a - 1
      BY <1>1, <1>3, <1>7, <3>1
    <3>4. b - 1 = w + (a - 1) /\ b - 1 <= MaxTries
      BY <3>1, <3>2, SignInAssumption
    <3>5. QED
      BY <2>1, <3>3, <3>4
  <2>2. CASE n # i
    BY <1>3, <1>6, <2>2 DEF TriesInv
  <2>3. QED
    BY <2>1, <2>2
<1>9. QED
  BY <1>8 DEF TriesInv, Checking

LEMMA SameInsert ==
    ASSUME TypeInv, NEW row \in Proof, row.tries = 0, row.wrong = 0, FreeProofs # {},
           proof' = [proof EXCEPT ![NewProof] = row]
    PROVE  SameTries
<1>1. NewProof \in Proofs /\ proof[NewProof] = NoProof
  BY NewProofIsFree
<1>2. proof[NewProof].tries = 0 /\ proof[NewProof].wrong = 0
  BY <1>1 DEF NoProof
<1>3. \A n \in Proofs : proof'[n] = IF n = NewProof THEN row ELSE proof[n]
  BY <1>1 DEF TypeInv, TypeOK
<1>4. QED
  BY <1>2, <1>3 DEF SameTries

LEMMA SameCredit == ASSUME TypeInv, NEW i, NEW c, proof' = Credited(i, c) PROVE SameTries
BY DEF Credited, SameTries, TypeInv, TypeOK, Proof

LEMMA TriesNext == TypeInv /\ TriesInv /\ [Next]_vars => TriesInv'
<1> SUFFICES ASSUME TypeInv, TriesInv, [Next]_vars PROVE TriesInv'
  OBVIOUS
<1> job \in [Workers -> Job] /\ proof \in [Proofs -> Proof]
  BY DEF TypeInv, TypeOK
<1>1. ASSUME NEW p \in Phones, CreateStartLink(p) PROVE TriesInv'
  <2>1. PICK row \in Proof : row = NewRow("link", p) /\ row.tries = 0 /\ row.wrong = 0
    BY FreshRow DEF Contacts
  <2>2. SameTries
    BY <1>1, <2>1, SameInsert DEF CreateStartLink, RoomForProof
  <2>3. QED
    BY <1>1, <2>2, SameTry DEF CreateStartLink, SameChecks
<1>2. ASSUME NEW i \in Proofs, Expire(i) PROVE TriesInv'
  BY <1>2, SameTry DEF Expire, SameTries, SameChecks, Proof
<1>3. ASSUME NEW s \in session, SignOut(s) PROVE TriesInv'
  BY <1>3, SameTry DEF SignOut, SameTries, SameChecks
<1>4. ASSUME NEW k \in Workers, Request(k) PROVE TriesInv'
  <2>1. ASSUME NEW t \in Contacts, NEW purpose \in {"signin", "credits"}, SendCode(k, t, purpose)
        PROVE TriesInv'
    <3>1. [Idle EXCEPT !.op = "expire", !.to = t,
                          !.for = IF purpose = "credits" THEN "credits" ELSE "signin"].op # "giveback"
      BY DEF Idle
    <3>a. job[k] = Idle /\ Idle.op = "idle"
      BY <2>1 DEF SendCode, Idle
    <3>b. job[k].op # "giveback"
      BY <3>a
    <3>2. SameChecks
      BY <2>1, <3>1, <3>b, NotGiving DEF SendCode
    <3>3. QED
      BY <2>1, <3>2, SameTry DEF SendCode, SameTries
  <2>2. ASSUME NEW i \in Proofs, OpenStartLink(k, i) PROVE TriesInv'
    <3> DEFINE j == [Idle EXCEPT !.op = "consume", !.for = "link", !.to = proof[i].to, !.i = i]
    <3>0. job[k].op # "giveback"
      <4>1. job[k] = Idle /\ Idle.op = "idle"
        BY <2>2 DEF OpenStartLink, Idle
      <4>2. QED
        BY <4>1
    <3>1. ASSUME NEW c, Go(k, [j EXCEPT !.c = c]) PROVE SameChecks
      <4>1. [j EXCEPT !.c = c].op # "giveback"
        BY DEF Idle
      <4>2. QED
        BY <3>0, <3>1, <4>1, NotGiving
    <3>2. ASSUME NEW e, Go(k, [j EXCEPT !.extra = e]) PROVE SameChecks
      <4>1. [j EXCEPT !.extra = e].op # "giveback"
        BY DEF Idle
      <4>2. QED
        BY <3>0, <3>2, <4>1, NotGiving
    <3>3. SameTries
      BY <2>2 DEF OpenStartLink, SameTries
    <3>4. QED
      BY <2>2, <3>1, <3>2, <3>3, SameTry DEF OpenStartLink
  <2>3. QED
    BY <1>4, <2>1, <2>2, TriesCheck DEF Request
<1>5. CASE UNCHANGED vars
  BY <1>5, SameTry DEF vars, SameTries, SameChecks
<1>6. ASSUME NEW k \in Workers, Work(k) PROVE TriesInv'
  <2>1. CASE ExpireEarlier(k)
    <3>1. SameTries
      BY <2>1 DEF ExpireEarlier, SameTries, Proof
    <3>2. QED
      BY <2>1, <3>1, StepNotGiving, SameTry DEF ExpireEarlier
  <2>2. CASE InsertCode(k)
    <3>1. PICK row \in Proof : proof' = [proof EXCEPT ![NewProof] = row] /\ row.tries = 0 /\ row.wrong = 0
      BY <2>2, InsertedRow
    <3>2. SameTries
      BY <2>2, <3>1, SameInsert DEF InsertCode
    <3>3. QED
      BY <2>2, <3>2, IdleNotGiving, SameTry DEF InsertCode
  <2>3. CASE GiveBack(k)
    BY <2>3, TriesGiveBack
  <2>4. CASE FindCoach(k)
    <3>0. job[k].op # "giveback" /\ job[k] \in Job
      BY <2>4 DEF FindCoach
    <3>1. ASSUME NEW c, Go(k, [job[k] EXCEPT !.op = "consume", !.c = c]) PROVE SameChecks
      <4>1. [job[k] EXCEPT !.op = "consume", !.c = c].op # "giveback"
        BY <3>0 DEF Job
      <4>2. QED
        BY <3>0, <3>1, <4>1, NotGiving
    <3>2. ASSUME NEW b, Go(k, [job[k] EXCEPT !.op = "consume", !.unproved = b]) PROVE SameChecks
      <4>1. [job[k] EXCEPT !.op = "consume", !.unproved = b].op # "giveback"
        BY <3>0 DEF Job
      <4>2. QED
        BY <3>0, <3>2, <4>1, NotGiving
    <3>3. ASSUME NEW e, Go(k, [job[k] EXCEPT !.op = "consume", !.extra = e]) PROVE SameChecks
      <4>1. [job[k] EXCEPT !.op = "consume", !.extra = e].op # "giveback"
        BY <3>0 DEF Job
      <4>2. QED
        BY <3>0, <3>3, <4>1, NotGiving
    <3>4. SameChecks
      BY <2>4, <3>0, <3>1, <3>2, <3>3, IdleNotGiving DEF FindCoach
    <3>5. QED
      BY <2>4, <3>4, SameTry DEF FindCoach, SameTries
  <2>5. CASE Consume(k)
    <3>1. SameTries
      BY <2>5 DEF Consume, SameTries, Proof
    <3>2. AfterUse(job[k]) # "giveback"
      BY DEF AfterUse
    <3>3. SameChecks
      BY <2>5, <3>2, StepNotGiving, IdleNotGiving DEF Consume
    <3>4. QED
      BY <3>1, <3>3, SameTry
  <2>6. CASE ReleaseUnprovedEmail(k)
    BY <2>6, StepNotGiving, SameTry DEF ReleaseUnprovedEmail, SameTries
  <2>7. CASE CreateCoach(k)
    <3>0. job[k].op # "giveback" /\ job[k] \in Job
      BY <2>7 DEF CreateCoach
    <3>1. ASSUME NEW c, proof' = [proof EXCEPT ![job[k].i].by = c] PROVE SameTries
      BY <3>1 DEF SameTries, Proof
    <3>2. ASSUME UNCHANGED proof PROVE SameTries
      BY <3>2 DEF SameTries
    <3>3. ASSUME NEW c, Go(k, [job[k] EXCEPT !.op = "open", !.c = c]) PROVE SameChecks
      <4>1. [job[k] EXCEPT !.op = "open", !.c = c].op # "giveback"
        BY <3>0 DEF Job
      <4>2. QED
        BY <3>0, <3>3, <4>1, NotGiving
    <3>4. SameTries
      BY <2>7, <3>1, <3>2 DEF CreateCoach
    <3>5. SameChecks
      BY <2>7, <3>0, <3>3, StepNotGiving, IdleNotGiving DEF CreateCoach
    <3>6. QED
      BY <3>4, <3>5, SameTry
  <2>8. CASE ReopenStartLink(k)
    <3>1. SameTries
      BY <2>8 DEF ReopenStartLink, SameTries, Proof
    <3>2. QED
      BY <2>8, <3>1, IdleNotGiving, SameTry DEF ReopenStartLink
  <2>9. CASE CreateCoachSession(k)
    BY <2>9, SameCredit, IdleNotGiving, SameTry DEF CreateCoachSession
  <2>10. CASE MarkEmailVerified(k)
    BY <2>10, SameCredit, IdleNotGiving, SameTry DEF MarkEmailVerified
  <2>11. CASE LookForPhone(k)
    BY <2>11, StepNotGiving, IdleNotGiving, SameTry DEF LookForPhone, SameTries
  <2>12. CASE SetCoachPhone(k)
    <3>1. SameTries
      BY <2>12, SameCredit DEF SetCoachPhone, SameTries
    <3>2. QED
      BY <2>12, <3>1, IdleNotGiving, SameTry DEF SetCoachPhone
  <2>13. CASE MarkPhoneVerified(k)
    BY <2>13, SameCredit, IdleNotGiving, SameTry DEF MarkPhoneVerified
  <2>14. QED
    BY <1>6, <2>1, <2>2, <2>3, <2>4, <2>5, <2>6, <2>7, <2>8, <2>9, <2>10, <2>11, <2>12, <2>13 DEF Work
<1>7. QED
  BY <1>1, <1>2, <1>3, <1>4, <1>5, <1>6 DEF Next

(* However many tries are sent at once, no more than MaxTries wrong ones   *)
(* are ever held against a code, and none is given back twice (checkOtp).  *)
THEOREM TriesCounted == Spec => []TriesBounded
<1>1. Init => TriesInv
  <2> SUFFICES ASSUME Init PROVE TriesInv
    OBVIOUS
  <2>1. \A i \in Proofs : Checking(i) = {}
    BY DEF Init, Checking, Idle
  <2>2. QED
    BY <2>1, FS_EmptySet, SignInAssumption DEF Init, TriesInv, NoProof
<1>2. TypeInv /\ TriesInv => TriesBounded
  <2> SUFFICES ASSUME TypeInv, TriesInv, NEW i \in Proofs PROVE proof[i].wrong <= MaxTries
    BY DEF TriesBounded
  <2>1. Cardinality(Checking(i)) \in Nat /\ proof[i].tries \in Int /\ proof[i].wrong \in Nat
    BY CheckingCount DEF TypeInv, TypeOK, Proof
  <2>2. QED
    BY <2>1, SignInAssumption DEF TriesInv
<1>3. QED
  BY <1>1, <1>2, TypeInit, TypeNext, TriesNext, PTL DEF Spec

----------------------------------------------------------------------------
(* A contact is an account's own: its phone or proved email, or a phone it *)
(* has put another in the place of.                                        *)
Own(c, t) == \/ t = coach[c].phone
             \/ t = coach[c].email /\ coach[c].proved
             \/ t \in Phones /\ coach[c].phone \in Phones

(* A handler that goes on to open a session on an account it found or made. *)
FoundFor(j) == \/ j.op = "open"
               \/ j.op = "consume" /\ j.c # 0 /\ j.for \notin {"email", "phone", "credits"}

(* Before it looks for an account, a sign-in has none. *)
Early(j) == /\ j.op = "find" => j.for = "signin"
            /\ j.op \in {"giveback", "find"} /\ j.for \notin {"email", "phone", "credits"} => j.c = 0

(* Beside what OwnAccount says: handlers, and the account a code or link   *)
(* in use was used for, which is still none or that of its handler.        *)
OwnInv ==
    /\ \A s \in session : proof[s.proof].to \in Contacts /\ Own(s.coach, proof[s.proof].to)
    /\ \A k \in Workers : Early(job[k]) /\ (FoundFor(job[k]) => Own(job[k].c, job[k].to))
    /\ \A k \in Workers : Using(job[k]) => \/ proof[job[k].i].by = 0
                                           \/ job[k].op = "open" /\ proof[job[k].i].by = job[k].c
    /\ \A i \in Proofs : ~proof[i].used => proof[i].by = 0
    /\ \A c \in Coaches :
          /\ coach[c].phone # None => ProvedBy(c, coach[c].phone)
          /\ coach[c].proved => coach[c].email # None /\ ProvedBy(c, coach[c].email)

(* What was used for an account stays so. *)
LEMMA ProvedStays ==
    ASSUME TypeInv, KeepsFit, \A n \in Proofs : proof[n].by # 0 => proof'[n].by = proof[n].by,
           NEW c \in Coaches, NEW t, ProvedBy(c, t)
    PROVE  \E n \in Proofs : proof'[n].to = t /\ proof'[n].by = c
<1>1. PICK n \in Proofs : proof[n].to = t /\ proof[n].by = c
  BY DEF ProvedBy
<1>2. c # 0
  BY SignInAssumption DEF Coaches
<1>3. proof[n].kind # "none"
  BY <1>1, <1>2 DEF TypeInv, Fits, RowsFit, NoProof
<1>4. proof[n].to \in Contacts
  BY <1>3 DEF TypeInv, Fits, RowsFit
<1>5. QED
  BY <1>1, <1>2, <1>4 DEF KeepsFit

LEMMA UsingRow == ASSUME TypeInv, NEW l \in Workers, Using(job[l]) PROVE job[l].i \in Proofs
BY HeldRow DEF Holding

(* A step that uses no code or link for an account, and leaves accounts.   *)
QuietJobsOwn ==
    \A l \in Workers :
        \/ job'[l] = job[l]
        \/ /\ Early(job'[l])
           /\ FoundFor(job'[l]) => Own(job'[l].c, job'[l].to)
           /\ Using(job'[l]) => job'[l].i \in Proofs /\ proof[job'[l].i].by = 0

LEMMA QuietOwn ==
    ASSUME TypeInv, OwnInv, KeepsFit, UNCHANGED coach, session' \subseteq session, QuietJobsOwn,
           \A n \in Proofs : proof'[n].by = proof[n].by,
           \A n \in Proofs : ~proof'[n].used => proof'[n].by = 0
    PROVE  OwnInv'
<1>1. \A s \in session' : proof'[s.proof].to \in Contacts /\ Own(s.coach, proof'[s.proof].to)
  BY DEF OwnInv, KeepsFit, TypeInv, TypeOK
<1>2. \A l \in Workers : Early(job'[l]) /\ (FoundFor(job'[l]) => Own(job'[l].c, job'[l].to))
  BY DEF QuietJobsOwn, OwnInv
<1>3. \A l \in Workers : Using(job'[l]) => \/ proof'[job'[l].i].by = 0
                                           \/ job'[l].op = "open" /\ proof'[job'[l].i].by = job'[l].c
  <2> TAKE l \in Workers
  <2> HAVE Using(job'[l])
  <2>1. CASE job'[l] = job[l]
    BY <2>1, UsingRow DEF OwnInv
  <2>2. CASE job'[l] # job[l]
    BY <2>2 DEF QuietJobsOwn
  <2>3. QED
    BY <2>1, <2>2
<1>4. \A c \in Coaches :
          /\ coach[c].phone # None => \E n \in Proofs : proof'[n].to = coach[c].phone /\ proof'[n].by = c
          /\ coach[c].proved => /\ coach[c].email # None
                                /\ \E n \in Proofs : proof'[n].to = coach[c].email /\ proof'[n].by = c
  BY ProvedStays DEF OwnInv
<1>5. QED
  BY <1>1, <1>2, <1>3, <1>4 DEF OwnInv, Own, ProvedBy, Early, FoundFor, Using

(* A handler's next statement, with what it carries. *)
LEMMA OwnGo ==
    ASSUME TypeInv, NEW k \in Workers, NEW j, Go(k, j), Early(j), FoundFor(j) => Own(j.c, j.to),
           Using(j) => j.i \in Proofs /\ proof[j.i].by = 0
    PROVE  QuietJobsOwn
<1>1. \A l \in Workers : job'[l] = IF l = k THEN j ELSE job[l]
  BY DEF Go, TypeInv, TypeOK
<1>2. QED
  BY <1>1 DEF QuietJobsOwn

LEMMA OwnIdle == ASSUME TypeInv, NEW k \in Workers, Go(k, Idle) PROVE QuietJobsOwn
<1>1. Early(Idle) /\ ~FoundFor(Idle) /\ ~Using(Idle)
  BY DEF Idle, Early, FoundFor, Using
<1>2. QED
  BY <1>1, OwnGo

(* A handler that goes on to op on the code or link in its hands. *)
LEMMA OwnAt ==
    ASSUME TypeInv, OwnInv, NEW k \in Workers,
           NEW op \in {"insert", "consume", "release", "create", "reopen", "mark", "taken", "setphone", "unlock"},
           Step(k, op), op = "consume" => job[k].for \in {"email", "phone", "credits"} \/ job[k].c = 0,
           op \notin {"insert", "consume"} => job[k].i \in Proofs /\ proof[job[k].i].by = 0
    PROVE  QuietJobsOwn
<1>1. PICK j \in Job : At(j, k, op)
  BY NextStatement
<1>2. Go(k, j)
  BY <1>1 DEF Step, At
<1>3. Early(j) /\ ~FoundFor(j)
  BY <1>1 DEF At, Early, FoundFor
<1>4. Using(j) => j.i \in Proofs /\ proof[j.i].by = 0
  BY <1>1 DEF At, Using
<1>5. QED
  BY <1>2, <1>3, <1>4, OwnGo

(* A step that uses the code or link in k's hands, or changes accounts. *)
LEMMA LoudOwn ==
    ASSUME TypeInv, UseInv, OwnInv, KeepsFit, NEW k \in Workers, Using(job[k]),
           NEW j \in Job, Go(k, j), Early(j), FoundFor(j) => Own(j.c, j.to)',
           Using(j) => proof'[j.i].by = 0 \/ (j.op = "open" /\ proof'[j.i].by = j.c),
           \A n \in Proofs : n # job[k].i => proof'[n].by = proof[n].by,
           \A n \in Proofs : proof[n].by # 0 => proof'[n].by = proof[n].by,
           \A n \in Proofs : ~proof'[n].used => proof'[n].by = 0,
           \A c \in Coaches, t \in Contacts : coach[c].joined /\ Own(c, t) => Own(c, t)',
           \A s \in session' : s \in session \/ /\ s.coach \in Coaches /\ s.proof \in Proofs
                                                /\ proof'[s.proof].to \in Contacts
                                                /\ Own(s.coach, proof[s.proof].to)',
           \A c \in Coaches : coach'[c].phone # None =>
              \/ coach'[c].phone = coach[c].phone
              \/ \E n \in Proofs : proof'[n].to = coach'[c].phone /\ proof'[n].by = c,
           \A c \in Coaches : coach'[c].proved =>
              \/ coach[c].proved /\ coach'[c].email = coach[c].email
              \/ coach'[c].email # None /\ \E n \in Proofs : proof'[n].to = coach'[c].email /\ proof'[n].by = c
    PROVE  OwnInv'
<1>1. \A l \in Workers : job'[l] = IF l = k THEN j ELSE job[l]
  BY DEF Go, TypeInv, TypeOK
<1>2. ASSUME NEW s \in session'
      PROVE  proof'[s.proof].to \in Contacts /\ Own(s.coach, proof[s.proof].to)'
  <2>1. CASE s \in session
    <3>1. s.coach \in Coaches /\ s.proof \in Proofs /\ coach[s.coach].joined
      BY <2>1 DEF TypeInv, TypeOK, Fits, RowsFit
    <3>2. proof[s.proof].to \in Contacts /\ Own(s.coach, proof[s.proof].to)
      BY <2>1 DEF OwnInv
    <3>3. proof'[s.proof].to = proof[s.proof].to
      BY <3>1, <3>2 DEF KeepsFit
    <3>4. PICK t \in Contacts : t = proof[s.proof].to
      BY <3>2
    <3>5. Own(s.coach, t)'
      BY <3>1, <3>2, <3>4
    <3>6. QED
      BY <3>3, <3>4, <3>5
  <2>2. CASE s \notin session
    BY <2>2
  <2>3. QED
    BY <2>1, <2>2
<1>3. ASSUME NEW l \in Workers
      PROVE  Early(job[l])' /\ (FoundFor(job[l])' => Own(job[l].c, job[l].to)')
  <2>1. CASE l = k
    <3>1. job'[l] = j
      BY <1>1, <2>1
    <3>2. QED
      BY <3>1 DEF Early, FoundFor, Own
  <2>2. CASE l # k
    <3>1. job'[l] = job[l] /\ Early(job[l]) /\ (FoundFor(job[l]) => Own(job[l].c, job[l].to))
      BY <1>1, <2>2 DEF OwnInv
    <3>2. ASSUME FoundFor(job[l]) PROVE Own(job[l].c, job[l].to)'
      <4>1. PICK c \in Coaches, t \in Contacts : c = job[l].c /\ t = job[l].to /\ coach[c].joined
        BY <3>2 DEF FoundFor, TypeInv, TypeOK, Fits, JobFits, Job
      <4>2. Own(c, t)'
        BY <3>1, <3>2, <4>1
      <4>3. QED
        BY <3>1, <4>1, <4>2
    <3>3. QED
      BY <3>1, <3>2 DEF Early, FoundFor
  <2>3. QED
    BY <2>1, <2>2
<1>4. ASSUME NEW l \in Workers, Using(job'[l])
      PROVE  \/ proof'[job'[l].i].by = 0
             \/ job'[l].op = "open" /\ proof'[job'[l].i].by = job'[l].c
  <2>1. CASE l = k
    BY <1>1, <1>4, <2>1
  <2>2. CASE l # k
    <3>1. job'[l] = job[l] /\ Using(job[l])
      BY <1>1, <1>4, <2>2 DEF Using
    <3>2. job[l].i \in Proofs /\ job[l].i # job[k].i
      BY <2>2, <3>1, UsingRow DEF UseInv
    <3>3. QED
      BY <3>1, <3>2 DEF OwnInv
  <2>3. QED
    BY <2>1, <2>2
<1>5. ASSUME NEW c \in Coaches
      PROVE  /\ coach'[c].phone # None => \E n \in Proofs : proof'[n].to = coach'[c].phone /\ proof'[n].by = c
             /\ coach'[c].proved => /\ coach'[c].email # None
                                    /\ \E n \in Proofs : proof'[n].to = coach'[c].email /\ proof'[n].by = c
  BY ProvedStays DEF OwnInv
<1>6. QED
  BY <1>2, <1>3, <1>4, <1>5 DEF OwnInv, ProvedBy, Using

(* Rows after a step that uses no code or link for an account. *)
SameOwners ==
    \A n \in Proofs : /\ proof[n].to \in Contacts => proof'[n].to = proof[n].to
                      /\ proof'[n].by = proof[n].by
                      /\ proof[n].used => proof'[n].used

LEMMA QuietStep ==
    ASSUME TypeInv, TypeInv', OwnInv, UNCHANGED coach, session' \subseteq session, SameOwners, QuietJobsOwn
    PROVE  OwnInv'
<1>1. KeepsFit
  BY DEF KeepsFit, SameOwners, TypeInv, TypeOK, RowsTyped, Fits
<1>2. \A n \in Proofs : proof'[n].by = proof[n].by /\ (~proof'[n].used => proof'[n].by = 0)
  BY DEF SameOwners, OwnInv
<1>3. QED
  BY <1>1, <1>2, QuietOwn

LEMMA InsertOwners ==
    ASSUME TypeInv, NEW row \in Proof, row.by = 0, FreeProofs # {},
           proof' = [proof EXCEPT ![NewProof] = row]
    PROVE  SameOwners
<1>1. NewProof \in Proofs /\ proof[NewProof] = NoProof
  BY NewProofIsFree
<1>2. proof[NewProof].by = 0 /\ proof[NewProof].to \notin Contacts /\ ~proof[NewProof].used
  BY <1>1, SignInAssumption DEF NoProof, Contacts
<1>3. \A n \in Proofs : proof'[n] = IF n = NewProof THEN row ELSE proof[n]
  BY <1>1 DEF TypeInv, TypeOK
<1>4. QED
  BY <1>2, <1>3 DEF SameOwners

LEMMA OwnRequest ==
    ASSUME TypeInv, TypeInv', OwnInv, NEW k \in Workers, Request(k)
    PROVE  OwnInv'
<1> job \in [Workers -> Job] /\ proof \in [Proofs -> Proof]
  BY DEF TypeInv, TypeOK
<1>1. ASSUME NEW t \in Contacts, NEW purpose \in {"signin", "credits"}, SendCode(k, t, purpose)
      PROVE  OwnInv'
  <2> DEFINE j == [Idle EXCEPT !.op = "expire", !.to = t,
                          !.for = IF purpose = "credits" THEN "credits" ELSE "signin"]
  <2>1. Early(j) /\ ~FoundFor(j) /\ ~Using(j)
    BY DEF Early, FoundFor, Using, Idle
  <2>2. Go(k, j)
    BY <1>1 DEF SendCode
  <2> HIDE DEF j
  <2>3. QuietJobsOwn
    BY <2>1, <2>2, OwnGo
  <2>4. QED
    BY <1>1, <2>3, QuietStep DEF SendCode, SameOwners
<1>2. ASSUME NEW for \in {"signin", "email", "phone", "credits"}, NEW t \in Contacts,
             NEW c \in Coaches \cup {0}, NEW right \in BOOLEAN, CheckCode(k, for, t, c, right)
      PROVE  OwnInv'
  <2>1. SameOwners
    BY <1>2 DEF CheckCode, SameOwners, Proof
  <2>2. for = "signin" => c = 0
    BY <1>2 DEF CheckCode, MayEnter
  <2>3. CASE right
    <3>1. PICK i \in Proofs : Go(k, [Idle EXCEPT !.op = "giveback", !.for = for, !.to = t, !.i = i, !.c = c])
      BY <1>2, <2>3 DEF CheckCode, Working
    <3> DEFINE j == [Idle EXCEPT !.op = "giveback", !.for = for, !.to = t, !.i = i, !.c = c]
    <3>2. Early(j) /\ ~FoundFor(j) /\ ~Using(j)
      BY <2>2 DEF Early, FoundFor, Using, Idle
    <3> HIDE DEF j
    <3>3. QuietJobsOwn
      BY <3>1, <3>2, OwnGo DEF j
    <3>4. QED
      BY <1>2, <2>1, <3>3, QuietStep DEF CheckCode
  <2>4. CASE ~right
    <3>1. QuietJobsOwn
      BY <1>2, <2>4 DEF CheckCode, QuietJobsOwn
    <3>2. QED
      BY <1>2, <2>1, <3>1, QuietStep DEF CheckCode
  <2>5. QED
    BY <2>3, <2>4
<1>3. ASSUME NEW i \in Proofs, OpenStartLink(k, i)
      PROVE  OwnInv'
  <2> DEFINE j == [Idle EXCEPT !.op = "consume", !.for = "link", !.to = proof[i].to, !.i = i]
  <2>1. ASSUME NEW c \in ByPhone(proof[i].to), Go(k, [j EXCEPT !.c = c]) PROVE QuietJobsOwn
    <3>1. Early([j EXCEPT !.c = c]) /\ ~Using([j EXCEPT !.c = c])
          /\ [j EXCEPT !.c = c].c = c /\ [j EXCEPT !.c = c].to = proof[i].to
      BY DEF Early, Using, Idle
    <3>2. Own(c, proof[i].to)
      BY <2>1 DEF ByPhone, Own
    <3>3. QED
      BY <2>1, <3>1, <3>2, OwnGo
  <2>2. ASSUME NEW e, Go(k, [j EXCEPT !.extra = e]) PROVE QuietJobsOwn
    <3>1. Early([j EXCEPT !.extra = e]) /\ ~FoundFor([j EXCEPT !.extra = e]) /\ ~Using([j EXCEPT !.extra = e])
      BY DEF Early, FoundFor, Using, Idle
    <3>2. QED
      BY <2>2, <3>1, OwnGo
  <2>3. QED
    BY <1>3, <2>1, <2>2, QuietStep DEF OpenStartLink, SameOwners
<1>4. QED
  BY <1>1, <1>2, <1>3 DEF Request

LEMMA OwnFind ==
    ASSUME TypeInv, TypeInv', OwnInv, NEW k \in Workers, FindCoach(k)
    PROVE  OwnInv'
<1>1. job[k] \in Job /\ job[k].op = "find" /\ job[k].for = "signin" /\ job[k].c = 0 /\ job[k].to \in Contacts
  BY HeldRow DEF FindCoach, Holding, TypeInv, TypeOK, OwnInv, Early
<1>2. ASSUME NEW c \in ByContact(job[k].to), Go(k, [job[k] EXCEPT !.op = "consume", !.c = c])
      PROVE  QuietJobsOwn
  <2> DEFINE j == [job[k] EXCEPT !.op = "consume", !.c = c]
  <2>1. j.op = "consume" /\ j.c = c /\ j.to = job[k].to
    BY <1>1 DEF Job
  <2>2. Own(c, job[k].to)
    BY <1>2 DEF ByContact, ByPhone, ByEmail, HoldingEmail, Own
  <2> HIDE DEF j
  <2>3. Early(j) /\ ~Using(j) /\ Own(j.c, j.to)
    BY <2>1, <2>2 DEF Early, Using
  <2>4. QED
    BY <1>2, <2>3, OwnGo DEF j
<1>3. ASSUME NEW b, Go(k, [job[k] EXCEPT !.op = "consume", !.unproved = b])
      PROVE  QuietJobsOwn
  <2> DEFINE j == [job[k] EXCEPT !.op = "consume", !.unproved = b]
  <2>1. j.op = "consume" /\ j.c = 0
    BY <1>1 DEF Job
  <2>2. Early(j) /\ ~Using(j) /\ ~FoundFor(j)
    BY <2>1 DEF Early, Using, FoundFor
  <2> HIDE DEF j
  <2>4. QED
    BY <1>3, <2>2, OwnGo DEF j
<1>4. ASSUME NEW e, Go(k, [job[k] EXCEPT !.op = "consume", !.extra = e])
      PROVE  QuietJobsOwn
  <2> DEFINE j == [job[k] EXCEPT !.op = "consume", !.extra = e]
  <2>1. j.op = "consume" /\ j.c = 0
    BY <1>1 DEF Job
  <2>2. Early(j) /\ ~Using(j) /\ ~FoundFor(j)
    BY <2>1 DEF Early, Using, FoundFor
  <2> HIDE DEF j
  <2>4. QED
    BY <1>4, <2>2, OwnGo DEF j
<1>5. QuietJobsOwn
  BY <1>2, <1>3, <1>4, OwnIdle DEF FindCoach
<1>6. QED
  BY <1>5, QuietStep DEF FindCoach, SameOwners

LEMMA OwnConsume ==
    ASSUME TypeInv, TypeInv', OwnInv, NEW k \in Workers, Consume(k)
    PROVE  OwnInv'
<1>1. job[k] \in Job /\ job[k].i \in Proofs /\ proof \in [Proofs -> Proof] /\ job[k].op = "consume"
  BY HeldRow DEF Consume, Holding, TypeInv, TypeOK
<1>2. SameOwners
  BY <1>1 DEF Consume, SameOwners, Proof
<1>3. CASE Consumable(job[k])
  <2>1. proof[job[k].i].by = 0
    BY <1>1, <1>3 DEF Consumable, OwnInv
  <2>2. CASE AfterUse(job[k]) # "open"
    <3>1. AfterUse(job[k]) \in {"mark", "taken", "unlock", "release", "create"}
      BY <2>2 DEF AfterUse
    <3>2. QuietJobsOwn
      BY <1>1, <1>3, <2>1, <3>1, OwnAt DEF Consume
    <3>3. QED
      BY <1>2, <3>2, QuietStep DEF Consume
  <2>3. CASE AfterUse(job[k]) = "open"
    <3>1. job[k].c # 0 /\ job[k].for \notin {"email", "phone", "credits"}
      BY <2>3 DEF AfterUse
    <3>2. Own(job[k].c, job[k].to)
      BY <1>1, <3>1 DEF OwnInv, FoundFor
    <3>3. PICK j \in Job : At(j, k, "open")
      BY NextStatement
    <3>4. Early(j) /\ Own(j.c, j.to) /\ j.i \in Proofs /\ proof[j.i].by = 0
      BY <1>1, <2>1, <3>2, <3>3 DEF At, Early
    <3>5. QuietJobsOwn
      BY <1>3, <2>3, <3>3, <3>4, OwnGo DEF Consume, Step, At
    <3>6. QED
      BY <1>2, <3>5, QuietStep DEF Consume
  <2>4. QED
    BY <2>2, <2>3
<1>4. CASE ~Consumable(job[k])
  BY <1>2, <1>4, OwnIdle, QuietStep DEF Consume
<1>5. QED
  BY <1>3, <1>4

(* The account of a code or link is still to come, but while its session opens. *)
LEMMA ByNobody ==
    ASSUME TypeInv, OwnInv, NEW k \in Workers, Using(job[k]), job[k].op # "open"
    PROVE  job[k].i \in Proofs /\ proof[job[k].i].by = 0
BY UsingRow DEF OwnInv

LEMMA CreditRows ==
    ASSUME TypeInv, NEW i \in Proofs, NEW c \in Coaches \cup {0}, proof' = Credited(i, c)
    PROVE  /\ \A n \in Proofs : n # i => proof'[n] = proof[n]
           /\ \A n \in Proofs : proof'[n].to = proof[n].to /\ proof'[n].used = proof[n].used
           /\ proof'[i].by = c
BY DEF Credited, TypeInv, TypeOK, Proof

LEMMA OwnRelease ==
    ASSUME TypeInv, TypeInv', UseInv, OwnInv, NEW k \in Workers, ReleaseUnprovedEmail(k)
    PROVE  OwnInv'
<1>1. Using(job[k]) /\ job[k].i \in Proofs /\ proof[job[k].i].by = 0
  BY ByNobody DEF ReleaseUnprovedEmail, Using
<1>2. /\ \A c \in Coaches : coach'[c].joined = coach[c].joined /\ coach'[c].phone = coach[c].phone
      /\ \A c \in Coaches : coach'[c].proved = coach[c].proved
      /\ \A c \in Coaches : coach[c].proved => coach'[c].email = coach[c].email
  BY DEF ReleaseUnprovedEmail, Releasable, TypeInv, TypeOK, Coach
<1>3. PICK j \in Job : At(j, k, "create")
  BY NextStatement
<1>4. Go(k, j) /\ Early(j) /\ ~FoundFor(j) /\ j.i = job[k].i
  BY <1>3 DEF At, Early, FoundFor, ReleaseUnprovedEmail, Step
<1>5. KeepsFit
  BY <1>2 DEF ReleaseUnprovedEmail, KeepsFit, TypeInv, TypeOK, RowsTyped, Fits
<1>6. \A c \in Coaches, t \in Contacts : Own(c, t) => Own(c, t)'
  BY <1>2 DEF Own
<1>7. UNCHANGED <<proof, session>>
  BY DEF ReleaseUnprovedEmail
<1>8. \A n \in Proofs : ~proof'[n].used => proof'[n].by = 0
  BY <1>7 DEF OwnInv
<1>9. Using(j) => proof'[j.i].by = 0
  BY <1>1, <1>4, <1>7
<1>10. \A c \in Coaches : coach'[c].phone = coach[c].phone
  BY <1>2
<1>11. \A c \in Coaches : coach'[c].proved => coach[c].proved /\ coach'[c].email = coach[c].email
  BY <1>2
<1>12. \A n \in Proofs : proof'[n].by = proof[n].by
  BY <1>7
<1>13. session' = session
  BY <1>7
<1>14. \A c \in Coaches, t \in Contacts : coach[c].joined /\ Own(c, t) => Own(c, t)'
  BY <1>6
<1>15. \A c \in Coaches : coach'[c].phone # None =>
              \/ coach'[c].phone = coach[c].phone
              \/ \E n \in Proofs : proof'[n].to = coach'[c].phone /\ proof'[n].by = c
  BY <1>10
<1>16. \A c \in Coaches : coach'[c].proved =>
              \/ coach[c].proved /\ coach'[c].email = coach[c].email
              \/ coach'[c].email # None /\ \E n \in Proofs : proof'[n].to = coach'[c].email /\ proof'[n].by = c
  BY <1>11
<1>17. FoundFor(j) => Own(j.c, j.to)'
  BY <1>4
<1>18. Using(j) => proof'[j.i].by = 0 \/ (j.op = "open" /\ proof'[j.i].by = j.c)
  BY <1>9
<1>19. Using(job[k]) /\ Go(k, j) /\ Early(j)
  BY <1>1, <1>4
<1>20. \A n \in Proofs : n # job[k].i => proof'[n].by = proof[n].by
  BY <1>12
<1>21. \A n \in Proofs : proof[n].by # 0 => proof'[n].by = proof[n].by
  BY <1>12
<1>22. \A s \in session' : s \in session \/ /\ s.coach \in Coaches /\ s.proof \in Proofs
                                                /\ proof'[s.proof].to \in Contacts
                                                /\ Own(s.coach, proof[s.proof].to)'
  BY <1>13
<1>23. QED
  BY <1>5, <1>8, <1>14, <1>15, <1>16, <1>17, <1>18, <1>19, <1>20, <1>21, <1>22, LoudOwn

LEMMA OwnCreate ==
    ASSUME TypeInv, TypeInv', UseInv, OwnInv, NEW k \in Workers, CreateCoach(k)
    PROVE  OwnInv'
<1>1. Using(job[k]) /\ job[k].i \in Proofs /\ proof[job[k].i].by = 0 /\ job[k] \in Job /\ job[k].to \in Contacts
  BY ByNobody, HeldRow DEF CreateCoach, Using, Holding, TypeInv, TypeOK
<1>2. proof \in [Proofs -> Proof] /\ coach \in [Coaches -> Coach]
  BY DEF TypeInv, TypeOK
<1>3. ASSUME NEW c \in FreeCoaches,
             coach' = [coach EXCEPT ![c] =
                      [phone |-> PhoneOf(job[k]), email |-> EmailOf(job[k]),
                       proved |-> job[k].to \in Emails, joined |-> TRUE]],
             proof' = [proof EXCEPT ![job[k].i].by = c],
             Go(k, [job[k] EXCEPT !.op = "open", !.c = c]), UNCHANGED session
      PROVE  OwnInv'
  <2>1. c \in Coaches /\ ~coach[c].joined /\ coach[c] = NoCoach
    BY DEF FreeCoaches, TypeInv, Fits, RowsFit
  <2>2. \A d \in Coaches : d # c => coach'[d] = coach[d]
    BY <1>2, <1>3
  <2>3. /\ coach'[c].joined /\ coach'[c].phone = PhoneOf(job[k]) /\ coach'[c].email = EmailOf(job[k])
        /\ coach'[c].proved <=> job[k].to \in Emails
    BY <1>2, <1>3, <2>1
  <2>4. /\ \A n \in Proofs : n # job[k].i => proof'[n] = proof[n]
        /\ \A n \in Proofs : proof'[n].to = proof[n].to /\ proof'[n].used = proof[n].used
        /\ proof'[job[k].i].by = c
    BY <1>1, <1>2, <1>3 DEF Proof
  <2>5. proof[job[k].i].used /\ proof[job[k].i].to = job[k].to
    BY <1>1, HeldRow DEF UseInv, Holding
  <2>6. PICK i \in Proofs, to \in Contacts : i = job[k].i /\ to = job[k].to
    BY <1>1
  <2>7. (to \in Phones /\ coach'[c].phone = to /\ ~coach'[c].proved)
        \/ (to \in Emails /\ coach'[c].phone = None /\ coach'[c].email = to /\ coach'[c].proved /\ to # None)
    BY <2>3, <2>6, SignInAssumption DEF PhoneOf, EmailOf, Contacts
  <2>8. [job[k] EXCEPT !.op = "open", !.c = c] \in Job
    BY <1>1, <2>1 DEF Job
  <2>9. PICK j \in Job : j = [job[k] EXCEPT !.op = "open", !.c = c]
    BY <2>8
  <2>10. j.op = "open" /\ j.c = c /\ j.to = to /\ j.i = i /\ Go(k, j)
    BY <1>1, <1>3, <2>6, <2>9 DEF Job
  <2>11. Early(j) /\ Own(j.c, j.to)'
    BY <2>7, <2>10 DEF Early, Own
  <2>12. KeepsFit
    BY <2>2, <2>3, <2>4 DEF KeepsFit, TypeInv, TypeOK, RowsTyped, Fits
  <2>13. \A d \in Coaches, t \in Contacts : coach[d].joined /\ Own(d, t) => Own(d, t)'
    BY <2>1, <2>2 DEF Own
  <2>14. \A n \in Proofs : ~proof'[n].used => proof'[n].by = 0
    BY <2>4, <2>5, <2>6 DEF OwnInv
  <2>15. \A n \in Proofs : proof[n].by # 0 => proof'[n].by = proof[n].by
    BY <1>1, <2>4
  <2>16. \A d \in Coaches : coach'[d].phone # None =>
              \/ coach'[d].phone = coach[d].phone
              \/ \E n \in Proofs : proof'[n].to = coach'[d].phone /\ proof'[n].by = d
    BY <2>2, <2>4, <2>5, <2>6, <2>7
  <2>17. \A d \in Coaches : coach'[d].proved =>
              \/ coach[d].proved /\ coach'[d].email = coach[d].email
              \/ coach'[d].email # None /\ \E n \in Proofs : proof'[n].to = coach'[d].email /\ proof'[n].by = d
    BY <2>2, <2>4, <2>5, <2>6, <2>7
  <2>18. Using(j) => proof'[j.i].by = 0 \/ (j.op = "open" /\ proof'[j.i].by = j.c)
    BY <2>4, <2>6, <2>10
  <2>19. \A n \in Proofs : n # job[k].i => proof'[n].by = proof[n].by
    BY <2>4
  <2>20. QED
    BY <1>1, <1>3, <2>10, <2>11, <2>12, <2>13, <2>14, <2>15, <2>16, <2>17, <2>18, <2>19, LoudOwn
<1>4. ASSUME UNCHANGED <<coach, proof, session>>, QuietJobsOwn PROVE OwnInv'
  BY <1>4, QuietStep DEF SameOwners
<1>5. ASSUME Step(k, "reopen") PROVE QuietJobsOwn
  BY <1>1, <1>5, OwnAt
<1>6. ASSUME NEW c \in ByPhone(job[k].to), Go(k, [job[k] EXCEPT !.op = "open", !.c = c])
      PROVE  QuietJobsOwn
  <2> DEFINE j == [job[k] EXCEPT !.op = "open", !.c = c]
  <2>1. j.op = "open" /\ j.c = c /\ j.to = job[k].to /\ j.i = job[k].i
    BY <1>1 DEF Job
  <2>2. Own(c, job[k].to)
    BY <1>6 DEF ByPhone, Own
  <2> HIDE DEF j
  <2>3. Early(j) /\ Own(j.c, j.to) /\ j.i \in Proofs /\ proof[j.i].by = 0
    BY <1>1, <2>1, <2>2 DEF Early
  <2>4. QED
    BY <1>6, <2>3, OwnGo DEF j
<1>7. QED
  BY <1>3, <1>4, <1>5, <1>6, OwnIdle DEF CreateCoach

LEMMA OwnOpen ==
    ASSUME TypeInv, TypeInv', UseInv, OwnInv, NEW k \in Workers, CreateCoachSession(k)
    PROVE  OwnInv'
<1>1. PICK i \in Proofs, c \in Coaches, to \in Contacts :
         /\ i = job[k].i /\ c = job[k].c /\ to = job[k].to /\ proof[i].to = to /\ Own(c, to)
         /\ Using(job[k]) /\ (proof[i].by = 0 \/ proof[i].by = c) /\ proof[i].used
  BY HeldRow DEF CreateCoachSession, Using, Holding, TypeInv, Fits, JobFits, OwnInv, FoundFor, UseInv
<1>2. /\ \A n \in Proofs : n # i => proof'[n] = proof[n]
      /\ \A n \in Proofs : proof'[n].to = proof[n].to /\ proof'[n].used = proof[n].used
      /\ proof'[i].by = c
  BY <1>1, CreditRows DEF CreateCoachSession
<1>3. KeepsFit
  BY <1>2 DEF CreateCoachSession, KeepsFit, TypeInv, TypeOK, RowsTyped, Fits
<1>4. Early(Idle) /\ ~FoundFor(Idle) /\ ~Using(Idle) /\ Idle \in Job /\ Go(k, Idle)
  BY IdleIsJob DEF Idle, Early, FoundFor, Using, CreateCoachSession
<1>5. UNCHANGED coach
  BY DEF CreateCoachSession
<1>6. \A d \in Coaches, t \in Contacts : Own(d, t) => Own(d, t)'
  BY <1>5 DEF Own
<1>7. Own(c, to)'
  BY <1>1, <1>6
<1>8. \A s \in session' : s \in session \/ s = [coach |-> c, proof |-> i]
  BY <1>1 DEF CreateCoachSession
<1>9. \A s \in session' : s \in session \/ /\ s.coach \in Coaches /\ s.proof \in Proofs
                                           /\ proof'[s.proof].to \in Contacts
                                           /\ Own(s.coach, proof[s.proof].to)'
  <2> TAKE s \in session'
  <2>1. CASE s = [coach |-> c, proof |-> i]
    <3>1. s.coach = c /\ s.proof = i /\ proof'[i].to = to
      BY <1>1, <1>2, <2>1
    <3>2. QED
      BY <1>7, <3>1
  <2>2. QED
    BY <1>8, <2>1
<1>10. \A n \in Proofs : ~proof'[n].used => proof'[n].by = 0
  BY <1>1, <1>2 DEF OwnInv
<1>11. \A n \in Proofs : proof[n].by # 0 => proof'[n].by = proof[n].by
  BY <1>1, <1>2
<1>12. \A n \in Proofs : n # job[k].i => proof'[n].by = proof[n].by
  BY <1>1, <1>2
<1>13. QED
  BY <1>1, <1>3, <1>4, <1>5, <1>6, <1>9, <1>10, <1>11, <1>12, LoudOwn

LEMMA OwnMark ==
    ASSUME TypeInv, TypeInv', UseInv, OwnInv, NEW k \in Workers, MarkEmailVerified(k)
    PROVE  OwnInv'
<1>1. PICK i \in Proofs, c \in Coaches, to \in Contacts :
         /\ i = job[k].i /\ c = job[k].c /\ to = job[k].to /\ proof[i].to = to
         /\ Using(job[k]) /\ proof[i].by = 0 /\ proof[i].used
  BY HeldRow, ByNobody DEF MarkEmailVerified, Using, Holding, TypeInv, Fits, JobFits, UseInv
<1>2. /\ \A n \in Proofs : n # i => proof'[n] = proof[n]
      /\ \A n \in Proofs : proof'[n].to = proof[n].to /\ proof'[n].used = proof[n].used
      /\ proof'[i].by = c
  BY <1>1, CreditRows DEF MarkEmailVerified
<1>3. /\ \A d \in Coaches : /\ coach'[d].joined = coach[d].joined /\ coach'[d].phone = coach[d].phone
                            /\ coach'[d].email = coach[d].email
                            /\ coach[d].proved => coach'[d].proved
      /\ \A d \in Coaches : coach'[d].proved => coach[d].proved \/ (d = c /\ coach[c].email = to)
  BY <1>1 DEF MarkEmailVerified, Markable, TypeInv, TypeOK, Coach
<1>4. KeepsFit
  BY <1>2, <1>3 DEF KeepsFit, TypeInv, TypeOK, RowsTyped, Fits
<1>5. Early(Idle) /\ ~FoundFor(Idle) /\ ~Using(Idle) /\ Idle \in Job /\ Go(k, Idle)
  BY IdleIsJob DEF Idle, Early, FoundFor, Using, MarkEmailVerified
<1>6. \A d \in Coaches, t \in Contacts : Own(d, t) => Own(d, t)'
  BY <1>3 DEF Own
<1>7. \A n \in Proofs : ~proof'[n].used => proof'[n].by = 0
  BY <1>1, <1>2 DEF OwnInv
<1>8. \A n \in Proofs : proof[n].by # 0 => proof'[n].by = proof[n].by
  BY <1>1, <1>2
<1>9. \A n \in Proofs : n # job[k].i => proof'[n].by = proof[n].by
  BY <1>1, <1>2
<1>10. to # None
  BY SignInAssumption DEF Contacts
<1>11. \A d \in Coaches : coach'[d].proved =>
              \/ coach[d].proved /\ coach'[d].email = coach[d].email
              \/ coach'[d].email # None /\ \E n \in Proofs : proof'[n].to = coach'[d].email /\ proof'[n].by = d
  BY <1>1, <1>2, <1>3, <1>10
<1>12. UNCHANGED session
  BY DEF MarkEmailVerified
<1>13. QED
  BY <1>1, <1>3, <1>4, <1>5, <1>6, <1>7, <1>8, <1>9, <1>11, <1>12, LoudOwn

LEMMA OwnSetPhone ==
    ASSUME TypeInv, TypeInv', UseInv, OwnInv, NEW k \in Workers, SetCoachPhone(k), ~OtherHas(job[k])
    PROVE  OwnInv'
<1>1. PICK i \in Proofs, c \in Coaches, to \in Phones :
         /\ i = job[k].i /\ c = job[k].c /\ to = job[k].to /\ proof[i].to = to
         /\ Using(job[k]) /\ proof[i].by = 0 /\ proof[i].used
  BY HeldRow, ByNobody DEF SetCoachPhone, Using, Holding, TypeInv, Fits, JobFits, UseInv
<1>2. /\ \A n \in Proofs : n # i => proof'[n] = proof[n]
      /\ \A n \in Proofs : proof'[n].to = proof[n].to /\ proof'[n].used = proof[n].used
      /\ proof'[i].by = c
  BY <1>1, CreditRows DEF SetCoachPhone
<1>3. \A d \in Coaches : /\ coach'[d].joined = coach[d].joined /\ coach'[d].proved = coach[d].proved
                         /\ coach'[d].email = coach[d].email
                         /\ coach'[d].phone = IF d = c THEN to ELSE coach[d].phone
  BY <1>1 DEF SetCoachPhone, TypeInv, TypeOK, Coach
<1>4. KeepsFit
  BY <1>2, <1>3 DEF KeepsFit, TypeInv, TypeOK, RowsTyped, Fits
<1>5. Early(Idle) /\ ~FoundFor(Idle) /\ ~Using(Idle) /\ Idle \in Job /\ Go(k, Idle)
  BY IdleIsJob DEF Idle, Early, FoundFor, Using, SetCoachPhone
<1>6. \A d \in Coaches, t \in Contacts : Own(d, t) => Own(d, t)'
  <2> SUFFICES ASSUME NEW d \in Coaches, NEW t \in Contacts, Own(d, t) PROVE Own(d, t)'
    OBVIOUS
  <2>1. coach[d].phone \in Phones \cup {None} /\ t # None
    BY SignInAssumption DEF TypeInv, TypeOK, Coach, Contacts
  <2>2. QED
    BY <1>3, <2>1 DEF Own
<1>7. \A n \in Proofs : ~proof'[n].used => proof'[n].by = 0
  BY <1>1, <1>2 DEF OwnInv
<1>8. \A n \in Proofs : proof[n].by # 0 => proof'[n].by = proof[n].by
  BY <1>1, <1>2
<1>9. \A n \in Proofs : n # job[k].i => proof'[n].by = proof[n].by
  BY <1>1, <1>2
<1>10. \A d \in Coaches : coach'[d].phone # None =>
              \/ coach'[d].phone = coach[d].phone
              \/ \E n \in Proofs : proof'[n].to = coach'[d].phone /\ proof'[n].by = d
  BY <1>1, <1>2, <1>3
<1>11. UNCHANGED session
  BY DEF SetCoachPhone
<1>12. QED
  BY <1>1, <1>3, <1>4, <1>5, <1>6, <1>7, <1>8, <1>9, <1>10, <1>11, LoudOwn

LEMMA OwnNext == TypeInv /\ TypeInv' /\ UseInv /\ OwnInv /\ [Next]_vars => OwnInv'
<1> SUFFICES ASSUME TypeInv, TypeInv', UseInv, OwnInv, [Next]_vars PROVE OwnInv'
  OBVIOUS
<1> job \in [Workers -> Job] /\ proof \in [Proofs -> Proof]
  BY DEF TypeInv, TypeOK
<1>1. ASSUME NEW p \in Phones, CreateStartLink(p) PROVE OwnInv'
  <2>1. PICK row \in Proof : row = NewRow("link", p) /\ row.by = 0
    BY FreshRow DEF Contacts
  <2>2. SameOwners
    BY <1>1, <2>1, InsertOwners DEF CreateStartLink, RoomForProof
  <2>3. QED
    BY <1>1, <2>2, QuietStep DEF CreateStartLink, QuietJobsOwn
<1>2. ASSUME NEW i \in Proofs, Expire(i) PROVE OwnInv'
  <2>1. SameOwners
    BY <1>2 DEF Expire, SameOwners, Proof
  <2>2. QED
    BY <1>2, <2>1, QuietStep DEF Expire, QuietJobsOwn
<1>3. ASSUME NEW s \in session, SignOut(s) PROVE OwnInv'
  BY <1>3, QuietStep DEF SignOut, SameOwners, QuietJobsOwn
<1>4. CASE UNCHANGED vars
  BY <1>4, QuietStep DEF vars, SameOwners, QuietJobsOwn
<1>5. ASSUME NEW k \in Workers, Work(k) PROVE OwnInv'
  <2>1. CASE ExpireEarlier(k)
    <3>1. SameOwners
      BY <2>1 DEF ExpireEarlier, SameOwners, Proof
    <3>2. QED
      BY <2>1, <3>1, OwnAt, QuietStep DEF ExpireEarlier
  <2>2. CASE InsertCode(k)
    <3>1. PICK row \in Proof : proof' = [proof EXCEPT ![NewProof] = row] /\ row.by = 0
      BY <2>2, InsertedRow
    <3>2. SameOwners
      BY <2>2, <3>1, InsertOwners DEF InsertCode
    <3>3. QED
      BY <2>2, <3>2, OwnIdle, QuietStep DEF InsertCode
  <2>3. CASE GiveBack(k)
    <3>1. SameOwners
      BY <2>3 DEF GiveBack, SameOwners, Proof
    <3>2. CASE job[k].for = "signin"
      <4>1. PICK j \in Job : At(j, k, "find")
        BY NextStatement
      <4>2. Early(j) /\ ~FoundFor(j) /\ ~Using(j) /\ Go(k, j)
        BY <2>3, <3>2, <4>1 DEF At, Early, FoundFor, Using, GiveBack, Step, OwnInv
      <4>3. QuietJobsOwn
        BY <4>2, OwnGo
      <4>4. QED
        BY <2>3, <3>1, <4>3, QuietStep DEF GiveBack
    <3>3. CASE job[k].for # "signin"
      <4>1. job[k].for \in {"email", "phone", "credits"} \/ job[k].c = 0
        BY <2>3 DEF GiveBack, OwnInv, Early
      <4>2. QuietJobsOwn
        BY <2>3, <3>3, <4>1, OwnAt DEF GiveBack
      <4>3. QED
        BY <2>3, <3>1, <4>2, QuietStep DEF GiveBack
    <3>4. QED
      BY <3>2, <3>3
  <2>4. CASE ReopenStartLink(k)
    <3>1. Using(job[k]) /\ job[k].i \in Proofs /\ proof[job[k].i].by = 0
      BY <2>4, ByNobody DEF ReopenStartLink, Using
    <3>2. /\ \A n \in Proofs : proof'[n].to = proof[n].to /\ proof'[n].by = proof[n].by
          /\ \A n \in Proofs : n # job[k].i => proof'[n].used = proof[n].used
      BY <2>4, <3>1 DEF ReopenStartLink, Proof
    <3>3. \A n \in Proofs : ~proof'[n].used => proof'[n].by = 0
      BY <3>1, <3>2 DEF OwnInv
    <3>4. KeepsFit
      BY <2>4, <3>2 DEF ReopenStartLink, KeepsFit, TypeInv, TypeOK, RowsTyped, Fits
    <3>5. QED
      BY <2>4, <3>2, <3>3, <3>4, OwnIdle, QuietOwn DEF ReopenStartLink
  <2>5. CASE LookForPhone(k)
    <3>1. job[k].i \in Proofs /\ proof[job[k].i].by = 0
      BY <2>5, ByNobody DEF LookForPhone, Using
    <3>2. QuietJobsOwn
      BY <2>5, <3>1, OwnIdle, OwnAt DEF LookForPhone
    <3>3. QED
      BY <2>5, <3>2, QuietStep DEF LookForPhone, SameOwners
  <2>6. CASE SetCoachPhone(k)
    <3>1. CASE OtherHas(job[k])
      BY <2>6, <3>1, OwnIdle, QuietStep DEF SetCoachPhone, SameOwners
    <3>2. QED
      BY <2>6, <3>1, OwnSetPhone
  <2>7. CASE MarkPhoneVerified(k)
    <3>1. job[k].i \in Proofs /\ proof[job[k].i].by = 0
      BY <2>7, ByNobody DEF MarkPhoneVerified, Using
    <3>2. SameOwners
      BY <2>7, <3>1, CreditRows DEF MarkPhoneVerified, SameOwners
    <3>3. QED
      BY <2>7, <3>2, OwnIdle, QuietStep DEF MarkPhoneVerified
  <2>8. QED
    BY <1>5, <2>1, <2>2, <2>3, <2>4, <2>5, <2>6, <2>7, OwnFind, OwnConsume, OwnRelease, OwnCreate,
       OwnOpen, OwnMark DEF Work
<1>6. QED
  BY <1>1, <1>2, <1>3, <1>4, <1>5, OwnRequest DEF Next

(* Whoever is signed in proved the phone or email of the account they are  *)
(* in, and an account has no phone and no proved email that it did not     *)
(* prove itself (routes/coach.ts, markEmailVerified, setCoachPhone).       *)
THEOREM OwnersOnly == Spec => []OwnAccount
<1>1. Init => OwnInv
  BY DEF Init, OwnInv, Early, FoundFor, Using, Idle, NoProof, NoCoach
<1>2. OwnInv => OwnAccount
  BY DEF OwnInv, OwnAccount, Own
<1>3. Init => UseInv
  BY DEF Init, UseInv, Using, Idle, NoProof
<1>4. QED
  BY <1>1, <1>2, <1>3, TypeInit, TypeNext, UseNext, OwnNext, PTL DEF Spec

=============================================================================
