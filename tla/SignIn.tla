-------------------------------- MODULE SignIn --------------------------------
(***************************************************************************)
(* Who is signed in, and how they proved it: the codes sent to a phone or  *)
(* an email, the link texted to a phone that texted first, the accounts    *)
(* they open, and the email, phone or booking a code adds.  A handler's    *)
(* statements commit one by one, so another handler may act between any    *)
(* two of them; one that dies half way is one that takes no more steps.    *)
(* The limits by address (requestLimits.ts) and the send itself only ever  *)
(* refuse a request, which is a handler that never began.                  *)
(***************************************************************************)
EXTENDS Integers, FiniteSets

CONSTANTS
    Phones, Emails,  \* what a code can be sent to
    None,            \* no contact
    MaxCoaches,      \* bound: coach ids are 1..MaxCoaches
    MaxProofs,       \* bound: codes and links are 1..MaxProofs, in order of id
    MaxTries,        \* OTP_MAX_ATTEMPTS
    Workers          \* requests being handled at one time

ASSUME SignInAssumption ==
    /\ Phones \cap Emails = {} /\ None \notin Phones \cup Emails
    /\ IsFiniteSet(Workers)
    /\ MaxCoaches \in Nat /\ MaxProofs \in Nat
    /\ MaxTries \in Nat \ {0}

VARIABLES
    coach,    \* coach[c]: an account, or NoCoach
    proof,    \* proof[i]: a row of otp_code or start_link, or NoProof
    session,  \* coach_session: the account, and the proof that opened it
    unlocked, \* phones a booking's checkout proved, for its credits
    job       \* job[k]: what handler k is doing

vars == <<coach, proof, session, unlocked, job>>

Contacts == Phones \cup Emails
Coaches  == 1..MaxCoaches
Proofs   == 1..MaxProofs

Coach == [phone : Phones \cup {None}, email : Emails \cup {None}, proved : BOOLEAN,
          joined : BOOLEAN]
NoCoach == [phone |-> None, email |-> None, proved |-> FALSE, joined |-> FALSE]

(* A code has a purpose and counts its tries; a link has neither.  Beside  *)
(* its columns: wrong, the wrong codes held against it; by, the account it *)
(* was used for; uses, what it opened.                                     *)
Proof == [kind : {"none", "signin", "credits", "link"}, to : Contacts \cup {None},
          live : BOOLEAN, used : BOOLEAN, tries : Int, wrong : Nat,
          by : Coaches \cup {0}, uses : Nat]
NoProof == [kind |-> "none", to |-> None, live |-> FALSE, used |-> FALSE, tries |-> 0,
            wrong |-> 0, by |-> 0, uses |-> 0]

(* A handler: its next statement (op), the page it serves (for), the       *)
(* contact, proof and account it works on, the email typed beside a phone  *)
(* (extra), and whether the email sits unproved on another account.        *)
Job == [op : {"idle", "expire", "insert", "giveback", "find", "consume", "release",
              "create", "reopen", "open", "mark", "taken", "setphone", "unlock"},
        for : {"none", "signin", "email", "phone", "credits", "link"},
        to : Contacts \cup {None}, i : Proofs \cup {0}, c : Coaches \cup {0},
        extra : Emails \cup {None}, unproved : BOOLEAN]
Idle == [op |-> "idle", for |-> "none", to |-> None, i |-> 0, c |-> 0,
         extra |-> None, unproved |-> FALSE]

----------------------------------------------------------------------------
Go(k, j) == job' = [job EXCEPT ![k] = j]
Step(k, op) == Go(k, [job[k] EXCEPT !.op = op])

FreeProofs == {i \in Proofs : proof[i] = NoProof}
NewProof   == CHOOSE i \in FreeProofs : \A j \in FreeProofs : i <= j

NewRow(kind, to) == [NoProof EXCEPT !.kind = kind, !.to = to, !.live = TRUE]

(* Bound: a code is asked for while an id is left for it. *)
RoomForProof ==
    /\ FreeProofs # {}
    /\ Cardinality(FreeProofs) > Cardinality({k \in Workers : job[k].op \in {"expire", "insert"}})

FreeCoaches == {c \in Coaches : ~coach[c].joined}

ByPhone(p) == {c \in Coaches : coach[c].phone = p}
HoldingEmail(e) == {c \in Coaches : coach[c].email = e}

AnyHolder(e) == HoldingEmail(e)
ByEmail(e) == {c \in HoldingEmail(e) : coach[c].proved}

ByContact(t) == IF t \in Phones THEN ByPhone(t) ELSE ByEmail(t)

SignedIn(c) == \E s \in session : s.coach = c

PurposeOf(for) == IF for = "credits" THEN "credits" ELSE "signin"

Working(t, purpose) ==
    {i \in Proofs : proof[i].kind = purpose /\ proof[i].to = t /\ proof[i].live /\ ~proof[i].used}

(* The account c, and what proof i did for it. *)
Credited(i, c) == [proof EXCEPT ![i].by = c, ![i].uses = @ + 1]

----------------------------------------------------------------------------
Init ==
    /\ coach = [c \in Coaches |-> NoCoach]
    /\ proof = [i \in Proofs |-> NoProof]
    /\ session = {}
    /\ unlocked = {}
    /\ job = [k \in Workers |-> Idle]

(* sendCode: the code went out; then createOtp ends the earlier codes and  *)
(* adds its own.                                                           *)
SendCode(k, t, purpose) ==
    /\ job[k] = Idle /\ RoomForProof
    /\ purpose = "credits" => t \in Phones
    /\ Go(k, [Idle EXCEPT !.op = "expire", !.to = t,
                          !.for = IF purpose = "credits" THEN "credits" ELSE "signin"])
    /\ UNCHANGED <<coach, proof, session, unlocked>>

EarlierOfPurpose(k) == Working(job[k].to, PurposeOf(job[k].for))

ExpireEarlier(k) ==
    /\ job[k].op = "expire"
    /\ proof' = [i \in Proofs |-> IF i \in EarlierOfPurpose(k)
                                  THEN [proof[i] EXCEPT !.live = FALSE] ELSE proof[i]]
    /\ Step(k, "insert")
    /\ UNCHANGED <<coach, session, unlocked>>

InsertCode(k) ==
    /\ job[k].op = "insert" /\ FreeProofs # {}
    /\ proof' = [proof EXCEPT ![NewProof] = NewRow(PurposeOf(job[k].for), job[k].to)]
    /\ Go(k, Idle)
    /\ UNCHANGED <<coach, session, unlocked>>

(* A number no coach has texted its week, and gets a link. *)
CreateStartLink(p) ==
    /\ RoomForProof /\ ByPhone(p) = {}
    /\ proof' = [proof EXCEPT ![NewProof] = NewRow("link", p)]
    /\ UNCHANGED <<coach, session, unlocked, job>>

(* Ten minutes pass, or a day. *)
Expire(i) ==
    /\ proof[i].live
    /\ proof' = [proof EXCEPT ![i].live = FALSE]
    /\ UNCHANGED <<coach, session, unlocked, job>>

----------------------------------------------------------------------------
(* Who may enter a code where: anyone signs in and proves a booking's      *)
(* phone; a coach signed in proves the email on the account, or a mobile.  *)
MayEnter(for, t, c) ==
    \/ for = "signin" /\ c = 0
    \/ for = "credits" /\ c = 0 /\ t \in Phones
    \/ c # 0 /\ SignedIn(c) /\ \/ for = "email" /\ t = coach[c].email /\ ~coach[c].proved
                               \/ for = "phone" /\ t \in Phones

(* checkOtp: the try is counted on the newest code that works, before the  *)
(* comparison; the right code then gives its try back.                     *)
TakesOneMore(i) == proof[i].tries <= MaxTries
Takes(i) == proof[i].tries < MaxTries

CheckCode(k, for, t, c, right) ==
    /\ job[k] = Idle /\ MayEnter(for, t, c)
    /\ \E i \in Working(t, PurposeOf(for)) :
          /\ \A j \in Working(t, PurposeOf(for)) : j <= i
          /\ Takes(i)
          /\ IF right
             THEN /\ proof' = [proof EXCEPT ![i].tries = @ + 1]
                  /\ Go(k, [Idle EXCEPT !.op = "giveback", !.for = for, !.to = t, !.i = i, !.c = c])
             ELSE /\ proof' = [proof EXCEPT ![i].tries = @ + 1, ![i].wrong = @ + 1]
                  /\ UNCHANGED job
    /\ UNCHANGED <<coach, session, unlocked>>

GiveBack(k) ==
    /\ job[k].op = "giveback"
    /\ proof' = [proof EXCEPT ![job[k].i].tries = @ - 1]
    /\ Step(k, IF job[k].for = "signin" THEN "find" ELSE "consume")
    /\ UNCHANGED <<coach, session, unlocked>>

(* The reads of /signin/verify.  No account: a name is asked for first,    *)
(* and an email typed beside a phone must be on no account.                *)
FindCoach(k) ==
    /\ job[k].op = "find"
    /\ \/ \E c \in ByContact(job[k].to) : Go(k, [job[k] EXCEPT !.op = "consume", !.c = c])
       \/ ByContact(job[k].to) = {} /\ Go(k, Idle)
       \/ /\ ByContact(job[k].to) = {} /\ job[k].to \in Emails
          /\ Go(k, [job[k] EXCEPT !.op = "consume", !.unproved = HoldingEmail(job[k].to) # {}])
       \/ /\ ByContact(job[k].to) = {} /\ job[k].to \in Phones
          /\ \E e \in {None} \cup {f \in Emails : HoldingEmail(f) = {}} :
                Go(k, [job[k] EXCEPT !.op = "consume", !.extra = e])
    /\ UNCHANGED <<coach, proof, session, unlocked>>

(* POST /start/:token reads the link, its phone's coach, and the email. *)
OpenStartLink(k, i) ==
    /\ job[k] = Idle
    /\ proof[i].kind = "link" /\ proof[i].live /\ ~proof[i].used
    /\ LET j == [Idle EXCEPT !.op = "consume", !.for = "link", !.to = proof[i].to, !.i = i] IN
       \/ \E c \in ByPhone(proof[i].to) : Go(k, [j EXCEPT !.c = c])
       \/ /\ ByPhone(proof[i].to) = {}
          /\ \E e \in {None} \cup {f \in Emails : HoldingEmail(f) = {}} : Go(k, [j EXCEPT !.extra = e])
    /\ UNCHANGED <<coach, proof, session, unlocked>>

AfterUse(j) ==
    CASE j.for = "email" -> "mark"
      [] j.for = "phone" -> "taken"
      [] j.for = "credits" -> "unlock"
      [] j.for \in {"signin", "link"} /\ j.c # 0 -> "open"
      [] j.for \in {"signin", "link"} /\ j.c = 0 /\ j.unproved -> "release"
      [] OTHER -> "create"

(* consumeOtp, consumeStartLink: one statement, so a proof is used once.   *)
(* A code that stopped working since it was checked can still be used; one *)
(* that was used is not live, whatever its expires_at.                     *)
ConsumableUnread(j) == TRUE
Consumable(j) == ~proof[j.i].used /\ (j.for = "link" => proof[j.i].live)

Consume(k) ==
    /\ job[k].op = "consume"
    /\ IF Consumable(job[k])
       THEN /\ proof' = [proof EXCEPT ![job[k].i].used = TRUE,
                                      ![job[k].i].live = @ /\ job[k].for = "link"]
            /\ Step(k, AfterUse(job[k]))
       ELSE Go(k, Idle) /\ UNCHANGED proof
    /\ UNCHANGED <<coach, session, unlocked>>

----------------------------------------------------------------------------
ReleasableAny(e) == HoldingEmail(e)
Releasable(e) == {c \in HoldingEmail(e) : ~coach[c].proved}

ReleaseUnprovedEmail(k) ==
    /\ job[k].op = "release"
    /\ coach' = [c \in Coaches |-> IF c \in Releasable(job[k].to)
                                   THEN [coach[c] EXCEPT !.email = None, !.proved = FALSE] ELSE coach[c]]
    /\ Step(k, "create")
    /\ UNCHANGED <<proof, session, unlocked>>

PhoneOfAny(j) == j.to
PhoneOf(j) == IF j.to \in Phones THEN j.to ELSE None
EmailOf(j) == IF j.to \in Phones THEN j.extra ELSE j.to

(* createCoach.  The unique indexes refuse a phone or an email another     *)
(* account has: a sign-in ends there, a link is put back, or goes on to    *)
(* the account its phone has by now.                                       *)
PhoneTaken(j) == PhoneOf(j) # None /\ ByPhone(PhoneOf(j)) # {}
EmailTaken(j) == EmailOf(j) # None /\ HoldingEmail(EmailOf(j)) # {}

CreateCoach(k) ==
    /\ job[k].op = "create"
    /\ \/ /\ ~PhoneTaken(job[k]) /\ ~EmailTaken(job[k])
          /\ \E c \in FreeCoaches :
                /\ \A d \in FreeCoaches : c <= d
                /\ coach' = [coach EXCEPT ![c] =
                      [phone |-> PhoneOf(job[k]), email |-> EmailOf(job[k]),
                       proved |-> job[k].to \in Emails, joined |-> TRUE]]
                /\ proof' = [proof EXCEPT ![job[k].i].by = c]
                /\ Go(k, [job[k] EXCEPT !.op = "open", !.c = c])
       \/ /\ PhoneTaken(job[k]) \/ EmailTaken(job[k])
          /\ job[k].for = "signin" /\ Go(k, Idle)
          /\ UNCHANGED <<coach, proof>>
       \/ /\ job[k].for = "link" /\ EmailTaken(job[k]) /\ Step(k, "reopen")
          /\ UNCHANGED <<coach, proof>>
       \/ /\ job[k].for = "link"
          /\ \E c \in ByPhone(job[k].to) : Go(k, [job[k] EXCEPT !.op = "open", !.c = c])
          /\ UNCHANGED <<coach, proof>>
    /\ UNCHANGED <<session, unlocked>>

ReopenStartLink(k) ==
    /\ job[k].op = "reopen"
    /\ proof' = [proof EXCEPT ![job[k].i].used = FALSE]
    /\ Go(k, Idle)
    /\ UNCHANGED <<coach, session, unlocked>>

CreateCoachSession(k) ==
    /\ job[k].op = "open"
    /\ session' = session \cup {[coach |-> job[k].c, proof |-> job[k].i]}
    /\ proof' = Credited(job[k].i, job[k].c)
    /\ Go(k, Idle)
    /\ UNCHANGED <<coach, unlocked>>

Markable(j) == coach[j.c].email = j.to

MarkEmailVerified(k) ==
    /\ job[k].op = "mark"
    /\ coach' = IF Markable(job[k]) THEN [coach EXCEPT ![job[k].c].proved = TRUE] ELSE coach
    /\ proof' = Credited(job[k].i, job[k].c)
    /\ Go(k, Idle)
    /\ UNCHANGED <<session, unlocked>>

(* setCoachPhone: read, then written; the unique index has the last word. *)
OtherHas(j) == ByPhone(j.to) \ {j.c} # {}

LookForPhone(k) ==
    /\ job[k].op = "taken"
    /\ IF OtherHas(job[k]) THEN Go(k, Idle) ELSE Step(k, "setphone")
    /\ UNCHANGED <<coach, proof, session, unlocked>>

SetCoachPhone(k) ==
    /\ job[k].op = "setphone"
    /\ IF OtherHas(job[k]) THEN UNCHANGED <<coach, proof>>
       ELSE /\ coach' = [coach EXCEPT ![job[k].c].phone = job[k].to]
            /\ proof' = Credited(job[k].i, job[k].c)
    /\ Go(k, Idle)
    /\ UNCHANGED <<session, unlocked>>

MarkPhoneVerified(k) ==
    /\ job[k].op = "unlock"
    /\ unlocked' = unlocked \cup {job[k].to}
    /\ proof' = Credited(job[k].i, 0)
    /\ Go(k, Idle)
    /\ UNCHANGED <<coach, session>>

SignOut(s) ==
    /\ session' = session \ {s}
    /\ UNCHANGED <<coach, proof, unlocked, job>>

----------------------------------------------------------------------------
Work(k) ==
    \/ ExpireEarlier(k) \/ InsertCode(k) \/ GiveBack(k) \/ FindCoach(k) \/ Consume(k)
    \/ ReleaseUnprovedEmail(k) \/ CreateCoach(k) \/ ReopenStartLink(k)
    \/ CreateCoachSession(k) \/ MarkEmailVerified(k) \/ LookForPhone(k)
    \/ SetCoachPhone(k) \/ MarkPhoneVerified(k)

Request(k) ==
    \/ \E t \in Contacts, purpose \in {"signin", "credits"} : SendCode(k, t, purpose)
    \/ \E for \in {"signin", "email", "phone", "credits"}, t \in Contacts,
          c \in Coaches \cup {0}, right \in BOOLEAN : CheckCode(k, for, t, c, right)
    \/ \E i \in Proofs : OpenStartLink(k, i)

Next ==
    \/ \E p \in Phones : CreateStartLink(p)
    \/ \E i \in Proofs : Expire(i)
    \/ \E s \in session : SignOut(s)
    \/ \E k \in Workers : Request(k) \/ Work(k)

Spec == Init /\ [][Next]_vars

----------------------------------------------------------------------------
(* Rows and requests are what the handlers can write: a column never holds *)
(* the other kind of contact (createCoach takes the phone and the email    *)
(* apart).                                                                 *)
TypeOK ==
    /\ coach \in [Coaches -> Coach]
    /\ proof \in [Proofs -> Proof]
    /\ session \subseteq [coach : Coaches, proof : Proofs]
    /\ unlocked \subseteq Phones
    /\ job \in [Workers -> Job]

(* Tries sent at once never get past a code's limit, though the right code *)
(* gives its try back in a statement of its own and a handler may die      *)
(* before it does (checkOtp).                                              *)
TriesBounded == \A i \in Proofs : proof[i].wrong <= MaxTries

(* A code or a link sent twice at once does what it does once: a session,  *)
(* an email, a phone or a booking (consumeOtp, consumeStartLink, and the   *)
(* link that is put back).                                                 *)
UsedOnce == \A i \in Proofs : proof[i].uses <= 1

ProvedBy(c, t) == \E i \in Proofs : proof[i].to = t /\ proof[i].by = c

(* What a session's code or link proved is its account's own: its phone,   *)
(* or an email proved on it, unless that account has put another phone in  *)
(* its place.  And nothing counts as an account's own that it did not      *)
(* prove itself, however the email moves between accounts meanwhile.       *)
OwnAccount ==
    /\ \A s \in session :
          LET t == proof[s.proof].to   c == coach[s.coach] IN
          \/ t = c.phone
          \/ t = c.email /\ c.proved
          \/ t \in Phones /\ c.phone \in Phones
    /\ \A c \in Coaches :
          /\ coach[c].phone # None => ProvedBy(c, coach[c].phone)
          /\ coach[c].proved => coach[c].email # None /\ ProvedBy(c, coach[c].email)

(* No account is ever left without a way in: a phone, or a proved email    *)
(* (releaseUnprovedEmail takes an email off an account that has a phone).  *)
NoOneLockedOut == \A c \in Coaches : coach[c].joined => coach[c].phone # None \/ coach[c].proved
=============================================================================
