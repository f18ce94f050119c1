------------------------- MODULE SpotHolds_proofs -------------------------
(* What holds of SpotHolds for every number of sessions, bookings, places  *)
(* in line and workers, and every way their steps interleave.              *)
EXTENDS SpotHolds, FiniteSetTheorems, WellFoundedInduction, TLAPS

(* Ids are given in order; a row's pass is a row given before it or with it. *)
IdsInOrder ==
    \A b \in Bookings :
        IF b <= serial THEN booking[b].pass \in 0..serial ELSE booking[b] = NoBooking

(* A spot held for a place in line is a pass of one. *)
OffersAlone ==
    \A w \in Entries : wait[w].offer # None =>
        /\ booking[wait[w].offer].status # "none"
        /\ \A c \in Bookings : booking[c].pass = booking[wait[w].offer].pass => c = wait[w].offer

Shape == IdsInOrder /\ PassWhole /\ OffersAlone

----------------------------------------------------------------------------
(* Facts about counting, and about what the records hold. *)

LEMMA CardUnion ==
    ASSUME NEW S, NEW T, IsFiniteSet(S), IsFiniteSet(T)
    PROVE  /\ IsFiniteSet(S \cup T)
           /\ Cardinality(S \cup T) <= Cardinality(S) + Cardinality(T)
<1>1. /\ IsFiniteSet(S \cup T)
      /\ Cardinality(S \cup T) = Cardinality(S) + Cardinality(T) - Cardinality(S \cap T)
  BY FS_Union
<1>2. IsFiniteSet(S \cap T)
  BY FS_Subset
<1>3. Cardinality(S) \in Nat /\ Cardinality(T) \in Nat /\ Cardinality(S \cap T) \in Nat
  BY <1>2, FS_CardinalityType
<1>4. QED
  BY <1>1, <1>3

LEMMA FiniteBookings ==
    /\ IsFiniteSet(Bookings) /\ IsFiniteSet(Entries)
    /\ \A S \in SUBSET Bookings : IsFiniteSet(S) /\ Cardinality(S) \in Nat
    /\ \A S \in SUBSET Entries : IsFiniteSet(S) /\ Cardinality(S) \in Nat
<1>1. IsFiniteSet(Bookings)
  BY FS_Interval, IdsAssumption DEF Bookings
<1>2. IsFiniteSet(Entries)
  BY FS_Interval, IdsAssumption DEF Entries
<1>3. QED
  BY <1>1, <1>2, FS_Subset, FS_CardinalityType

LEMMA JobFields ==
    ASSUME TypeOK, NEW k \in Workers
    PROVE  /\ job[k] \in Job
           /\ job[k].op = "create" => /\ job[k].s \in Sessions /\ job[k].kids \in PassLists
                                      /\ job[k].at \in Nat /\ job[k].cap \in Nat
           /\ job[k].op = "renew" => /\ job[k].b \in Bookings /\ job[k].s \in Sessions
                                     /\ job[k].at \in Nat /\ job[k].cap \in Nat
           /\ job[k].op = "picked" => /\ job[k].b \in Bookings /\ job[k].s \in Sessions
                                      /\ job[k].cap \in Nat
           /\ job[k].op = "book" => /\ job[k].b \in Bookings /\ job[k].s \in Sessions
                                    /\ job[k].at \in Nat /\ job[k].cap \in Nat
                                    /\ job[k].paid \in BOOLEAN
           /\ job[k].op = "credit" => job[k].b \in Bookings
           /\ job[k].op = "offer" => job[k].s \in Sessions /\ job[k].at \in Nat
           /\ job[k].op = "accept" => job[k].s \in Sessions /\ job[k].at \in Nat
           /\ job[k].op \in {"send", "unsent"} => job[k].spots \in (SUBSET Entries) \ {{}}
           /\ job[k].op = "move" => /\ job[k].b \in Bookings /\ job[k].s \in Sessions
                                    /\ job[k].to \in Sessions /\ job[k].at \in Nat
           /\ job[k].op = "close" => job[k].s \in Sessions
           /\ job[k].op = "cancel" => job[k].left \in SUBSET Bookings
           /\ job[k].op = "edit" => job[k].cap \in Nat
<1>1. job[k] \in Job
  BY DEF TypeOK
<1>2. QED
  BY <1>1 DEF Job, Idle, SettleJob

LEMMA Least ==
    ASSUME NEW S, S \subseteq Nat, S # {}
    PROVE  \E w \in S : \A v \in S : w <= v
<1>1. \E w \in S : \A v \in S : <<v, w>> \notin OpToRel(<, Nat)
  BY NatLessThanWellFounded, WFMin
<1>2. ASSUME NEW v \in Nat, NEW w \in Nat, v < w
      PROVE  <<v, w>> \in OpToRel(<, Nat)
  <2>1. <<v, w>> \in Nat \X Nat /\ <<v, w>>[1] < <<v, w>>[2]
    BY <1>2
  <2>2. QED
    BY <2>1, Zenon DEF OpToRel
<1>3. \A v \in Nat, w \in Nat : v < w \/ w <= v
  OBVIOUS
<1>4. QED
  BY <1>1, <1>2, <1>3

LEMMA NextSpotTyped ==
    ASSUME TypeOK, NEW k \in Workers, job[k].op \in {"send", "unsent"}
    PROVE  NextSpot(k) \in job[k].spots /\ NextSpot(k) \in Entries
<1>1. job[k].spots \subseteq Nat /\ job[k].spots # {} /\ job[k].spots \subseteq Entries
  BY JobFields DEF Entries
<1>2. PICK spots : spots = job[k].spots
  OBVIOUS
<1>3. \E w \in spots : \A v \in spots : w <= v
  BY <1>1, <1>2, Least
<1>4. QED
  BY <1>1, <1>2, <1>3 DEF NextSpot

LEMMA GoTyped ==
    ASSUME TypeOK, NEW k \in Workers, NEW j \in Job, Go(k, j)
    PROVE  job' \in [Workers -> Job]
BY DEF TypeOK, Go

LEMMA CapacityTyped ==
    ASSUME TypeOK, NEW s \in Sessions
    PROVE  Capacity(s) \in Nat
BY DEF TypeOK, Session, Capacity

LEMMA KidsTyped ==
    ASSUME NEW kids \in PassLists
    PROVE  /\ kids \in Seq(Children) /\ Len(kids) \in Nat /\ Len(kids) >= 1
           /\ \A i \in 1..Len(kids) : kids[i] \in Children /\ Phone[kids[i]] = Phone[kids[1]]
BY PassAssumption

----------------------------------------------------------------------------
(* Type correctness, one lemma for each action that writes a row. *)

LEMMA InitTyped ==
    ASSUME Init
    PROVE  TypeOK
<1>1. session \in [Sessions -> Session]
  BY DEF Init, Session, None
<1>2. booking \in [Bookings -> Booking] /\ wait \in [Entries -> Entry]
  BY DEF Init, Booking, NoBooking, Entry, NoEntry, None
<1>3. QED
  BY <1>1, <1>2, CapacityAssumption, IdsAssumption DEF Init, TypeOK, Job

LEMMA CreateTyped ==
    ASSUME TypeOK, NEW k \in Workers, Create(k)
    PROVE  TypeOK'
<1>1. /\ job[k].s \in Sessions /\ job[k].kids \in PassLists /\ job[k].at \in Nat
  BY JobFields DEF Create
<1>2. Len(job[k].kids) \in Nat /\ Len(job[k].kids) >= 1
  BY <1>1, KidsTyped
<1>3. job' \in [Workers -> Job]
  BY GoTyped DEF Create, Job
<1>4. serial' \in 0..MaxBookings
  BY <1>2, IdsAssumption DEF TypeOK, Create
<1>5. ASSUME CreateFits(job[k])
      PROVE  booking' \in [Bookings -> Booking]
  <2>1. ASSUME NEW b \in Bookings, b \in NewIds(Len(job[k].kids))
        PROVE  NewHold(job[k], b) \in Booking
    <3>1. b - serial \in 1..Len(job[k].kids) /\ serial + 1 \in Bookings
      BY <1>2, <1>5, <2>1, IdsAssumption DEF TypeOK, Create, NewIds, Bookings
    <3>2. job[k].kids[b - serial] \in Children
      BY <1>1, <3>1, KidsTyped
    <3>3. QED
      BY <1>1, <3>1, <3>2, TimeAssumption DEF NewHold, Booking
  <2>2. ASSUME NEW b \in Bookings
        PROVE  AfterCreate(job[k])[b] \in Booking
    <3>1. booking[b] \in Booking /\ [booking[b] EXCEPT !.hold = job[k].at] \in Booking
      BY <1>1 DEF TypeOK, Booking
    <3>2. QED
      BY <2>1, <3>1 DEF AfterCreate
  <2>3. AfterCreate(job[k]) \in [Bookings -> Booking]
    BY <2>2 DEF AfterCreate
  <2>4. QED
    BY <1>5, <2>3 DEF Create
<1>6. QED
  BY <1>3, <1>4, <1>5 DEF TypeOK, Create

LEMMA RenewTyped ==
    ASSUME TypeOK, NEW k \in Workers, Renew(k)
    PROVE  TypeOK'
<1>1. /\ job[k].b \in Bookings /\ job[k].s \in Sessions /\ job[k].at \in Nat /\ job[k].cap \in Nat
  BY JobFields DEF Renew
<1>2. booking' \in [Bookings -> Booking]
  BY <1>1, TimeAssumption DEF TypeOK, Renew, AfterRenew, Booking
<1>3. Idle \in Job /\ PickedJob(job[k].b, job[k].s, job[k].cap) \in Job
  BY <1>1 DEF Job, Idle, PickedJob
<1>4. job' \in [Workers -> Job]
  BY <1>3, GoTyped DEF Renew
<1>5. QED
  BY <1>2, <1>4 DEF TypeOK, Renew

LEMMA OffTheLineTyped ==
    ASSUME TypeOK, NEW s, NEW bs
    PROVE  OffTheLine(s, bs) \in [Entries -> Entry]
BY DEF TypeOK, OffTheLine, Entry

LEMMA BookTyped ==
    ASSUME TypeOK, NEW k \in Workers, Book(k)
    PROVE  TypeOK'
<1>1. /\ job[k].b \in Bookings /\ job[k].at \in Nat /\ job[k].paid \in BOOLEAN
  BY JobFields DEF Book
<1>2. booking' \in [Bookings -> Booking]
  <2>1. AfterSale(job[k]) \in [Bookings -> Booking]
    BY <1>1 DEF TypeOK, AfterSale, Booking
  <2>2. AfterBook(job[k]) \in [Bookings -> Booking]
    BY <1>1, <2>1 DEF TypeOK, AfterBook, Booking
  <2>3. QED
    BY <2>2 DEF TypeOK, Book
<1>3. wait' \in [Entries -> Entry]
  <2>1. OffTheLine(job[k].s, InPass(job[k].b)) \in [Entries -> Entry]
    BY OffTheLineTyped
  <2>2. QED
    BY <2>1 DEF TypeOK, Book
<1>4. Idle \in Job /\ CreditJob(job[k].b) \in Job
  BY <1>1 DEF Job, Idle, CreditJob
<1>5. job' \in [Workers -> Job]
  BY <1>4, GoTyped DEF Book
<1>6. QED
  BY <1>2, <1>3, <1>5 DEF TypeOK, Book

LEMMA MoveTyped ==
    ASSUME TypeOK, NEW k \in Workers, Move(k)
    PROVE  TypeOK'
<1>1. job[k].to \in Sessions
  BY JobFields DEF Move
<1>2. booking' \in [Bookings -> Booking]
  BY <1>1 DEF TypeOK, Move, Booking
<1>3. wait' \in [Entries -> Entry]
  BY OffTheLineTyped DEF TypeOK, Move
<1>4. job' \in [Workers -> Job]
  BY GoTyped DEF Move, Job
<1>5. QED
  BY <1>2, <1>3, <1>4 DEF TypeOK, Move

LEMMA JoinTyped ==
    ASSUME TypeOK, NEW s \in Sessions, NEW kids \in PassLists, Join(s, kids)
    PROVE  TypeOK'
<1> DEFINE used == Cardinality({w \in Entries : wait[w].state # "none"})
<1>1. used \in Nat
  BY FiniteBookings
<1>2. \A w \in (used + 1)..(used + Len(kids)) : kids[w - used] \in Children
  BY <1>1, KidsTyped
<1>3. Pool(s) \in Sessions
  BY DEF TypeOK, Pool, Session, None
<1>4. wait' \in [Entries -> Entry]
  <2>1. ASSUME NEW w \in (used + 1)..(used + Len(kids))
        PROVE  [state |-> "waiting", session |-> Pool(s), child |-> kids[w - used],
                offer |-> None, retry |-> 0] \in Entry
    BY <1>2, <1>3 DEF Entry, None
  <2>2. QED
    BY <2>1 DEF TypeOK, Join
<1>5. QED
  BY <1>4 DEF TypeOK, Join

(* The spots one round gives out get the next ids, one each. *)
LEMMA SpotIds ==
    ASSUME TypeOK, NEW s, NEW pool, NEW cap \in Nat, NEW at,
           NEW w \in Held(s, pool, cap, at)
    PROVE  /\ w \in Entries
           /\ Spot(w, pool, at) \in Nat
           /\ Spot(w, pool, at) > serial
           /\ Spot(w, pool, at) <= serial + Cardinality(Held(s, pool, cap, at))
           /\ Spot(w, pool, at) <= serial + (cap - Cardinality(Taken(s, at)))
<1> DEFINE held == Held(s, pool, cap, at)
           tell == Tellable(pool, at)
           ahead == {v \in tell : v < w}
           free == cap - Cardinality(Taken(s, at))
<1>1. held \subseteq tell /\ tell \subseteq Entries
  BY DEF Held, Tellable, Met, LineOf
<1>2. Taken(s, at) \subseteq Bookings
  BY DEF Taken, TakenIn
<1>3. free \in Int
  BY <1>2, FiniteBookings
<1>4. Before(w, pool, at) = Cardinality(ahead) /\ Cardinality(ahead) < free
  BY DEF Held, Before
<1>5. IsFiniteSet(held) /\ Cardinality(held) \in Nat /\ Cardinality(ahead) \in Nat /\ IsFiniteSet(ahead)
  BY <1>1, FiniteBookings
<1>6. ahead \subseteq held \ {w}
  <2>1. ASSUME NEW v \in ahead
        PROVE  v \in held /\ v # w
    <3>1. {u \in tell : u < v} \subseteq ahead
      BY <1>1, IdsAssumption DEF Entries
    <3>2. Cardinality({u \in tell : u < v}) <= Cardinality(ahead)
      BY <1>5, <3>1, FS_Subset
    <3>3. Cardinality({u \in tell : u < v}) \in Nat
      BY <1>1, FiniteBookings
    <3>4. Before(v, pool, at) < free
      BY <1>3, <1>4, <1>5, <3>2, <3>3 DEF Before
    <3>5. QED
      BY <1>1, <3>4, IdsAssumption DEF Held, Entries
  <2>2. QED
    BY <2>1
<1>7. Cardinality(ahead) <= Cardinality(held) - 1
  <2>1. IsFiniteSet(held \ {w}) /\ Cardinality(held \ {w}) = Cardinality(held) - 1
    BY <1>5, FS_RemoveElement
  <2>2. QED
    BY <1>6, <2>1, FS_Subset
<1>8. serial \in Nat
  BY IdsAssumption DEF TypeOK
<1>9. QED
  BY <1>1, <1>3, <1>4, <1>5, <1>7, <1>8 DEF Spot

LEMMA HoldSpotsTyped ==
    ASSUME TypeOK, NEW k \in Workers, NEW s \in Sessions, NEW pool, NEW cap \in Nat, NEW at \in Nat,
           HoldSpots(k, s, pool, cap, at)
    PROVE  /\ serial' \in 0..MaxBookings
           /\ booking' \in [Bookings -> Booking]
           /\ wait' \in [Entries -> Entry]
           /\ job' \in [Workers -> Job]
<1> DEFINE held == Held(s, pool, cap, at)
<1>1. held \subseteq Entries
  BY DEF Held, Tellable, Met, LineOf
<1>2. Cardinality(held) \in Nat
  BY <1>1, FiniteBookings
<1>a. serial + Cardinality(held) <= MaxBookings /\ serial' = serial + Cardinality(held)
  BY DEF HoldSpots
<1>3. serial' \in 0..MaxBookings
  BY <1>2, <1>a, IdsAssumption DEF TypeOK
<1>4. \A w \in held : Spot(w, pool, at) \in Bookings
  <2>1. ASSUME NEW w \in held
        PROVE  Spot(w, pool, at) \in 1..(serial + Cardinality(held))
    BY <1>2, SpotIds, IdsAssumption DEF TypeOK
  <2>2. QED
    BY <1>2, <1>a, <2>1, IdsAssumption DEF TypeOK, Bookings
<1>5. booking' \in [Bookings -> Booking]
  <2>1. \A w \in held, b \in Bookings : HeldRow(s, w, b, at) \in Booking
    BY <1>1, TimeAssumption DEF TypeOK, HeldRow, Booking, Entry
  <2>2. QED
    BY <2>1 DEF TypeOK, HoldSpots
<1>6. wait' \in [Entries -> Entry]
  BY <1>1, <1>4 DEF TypeOK, HoldSpots, Entry
<1>7. Idle \in Job /\ (held # {} => SendJob(held) \in Job)
  BY <1>1 DEF Job, Idle, SendJob
<1>8. job' \in [Workers -> Job]
  BY <1>7, GoTyped DEF HoldSpots
<1>9. QED
  BY <1>3, <1>5, <1>6, <1>8

LEMMA PoolTyped ==
    ASSUME TypeOK, NEW s \in Sessions
    PROVE  Pool(s) \in Sessions
BY DEF TypeOK, Pool, Session, None

LEMMA AcceptTyped ==
    ASSUME TypeOK, NEW k \in Workers, Accept(k)
    PROVE  TypeOK'
<1>1. job[k].s \in Sessions /\ job[k].at \in Nat
  BY JobFields DEF Accept
<1>2. CASE session[job[k].s].status # "scheduled" \/ Accepted(job[k].s)
  <2>1. job' \in [Workers -> Job]
    BY <1>2, GoTyped DEF Accept, Job
  <2>2. QED
    BY <1>2, <2>1 DEF TypeOK, Accept
<1>3. CASE BackupJoins(k, job[k].s, job[k].at)
  <2> DEFINE cap == Capacity(job[k].s) + typeCap
  <2>1. cap \in Nat
    BY <1>1, CapacityTyped DEF TypeOK
  <2>2. session' \in [Sessions -> Session]
    BY <1>1, <1>3, <2>1 DEF TypeOK, BackupJoins, Session
  <2>3. CASE HoldSpots(k, job[k].s, Pool(job[k].s), cap, job[k].at)
    BY <1>1, <2>1, <2>2, <2>3, HoldSpotsTyped DEF TypeOK, Accept
  <2>4. CASE Go(k, Idle) /\ UNCHANGED <<booking, serial, wait>>
    <3>1. job' \in [Workers -> Job]
      BY <2>4, GoTyped DEF Job
    <3>2. QED
      BY <2>2, <2>4, <3>1 DEF TypeOK, Accept
  <2>5. QED
    BY <1>3, <2>3, <2>4 DEF BackupJoins
<1>4. CASE SecondGroupOpens(k, job[k].s, job[k].at)
  <2>1. PICK t \in Sessions :
            /\ session' = [session EXCEPT ![t] =
                  [status |-> "scheduled", override |-> session[job[k].s].override, overflowOf |-> job[k].s]]
            /\ \/ HoldSpots(k, t, job[k].s, Capacity(job[k].s), job[k].at)
               \/ Go(k, Idle) /\ UNCHANGED <<booking, serial, wait>>
    BY <1>4 DEF SecondGroupOpens
  <2>2. session' \in [Sessions -> Session]
    BY <1>1, <2>1 DEF TypeOK, Session
  <2>3. CASE HoldSpots(k, t, job[k].s, Capacity(job[k].s), job[k].at)
    BY <1>1, <2>2, <2>3, HoldSpotsTyped, CapacityTyped DEF TypeOK, Accept
  <2>4. CASE Go(k, Idle) /\ UNCHANGED <<booking, serial, wait>>
    <3>1. job' \in [Workers -> Job]
      BY <2>4, GoTyped DEF Job
    <3>2. QED
      BY <2>2, <2>4, <3>1 DEF TypeOK, Accept
  <2>5. QED
    BY <2>1, <2>3, <2>4
<1>5. QED
  BY <1>2, <1>3, <1>4 DEF Accept

(* A row that exists is filled in. *)
RowsFilled ==
    /\ \A b \in Bookings : booking[b].status # "none" =>
          /\ booking[b].session \in Sessions /\ booking[b].child \in Children
          /\ booking[b].pass \in Bookings
    /\ \A w \in Entries : wait[w].state # "none" =>
          wait[w].session \in Sessions /\ wait[w].child \in Children

LEMMA OffTheLineFilled ==
    ASSUME RowsFilled, NEW s, NEW bs, wait' = OffTheLine(s, bs), TypeOK
    PROVE  \A w \in Entries : wait'[w].state # "none" =>
              wait'[w].session \in Sessions /\ wait'[w].child \in Children
<1>1. ASSUME NEW w \in Entries
      PROVE  /\ wait'[w].session = wait[w].session /\ wait'[w].child = wait[w].child
             /\ wait'[w].state # "none" => wait[w].state # "none"
  BY <1>1 DEF OffTheLine, TypeOK, Entry, WaitingFor, LineOf
<1>2. QED
  BY <1>1 DEF RowsFilled

LEMMA CreateFilled ==
    ASSUME TypeOK, RowsFilled, NEW k \in Workers, Create(k)
    PROVE  RowsFilled'
<1>1. /\ job[k].s \in Sessions /\ job[k].kids \in PassLists
  BY JobFields DEF Create
<1>2. Len(job[k].kids) \in Nat /\ Len(job[k].kids) >= 1
  BY <1>1, KidsTyped
<1>3. CASE CreateFits(job[k])
  <2>1. ASSUME NEW b \in Bookings, b \in NewIds(Len(job[k].kids))
        PROVE  /\ NewHold(job[k], b).session \in Sessions
               /\ NewHold(job[k], b).child \in Children
               /\ NewHold(job[k], b).pass \in Bookings
    <3>1. b - serial \in 1..Len(job[k].kids) /\ serial + 1 \in Bookings
      BY <1>2, <1>3, <2>1, IdsAssumption DEF TypeOK, Create, NewIds, Bookings
    <3>2. job[k].kids[b - serial] \in Children
      BY <1>1, <3>1, KidsTyped
    <3>3. QED
      BY <1>1, <3>1, <3>2 DEF NewHold
  <2>2. ASSUME NEW b \in Bookings, b \notin NewIds(Len(job[k].kids))
        PROVE  /\ AfterCreate(job[k])[b].status = booking[b].status
               /\ AfterCreate(job[k])[b].session = booking[b].session
               /\ AfterCreate(job[k])[b].child = booking[b].child
               /\ AfterCreate(job[k])[b].pass = booking[b].pass
    BY <2>2 DEF AfterCreate, TypeOK, Booking
  <2>3. \A b \in NewIds(Len(job[k].kids)) \cap Bookings : AfterCreate(job[k])[b] = NewHold(job[k], b)
    BY DEF AfterCreate
  <2>4. booking' = AfterCreate(job[k]) /\ wait' = wait
    BY <1>3 DEF Create
  <2>5. QED
    BY <2>1, <2>2, <2>3, <2>4 DEF RowsFilled
<1>4. CASE ~CreateFits(job[k])
  BY <1>4 DEF Create, RowsFilled
<1>5. QED
  BY <1>3, <1>4

LEMMA HoldSpotsFilled ==
    ASSUME TypeOK, RowsFilled, NEW k \in Workers, NEW s \in Sessions, NEW pool, NEW cap, NEW at,
           HoldSpots(k, s, pool, cap, at)
    PROVE  RowsFilled'
<1> DEFINE held == Held(s, pool, cap, at)
<1>1. \A w \in held : w \in Entries /\ wait[w].state = "waiting"
  BY DEF Held, Tellable, Met, LineOf
<1>2. \A w \in held, b \in Bookings :
         HeldRow(s, w, b, at).session \in Sessions /\ HeldRow(s, w, b, at).child \in Children
         /\ HeldRow(s, w, b, at).pass \in Bookings
  BY <1>1 DEF HeldRow, RowsFilled
<1>3. ASSUME NEW b \in Bookings
      PROVE  booking'[b] = booking[b] \/ \E w \in held : booking'[b] = HeldRow(s, w, b, at)
  BY DEF HoldSpots
<1>4. ASSUME NEW w \in Entries
      PROVE  /\ wait'[w].session = wait[w].session /\ wait'[w].child = wait[w].child
             /\ wait'[w].state # "none" => wait[w].state # "none"
  <2>1. w \in held \/ w \in Struck(s, pool, cap, at) => wait[w].state = "waiting"
    BY DEF Held, Struck, Tellable, Met, LineOf
  <2>2. \/ wait'[w] = wait[w]
        \/ wait'[w] = [wait[w] EXCEPT !.state = "offered", !.offer = Spot(w, pool, at)] /\ w \in held
        \/ wait'[w] = [wait[w] EXCEPT !.state = "unreachable"] /\ w \in Struck(s, pool, cap, at)
    BY DEF HoldSpots
  <2>3. wait[w] \in Entry
    BY DEF TypeOK
  <2>4. QED
    BY <2>1, <2>2, <2>3 DEF Entry
<1>5. QED
  BY <1>2, <1>3, <1>4 DEF RowsFilled

(* The steps that change the state of places in line, and nothing else. *)
Settles(k) == AnsweredUnreachable(k) \/ AnsweredLater(k) \/ SettleBooked(k) \/ SettleLapsed(k)

LEMMA SettledRow ==
    ASSUME TypeOK, NEW k \in Workers, Settles(k), NEW w \in Entries
    PROVE  /\ wait'[w] \in Entry
           /\ wait'[w].session = wait[w].session /\ wait'[w].child = wait[w].child
           /\ wait'[w].state # "none" => wait[w].state # "none"
           /\ wait'[w].offer \in {wait[w].offer, None}
<1>1. wait[w] \in Entry /\ clock + RetryTime \in Int
  BY TimeAssumption DEF TypeOK
<1>2. PICK n : n = NextSpot(k)
  OBVIOUS
<1>3. \/ wait'[w] = wait[w]
      \/ wait[w].state = "offered" /\ \E st \in {"unreachable", "booked", "lapsed"} :
            wait'[w] = [wait[w] EXCEPT !.state = st]
      \/ wait[w].state = "offered" /\ \E r \in Int :
            wait'[w] = [wait[w] EXCEPT !.state = "waiting", !.offer = None, !.retry = r]
  <2>1. CASE AnsweredUnreachable(k)
    BY <1>2, <2>1 DEF AnsweredUnreachable, TypeOK
  <2>2. CASE AnsweredLater(k)
    BY <1>1, <1>2, <2>2 DEF AnsweredLater, TypeOK
  <2>3. CASE SettleBooked(k) \/ SettleLapsed(k)
    BY <2>3 DEF SettleBooked, SettleLapsed
  <2>4. QED
    BY <2>1, <2>2, <2>3 DEF Settles
<1>4. CASE wait[w].state = "offered" /\ \E st \in {"unreachable", "booked", "lapsed"} :
                wait'[w] = [wait[w] EXCEPT !.state = st]
  <2>1. PICK st \in {"unreachable", "booked", "lapsed"} : wait'[w] = [wait[w] EXCEPT !.state = st]
    BY <1>4
  <2>2. QED
    BY <1>1, <1>4, <2>1 DEF Entry
<1>5. CASE wait[w].state = "offered" /\ \E r \in Int :
                wait'[w] = [wait[w] EXCEPT !.state = "waiting", !.offer = None, !.retry = r]
  <2>1. PICK r \in Int : wait'[w] = [wait[w] EXCEPT !.state = "waiting", !.offer = 0, !.retry = r]
    BY <1>5 DEF None
  <2>2. QED
    BY <1>1, <1>5, <2>1 DEF Entry, None
<1>6. QED
  BY <1>1, <1>3, <1>4, <1>5

LEMMA SettlesWait ==
    ASSUME TypeOK, NEW k \in Workers, Settles(k)
    PROVE  wait' \in [Entries -> Entry] /\ UNCHANGED <<clock, typeCap, session, booking, serial>>
<1>1. wait' = [v \in Entries |-> wait'[v]]
  BY DEF Settles, AnsweredUnreachable, AnsweredLater, SettleBooked, SettleLapsed, TypeOK
<1>2. \A w \in Entries : wait'[w] \in Entry
  BY SettledRow
<1>3. wait' \in [Entries -> Entry]
  BY <1>1, <1>2
<1>4. UNCHANGED <<clock, typeCap, session, booking, serial>>
  BY DEF Settles, AnsweredUnreachable, AnsweredLater, SettleBooked, SettleLapsed
<1>5. QED
  BY <1>3, <1>4

LEMMA StepFilled ==
    ASSUME TypeOK, RowsFilled, NEW k \in Workers, Step(k)
    PROVE  RowsFilled'
<1>1. CASE Create(k)
  BY <1>1, CreateFilled
<1>2. CASE Renew(k)
  BY <1>2 DEF Renew, AfterRenew, RowsFilled, TypeOK, Booking
<1>3. CASE Book(k)
  <2>1. CASE BookFits(job[k])
    <3>1. ASSUME NEW b \in Bookings
          PROVE  /\ AfterBook(job[k])[b].session = booking[b].session
                 /\ AfterBook(job[k])[b].child = booking[b].child
                 /\ AfterBook(job[k])[b].pass = booking[b].pass
                 /\ AfterBook(job[k])[b].status # "none" => booking[b].status # "none"
      BY DEF AfterBook, AfterSale, TypeOK, Booking, PendingPass, InPass
    <3>2. booking' = AfterBook(job[k]) /\ wait' = OffTheLine(job[k].s, InPass(job[k].b))
      BY <1>3, <2>1 DEF Book
    <3>3. QED
      BY <3>1, <3>2, OffTheLineFilled DEF RowsFilled
  <2>2. CASE ~BookFits(job[k])
    BY <1>3, <2>2 DEF Book, RowsFilled
  <2>3. QED
    BY <2>1, <2>2
<1>4. CASE Credit(k)
  BY <1>4 DEF Credit, RowsFilled, TypeOK, Booking, PendingPass, InPass
<1>5. CASE Offer(k)
  <2>1. CASE session[job[k].s].status = "scheduled"
    <3>1. job[k].s \in Sessions
      BY <1>5, JobFields DEF Offer
    <3>2. QED
      BY <1>5, <2>1, <3>1, HoldSpotsFilled DEF Offer
  <2>2. CASE session[job[k].s].status # "scheduled"
    BY <1>5, <2>2 DEF Offer, RowsFilled
  <2>3. QED
    BY <2>1, <2>2
<1>6. CASE Accept(k)
  <2>1. job[k].s \in Sessions
    BY <1>6, JobFields DEF Accept
  <2>2. \/ UNCHANGED <<booking, serial, wait>>
        \/ BackupJoins(k, job[k].s, job[k].at)
        \/ SecondGroupOpens(k, job[k].s, job[k].at)
    BY <1>6 DEF Accept
  <2>3. CASE UNCHANGED <<booking, serial, wait>>
    BY <2>3 DEF RowsFilled
  <2>4. CASE BackupJoins(k, job[k].s, job[k].at)
    BY <2>1, <2>3, <2>4, HoldSpotsFilled DEF BackupJoins
  <2>5. CASE SecondGroupOpens(k, job[k].s, job[k].at)
    BY <2>1, <2>3, <2>5, HoldSpotsFilled DEF SecondGroupOpens
  <2>6. QED
    BY <2>2, <2>3, <2>4, <2>5
<1>7. CASE Move(k)
  <2>1. job[k].to \in Sessions
    BY <1>7, JobFields DEF Move
  <2>2. CASE UNCHANGED <<booking, wait>>
    BY <2>2 DEF RowsFilled
  <2>3. CASE /\ wait' = OffTheLine(job[k].to, PaidTogether(job[k].b))
             /\ booking' = [c \in Bookings |->
                    IF c \in PaidTogether(job[k].b) THEN [booking[c] EXCEPT !.session = job[k].to]
                    ELSE booking[c]]
    <3>1. ASSUME NEW b \in Bookings
          PROVE  /\ booking'[b].session \in {booking[b].session, job[k].to}
                 /\ booking'[b].child = booking[b].child
                 /\ booking'[b].pass = booking[b].pass
                 /\ booking'[b].status = booking[b].status
      BY <2>3 DEF TypeOK, Booking
    <3>2. QED
      BY <2>1, <2>3, <3>1, OffTheLineFilled DEF RowsFilled
  <2>4. QED
    BY <1>7, <2>2, <2>3 DEF Move
<1>8. CASE Deliver(k)
  BY <1>8 DEF Deliver, RowsFilled, TypeOK, Booking
<1>9. CASE AnsweredSent(k) \/ ListBookings(k) \/ Edit(k) \/ Crash(k)
  BY <1>9 DEF AnsweredSent, ListBookings, Edit, Crash, RowsFilled
<1>10. CASE LetSpotGo(k)
  <2>1. booking' \in {booking, [booking EXCEPT ![wait[NextSpot(k)].offer].hold = clock]} /\ wait' = wait
    BY <1>10 DEF LetSpotGo
  <2>2. ASSUME NEW b \in Bookings
        PROVE  /\ booking'[b].session = booking[b].session /\ booking'[b].child = booking[b].child
               /\ booking'[b].pass = booking[b].pass /\ booking'[b].status = booking[b].status
    BY <2>1 DEF TypeOK, Booking
  <2>3. QED
    BY <2>1, <2>2 DEF RowsFilled
<1>a. CASE Settles(k)
  BY <1>a, SettledRow, SettlesWait DEF RowsFilled
<1>11. CASE CancelBooking(k)
  BY <1>11 DEF CancelBooking, RowsFilled, TypeOK, Booking
<1>12. QED
  BY <1>1, <1>2, <1>3, <1>4, <1>5, <1>6, <1>7, <1>8, <1>9, <1>10, <1>11, <1>a DEF Step, Settles

LEMMA BeginTyped ==
    ASSUME TypeOK, RowsFilled, NEW k \in Workers, Begin(k)
    PROVE  TypeOK' /\ RowsFilled'
<1>1. PICK j \in Job : Go(k, j)
  <2>1. CASE \E s \in Sessions, kids \in PassLists : BeginCreate(k, s, kids)
    BY <2>1, CapacityTyped DEF BeginCreate, CreateJob, Job, TypeOK
  <2>2. CASE \E b \in Bookings, pay \in BOOLEAN : BeginRenew(k, b, pay)
    <3>1. PICK b \in Bookings, pay \in BOOLEAN : BeginRenew(k, b, pay)
      BY <2>2
    <3>2. booking[b].session \in Sessions
      BY <3>1 DEF BeginRenew, RowsFilled
    <3>3. RenewJob(b, booking[b].session, clock, Capacity(booking[b].session), pay) \in Job
      BY <3>2, CapacityTyped DEF RenewJob, Job, TypeOK
    <3>4. QED
      BY <3>1, <3>3 DEF BeginRenew
  <2>3. CASE BeginBook(k)
    <3>1. /\ job[k].b \in Bookings /\ job[k].s \in Sessions /\ job[k].cap \in Nat
      BY <2>3, JobFields DEF BeginBook
    <3>2. BookJob(job[k].b, job[k].s, clock, job[k].cap, FALSE) \in Job
      BY <3>1 DEF BookJob, Job, TypeOK
    <3>3. QED
      BY <2>3, <3>2 DEF BeginBook
  <2>4. CASE \E b \in Bookings : BeginPaid(k, b)
    <3>1. PICK b \in Bookings : BeginPaid(k, b)
      BY <2>4
    <3>2. booking[b].session \in Sessions
      BY <3>1 DEF BeginPaid, RowsFilled
    <3>3. /\ BookJob(b, booking[b].session, clock, Capacity(booking[b].session), TRUE) \in Job
          /\ CreditJob(b) \in Job
      BY <3>2, CapacityTyped DEF BookJob, CreditJob, Job, TypeOK
    <3>4. QED
      BY <3>1, <3>3 DEF BeginPaid
  <2>5. CASE \E s \in Sessions : BeginOffer(k, s)
    BY <2>5 DEF BeginOffer, OfferJob, Job, TypeOK
  <2>6. CASE \E s \in Sessions, kind \in {"backup", "second_group"} : BeginAccept(k, s, kind)
    BY <2>6 DEF BeginAccept, AcceptJob, Job, TypeOK
  <2>7. CASE \E b \in Bookings, to \in Sessions : BeginMove(k, b, to)
    <3>1. PICK b \in Bookings, to \in Sessions : BeginMove(k, b, to)
      BY <2>7
    <3>2. booking[b].session \in Sessions
      BY <3>1 DEF BeginMove, RowsFilled
    <3>3. MoveJob(b, booking[b].session, to, clock) \in Job
      BY <3>2 DEF MoveJob, Job, TypeOK
    <3>4. QED
      BY <3>1, <3>3 DEF BeginMove
  <2>8. CASE \E s \in Sessions : CloseSession(k, s)
    BY <2>8 DEF CloseSession, CloseJob, Job
  <2>9. CASE \E cap \in CapacityEdits : BeginEdit(k, cap)
    BY <2>9, CapacityAssumption DEF BeginEdit, EditJob, Job
  <2>10. QED
    BY <2>1, <2>2, <2>3, <2>4, <2>5, <2>6, <2>7, <2>8, <2>9 DEF Begin
<1>2. job' \in [Workers -> Job]
  BY <1>1, GoTyped
<1>3. UNCHANGED <<clock, typeCap, booking, serial, wait>> /\ session' \in [Sessions -> Session]
  <2>1. ASSUME NEW s, NEW b, NEW kids, NEW kind, NEW to, NEW cap, NEW pay,
               BeginCreate(k, s, kids) \/ BeginRenew(k, b, pay) \/ BeginPaid(k, b) \/ BeginOffer(k, s)
               \/ BeginAccept(k, s, kind) \/ BeginMove(k, b, to) \/ BeginEdit(k, cap)
        PROVE  UNCHANGED <<clock, typeCap, session, booking, serial, wait>>
    BY <2>1 DEF BeginCreate, BeginRenew, BeginPaid, BeginOffer, BeginAccept, BeginMove, BeginEdit
  <2>2. CASE BeginBook(k)
    BY <2>2 DEF BeginBook, TypeOK
  <2>3. ASSUME NEW s \in Sessions, CloseSession(k, s)
        PROVE  UNCHANGED <<clock, typeCap, booking, serial, wait>> /\ session' \in [Sessions -> Session]
    BY <2>3 DEF CloseSession, TypeOK, Session
  <2>4. CASE UNCHANGED <<clock, typeCap, session, booking, serial, wait>>
    BY <2>4 DEF TypeOK
  <2>5. \/ UNCHANGED <<clock, typeCap, session, booking, serial, wait>>
        \/ BeginBook(k) \/ \E s \in Sessions : CloseSession(k, s)
    BY <2>1 DEF Begin
  <2>6. QED
    BY <2>2, <2>3, <2>4, <2>5
<1>4. QED
  BY <1>2, <1>3 DEF TypeOK, RowsFilled

LEMMA StepTyped ==
    ASSUME TypeOK, RowsFilled, NEW k \in Workers, Step(k)
    PROVE  TypeOK'
<1>1. CASE Create(k) \/ Renew(k) \/ Book(k) \/ Accept(k) \/ Move(k)
  BY <1>1, CreateTyped, RenewTyped, BookTyped, AcceptTyped, MoveTyped
<1>2. CASE Credit(k)
  <2>1. job' \in [Workers -> Job]
    BY <1>2, GoTyped DEF Credit, Job
  <2>2. booking' \in [Bookings -> Booking]
    <3>1. \A c \in Bookings : [booking[c] EXCEPT !.status = "cancelled", !.charged = TRUE] \in Booking
      BY DEF TypeOK, Booking
    <3>2. \/ booking' = booking
          \/ booking' = [c \in Bookings |-> IF c \in PendingPass(job[k].b)
                                            THEN [booking[c] EXCEPT !.status = "cancelled", !.charged = TRUE]
                                            ELSE booking[c]]
      BY <1>2 DEF Credit
    <3>3. QED
      BY <3>1, <3>2 DEF TypeOK
  <2>3. QED
    BY <1>2, <2>1, <2>2 DEF Credit, TypeOK
<1>3. CASE Offer(k)
  <2>1. job[k].s \in Sessions /\ job[k].at \in Nat
    BY <1>3, JobFields DEF Offer
  <2>2. CASE session[job[k].s].status = "scheduled"
    BY <1>3, <2>1, <2>2, CapacityTyped, HoldSpotsTyped DEF Offer, TypeOK
  <2>3. CASE session[job[k].s].status # "scheduled"
    <3>1. job' \in [Workers -> Job]
      BY <1>3, <2>3, GoTyped DEF Offer, Job
    <3>2. QED
      BY <1>3, <2>3, <3>1 DEF Offer, TypeOK
  <2>4. QED
    BY <2>2, <2>3
<1>4. CASE Deliver(k)
  BY <1>4 DEF Deliver, TypeOK, Booking
<1>5. ASSUME Sent(k), job[k].op \in {"send", "unsent"}
      PROVE  job' \in [Workers -> Job]
  <2>1. /\ Idle \in Job
        /\ job[k].spots \ {NextSpot(k)} # {} => SendJob(job[k].spots \ {NextSpot(k)}) \in Job
    BY <1>5, JobFields DEF SendJob, Job, Idle
  <2>2. QED
    BY <1>5, <2>1, GoTyped DEF Sent
<1>6. CASE AnsweredSent(k)
  BY <1>5, <1>6 DEF AnsweredSent, TypeOK
<1>7. CASE LetSpotGo(k)
  <2>1. UnsentJob(job[k].spots) \in Job
    BY <1>7, JobFields DEF LetSpotGo, UnsentJob, Job
  <2>2. job' \in [Workers -> Job]
    BY <1>7, <2>1, GoTyped DEF LetSpotGo
  <2>3. booking' \in {booking, [booking EXCEPT ![wait[NextSpot(k)].offer].hold = clock]}
    BY <1>7 DEF LetSpotGo
  <2>4. booking' \in [Bookings -> Booking]
    BY <2>3 DEF TypeOK, Booking
  <2>5. QED
    BY <1>7, <2>2, <2>4 DEF LetSpotGo, TypeOK
<1>a. CASE Settles(k)
  <2>1. job' \in [Workers -> Job]
    <3>1. Idle \in Job /\ SettleJob \in Job
      BY DEF Job
    <3>2. CASE SettleBooked(k) \/ SettleLapsed(k)
      BY <3>1, <3>2, GoTyped DEF SettleBooked, SettleLapsed
    <3>3. CASE AnsweredUnreachable(k) \/ AnsweredLater(k)
      BY <1>5, <3>3 DEF AnsweredUnreachable, AnsweredLater
    <3>4. QED
      BY <1>a, <3>2, <3>3 DEF Settles
  <2>2. QED
    BY <1>a, <2>1, SettlesWait DEF TypeOK
<1>8. CASE ListBookings(k)
  <2>1. CancelJob({b \in Bookings : booking[b].session = job[k].s /\ booking[b].status = "booked"}) \in Job
    BY DEF CancelJob, Job
  <2>2. job' \in [Workers -> Job]
    BY <1>8, <2>1, GoTyped DEF ListBookings
  <2>3. QED
    BY <1>8, <2>2 DEF ListBookings, TypeOK
<1>9. CASE CancelBooking(k)
  <2>1. CancelJob(job[k].left \ {NextToCancel(k)}) \in Job /\ Idle \in Job
    BY <1>9, JobFields DEF CancelBooking, CancelJob, Job
  <2>2. job' \in [Workers -> Job]
    BY <1>9, <2>1, GoTyped DEF CancelBooking
  <2>3. booking' \in [Bookings -> Booking]
    BY <1>9 DEF CancelBooking, TypeOK, Booking
  <2>4. QED
    BY <1>9, <2>2, <2>3 DEF CancelBooking, TypeOK
<1>10. CASE Edit(k) \/ Crash(k)
  <2>1. job' \in [Workers -> Job]
    BY <1>10, GoTyped DEF Edit, Crash, Job
  <2>2. QED
    BY <1>10, <2>1, JobFields DEF Edit, Crash, TypeOK
<1>11. QED
  BY <1>1, <1>2, <1>3, <1>4, <1>6, <1>7, <1>8, <1>9, <1>10, <1>a DEF Step, Settles

LEMMA NextTyped ==
    ASSUME TypeOK, RowsFilled, [Next]_vars
    PROVE  TypeOK' /\ RowsFilled'
<1>1. CASE Tick
  BY <1>1 DEF TypeOK, RowsFilled, Tick
<1>2. ASSUME NEW s \in Sessions, NEW kids \in PassLists, Join(s, kids)
      PROVE  TypeOK' /\ RowsFilled'
  <2> DEFINE used == Cardinality({w \in Entries : wait[w].state # "none"})
  <2>1. used \in Nat
    BY FiniteBookings
  <2>2. \A w \in (used + 1)..(used + Len(kids)) : kids[w - used] \in Children
    BY <2>1, KidsTyped
  <2>3. ASSUME NEW w \in Entries
        PROVE  wait'[w].state # "none" => wait'[w].session \in Sessions /\ wait'[w].child \in Children
    BY <1>2, <2>2, PoolTyped DEF Join, RowsFilled
  <2>4. QED
    BY <1>2, <2>3, JoinTyped DEF Join, RowsFilled
<1>3. ASSUME NEW b \in Bookings, CancelByParent(b)
      PROVE  TypeOK' /\ RowsFilled'
  BY <1>3 DEF CancelByParent, TypeOK, RowsFilled, Booking
<1>4. CASE \E k \in Workers : Begin(k) \/ Step(k)
  BY <1>4, BeginTyped, StepTyped, StepFilled
<1>5. CASE UNCHANGED vars
  BY <1>5 DEF TypeOK, RowsFilled, vars
<1>6. QED
  BY <1>1, <1>2, <1>3, <1>4, <1>5 DEF Next

LEMMA FilledTyping == Spec => [](TypeOK /\ RowsFilled)
<1>1. Init => TypeOK /\ RowsFilled
  BY InitTyped DEF Init, RowsFilled, NoBooking, NoEntry
<1>2. TypeOK /\ RowsFilled /\ [Next]_vars => (TypeOK /\ RowsFilled)'
  BY NextTyped
<1>3. QED
  BY <1>1, <1>2, PTL DEF Spec

(* Every row, and what every worker is doing, is of its kind, whatever the  *)
(* order of the requests and wherever one of them dies.                     *)
THEOREM Typing == Spec => []TypeOK
BY FilledTyping, PTL

----------------------------------------------------------------------------
(* Passes stay whole. *)

(* A step that gives no id, and changes pending rows pass by pass. *)
LEMMA PassByPass ==
    ASSUME TypeOK, RowsFilled, Shape, serial' = serial,
           \A b \in Bookings : /\ booking'[b].pass = booking[b].pass
                               /\ booking'[b].child = booking[b].child
                               /\ booking[b].status = "none" => booking'[b] = booking[b]
                               /\ booking[b].status # "none" => booking'[b].status # "none"
                               /\ booking'[b].status = "pending" => booking[b].status = "pending",
           \A b \in Bookings : booking'[b].status = "pending" =>
               \A c \in InPass(b) : /\ booking'[c].status = "pending"
                                    /\ booking'[c].session = booking'[b].session
                                    /\ booking'[c].hold = booking'[b].hold,
           \A w \in Entries : wait'[w].offer \in {wait[w].offer, None}
    PROVE  Shape'
<1>1. \A b \in Bookings : InPass(b)' = InPass(b)
  BY DEF InPass
<1>2. \A b \in Bookings : PhoneOf(b)' = PhoneOf(b)
  BY DEF PhoneOf
<1>3. IdsInOrder'
  <2>1. ASSUME NEW b \in Bookings
        PROVE  IF b <= serial THEN booking'[b].pass \in 0..serial ELSE booking'[b] = NoBooking
    <3>1. IF b <= serial THEN booking[b].pass \in 0..serial ELSE booking[b] = NoBooking
      BY DEF Shape, IdsInOrder
    <3>2. NoBooking.status = "none"
      BY DEF NoBooking
    <3>3. QED
      BY <3>1, <3>2
  <2>2. QED
    BY <2>1 DEF IdsInOrder
<1>4. PassWhole'
  <2>1. ASSUME NEW b \in Bookings, booking'[b].status = "pending", NEW c \in InPass(b)
        PROVE  PhoneOf(c) = PhoneOf(b)
    BY <2>1 DEF Shape, PassWhole
  <2>2. \A b \in Bookings : InPass(b) \subseteq Bookings
    BY DEF InPass
  <2>3. QED
    BY <1>1, <1>2, <2>1, <2>2 DEF PassWhole
<1>5. OffersAlone'
  <2>1. ASSUME NEW w \in Entries, wait'[w].offer # None
        PROVE  /\ booking'[wait'[w].offer].status # "none"
               /\ \A c \in Bookings : booking'[c].pass = booking'[wait'[w].offer].pass => c = wait'[w].offer
    <3>1. wait'[w].offer = wait[w].offer /\ wait[w].offer \in Bookings
      BY <2>1 DEF TypeOK, Entry
    <3>2. /\ booking[wait[w].offer].status # "none"
          /\ \A c \in Bookings : booking[c].pass = booking[wait[w].offer].pass => c = wait[w].offer
      BY <2>1, <3>1 DEF Shape, OffersAlone
    <3>3. QED
      BY <3>1, <3>2
  <2>2. QED
    BY <2>1 DEF OffersAlone
<1>6. QED
  BY <1>3, <1>4, <1>5 DEF Shape

(* The pass of a pending booking is pending; so PendingPass is all of it or none. *)
LEMMA PendingPassWhole ==
    ASSUME TypeOK, PassWhole, NEW b \in Bookings
    PROVE  /\ PendingPass(b) = {} \/ PendingPass(b) = InPass(b)
           /\ b \in InPass(b)
           /\ \A c \in PendingPass(b) : /\ booking[b].status = "pending"
                                        /\ booking[c].session = booking[b].session
                                        /\ booking[c].hold = booking[b].hold
                                        /\ InPass(c) = InPass(b)
           /\ \A d \in Bookings : \A c \in InPass(d) : c \in InPass(b) <=> d \in InPass(b)
<1>1. b \in InPass(b) /\ \A d \in Bookings : \A c \in InPass(d) : c \in InPass(b) <=> d \in InPass(b)
  BY DEF InPass
<1>2. ASSUME NEW c \in PendingPass(b)
      PROVE  /\ booking[b].status = "pending" /\ booking[c].session = booking[b].session
             /\ booking[c].hold = booking[b].hold /\ InPass(c) = InPass(b)
             /\ PendingPass(b) = InPass(b)
  <2>1. c \in Bookings /\ booking[c].status = "pending" /\ InPass(c) = InPass(b)
    BY DEF PendingPass, InPass
  <2>2. QED
    BY <1>1, <2>1 DEF PassWhole, PendingPass
<1>3. QED
  BY <1>1, <1>2

(* The holds of a phone on a session, end pass by pass. *)
LEMMA PhonesHolds ==
    ASSUME TypeOK, PassWhole, NEW s, NEW at, NEW phone, NEW b \in Bookings, NEW c \in InPass(b),
           booking[b].status = "pending"
    PROVE  c \in Taken(s, at) \cap PendingOf(phone) <=> b \in Taken(s, at) \cap PendingOf(phone)
BY DEF PassWhole, InPass, Taken, TakenIn, TakesSpot, Live, PendingOf

LEMMA CreateShape ==
    ASSUME TypeOK, RowsFilled, Shape, NEW k \in Workers, Create(k)
    PROVE  Shape'
<1> DEFINE j == job[k]
           ends == Taken(j.s, j.at) \cap PendingOf(Phone[j.kids[1]])
           new == NewIds(Len(j.kids))
<1>1. CASE ~CreateFits(j)
  BY <1>1 DEF Create, Shape, IdsInOrder, PassWhole, OffersAlone, InPass, PhoneOf
<1>2. CASE CreateFits(j)
  <2>1. booking' = AfterCreate(j) /\ serial' = serial + Len(j.kids) /\ serial' <= MaxBookings /\ wait' = wait
    BY <1>2 DEF Create
  <2>2. j.kids \in PassLists /\ Len(j.kids) \in Nat /\ Len(j.kids) >= 1 /\ serial \in Nat
    BY JobFields, KidsTyped, IdsAssumption DEF Create, TypeOK
  <2>3. \A b \in new : b \in Bookings /\ b > serial /\ b <= serial'
    BY <2>1, <2>2, IdsAssumption DEF NewIds, Bookings
  <2>4. \A b \in ends : b \in Bookings /\ booking[b].status = "pending"
    BY DEF PendingOf
  <2>5. \A b \in Bookings : b > serial => booking[b] = NoBooking
    BY <2>2, IdsAssumption DEF Shape, IdsInOrder, Bookings
  <2>6. \A b \in Bookings \ new : /\ booking'[b].pass = booking[b].pass /\ booking'[b].child = booking[b].child
                                  /\ booking'[b].status = booking[b].status
                                  /\ booking'[b].session = booking[b].session
                                  /\ booking'[b].hold = IF b \in ends THEN j.at ELSE booking[b].hold
                                  /\ b \notin ends => booking'[b] = booking[b]
    BY <2>1 DEF AfterCreate, TypeOK, Booking
  <2>7. \A b \in new : /\ booking'[b].pass = serial + 1 /\ booking'[b].status = "pending"
                       /\ booking'[b].session = j.s /\ booking'[b].hold = j.at + HoldTime
                       /\ booking'[b].child = j.kids[b - serial] /\ PhoneOf(b)' = Phone[j.kids[1]]
    <3>1. \A b \in new : b - serial \in 1..Len(j.kids)
      BY <2>2, <2>3 DEF NewIds
    <3>2. \A b \in new : booking'[b] = NewHold(j, b)
      BY <2>1, <2>3 DEF AfterCreate
    <3>3. \A b \in new : Phone[j.kids[b - serial]] = Phone[j.kids[1]]
      BY <2>2, <3>1, KidsTyped
    <3>4. \A b \in new : PhoneOf(b)' = Phone[booking'[b].child]
      BY DEF PhoneOf
    <3>5. ASSUME NEW b \in new
          PROVE  /\ NewHold(j, b).pass = serial + 1 /\ NewHold(j, b).status = "pending"
                 /\ NewHold(j, b).session = j.s /\ NewHold(j, b).hold = j.at + HoldTime
                 /\ NewHold(j, b).child = j.kids[b - serial]
      BY DEF NewHold
    <3>6. QED
      BY <2>3, <3>2, <3>3, <3>4, <3>5
  <2>8. \A b \in Bookings \ new : booking'[b].pass \in 0..serial
    BY <2>2, <2>5, <2>6 DEF Shape, IdsInOrder, NoBooking, None, Bookings
  <2>9. IdsInOrder'
    <3>1. ASSUME NEW b \in Bookings
          PROVE  IF b <= serial' THEN booking'[b].pass \in 0..serial' ELSE booking'[b] = NoBooking
      <4>1. CASE b \in new
        BY <2>1, <2>2, <2>3, <2>7, <4>1
      <4>2. CASE b \notin new /\ b <= serial'
        BY <2>1, <2>2, <2>8, <4>2
      <4>3. CASE b \notin new /\ ~(b <= serial')
        <5>1. b > serial
          BY <2>1, <2>2, <4>3 DEF Bookings
        <5>2. b \notin ends
          BY <2>4, <2>5, <5>1 DEF NoBooking
        <5>3. QED
          BY <2>5, <2>6, <4>3, <5>1, <5>2
      <4>4. QED
        BY <4>1, <4>2, <4>3
    <3>2. QED
      BY <3>1 DEF IdsInOrder
  <2>10. ASSUME NEW b \in Bookings
         PROVE  InPass(b)' = IF b \in new THEN new ELSE InPass(b) \ new
    <3>1. CASE b \in new
      <4>1. \A c \in Bookings : booking'[c].pass = booking'[b].pass <=> c \in new
        BY <2>2, <2>7, <2>8, <3>1
      <4>2. QED
        BY <2>3, <3>1, <4>1 DEF InPass
    <3>2. CASE b \notin new
      <4>1. \A c \in new : booking'[c].pass # booking'[b].pass
        BY <2>2, <2>7, <2>8, <3>2
      <4>2. QED
        BY <2>6, <3>2, <4>1 DEF InPass
    <3>3. QED
      BY <3>1, <3>2
  <2>11. PassWhole'
    <3>1. ASSUME NEW b \in Bookings, booking'[b].status = "pending", NEW c \in InPass(b)'
          PROVE  /\ booking'[c].status = "pending" /\ booking'[c].session = booking'[b].session
                 /\ booking'[c].hold = booking'[b].hold /\ PhoneOf(c)' = PhoneOf(b)'
      <4>1. CASE b \in new
        BY <2>7, <2>10, <3>1, <4>1
      <4>2. CASE b \notin new
        <5>1. c \in InPass(b) /\ c \in Bookings \ new /\ b \in Bookings \ new
          BY <2>10, <3>1, <4>2 DEF InPass
        <5>2. booking[b].status = "pending"
          BY <2>6, <3>1, <5>1
        <5>3. c \in ends <=> b \in ends
          <6>1. PassWhole /\ b \in Bookings
            BY DEF Shape
          <6>2. QED
            BY <5>1, <5>2, <6>1, PhonesHolds
        <5>4. /\ booking[c].status = "pending" /\ booking[c].session = booking[b].session
              /\ booking[c].hold = booking[b].hold /\ PhoneOf(c) = PhoneOf(b)
          BY <5>1, <5>2 DEF Shape, PassWhole
        <5>5. QED
          BY <2>6, <5>1, <5>3, <5>4 DEF PhoneOf
      <4>3. QED
        BY <4>1, <4>2
    <3>2. QED
      BY <3>1 DEF PassWhole
  <2>12. OffersAlone'
    <3>1. ASSUME NEW w \in Entries, NEW o \in Bookings, o = wait[w].offer, o # None
          PROVE  /\ booking'[o].status # "none"
                 /\ \A c \in Bookings : booking'[c].pass = booking'[o].pass => c = o
      <4>1. booking[o].status # "none" /\ \A c \in Bookings : booking[c].pass = booking[o].pass => c = o
        BY <3>1 DEF Shape, OffersAlone
      <4>2. o \notin new
        BY <2>3, <2>5, <4>1 DEF NoBooking
      <4>3. booking'[o].status # "none" /\ booking'[o].pass = booking[o].pass
        BY <2>6, <4>1, <4>2
      <4>4. \A c \in new : booking'[c].pass # booking'[o].pass
        BY <2>2, <2>7, <2>8, <4>2
      <4>5. QED
        BY <2>6, <4>1, <4>3, <4>4
    <3>a. \A w \in Entries : wait[w].offer # None => wait[w].offer \in Bookings
      BY DEF TypeOK, Entry
    <3>2. QED
      BY <2>1, <3>1, <3>a DEF OffersAlone
  <2>13. QED
    BY <2>9, <2>11, <2>12 DEF Shape
<1>3. QED
  BY <1>1, <1>2

(* The spots of one round: each a new id, and a pass of its own. *)
LEMMA HoldSpotsRows ==
    ASSUME TypeOK, NEW k \in Workers, NEW s \in Sessions, NEW pool, NEW cap \in Nat, NEW at \in Nat,
           HoldSpots(k, s, pool, cap, at), NEW b \in Bookings
    PROVE  \/ booking'[b] = booking[b]
           \/ /\ b > serial /\ b <= serial'
              /\ b <= serial + (cap - Cardinality(Taken(s, at)))
              /\ booking'[b].status = "pending" /\ booking'[b].session = s
              /\ booking'[b].pass = b
<1> DEFINE held == Held(s, pool, cap, at)
<1>1. serial' = serial + Cardinality(held)
  BY DEF HoldSpots
<1>2. CASE \E w \in held : b = Spot(w, pool, at)
  <2>1. PICK w \in held : b = Spot(w, pool, at)
    BY <1>2
  <2>2. \E v \in held : booking'[b] = HeldRow(s, v, b, at)
    BY <1>2 DEF HoldSpots
  <2>3. booking'[b].status = "pending" /\ booking'[b].session = s /\ booking'[b].pass = b
    BY <2>2 DEF HeldRow
  <2>4. b > serial /\ b <= serial' /\ b <= serial + (cap - Cardinality(Taken(s, at)))
    BY <1>1, <2>1, SpotIds
  <2>5. QED
    BY <2>3, <2>4
<1>3. CASE ~\E w \in held : b = Spot(w, pool, at)
  BY <1>3 DEF HoldSpots
<1>4. QED
  BY <1>2, <1>3

LEMMA HoldSpotsShape ==
    ASSUME TypeOK, RowsFilled, Shape,
           NEW k \in Workers, NEW s \in Sessions, NEW pool, NEW cap \in Nat, NEW at \in Nat,
           HoldSpots(k, s, pool, cap, at)
    PROVE  Shape'
<1> DEFINE held == Held(s, pool, cap, at)
           Given(b) == /\ b > serial /\ b <= serial'
                       /\ booking'[b].status = "pending" /\ booking'[b].pass = b
<1>1. held \subseteq Entries /\ serial \in Nat /\ serial' \in Nat /\ serial <= serial'
  <2>1. held \subseteq Entries
    BY DEF Held, Tellable, Met, LineOf
  <2>2. Cardinality(held) \in Nat /\ serial' = serial + Cardinality(held)
    BY <2>1, FiniteBookings DEF HoldSpots
  <2>3. QED
    BY <2>1, <2>2, IdsAssumption DEF TypeOK
<1>2. \A b \in Bookings : booking'[b] = booking[b] \/ Given(b)
  BY HoldSpotsRows
<1>3. \A b \in Bookings : /\ b > serial => booking[b] = NoBooking
                          /\ booking[b].pass \in 0..serial
  BY <1>1 DEF Shape, IdsInOrder, NoBooking, None, Bookings
<1>4. IdsInOrder'
  <2>1. ASSUME NEW b \in Bookings
        PROVE  IF b <= serial' THEN booking'[b].pass \in 0..serial' ELSE booking'[b] = NoBooking
    BY <1>1, <1>2, <1>3 DEF Bookings
  <2>2. QED
    BY <2>1 DEF IdsInOrder
<1>5. ASSUME NEW b \in Bookings, NEW c \in Bookings, Given(b), booking'[c].pass = booking'[b].pass
      PROVE  c = b
  BY <1>1, <1>2, <1>3, <1>5
<1>6. ASSUME NEW b \in Bookings, NEW c \in Bookings, ~Given(b), booking'[b].status # "none",
             booking'[c].pass = booking'[b].pass
      PROVE  /\ ~Given(c) /\ booking'[b] = booking[b] /\ booking'[c] = booking[c]
             /\ booking[c].pass = booking[b].pass
  BY <1>1, <1>2, <1>3, <1>6
<1>7. PassWhole'
  <2>1. ASSUME NEW b \in Bookings, booking'[b].status = "pending", NEW c \in Bookings,
               booking'[c].pass = booking'[b].pass
        PROVE  /\ booking'[c].status = "pending" /\ booking'[c].session = booking'[b].session
               /\ booking'[c].hold = booking'[b].hold /\ Phone[booking'[c].child] = Phone[booking'[b].child]
    <3>1. CASE Given(b)
      BY <1>5, <2>1, <3>1
    <3>2. CASE ~Given(b)
      BY <1>6, <2>1, <3>2 DEF Shape, PassWhole, InPass, PhoneOf
    <3>3. QED
      BY <3>1, <3>2
  <2>2. QED
    BY <2>1 DEF PassWhole, InPass, PhoneOf
<1>8. OffersAlone'
  <2>1. ASSUME NEW w \in Entries, NEW o, o = wait'[w].offer, o # None
        PROVE  /\ o \in Bookings /\ booking'[o].status # "none"
               /\ \A c \in Bookings : booking'[c].pass = booking'[o].pass => c = o
    <3>1. \/ o = wait[w].offer
          \/ w \in held /\ o = Spot(w, pool, at)
      <4>1. wait[w] \in Entry
        BY DEF TypeOK
      <4>2. QED
        BY <2>1, <4>1 DEF HoldSpots, Entry
    <3>2. CASE o = wait[w].offer
      <4>1. o \in Bookings /\ booking[o].status # "none"
            /\ \A c \in Bookings : booking[c].pass = booking[o].pass => c = o
        BY <2>1, <3>2 DEF TypeOK, Entry, Shape, OffersAlone
      <4>2. ~Given(o)
        BY <1>1, <1>3, <4>1 DEF NoBooking
      <4>3. booking'[o] = booking[o]
        BY <1>2, <4>1, <4>2
      <4>4. QED
        BY <1>6, <4>1, <4>2, <4>3
    <3>3. CASE w \in held /\ o = Spot(w, pool, at)
      <4>1. o \in Bookings
        BY <2>1, HoldSpotsTyped DEF Entry
      <4>2. booking'[o] = HeldRow(s, CHOOSE v \in held : o = Spot(v, pool, at), o, at)
        BY <3>3, <4>1 DEF HoldSpots
      <4>3. booking'[o].status = "pending" /\ booking'[o].pass = o
        BY <4>2 DEF HeldRow
      <4>4. Given(o)
        BY <3>3, <4>3, SpotIds DEF HoldSpots
      <4>5. QED
        BY <1>5, <4>1, <4>4
    <3>4. QED
      BY <3>1, <3>2, <3>3
  <2>2. QED
    BY <2>1 DEF OffersAlone
<1>9. QED
  BY <1>4, <1>7, <1>8 DEF Shape

LEMMA RenewShape ==
    ASSUME TypeOK, RowsFilled, Shape, NEW k \in Workers, Renew(k)
    PROVE  Shape'
<1> DEFINE j == job[k]
<1>1. CASE ~RenewFits(j)
  BY <1>1 DEF Renew, Shape, IdsInOrder, PassWhole, OffersAlone, InPass, PhoneOf
<1>2. CASE RenewFits(j)
  <2>1. j.b \in Bookings /\ PassWhole
    BY JobFields DEF Renew, Shape
  <2>2. booking' = AfterRenew(j) /\ serial' = serial /\ wait' = wait
    BY <1>2 DEF Renew
  <2>3. PendingPass(j.b) = InPass(j.b)
    BY <1>2, <2>1, PendingPassWhole DEF RenewFits
  <2>4. ASSUME NEW b \in Bookings
        PROVE  /\ booking'[b].pass = booking[b].pass /\ booking'[b].child = booking[b].child
               /\ booking'[b].status = booking[b].status /\ booking'[b].session = booking[b].session
               /\ booking'[b].hold = IF b \in InPass(j.b) THEN j.at + HoldTime ELSE booking[b].hold
               /\ b \notin InPass(j.b) => booking'[b] = booking[b]
    BY <2>2, <2>3 DEF AfterRenew, TypeOK, Booking
  <2>5. \A b \in InPass(j.b) : booking[b].status = "pending"
    BY <2>3 DEF PendingPass
  <2>6. ASSUME NEW b \in Bookings, booking'[b].status = "pending", NEW c \in InPass(b)
        PROVE  /\ booking'[c].status = "pending" /\ booking'[c].session = booking'[b].session
               /\ booking'[c].hold = booking'[b].hold
    <3>1. c \in Bookings /\ (c \in InPass(j.b) <=> b \in InPass(j.b))
      BY DEF InPass
    <3>2. /\ booking[c].status = "pending" /\ booking[c].session = booking[b].session
          /\ booking[c].hold = booking[b].hold
      BY <2>1, <2>4, <2>6 DEF PassWhole
    <3>3. QED
      BY <2>4, <3>1, <3>2
  <2>7. QED
    BY <2>2, <2>4, <2>5, <2>6, PassByPass
<1>3. QED
  BY <1>1, <1>2

LEMMA BookShape ==
    ASSUME TypeOK, RowsFilled, Shape, NEW k \in Workers, Book(k)
    PROVE  Shape'
<1> DEFINE j == job[k]
           pass == InPass(j.b)
<1>1. CASE ~BookFits(j)
  BY <1>1 DEF Book, Shape, IdsInOrder, PassWhole, OffersAlone, InPass, PhoneOf
<1>2. CASE BookFits(j)
  <2>1. j.b \in Bookings /\ PassWhole
    BY JobFields DEF Book, Shape
  <2>2. booking' = AfterBook(j) /\ serial' = serial /\ wait' = OffTheLine(j.s, pass)
    BY <1>2 DEF Book
  <2>3. PendingPass(j.b) = pass
    BY <1>2, <2>1, PendingPassWhole DEF BookFits
  <2>4. /\ GivesWay(j) \subseteq Bookings /\ GivesWay(j) \cap pass = {}
        /\ \A b \in GivesWay(j) : booking[b].status = "pending"
    BY DEF GivesWay, PendingOf
  <2>5. ASSUME NEW b \in Bookings
        PROVE  /\ booking'[b].pass = booking[b].pass /\ booking'[b].child = booking[b].child
               /\ booking'[b].session = booking[b].session
               /\ booking'[b].status = IF b \in pass THEN "booked" ELSE booking[b].status
               /\ booking'[b].hold = IF b \in GivesWay(j) THEN j.at ELSE booking[b].hold
               /\ b \notin pass /\ b \notin GivesWay(j) => booking'[b] = booking[b]
    <3>1. booking'[b] = IF b \in GivesWay(j) THEN [booking[b] EXCEPT !.hold = j.at]
                        ELSE IF b \in pass
                             THEN [booking[b] EXCEPT !.status = "booked", !.charged = j.paid]
                             ELSE booking[b]
      BY <2>2, <2>3 DEF AfterBook, AfterSale
    <3>2. booking[b] \in Booking
      BY DEF TypeOK
    <3>3. QED
      BY <2>4, <3>1, <3>2 DEF Booking
  <2>6. \A b \in pass : booking[b].status = "pending"
    BY <2>3 DEF PendingPass
  <2>7. ASSUME NEW b \in Bookings, booking'[b].status = "pending", NEW c \in InPass(b)
        PROVE  /\ booking'[c].status = "pending" /\ booking'[c].session = booking'[b].session
               /\ booking'[c].hold = booking'[b].hold
    <3>1. c \in Bookings /\ (c \in pass <=> b \in pass) /\ b \notin pass
      BY <2>5, <2>7 DEF InPass
    <3>2. /\ booking[b].status = "pending"
          /\ booking[c].status = "pending" /\ booking[c].session = booking[b].session
          /\ booking[c].hold = booking[b].hold
      BY <2>1, <2>5, <2>7, <3>1 DEF PassWhole
    <3>3. c \in GivesWay(j) <=> b \in GivesWay(j)
      <4>1. /\ c \in Taken(j.s, j.at) \cap PendingOf(PhoneOf(j.b))
               <=> b \in Taken(j.s, j.at) \cap PendingOf(PhoneOf(j.b))
        BY <2>1, <3>2, PhonesHolds
      <4>2. QED
        BY <3>1, <4>1 DEF GivesWay
    <3>4. QED
      BY <2>5, <3>1, <3>2, <3>3
  <2>8. \A w \in Entries : wait'[w].offer \in {wait[w].offer, None}
    BY <2>2 DEF OffTheLine, TypeOK, Entry
  <2>9. QED
    BY <2>2, <2>4, <2>5, <2>6, <2>7, <2>8, PassByPass
<1>3. QED
  BY <1>1, <1>2

(* A step that only changes bookings that are not pending, or ends whole passes. *)
LEMMA SettledOnly ==
    ASSUME TypeOK, RowsFilled, Shape, serial' = serial,
           \A b \in Bookings : /\ booking'[b].pass = booking[b].pass
                               /\ booking'[b].child = booking[b].child
                               /\ booking[b].status = "none" => booking'[b] = booking[b]
                               /\ booking[b].status # "none" => booking'[b].status # "none"
                               /\ booking[b].status = "pending" =>
                                     /\ booking'[b].status = "pending"
                                     /\ booking'[b].session = booking[b].session
                                     /\ booking'[b].hold = booking[b].hold
                               /\ booking'[b].status = "pending" => booking[b].status = "pending",
           \A w \in Entries : wait'[w].offer \in {wait[w].offer, None}
    PROVE  Shape'
<1>1. ASSUME NEW b \in Bookings, booking'[b].status = "pending", NEW c \in InPass(b)
      PROVE  /\ booking'[c].status = "pending" /\ booking'[c].session = booking'[b].session
             /\ booking'[c].hold = booking'[b].hold
  <2>1. c \in Bookings /\ booking[b].status = "pending"
    BY <1>1 DEF InPass
  <2>2. /\ booking[c].status = "pending" /\ booking[c].session = booking[b].session
        /\ booking[c].hold = booking[b].hold
    BY <2>1 DEF Shape, PassWhole
  <2>3. QED
    BY <2>1, <2>2
<1>2. QED
  BY <1>1, PassByPass

LEMMA CreditShape ==
    ASSUME TypeOK, RowsFilled, Shape, NEW k \in Workers, Credit(k)
    PROVE  Shape'
<1> DEFINE p == InPass(job[k].b)
<1>1. job[k].b \in Bookings /\ PassWhole
  BY JobFields DEF Credit, Shape
<1>2. CASE booking' = booking
  <2>1. UNCHANGED <<booking, serial, wait>>
    BY <1>2 DEF Credit
  <2>2. QED
    BY <2>1 DEF Shape, IdsInOrder, PassWhole, OffersAlone, InPass, PhoneOf
<1>3. CASE booking[job[k].b].status = "pending"
  <2>1. PendingPass(job[k].b) = p
    <3>1. job[k].b \in PendingPass(job[k].b)
      BY <1>1, <1>3 DEF PendingPass, InPass
    <3>2. QED
      BY <1>1, <3>1, PendingPassWhole
  <2>2. ASSUME NEW b \in Bookings
        PROVE  /\ booking'[b].pass = booking[b].pass /\ booking'[b].child = booking[b].child
               /\ booking'[b].session = booking[b].session /\ booking'[b].hold = booking[b].hold
               /\ booking'[b].status = IF b \in p THEN "cancelled" ELSE booking[b].status
               /\ b \notin p => booking'[b] = booking[b]
    <3>1. booking'[b] = IF b \in p THEN [booking[b] EXCEPT !.status = "cancelled", !.charged = TRUE]
                        ELSE booking[b]
      BY <1>3, <2>1 DEF Credit
    <3>2. booking[b] \in Booking
      BY DEF TypeOK
    <3>3. QED
      BY <3>1, <3>2 DEF Booking
  <2>3. \A b \in p : booking[b].status = "pending"
    BY <2>1 DEF PendingPass
  <2>4. ASSUME NEW b \in Bookings, booking'[b].status = "pending", NEW c \in InPass(b)
        PROVE  /\ booking'[c].status = "pending" /\ booking'[c].session = booking'[b].session
               /\ booking'[c].hold = booking'[b].hold
    <3>1. c \in Bookings /\ (c \in p <=> b \in p) /\ b \notin p
      BY <2>2, <2>4 DEF InPass
    <3>2. /\ booking[c].status = "pending" /\ booking[c].session = booking[b].session
          /\ booking[c].hold = booking[b].hold
      BY <1>1, <2>2, <2>4, <3>1 DEF PassWhole
    <3>3. QED
      BY <2>2, <2>4, <3>1, <3>2
  <2>5. QED
    <3>1. \A w \in Entries : wait'[w].offer \in {wait[w].offer, None}
      BY DEF Credit
    <3>2. serial' = serial
      BY DEF Credit
    <3>3. \A b \in Bookings : booking'[b].status = "pending" => booking[b].status = "pending"
      BY <2>2
    <3>4. \A b \in Bookings : /\ booking[b].status = "none" => booking'[b] = booking[b]
                              /\ booking[b].status # "none" => booking'[b].status # "none"
      BY <2>2, <2>3
    <3>5. QED
      BY <2>2, <2>4, <3>1, <3>2, <3>3, <3>4, PassByPass
<1>4. QED
  BY <1>2, <1>3 DEF Credit

LEMMA MoveShape ==
    ASSUME TypeOK, RowsFilled, Shape, NEW k \in Workers, Move(k)
    PROVE  Shape'
<1> DEFINE goes == PaidTogether(job[k].b)
<1>1. CASE UNCHANGED <<booking, wait>>
  BY <1>1 DEF Move, Shape, IdsInOrder, PassWhole, OffersAlone, InPass, PhoneOf
<1>2. CASE /\ MayMove(job[k].b, job[k].s)
           /\ wait' = OffTheLine(job[k].to, goes)
           /\ booking' = [c \in Bookings |->
                  IF c \in goes THEN [booking[c] EXCEPT !.session = job[k].to] ELSE booking[c]]
  <2>1. \A c \in goes : booking[c].status = "booked"
    BY <1>2 DEF MayMove
  <2>2. ASSUME NEW b \in Bookings
        PROVE  /\ booking'[b].pass = booking[b].pass /\ booking'[b].child = booking[b].child
               /\ booking'[b].status = booking[b].status /\ booking'[b].hold = booking[b].hold
               /\ b \notin goes => booking'[b] = booking[b]
    BY <1>2 DEF TypeOK, Booking
  <2>3. \A w \in Entries : wait'[w].offer \in {wait[w].offer, None}
    BY <1>2 DEF OffTheLine, TypeOK, Entry
  <2>4. QED
    BY <2>1, <2>2, <2>3, SettledOnly DEF Move
<1>3. QED
  BY <1>1, <1>2 DEF Move

LEMMA LetSpotGoShape ==
    ASSUME TypeOK, RowsFilled, Shape, NEW k \in Workers, LetSpotGo(k)
    PROVE  Shape'
<1>1. PICK n : n = NextSpot(k)
  OBVIOUS
<1>2. PICK o : o = wait[n].offer
  OBVIOUS
<1>3. booking' \in {booking, [booking EXCEPT ![o].hold = clock]} /\ serial' = serial
  BY <1>1, <1>2 DEF LetSpotGo
<1>4. ASSUME NEW b \in Bookings
      PROVE  /\ booking'[b].pass = booking[b].pass /\ booking'[b].child = booking[b].child
             /\ booking'[b].status = booking[b].status /\ booking'[b].session = booking[b].session
             /\ b # o => booking'[b] = booking[b]
  BY <1>3 DEF TypeOK, Booking
<1>5. n \in Entries
  BY <1>1, NextSpotTyped DEF LetSpotGo
<1>6. ASSUME NEW b \in Bookings, booking'[b].status = "pending", NEW c \in InPass(b)
      PROVE  /\ booking'[c].status = "pending" /\ booking'[c].session = booking'[b].session
             /\ booking'[c].hold = booking'[b].hold
  <2>1. c \in Bookings /\ booking[c].pass = booking[b].pass
    BY DEF InPass
  <2>2. /\ booking[c].status = "pending" /\ booking[c].session = booking[b].session
        /\ booking[c].hold = booking[b].hold
    BY <1>4, <1>6 DEF Shape, PassWhole
  <2>3. CASE b = o \/ c = o
    <3>1. wait[n].offer # None
      BY <1>2, <2>1, <2>3 DEF Bookings, None
    <3>2. b = c
      BY <1>2, <1>5, <2>1, <2>3, <3>1 DEF Shape, OffersAlone
    <3>3. QED
      BY <1>6, <3>2
  <2>4. CASE b # o /\ c # o
    BY <1>4, <1>6, <2>1, <2>2, <2>4
  <2>5. QED
    BY <2>3, <2>4
<1>7. ASSUME NEW b \in Bookings, booking[b].status = "none"
      PROVE  booking'[b] = booking[b]
  <2>1. CASE b = o
    <3>1. wait[n].offer # None
      BY <1>2, <2>1 DEF Bookings, None
    <3>2. QED
      BY <1>2, <1>5, <1>7, <2>1, <3>1 DEF Shape, OffersAlone
  <2>2. QED
    BY <1>4, <2>1
<1>8. QED
  BY <1>3, <1>4, <1>6, <1>7, PassByPass DEF LetSpotGo

LEMMA StepShape ==
    ASSUME TypeOK, RowsFilled, Shape, NEW k \in Workers, Step(k)
    PROVE  Shape'
<1>1. CASE Create(k) \/ Renew(k) \/ Book(k) \/ Credit(k) \/ Move(k)
  BY <1>1, CreateShape, RenewShape, BookShape, CreditShape, MoveShape
<1>2. CASE LetSpotGo(k)
  BY <1>2, LetSpotGoShape
<1>a. CASE Settles(k)
  BY <1>a, SettledRow, SettlesWait, SettledOnly
<1>3. CASE UNCHANGED <<booking, serial, wait>>
  BY <1>3 DEF Shape, IdsInOrder, PassWhole, OffersAlone, InPass, PhoneOf
<1>4. CASE Offer(k)
  <2>1. job[k].s \in Sessions /\ job[k].at \in Nat
    BY <1>4, JobFields DEF Offer
  <2>2. \/ UNCHANGED <<booking, serial, wait>>
        \/ HoldSpots(k, job[k].s, Pool(job[k].s), Capacity(job[k].s), job[k].at)
    BY <1>4 DEF Offer
  <2>3. QED
    BY <1>3, <2>1, <2>2, HoldSpotsShape, CapacityTyped
<1>5. CASE Accept(k)
  <2>1. job[k].s \in Sessions /\ job[k].at \in Nat /\ Capacity(job[k].s) \in Nat /\ typeCap \in Nat
    BY <1>5, JobFields, CapacityTyped DEF Accept, TypeOK
  <2>2. \/ UNCHANGED <<booking, serial, wait>>
        \/ BackupJoins(k, job[k].s, job[k].at)
        \/ SecondGroupOpens(k, job[k].s, job[k].at)
    BY <1>5 DEF Accept
  <2>3. CASE BackupJoins(k, job[k].s, job[k].at)
    BY <1>3, <2>1, <2>3, HoldSpotsShape DEF BackupJoins
  <2>4. CASE SecondGroupOpens(k, job[k].s, job[k].at)
    BY <1>3, <2>1, <2>4, HoldSpotsShape DEF SecondGroupOpens
  <2>5. QED
    BY <1>3, <2>2, <2>3, <2>4
<1>6. CASE Deliver(k)
  <2>1. ASSUME NEW b \in Bookings
        PROVE  /\ booking'[b].pass = booking[b].pass /\ booking'[b].child = booking[b].child
               /\ booking'[b].status = booking[b].status /\ booking'[b].session = booking[b].session
               /\ booking'[b].hold = booking[b].hold
               /\ booking[b].status = "none" => booking'[b] = booking[b]
    <3>1. PICK n \in Entries : booking' = [booking EXCEPT ![wait[n].offer].link = TRUE]
      BY <1>6, NextSpotTyped DEF Deliver
    <3>2. wait[n].offer # None => booking[wait[n].offer].status # "none"
      BY DEF Shape, OffersAlone
    <3>3. b # None
      BY DEF Bookings, None
    <3>4. QED
      BY <3>1, <3>2, <3>3 DEF TypeOK, Booking
  <2>2. QED
    BY <1>6, <2>1, SettledOnly DEF Deliver
<1>7. CASE CancelBooking(k)
  <2>1. ASSUME NEW b \in Bookings
        PROVE  /\ booking'[b].pass = booking[b].pass /\ booking'[b].child = booking[b].child
               /\ booking'[b].session = booking[b].session /\ booking'[b].hold = booking[b].hold
               /\ booking[b].status # "booked" => booking'[b] = booking[b]
               /\ booking[b].status = "booked" => booking'[b].status \in {"booked", "cancelled"}
    BY <1>7 DEF CancelBooking, TypeOK, Booking
  <2>2. QED
    BY <1>7, <2>1, SettledOnly DEF CancelBooking
<1>8. CASE AnsweredSent(k) \/ ListBookings(k) \/ Edit(k) \/ Crash(k)
  BY <1>3, <1>8 DEF AnsweredSent, ListBookings, Edit, Crash
<1>9. QED
  BY <1>1, <1>2, <1>4, <1>5, <1>6, <1>7, <1>8, <1>a DEF Step, Settles

LEMMA NextShape ==
    ASSUME TypeOK, RowsFilled, Shape, [Next]_vars
    PROVE  Shape'
<1>1. CASE UNCHANGED <<booking, serial, wait>>
  BY <1>1 DEF Shape, IdsInOrder, PassWhole, OffersAlone, InPass, PhoneOf
<1>2. CASE Tick \/ UNCHANGED vars
  BY <1>1, <1>2 DEF Tick, vars
<1>3. ASSUME NEW s \in Sessions, NEW kids \in PassLists, Join(s, kids)
      PROVE  Shape'
  <2>1. ASSUME NEW w \in Entries
        PROVE  wait'[w].offer \in {wait[w].offer, None}
    BY <1>3 DEF Join
  <2>2. QED
    BY <1>3, <2>1, SettledOnly DEF Join
<1>4. ASSUME NEW b \in Bookings, CancelByParent(b)
      PROVE  Shape'
  <2>1. ASSUME NEW c \in Bookings
        PROVE  /\ booking'[c].pass = booking[c].pass /\ booking'[c].child = booking[c].child
               /\ booking'[c].session = booking[c].session /\ booking'[c].hold = booking[c].hold
               /\ booking[c].status # "booked" => booking'[c] = booking[c]
               /\ booking[c].status = "booked" => booking'[c].status \in {"booked", "cancelled"}
    BY <1>4 DEF CancelByParent, TypeOK, Booking
  <2>2. QED
    BY <1>4, <2>1, SettledOnly DEF CancelByParent
<1>5. ASSUME NEW k \in Workers, Begin(k)
      PROVE  UNCHANGED <<booking, serial, wait>>
  BY <1>5 DEF Begin, BeginCreate, BeginRenew, BeginBook, BeginPaid, BeginOffer, BeginAccept, BeginMove,
              CloseSession, BeginEdit
<1>6. QED
  BY <1>1, <1>2, <1>3, <1>4, <1>5, StepShape DEF Next

LEMMA ShapeKept == Spec => [](TypeOK /\ RowsFilled /\ Shape)
<1>1. Init => TypeOK /\ RowsFilled /\ Shape
  BY InitTyped DEF Init, RowsFilled, Shape, IdsInOrder, PassWhole, OffersAlone, NoBooking, NoEntry, None
<1>2. TypeOK /\ RowsFilled /\ Shape /\ [Next]_vars => (TypeOK /\ RowsFilled /\ Shape)'
  BY NextTyped, NextShape
<1>3. QED
  BY <1>1, <1>2, PTL DEF Spec

(* The children of one pass are at checkout together, in one session, on    *)
(* one hold, however its pages, payments and offers interleave.             *)
THEOREM PassesWhole == Spec => []PassWhole
<1>1. Shape => PassWhole
  BY DEF Shape
<1>2. QED
  BY <1>1, ShapeKept, PTL

----------------------------------------------------------------------------
(* What a payment bought stays in one session. *)

(* A row that is charged was so before, in the same pass and session. *)
SamePurchase(b) ==
    booking'[b].charged =>
        /\ booking[b].charged
        /\ booking'[b].pass = booking[b].pass /\ booking'[b].session = booking[b].session

LEMMA PurchasesStay ==
    ASSUME PaidInOneSession, \A b \in Bookings : SamePurchase(b)
    PROVE  PaidInOneSession'
BY DEF PaidInOneSession, SamePurchase, InPass

LEMMA NoPurchase == ASSUME PaidInOneSession, UNCHANGED booking PROVE PaidInOneSession'
BY DEF PaidInOneSession, InPass

LEMMA CreatePaid ==
    ASSUME TypeOK, PaidInOneSession, NEW k \in Workers, Create(k) PROVE PaidInOneSession'
<1>1. CASE UNCHANGED booking
  BY <1>1, NoPurchase
<1>2. CASE booking' = AfterCreate(job[k])
  <2>1. ASSUME NEW b \in Bookings PROVE SamePurchase(b)
    <3>1. booking[b] \in Booking
      BY DEF TypeOK
    <3>2. PICK row : row = booking'[b]
      OBVIOUS
    <3>3. CASE row = NewHold(job[k], b)
      <4>1. ~row.charged
        BY <3>3 DEF NewHold
      <4>2. QED
        BY <3>2, <4>1 DEF SamePurchase
    <3>4. CASE row = [booking[b] EXCEPT !.hold = job[k].at] \/ row = booking[b]
      <4>1. row.charged = booking[b].charged /\ row.pass = booking[b].pass /\ row.session = booking[b].session
        BY <3>1, <3>4 DEF Booking
      <4>2. QED
        BY <3>2, <4>1 DEF SamePurchase
    <3>5. QED
      BY <1>2, <3>2, <3>3, <3>4 DEF AfterCreate
  <2>2. QED
    BY <2>1, PurchasesStay
<1>3. QED
  BY <1>1, <1>2 DEF Create

LEMMA HoldSpotsPaid ==
    ASSUME TypeOK, PaidInOneSession, NEW k \in Workers, NEW s, NEW pool, NEW cap, NEW at,
           HoldSpots(k, s, pool, cap, at)
    PROVE  PaidInOneSession'
<1>1. ASSUME NEW b \in Bookings PROVE SamePurchase(b)
  <2>1. \/ booking'[b] = booking[b]
        \/ \E w : booking'[b] = HeldRow(s, w, b, at)
    BY DEF HoldSpots
  <2>2. CASE booking'[b] = booking[b]
    BY <2>2 DEF SamePurchase
  <2>3. ASSUME NEW w, booking'[b] = HeldRow(s, w, b, at) PROVE SamePurchase(b)
    <3>1. ~HeldRow(s, w, b, at).charged
      BY DEF HeldRow
    <3>2. QED
      BY <2>3, <3>1 DEF SamePurchase
  <2>4. QED
    BY <2>1, <2>2, <2>3
<1>2. QED
  BY <1>1, PurchasesStay

(* A step that changes nothing of a row but its status, hold and link. *)
LEMMA NoneCharged ==
    ASSUME PaidInOneSession,
           \A b \in Bookings : /\ booking'[b].pass = booking[b].pass
                               /\ booking'[b].session = booking[b].session
                               /\ booking'[b].charged = booking[b].charged
    PROVE  PaidInOneSession'
<1>1. \A b \in Bookings : SamePurchase(b)
  BY DEF SamePurchase
<1>2. QED
  BY <1>1, PurchasesStay

LEMMA RenewPaid ==
    ASSUME TypeOK, PaidInOneSession, NEW k \in Workers, Renew(k) PROVE PaidInOneSession'
<1>1. booking' = booking \/ booking' = AfterRenew(job[k])
  BY DEF Renew
<1>2. CASE booking' = AfterRenew(job[k])
  <2>1. ASSUME NEW b \in Bookings
        PROVE  /\ booking'[b].pass = booking[b].pass /\ booking'[b].session = booking[b].session
               /\ booking'[b].charged = booking[b].charged
    <3>1. booking'[b] = booking[b] \/ booking'[b] = [booking[b] EXCEPT !.hold = job[k].at + HoldTime]
      BY <1>2 DEF AfterRenew
    <3>2. booking[b] \in Booking
      BY DEF TypeOK
    <3>3. QED
      BY <3>1, <3>2 DEF Booking
  <2>2. QED
    BY <2>1, NoneCharged
<1>3. QED
  BY <1>1, <1>2, NoPurchase

(* The whole pass d is charged, or the whole of it is not. *)
LEMMA PassCharged ==
    ASSUME PaidInOneSession, NEW d \in Bookings, NEW p, p = InPass(d),
           \A b \in Bookings : /\ booking'[b].pass = booking[b].pass
                               /\ booking'[b].session = booking[b].session
                               /\ b \notin p => booking'[b] = booking[b] \/ booking'[b].charged = booking[b].charged,
           \A b, c \in p : booking[b].session = booking[c].session
    PROVE  PaidInOneSession'
<1> SUFFICES ASSUME NEW b \in Bookings, booking'[b].charged,
                    NEW c \in Bookings, booking'[c].pass = booking'[b].pass, booking'[c].charged
             PROVE  booking'[c].session = booking'[b].session
  BY DEF PaidInOneSession, InPass
<1>1. booking[c].pass = booking[b].pass
  OBVIOUS
<1>2. CASE b \in p
  <2>1. c \in p
    BY <1>1, <1>2 DEF InPass
  <2>2. QED
    BY <1>2, <2>1
<1>3. CASE b \notin p
  <2>1. c \notin p
    BY <1>1, <1>3 DEF InPass
  <2>2. booking[b].charged /\ booking[c].charged
    BY <1>3, <2>1
  <2>3. QED
    BY <1>1, <2>2 DEF PaidInOneSession, InPass
<1>4. QED
  BY <1>2, <1>3

LEMMA BookPaid ==
    ASSUME TypeOK, Shape, PaidInOneSession, NEW k \in Workers, Book(k) PROVE PaidInOneSession'
<1> DEFINE j == job[k]
<1>1. CASE ~BookFits(j)
  BY <1>1, NoPurchase DEF Book
<1>2. CASE BookFits(j)
  <2>1. j.b \in Bookings /\ PassWhole
    BY JobFields DEF Book, Shape
  <2>2. booking' = AfterBook(j)
    BY <1>2 DEF Book
  <2>3. PendingPass(j.b) = InPass(j.b) /\ PendingPass(j.b) # {}
    BY <1>2, <2>1, PendingPassWhole DEF BookFits
  <2>0. PICK d \in Bookings : d = j.b
    BY <2>1
  <2>4. PICK p : d = j.b /\ p = InPass(d) /\ p = PendingPass(d)
    BY <2>0, <2>3
  <2>5. \A b, c \in p : booking[b].session = booking[c].session
    BY <2>1, <2>4, PendingPassWhole
  <2>6. ASSUME NEW b \in Bookings
        PROVE  /\ booking'[b].pass = booking[b].pass /\ booking'[b].session = booking[b].session
               /\ b \notin p => booking'[b] = booking[b] \/ booking'[b].charged = booking[b].charged
    <3>1. booking[b] \in Booking
      BY DEF TypeOK
    <3>2. \/ b \notin p /\ (booking'[b] = booking[b] \/ booking'[b] = [booking[b] EXCEPT !.hold = j.at])
          \/ /\ b \in p
             /\ \/ booking'[b] = [booking[b] EXCEPT !.status = "booked", !.charged = j.paid]
                \/ booking'[b] = [booking[b] EXCEPT !.hold = j.at]
      BY <2>2, <2>4 DEF AfterBook, AfterSale
    <3>3. CASE b \notin p /\ (booking'[b] = booking[b] \/ booking'[b] = [booking[b] EXCEPT !.hold = j.at])
      BY <3>1, <3>3 DEF Booking
    <3>4. CASE b \in p /\ booking'[b] = [booking[b] EXCEPT !.status = "booked", !.charged = j.paid]
      BY <3>1, <3>4 DEF Booking
    <3>5. CASE b \in p /\ booking'[b] = [booking[b] EXCEPT !.hold = j.at]
      BY <3>1, <3>5 DEF Booking
    <3>6. QED
      BY <3>2, <3>3, <3>4, <3>5
  <2>7. QED
    BY <2>4, <2>5, <2>6, PassCharged
<1>3. QED
  BY <1>1, <1>2

LEMMA CreditPaid ==
    ASSUME TypeOK, Shape, PaidInOneSession, NEW k \in Workers, Credit(k) PROVE PaidInOneSession'
<1>1. PICK d \in Bookings : d = job[k].b
  BY JobFields DEF Credit
<1>2. CASE booking' = booking
  BY <1>2, NoPurchase
<1>3. CASE booking[d].status = "pending"
  <2>1. PassWhole
    BY DEF Shape
  <2>2. d \in PendingPass(d)
    BY <1>3 DEF PendingPass, InPass
  <2>3. PICK p : p = InPass(d) /\ p = PendingPass(d)
    BY <2>1, <2>2, PendingPassWhole
  <2>4. \A b, c \in p : booking[b].session = booking[c].session
    BY <2>1, <2>3, PendingPassWhole
  <2>5. ASSUME NEW b \in Bookings
        PROVE  /\ booking'[b].pass = booking[b].pass /\ booking'[b].session = booking[b].session
               /\ b \notin p => booking'[b] = booking[b] \/ booking'[b].charged = booking[b].charged
    <3>1. booking'[b] = IF b \in p THEN [booking[b] EXCEPT !.status = "cancelled", !.charged = TRUE]
                        ELSE booking[b]
      BY <1>1, <1>3, <2>3 DEF Credit
    <3>2. booking[b] \in Booking
      BY DEF TypeOK
    <3>3. QED
      BY <3>1, <3>2 DEF Booking
  <2>6. QED
    BY <2>3, <2>4, <2>5, PassCharged
<1>4. QED
  BY <1>1, <1>2, <1>3 DEF Credit

(* A move takes all that the payment bought: by the invariant that is all   *)
(* of it that is charged, in whatever state.                               *)
LEMMA MovePaid ==
    ASSUME TypeOK, PaidInOneSession, NEW k \in Workers, Move(k) PROVE PaidInOneSession'
<1>1. PICK d \in Bookings, to \in Sessions : d = job[k].b /\ to = job[k].to
  BY JobFields DEF Move
<1>2. CASE UNCHANGED booking
  BY <1>2, NoPurchase
<1>3. CASE booking' = [c \in Bookings |->
                  IF c \in PaidTogether(d) THEN [booking[c] EXCEPT !.session = to] ELSE booking[c]]
  <2>1. ASSUME NEW b \in Bookings
        PROVE  /\ booking'[b].pass = booking[b].pass /\ booking'[b].charged = booking[b].charged
               /\ booking'[b].session = IF b \in PaidTogether(d) THEN to ELSE booking[b].session
    <3>1. booking[b] \in Booking
      BY DEF TypeOK
    <3>2. CASE b \in PaidTogether(d)
      BY <1>3, <3>1, <3>2 DEF Booking
    <3>3. CASE b \notin PaidTogether(d)
      BY <1>3, <3>3
    <3>4. QED
      BY <3>2, <3>3
  <2>2. ASSUME NEW b \in Bookings, booking[b].charged,
               NEW c \in Bookings, booking[c].charged, booking[c].pass = booking[b].pass
        PROVE  b \in PaidTogether(d) <=> c \in PaidTogether(d)
    <3>1. booking[c].session = booking[b].session
      BY <2>2 DEF PaidInOneSession, InPass
    <3>2. CASE booking[d].charged
      BY <2>2, <3>1, <3>2 DEF PaidTogether, InPass
    <3>3. CASE ~booking[d].charged
      BY <2>2, <3>3 DEF PaidTogether
    <3>4. QED
      BY <3>2, <3>3
  <2>3. ASSUME NEW b \in Bookings, booking'[b].charged,
               NEW c \in Bookings, booking'[c].pass = booking'[b].pass, booking'[c].charged
        PROVE  booking'[c].session = booking'[b].session
    <3>1. booking[b].charged /\ booking[c].charged /\ booking[c].pass = booking[b].pass
      BY <2>1, <2>3
    <3>2. b \in PaidTogether(d) <=> c \in PaidTogether(d)
      BY <2>2, <3>1
    <3>3. booking[c].session = booking[b].session
      BY <3>1 DEF PaidInOneSession, InPass
    <3>4. QED
      BY <2>1, <3>2, <3>3
  <2>4. QED
    BY <2>3 DEF PaidInOneSession, InPass
<1>4. QED
  BY <1>1, <1>2, <1>3 DEF Move

LEMMA StepPaid ==
    ASSUME TypeOK, Shape, PaidInOneSession, NEW k \in Workers, Step(k) PROVE PaidInOneSession'
<1>1. CASE Create(k) \/ Renew(k) \/ Book(k) \/ Credit(k) \/ Move(k)
  BY <1>1, CreatePaid, RenewPaid, BookPaid, CreditPaid, MovePaid
<1>2. CASE Offer(k)
  BY <1>2, NoPurchase, HoldSpotsPaid DEF Offer
<1>3. CASE Accept(k)
  BY <1>3, NoPurchase, HoldSpotsPaid DEF Accept, BackupJoins, SecondGroupOpens
<1>4. CASE Deliver(k)
  <2>1. PICK o : booking' = [booking EXCEPT ![o].link = TRUE]
    BY <1>4 DEF Deliver
  <2>2. \A b \in Bookings : /\ booking'[b].pass = booking[b].pass
                            /\ booking'[b].session = booking[b].session
                            /\ booking'[b].charged = booking[b].charged
    BY <2>1 DEF TypeOK, Booking
  <2>3. QED
    BY <2>2, NoneCharged
<1>5. CASE LetSpotGo(k)
  <2>1. PICK o : booking' = booking \/ booking' = [booking EXCEPT ![o].hold = clock]
    BY <1>5 DEF LetSpotGo
  <2>2. \A b \in Bookings : /\ booking'[b].pass = booking[b].pass
                            /\ booking'[b].session = booking[b].session
                            /\ booking'[b].charged = booking[b].charged
    BY <2>1 DEF TypeOK, Booking
  <2>3. QED
    BY <2>2, NoneCharged
<1>6. CASE CancelBooking(k)
  <2>1. PICK o : booking' = booking \/ booking' = [booking EXCEPT ![o].status = "cancelled"]
    BY <1>6 DEF CancelBooking
  <2>2. \A b \in Bookings : /\ booking'[b].pass = booking[b].pass
                            /\ booking'[b].session = booking[b].session
                            /\ booking'[b].charged = booking[b].charged
    BY <2>1 DEF TypeOK, Booking
  <2>3. QED
    BY <2>2, NoneCharged
<1>7. CASE Settles(k)
  BY <1>7, SettlesWait, NoPurchase
<1>8. CASE AnsweredSent(k) \/ ListBookings(k) \/ Edit(k) \/ Crash(k)
  BY <1>8, NoPurchase DEF AnsweredSent, ListBookings, Edit, Crash
<1>9. QED
  BY <1>1, <1>2, <1>3, <1>4, <1>5, <1>6, <1>7, <1>8 DEF Step, Settles

LEMMA NextPaid ==
    ASSUME TypeOK, Shape, PaidInOneSession, [Next]_vars PROVE PaidInOneSession'
<1>1. CASE Tick \/ UNCHANGED vars
  BY <1>1, NoPurchase DEF Tick, vars
<1>2. ASSUME NEW s \in Sessions, NEW kids \in PassLists, Join(s, kids) PROVE PaidInOneSession'
  BY <1>2, NoPurchase DEF Join
<1>3. ASSUME NEW o \in Bookings, CancelByParent(o) PROVE PaidInOneSession'
  <2>1. \A b \in Bookings : /\ booking'[b].pass = booking[b].pass
                            /\ booking'[b].session = booking[b].session
                            /\ booking'[b].charged = booking[b].charged
    BY <1>3 DEF CancelByParent, TypeOK, Booking
  <2>2. QED
    BY <2>1, NoneCharged
<1>4. ASSUME NEW k \in Workers, Begin(k) PROVE PaidInOneSession'
  BY <1>4, NoPurchase DEF Begin, BeginCreate, BeginRenew, BeginBook, BeginPaid, BeginOffer, BeginAccept,
                          BeginMove, CloseSession, BeginEdit
<1>5. QED
  BY <1>1, <1>2, <1>3, <1>4, StepPaid DEF Next

(* The bookings that one payment bought are in one session however they are *)
(* cancelled and moved, and however bookPendingBooking, the credit for a    *)
(* session cancelled meanwhile and moveBooking interleave.                  *)
THEOREM PurchasesTogether == Spec => []PaidInOneSession
<1>1. Init => PaidInOneSession
  BY DEF Init, PaidInOneSession, NoBooking
<1>2. TypeOK /\ RowsFilled /\ Shape /\ PaidInOneSession /\ [Next]_vars => PaidInOneSession'
  BY NextPaid
<1>3. QED
  BY <1>1, <1>2, ShapeKept, PTL DEF Spec

----------------------------------------------------------------------------
(* What closes stays closed: nothing takes a spot in a cancelled session,   *)
(* and the coach's cancel works on its own session only.                    *)

(* A transaction about a pending booking knows its session; a coach's       *)
(* cancel, what it read to cancel: bookings of closed sessions.             *)
Aims(j) ==
    /\ j.op \in {"renew", "picked", "book"} =>
          /\ booking[j.b].status # "none"
          /\ booking[j.b].status = "pending" => booking[j.b].session = j.s
    /\ j.op = "close" => session[j.s].status = "cancelled"
    /\ j.op = "cancel" => \A b \in j.left :
          /\ booking[b].status \in {"booked", "cancelled"}
          /\ booking[b].status = "booked" => session[booking[b].session].status = "cancelled"

JobsAim == \A k \in Workers : Aims(job[k])

(* A step leaves a row in its session with no more of a claim to a spot, or *)
(* gives it a spot in a session that goes ahead.                            *)
RowEnds(b) ==
    /\ booking'[b].session = booking[b].session
    /\ \/ booking'[b].status = booking[b].status
       \/ booking[b].status # "none" /\ booking'[b].status = "cancelled"
    /\ booking'[b].hold <= booking[b].hold \/ booking'[b].hold <= clock

RowTakes(b) ==
    /\ session'[booking'[b].session].status = "scheduled"
    /\ booking[b].status # "none" =>
          /\ booking'[b].status # "none"
          /\ booking'[b].status = "pending" => /\ booking[b].status = "pending"
                                               /\ booking'[b].session = booking[b].session
          /\ booking'[b].status = "booked" /\ booking[b].status # "pending" =>
                /\ booking[b].status = "booked"
                /\ session[booking[b].session].status # "cancelled"

RowByRow ==
    /\ clock <= clock'
    /\ \A b \in Bookings : RowEnds(b) \/ RowTakes(b)
    /\ \A s \in Sessions : session[s].status = "cancelled" => session'[s].status = "cancelled"

NoneClosed == \A s \in Sessions : NewlyTaken(s) # {} => session'[s].status = "scheduled"

LEMMA SameRows ==
    ASSUME TypeOK, UNCHANGED <<clock, session>>, NEW b \in Bookings, booking'[b] = booking[b]
    PROVE  RowEnds(b)
BY DEF RowEnds, TypeOK, Booking

LEMMA TakenOpen ==
    ASSUME TypeOK, TypeOK', RowByRow
    PROVE  NoneClosed
<1>1. ASSUME NEW s \in Sessions, NEW b \in NewlyTaken(s)
      PROVE  session'[s].status = "scheduled"
  <2>1. /\ b \in Bookings /\ booking'[b].session = s
        /\ booking'[b].status = "booked" \/ (booking'[b].status = "pending" /\ booking'[b].hold > clock')
        /\ ~(booking[b].session = s /\ (booking[b].status = "booked"
                                        \/ (booking[b].status = "pending" /\ booking[b].hold > clock)))
    BY DEF NewlyTaken, Taken, TakenIn, TakesSpot, Live
  <2>2. /\ booking[b].hold \in Int /\ booking'[b].hold \in Int /\ clock \in Int /\ clock' \in Int
        /\ clock <= clock'
    BY <2>1 DEF TypeOK, Booking, RowByRow
  <2>3. ~RowEnds(b)
    BY <2>1, <2>2 DEF RowEnds
  <2>4. QED
    BY <2>1, <2>3 DEF RowByRow, RowTakes
<1>2. QED
  BY <1>1 DEF NoneClosed

(* What a worker aimed at it still does after any step of the others. *)
LEMMA AimsStay ==
    ASSUME TypeOK, TypeOK', RowsFilled, RowByRow, NEW j \in Job, Aims(j)
    PROVE  Aims(j)'
<1>1. /\ j.op \in {"renew", "picked", "book"} => j.b \in Bookings
      /\ j.op = "close" => j.s \in Sessions
      /\ j.op = "cancel" => j.left \subseteq Bookings
  BY DEF Job, Idle, SettleJob
<1>2. ASSUME NEW b \in Bookings, booking[b].status # "none"
      PROVE  /\ booking'[b].status # "none"
             /\ booking'[b].status = "pending" => /\ booking[b].status = "pending"
                                                  /\ booking'[b].session = booking[b].session
             /\ booking'[b].status = "booked" /\ booking[b].status # "pending" =>
                   /\ booking[b].status = "booked"
                   /\ \/ booking'[b].session = booking[b].session
                      \/ session[booking[b].session].status # "cancelled"
  BY <1>2 DEF RowByRow, RowEnds, RowTakes
<1>3. j.op \in {"renew", "picked", "book"} =>
          /\ booking'[j.b].status # "none"
          /\ booking'[j.b].status = "pending" => booking'[j.b].session = j.s
  BY <1>1, <1>2 DEF Aims
<1>4. j.op = "close" => session'[j.s].status = "cancelled"
  BY <1>1 DEF Aims, RowByRow
<1>5. ASSUME j.op = "cancel", NEW b \in j.left
      PROVE  /\ booking'[b].status \in {"booked", "cancelled"}
             /\ booking'[b].status = "booked" => session'[booking'[b].session].status = "cancelled"
  <2>1. /\ b \in Bookings /\ booking[b].status \in {"booked", "cancelled"}
        /\ booking[b].status = "booked" => session[booking[b].session].status = "cancelled"
        /\ booking[b].session \in Sessions
    BY <1>1, <1>5 DEF Aims, RowsFilled
  <2>2. booking'[b].status \in {"none", "pending", "booked", "cancelled"}
    BY <2>1 DEF TypeOK, Booking
  <2>3. QED
    BY <1>2, <2>1, <2>2 DEF RowByRow
<1>6. QED
  BY <1>3, <1>4, <1>5 DEF Aims

LEMMA JobsStayAim ==
    ASSUME TypeOK, TypeOK', RowsFilled, RowByRow, JobsAim,
           NEW k \in Workers, NEW j, job' = job \/ (Go(k, j) /\ Aims(j)')
    PROVE  JobsAim'
<1>1. ASSUME NEW l \in Workers
      PROVE  Aims(job[l])'
  <2>1. job[l] \in Job /\ Aims(job[l])
    BY DEF TypeOK, JobsAim
  <2>2. PICK i \in Job : i = job[l] /\ Aims(i)
    BY <2>1
  <2>3. Aims(i)'
    BY <2>2, AimsStay
  <2>4. job'[l] = i \/ (job'[l] = j /\ Aims(j)')
    BY <2>2 DEF Go, TypeOK
  <2>5. QED
    BY <2>3, <2>4 DEF Aims
<1>2. QED
  BY <1>1 DEF JobsAim

LEMMA CreateRows ==
    ASSUME TypeOK, Shape, NEW k \in Workers, Create(k) PROVE RowByRow
<1> PICK j : j = job[k]
  OBVIOUS
<1>1. /\ j.at \in Nat /\ clock \in Nat /\ serial \in Nat /\ UNCHANGED <<clock, session>>
      /\ Len(j.kids) \in Nat
  BY JobFields, KidsTyped, IdsAssumption DEF Create, TypeOK
<1>2. CASE booking' = booking
  BY <1>1, <1>2, SameRows DEF RowByRow
<1>3. CASE session[j.s].status = "scheduled" /\ booking' = AfterCreate(j)
  <2>1. ASSUME NEW b \in Bookings, b \in NewIds(Len(j.kids)) PROVE RowTakes(b)
    <3>1. b > serial
      BY <1>1, <2>1 DEF NewIds
    <3>2. booking[b].status = "none"
      BY <1>1, <3>1 DEF Shape, IdsInOrder, NoBooking, Bookings
    <3>3. booking'[b].session = j.s
      BY <1>3, <2>1 DEF AfterCreate, NewHold
    <3>4. QED
      BY <1>1, <1>3, <3>2, <3>3 DEF RowTakes
  <2>2. ASSUME NEW b \in Bookings, b \notin NewIds(Len(j.kids)) PROVE RowEnds(b)
    <3>1. CASE b \in Taken(j.s, j.at) \cap PendingOf(Phone[j.kids[1]])
      <4>1. booking'[b] = [booking[b] EXCEPT !.hold = j.at]
        BY <1>3, <2>2, <3>1 DEF AfterCreate
      <4>2. booking[b].hold > j.at /\ booking[b].hold \in Int
        BY <3>1 DEF Taken, TakenIn, TakesSpot, Live, PendingOf, TypeOK, Booking
      <4>3. booking[b] \in Booking
        BY DEF TypeOK
      <4>4. QED
        BY <1>1, <4>1, <4>2, <4>3 DEF RowEnds, Booking
    <3>2. CASE b \notin Taken(j.s, j.at) \cap PendingOf(Phone[j.kids[1]])
      BY <1>1, <1>3, <2>2, <3>2, SameRows DEF AfterCreate
    <3>3. QED
      BY <3>1, <3>2
  <2>3. QED
    BY <1>1, <2>1, <2>2 DEF RowByRow
<1>4. QED
  BY <1>2, <1>3 DEF Create, CreateFits

LEMMA RenewRows ==
    ASSUME TypeOK, PassWhole, JobsAim, NEW k \in Workers, Renew(k) PROVE RowByRow
<1> PICK j : j = job[k]
  OBVIOUS
<1>1. j.b \in Bookings /\ clock \in Nat /\ UNCHANGED <<clock, session>>
  BY JobFields DEF Renew, TypeOK
<1>2. CASE booking' = booking
  BY <1>1, <1>2, SameRows DEF RowByRow
<1>3. CASE session[j.s].status = "scheduled" /\ booking' = AfterRenew(j)
  <2>1. ASSUME NEW b \in Bookings, b \in PendingPass(j.b) PROVE RowTakes(b)
    <3>1. booking[b].status = "pending" /\ booking[b].session = j.s
      <4>1. booking[j.b].status = "pending" /\ booking[b].session = booking[j.b].session
        BY <1>1, <2>1, PendingPassWhole
      <4>2. QED
        BY <2>1, <4>1 DEF PendingPass, Renew, JobsAim, Aims
    <3>2. booking'[b] = [booking[b] EXCEPT !.hold = j.at + HoldTime] /\ booking[b] \in Booking
      BY <1>3, <2>1 DEF AfterRenew, TypeOK
    <3>3. QED
      BY <1>1, <1>3, <3>1, <3>2 DEF RowTakes, Booking
  <2>2. ASSUME NEW b \in Bookings, b \notin PendingPass(j.b) PROVE RowEnds(b)
    BY <1>1, <1>3, <2>2, SameRows DEF AfterRenew
  <2>3. QED
    BY <1>1, <2>1, <2>2 DEF RowByRow
<1>4. QED
  BY <1>2, <1>3 DEF Renew, RenewFits

LEMMA BookRows ==
    ASSUME TypeOK, PassWhole, JobsAim, NEW k \in Workers, Book(k) PROVE RowByRow
<1> PICK j : j = job[k]
  OBVIOUS
<1>1. j.b \in Bookings /\ j.at \in Nat /\ clock \in Nat /\ UNCHANGED <<clock, session>>
  BY JobFields DEF Book, TypeOK
<1>2. CASE booking' = booking
  BY <1>1, <1>2, SameRows DEF RowByRow
<1>3. CASE session[j.s].status = "scheduled" /\ booking' = AfterBook(j)
  <2>1. ASSUME NEW b \in Bookings, b \in GivesWay(j) PROVE RowEnds(b)
    <3>1. b \in Taken(j.s, j.at) \cap PendingOf(PhoneOf(j.b))
      BY <2>1 DEF GivesWay
    <3>2. booking'[b] = [booking[b] EXCEPT !.hold = j.at]
      BY <1>3, <2>1 DEF AfterBook
    <3>3. booking[b].hold > j.at /\ booking[b].hold \in Int /\ booking[b] \in Booking
      BY <3>1 DEF Taken, TakenIn, TakesSpot, Live, PendingOf, TypeOK, Booking
    <3>4. QED
      BY <1>1, <3>2, <3>3 DEF RowEnds, Booking
  <2>2. ASSUME NEW b \in Bookings, b \notin GivesWay(j), b \in PendingPass(j.b) PROVE RowTakes(b)
    <3>1. booking[b].status = "pending" /\ booking[b].session = j.s
      <4>1. booking[j.b].status = "pending" /\ booking[b].session = booking[j.b].session
        BY <1>1, <2>2, PendingPassWhole
      <4>2. QED
        BY <2>2, <4>1 DEF PendingPass, Book, JobsAim, Aims
    <3>2. /\ booking'[b] = [booking[b] EXCEPT !.status = "booked", !.charged = j.paid]
          /\ booking[b] \in Booking
      BY <1>3, <2>2 DEF AfterBook, AfterSale, TypeOK
    <3>3. QED
      BY <1>1, <1>3, <3>1, <3>2 DEF RowTakes, Booking
  <2>3. ASSUME NEW b \in Bookings, b \notin GivesWay(j), b \notin PendingPass(j.b) PROVE RowEnds(b)
    BY <1>1, <1>3, <2>3, SameRows DEF AfterBook, AfterSale
  <2>4. QED
    BY <1>1, <2>1, <2>2, <2>3 DEF RowByRow
<1>4. QED
  BY <1>2, <1>3 DEF Book, BookFits, SessionOpen

LEMMA MoveRows ==
    ASSUME TypeOK, NEW k \in Workers, Move(k) PROVE RowByRow
<1> PICK j : j = job[k]
  OBVIOUS
<1> PICK goes : goes = PaidTogether(j.b)
  OBVIOUS
<1>1. j.b \in Bookings /\ j.s \in Sessions /\ j.to \in Sessions /\ clock \in Nat /\ UNCHANGED <<clock, session>>
  BY JobFields DEF Move, TypeOK
<1>2. CASE booking' = booking
  BY <1>1, <1>2, SameRows DEF RowByRow
<1>3. CASE /\ MayMove(j.b, j.s) /\ session[j.to].status = "scheduled"
           /\ booking' = [c \in Bookings |->
                  IF c \in goes THEN [booking[c] EXCEPT !.session = j.to] ELSE booking[c]]
  <2>1. ASSUME NEW b \in Bookings, b \in goes PROVE RowTakes(b)
    <3>1. booking[b].session = j.s /\ booking[b].status = "booked" /\ session[j.s].status = "scheduled"
      BY <1>3, <2>1 DEF MayMove, PaidTogether
    <3>2. booking'[b] = [booking[b] EXCEPT !.session = j.to] /\ booking[b] \in Booking
      BY <1>3, <2>1 DEF TypeOK
    <3>3. booking'[b].session = j.to /\ booking'[b].status = "booked"
      BY <3>1, <3>2 DEF Booking
    <3>4. QED
      BY <1>1, <1>3, <3>1, <3>3 DEF RowTakes
  <2>2. ASSUME NEW b \in Bookings, b \notin goes PROVE RowEnds(b)
    BY <1>1, <1>3, <2>2, SameRows
  <2>3. QED
    BY <1>1, <2>1, <2>2 DEF RowByRow
<1>4. QED
  BY <1>2, <1>3 DEF Move

LEMMA HoldSpotsOpen ==
    ASSUME TypeOK, Shape, NEW k \in Workers, NEW s \in Sessions, NEW pool, NEW cap \in Nat, NEW at \in Nat,
           HoldSpots(k, s, pool, cap, at), session'[s].status = "scheduled", NEW b \in Bookings
    PROVE  booking'[b] = booking[b] \/ RowTakes(b)
<1>1. CASE booking'[b] = booking[b]
  BY <1>1
<1>2. CASE b > serial /\ booking'[b].session = s
  <2>1. serial \in Nat /\ b \in Nat
    BY IdsAssumption DEF TypeOK, Bookings
  <2>2. booking[b].status = "none"
    BY <1>2, <2>1 DEF Shape, IdsInOrder, NoBooking
  <2>3. QED
    BY <1>2, <2>2 DEF RowTakes
<1>3. \/ booking'[b] = booking[b]
      \/ /\ b > serial /\ b <= serial'
         /\ b <= serial + (cap - Cardinality(Taken(s, at)))
         /\ booking'[b].status = "pending" /\ booking'[b].session = s
         /\ booking'[b].pass = b
  BY HoldSpotsRows
<1>4. QED
  BY <1>1, <1>2, <1>3

LEMMA OfferRows ==
    ASSUME TypeOK, Shape, NEW k \in Workers, Offer(k) PROVE RowByRow
<1> PICK s \in Sessions, at \in Nat : s = job[k].s /\ at = job[k].at
  BY JobFields DEF Offer
<1>1. UNCHANGED <<clock, session>> /\ clock \in Nat /\ Capacity(s) \in Nat
  BY CapacityTyped DEF Offer, TypeOK
<1>2. CASE booking' = booking
  BY <1>1, <1>2, SameRows DEF RowByRow
<1>3. CASE session[s].status = "scheduled" /\ HoldSpots(k, s, Pool(s), Capacity(s), at)
  <2>1. \A b \in Bookings : booking'[b] = booking[b] \/ RowTakes(b)
    BY <1>1, <1>3, HoldSpotsOpen
  <2>2. QED
    BY <1>1, <2>1, SameRows DEF RowByRow
<1>4. QED
  BY <1>2, <1>3 DEF Offer

LEMMA AcceptRows ==
    ASSUME TypeOK, Shape, NEW k \in Workers, Accept(k) PROVE RowByRow
<1> PICK s \in Sessions, at \in Nat : s = job[k].s /\ at = job[k].at
  BY JobFields DEF Accept
<1>1. clock' = clock /\ clock \in Nat /\ typeCap \in Nat /\ Capacity(s) \in Nat
  BY CapacityTyped DEF Accept, TypeOK
<1>2. ASSUME NEW b \in Bookings, booking'[b] = booking[b] PROVE RowEnds(b)
  BY <1>1, <1>2 DEF RowEnds, TypeOK, Booking
<1>3. CASE UNCHANGED <<session, booking>>
  BY <1>1, <1>2, <1>3 DEF RowByRow
<1>4. CASE session[s].status = "scheduled" /\ BackupJoins(k, s, at)
  <2>1. \A t \in Sessions : session'[t].status = session[t].status
    BY <1>4 DEF BackupJoins, TypeOK, Session
  <2>2. CASE HoldSpots(k, s, Pool(s), Capacity(s) + typeCap, at)
    <3>1. \A b \in Bookings : booking'[b] = booking[b] \/ RowTakes(b)
      BY <1>1, <1>4, <2>1, <2>2, HoldSpotsOpen
    <3>2. QED
      BY <1>1, <1>2, <2>1, <3>1 DEF RowByRow
  <2>3. CASE booking' = booking
    BY <1>1, <1>2, <2>1, <2>3 DEF RowByRow
  <2>4. QED
    BY <1>4, <2>2, <2>3 DEF BackupJoins
<1>5. CASE SecondGroupOpens(k, s, at)
  <2>1. PICK t \in Sessions :
            /\ session[t].status = "unopened"
            /\ session' = [session EXCEPT ![t] =
                  [status |-> "scheduled", override |-> session[s].override, overflowOf |-> s]]
            /\ \/ HoldSpots(k, t, s, Capacity(s), at)
               \/ Go(k, Idle) /\ UNCHANGED <<booking, serial, wait>>
    BY <1>5 DEF SecondGroupOpens
  <2>2. /\ session'[t].status = "scheduled"
        /\ \A u \in Sessions : session[u].status = "cancelled" => session'[u].status = "cancelled"
    BY <2>1 DEF TypeOK, Session
  <2>3. CASE HoldSpots(k, t, s, Capacity(s), at)
    <3>1. \A b \in Bookings : booking'[b] = booking[b] \/ RowTakes(b)
      BY <1>1, <2>2, <2>3, HoldSpotsOpen
    <3>2. QED
      BY <1>1, <1>2, <2>2, <3>1 DEF RowByRow
  <2>4. CASE booking' = booking
    BY <1>1, <1>2, <2>2, <2>4 DEF RowByRow
  <2>5. QED
    BY <2>1, <2>3, <2>4
<1>6. QED
  BY <1>3, <1>4, <1>5 DEF Accept

LEMMA StepRows ==
    ASSUME TypeOK, Shape, JobsAim, NEW k \in Workers, Step(k) PROVE RowByRow
<1>1. CASE Create(k) \/ Renew(k) \/ Book(k) \/ Move(k) \/ Offer(k) \/ Accept(k)
  BY <1>1, CreateRows, RenewRows, BookRows, MoveRows, OfferRows, AcceptRows DEF Shape
<1>2. ASSUME UNCHANGED <<clock, session>>, \A b \in Bookings : booking'[b] = booking[b] \/ RowEnds(b)
      PROVE  RowByRow
  <2>1. clock \in Nat /\ \A b \in Bookings : RowEnds(b)
    BY <1>2, SameRows DEF TypeOK
  <2>2. QED
    BY <1>2, <2>1 DEF RowByRow
<1>3. CASE Credit(k)
  <2>1. ASSUME NEW b \in Bookings
        PROVE  booking'[b] = booking[b] \/ RowEnds(b)
    <3>1. \/ booking'[b] = booking[b]
          \/ /\ booking[b].status = "pending"
             /\ booking'[b] = [booking[b] EXCEPT !.status = "cancelled", !.charged = TRUE]
      BY <1>3 DEF Credit, PendingPass
    <3>2. booking[b] \in Booking /\ booking[b].hold \in Int
      BY DEF TypeOK, Booking
    <3>3. \/ booking'[b] = booking[b]
          \/ /\ booking'[b].session = booking[b].session /\ booking'[b].hold = booking[b].hold
             /\ booking[b].status = "pending" /\ booking'[b].status = "cancelled"
      BY <3>1, <3>2 DEF Booking
    <3>4. QED
      BY <3>2, <3>3 DEF RowEnds
  <2>2. QED
    BY <1>2, <1>3, <2>1 DEF Credit
<1>4. CASE Deliver(k)
  <2>1. \A b \in Bookings : RowEnds(b)
    BY <1>4 DEF Deliver, TypeOK, Booking, RowEnds
  <2>2. QED
    BY <1>2, <1>4, <2>1 DEF Deliver
<1>5. CASE LetSpotGo(k)
  <2>1. ASSUME NEW b \in Bookings
        PROVE  RowEnds(b)
    <3>1. PICK o : o = wait[NextSpot(k)].offer
      OBVIOUS
    <3>2. booking' \in {booking, [booking EXCEPT ![o].hold = clock]}
      BY <1>5, <3>1 DEF LetSpotGo
    <3>3. /\ booking'[b].session = booking[b].session /\ booking'[b].status = booking[b].status
          /\ booking'[b].hold \in {booking[b].hold, clock} /\ booking[b].hold \in Int /\ clock \in Nat
      BY <3>2 DEF TypeOK, Booking
    <3>4. QED
      BY <3>3 DEF RowEnds
  <2>2. QED
    BY <1>2, <1>5, <2>1 DEF LetSpotGo
<1>6. CASE CancelBooking(k)
  <2>1. ASSUME NEW b \in Bookings
        PROVE  booking'[b] = booking[b] \/ RowEnds(b)
    <3>1. \/ booking'[b] = booking[b]
          \/ /\ booking[b].status = "booked"
             /\ booking'[b] = [booking[b] EXCEPT !.status = "cancelled"]
      BY <1>6 DEF CancelBooking, TypeOK
    <3>2. booking[b] \in Booking /\ booking[b].hold \in Int
      BY DEF TypeOK, Booking
    <3>3. QED
      BY <3>1, <3>2 DEF Booking, RowEnds
  <2>2. QED
    BY <1>2, <1>6, <2>1 DEF CancelBooking
<1>7. CASE AnsweredSent(k) \/ Settles(k) \/ ListBookings(k) \/ Crash(k) \/ Edit(k)
  <2>1. UNCHANGED <<clock, session, booking>>
    BY <1>7, SettlesWait DEF AnsweredSent, ListBookings, Crash, Edit
  <2>2. QED
    BY <1>2, <2>1
<1>8. QED
  BY <1>1, <1>3, <1>4, <1>5, <1>6, <1>7 DEF Step, Settles

LEMMA NextRows ==
    ASSUME TypeOK, Shape, JobsAim, [Next]_vars PROVE RowByRow
<1>1. ASSUME UNCHANGED <<session, booking>>, clock' = clock \/ clock' = clock + 1
      PROVE  RowByRow
  <2>1. clock \in Nat /\ \A b \in Bookings : RowEnds(b)
    BY <1>1 DEF TypeOK, Booking, RowEnds
  <2>2. QED
    BY <1>1, <2>1 DEF RowByRow
<1>2. CASE Tick \/ UNCHANGED vars
  BY <1>1, <1>2 DEF Tick, vars
<1>3. ASSUME NEW s \in Sessions, NEW kids \in PassLists, Join(s, kids) PROVE RowByRow
  BY <1>1, <1>3 DEF Join
<1>4. ASSUME NEW o \in Bookings, CancelByParent(o) PROVE RowByRow
  <2>1. \A b \in Bookings : RowEnds(b)
    BY <1>4 DEF CancelByParent, TypeOK, Booking, RowEnds
  <2>2. QED
    BY <1>4, <2>1 DEF CancelByParent, RowByRow, TypeOK
<1>5. ASSUME NEW k \in Workers, Begin(k) PROVE RowByRow
  <2>1. CASE UNCHANGED <<clock, session, booking>>
    BY <1>1, <2>1
  <2>2. ASSUME NEW s \in Sessions, CloseSession(k, s) PROVE RowByRow
    <3>1. clock \in Nat /\ \A b \in Bookings : RowEnds(b)
      BY <2>2 DEF CloseSession, TypeOK, Booking, RowEnds
    <3>2. QED
      BY <2>2, <3>1 DEF CloseSession, RowByRow, TypeOK, Session
  <2>3. QED
    BY <1>5, <2>1, <2>2 DEF Begin, BeginCreate, BeginRenew, BeginBook, BeginPaid, BeginOffer, BeginAccept,
                            BeginMove, BeginEdit
<1>6. QED
  BY <1>2, <1>3, <1>4, <1>5, StepRows DEF Next

LEMMA NextAims ==
    ASSUME TypeOK, TypeOK', RowsFilled, Shape, JobsAim, [Next]_vars PROVE JobsAim'
<1>0. RowByRow
  BY NextRows
<1>1. CASE job' = job
  <2>1. ASSUME NEW l \in Workers PROVE Aims(job[l])'
    <3>1. PICK i \in Job : i = job[l] /\ Aims(i)
      BY DEF TypeOK, JobsAim
    <3>2. Aims(i)'
      BY <1>0, <3>1, AimsStay
    <3>3. QED
      BY <1>1, <3>1, <3>2 DEF Aims
  <2>2. QED
    BY <2>1 DEF JobsAim
<1>2. ASSUME NEW k \in Workers, NEW j, Go(k, j), Aims(j)' PROVE JobsAim'
  BY <1>0, <1>2, JobsStayAim
<1>3. ASSUME NEW k \in Workers, NEW j, Go(k, j),
             j.op \notin {"renew", "picked", "book", "close", "cancel"} PROVE JobsAim'
  BY <1>2, <1>3 DEF Aims
<1>4. ASSUME NEW k \in Workers, Begin(k) PROVE JobsAim'
  <2>1. ASSUME NEW s \in Sessions, NEW kids \in PassLists, BeginCreate(k, s, kids) PROVE JobsAim'
    BY <1>3, <2>1 DEF BeginCreate, CreateJob
  <2>2. ASSUME NEW b \in Bookings, NEW pay \in BOOLEAN, BeginRenew(k, b, pay) PROVE JobsAim'
    <3>1. PICK j : j = RenewJob(b, booking[b].session, clock, Capacity(booking[b].session), pay)
      OBVIOUS
    <3>2. Aims(j)'
      BY <2>2, <3>1 DEF BeginRenew, Aims, RenewJob
    <3>3. QED
      BY <1>2, <2>2, <3>1, <3>2 DEF BeginRenew
  <2>3. CASE BeginBook(k)
    <3>1. PICK j : j = BookJob(job[k].b, job[k].s, clock, job[k].cap, FALSE)
      OBVIOUS
    <3>2. Aims(j)'
      BY <2>3, <3>1 DEF BeginBook, JobsAim, Aims, BookJob
    <3>3. QED
      BY <1>2, <2>3, <3>1, <3>2 DEF BeginBook
  <2>4. ASSUME NEW b \in Bookings, BeginPaid(k, b) PROVE JobsAim'
    <3>1. PICK j : j = BookJob(b, booking[b].session, clock, Capacity(booking[b].session), TRUE)
      OBVIOUS
    <3>2. Aims(j)'
      BY <2>4, <3>1 DEF BeginPaid, Aims, BookJob
    <3>3. CASE Go(k, CreditJob(b))
      BY <1>3, <3>3 DEF CreditJob
    <3>4. QED
      BY <1>2, <2>4, <3>1, <3>2, <3>3 DEF BeginPaid
  <2>5. ASSUME NEW s \in Sessions, BeginOffer(k, s) PROVE JobsAim'
    BY <1>3, <2>5 DEF BeginOffer, OfferJob
  <2>6. ASSUME NEW s \in Sessions, NEW kind, BeginAccept(k, s, kind) PROVE JobsAim'
    BY <1>3, <2>6 DEF BeginAccept, AcceptJob
  <2>7. ASSUME NEW b \in Bookings, NEW to \in Sessions, BeginMove(k, b, to) PROVE JobsAim'
    BY <1>3, <2>7 DEF BeginMove, MoveJob
  <2>8. ASSUME NEW s \in Sessions, CloseSession(k, s) PROVE JobsAim'
    <3>1. session'[s].status = "cancelled"
      BY <2>8 DEF CloseSession, TypeOK, Session
    <3>2. Aims(CloseJob(s))'
      BY <3>1 DEF Aims, CloseJob
    <3>3. QED
      BY <1>2, <2>8, <3>2 DEF CloseSession
  <2>9. ASSUME NEW cap, BeginEdit(k, cap) PROVE JobsAim'
    BY <1>3, <2>9 DEF BeginEdit, EditJob
  <2>10. QED
    BY <1>4, <2>1, <2>2, <2>3, <2>4, <2>5, <2>6, <2>7, <2>8, <2>9 DEF Begin
<1>5. ASSUME NEW k \in Workers, Step(k) PROVE JobsAim'
  <2>1. CASE Go(k, Idle) \/ Go(k, SettleJob)
             \/ \E x : Go(k, SendJob(x)) \/ Go(k, UnsentJob(x)) \/ Go(k, CreditJob(x))
    BY <1>3, <2>1 DEF Idle, SettleJob, SendJob, UnsentJob, CreditJob
  <2>2. CASE Renew(k)
    <3>1. PICK j : j = job[k] /\ Aims(j)
      BY DEF JobsAim
    <3>2. j \in Job /\ j.op = "renew" /\ (Go(k, Idle) \/ Go(k, PickedJob(j.b, j.s, j.cap)))
      BY <2>2, <3>1 DEF Renew, TypeOK
    <3>3. Aims(j)'
      BY <1>0, <3>1, <3>2, AimsStay
    <3>4. Aims(PickedJob(j.b, j.s, j.cap))'
      BY <3>2, <3>3 DEF Aims, PickedJob
    <3>5. QED
      BY <1>2, <2>1, <3>2, <3>4
  <2>3. CASE ListBookings(k)
    <3>1. PICK s \in Sessions : s = job[k].s /\ session[s].status = "cancelled"
      <4>1. job[k].s \in Sessions
        BY <2>3, JobFields DEF ListBookings
      <4>2. QED
        BY <2>3, <4>1 DEF ListBookings, JobsAim, Aims
    <3>2. Aims(CancelJob({b \in Bookings : booking[b].session = s /\ booking[b].status = "booked"}))'
      BY <2>3, <3>1 DEF ListBookings, Aims, CancelJob
    <3>3. QED
      BY <1>2, <2>3, <3>1, <3>2 DEF ListBookings
  <2>4. CASE CancelBooking(k)
    <3>1. PICK j : j = job[k] /\ Aims(j)
      BY DEF JobsAim
    <3>2. j \in Job /\ j.op = "cancel" /\ (Go(k, Idle) \/ Go(k, CancelJob(j.left \ {NextToCancel(k)})))
      BY <2>4, <3>1 DEF CancelBooking, TypeOK
    <3>3. Aims(j)'
      BY <1>0, <3>1, <3>2, AimsStay
    <3>4. PICK left : left = j.left \ {NextToCancel(k)}
      OBVIOUS
    <3>5. Aims(CancelJob(left))'
      BY <3>2, <3>3, <3>4 DEF Aims, CancelJob
    <3>6. QED
      BY <1>2, <2>1, <3>2, <3>4, <3>5
  <2>5. CASE Deliver(k)
    BY <1>1, <2>5 DEF Deliver
  <2>6. CASE Create(k) \/ Move(k) \/ Edit(k) \/ Crash(k) \/ Credit(k) \/ Book(k)
    BY <2>1, <2>6 DEF Create, Move, Edit, Crash, Credit, Book
  <2>7. CASE Offer(k) \/ Accept(k)
    BY <2>1, <2>7 DEF Offer, Accept, BackupJoins, SecondGroupOpens, HoldSpots
  <2>8. CASE AnsweredSent(k) \/ LetSpotGo(k) \/ Settles(k)
    BY <2>1, <2>8 DEF AnsweredSent, LetSpotGo, Settles, AnsweredUnreachable, AnsweredLater, Sent,
                      SettleBooked, SettleLapsed
  <2>9. QED
    BY <1>5, <2>2, <2>3, <2>4, <2>5, <2>6, <2>7, <2>8 DEF Step, Settles
<1>6. QED
  BY <1>1, <1>4, <1>5 DEF Next, Tick, Join, CancelByParent, vars

LEMMA AimsKept == Spec => [](TypeOK /\ RowsFilled /\ Shape /\ JobsAim)
<1>1. Init => JobsAim
  BY DEF Init, JobsAim, Aims, Idle
<1>2. TypeOK /\ TypeOK' /\ RowsFilled /\ Shape /\ JobsAim /\ [Next]_vars => JobsAim'
  BY NextAims
<1>3. QED
  BY <1>1, <1>2, ShapeKept, PTL DEF Spec

(* Once a coach has cancelled a session nothing takes a spot in it, whatever *)
(* form, checkout, payment, offer or move was under way when it closed: each *)
(* looks at the status again under the session's lock, and a move at the     *)
(* session it leaves.                                                        *)
THEOREM ClosedTakesNobody == Spec => ClosedStaysClosed
<1>1. TypeOK /\ TypeOK' /\ Shape /\ JobsAim /\ [Next]_vars
      => (\A s \in Sessions : NewlyTaken(s) # {} => session'[s].status = "scheduled")
  BY NextRows, TakenOpen DEF NoneClosed
<1>2. QED
  BY <1>1, AimsKept, PTL DEF Spec, ClosedStaysClosed

LEMMA NextToCancelTyped ==
    ASSUME NEW k \in Workers, job[k].left \subseteq Bookings, job[k].left # {}
    PROVE  NextToCancel(k) \in job[k].left
<1>1. PICK left : left = job[k].left
  OBVIOUS
<1>2. \E b \in left : \A c \in left : b <= c
  BY <1>1, Least DEF Bookings
<1>3. QED
  BY <1>1, <1>2 DEF NextToCancel

(* The step a worker takes is one of its own, and the one its job is about. *)
LEMMA Alone ==
    ASSUME NEW l \in Workers, Begin(l) \/ Step(l)
    PROVE  job' = job \/ \E j : Go(l, j)
<1>1. CASE Begin(l)
  BY <1>1 DEF Begin, BeginCreate, BeginRenew, BeginBook, BeginPaid, BeginOffer, BeginAccept, BeginMove,
              CloseSession, BeginEdit
<1>2. CASE Create(l) \/ Renew(l) \/ Book(l) \/ Credit(l) \/ Move(l) \/ ListBookings(l) \/ CancelBooking(l)
           \/ Edit(l) \/ Crash(l) \/ Deliver(l)
  BY <1>2 DEF Create, Renew, Book, Credit, Move, ListBookings, CancelBooking, Edit, Crash, Deliver
<1>3. CASE Offer(l) \/ Accept(l)
  BY <1>3 DEF Offer, Accept, BackupJoins, SecondGroupOpens, HoldSpots
<1>4. CASE AnsweredSent(l) \/ LetSpotGo(l) \/ Settles(l)
  BY <1>4 DEF AnsweredSent, LetSpotGo, Settles, AnsweredUnreachable, AnsweredLater, Sent, SettleBooked, SettleLapsed
<1>5. QED
  BY <1>1, <1>2, <1>3, <1>4 DEF Step, Settles

LEMMA ItsOwn ==
    ASSUME TypeOK, [Next]_vars, NEW k \in Workers, Acts(k),
           job[k].op \in {"create", "renew", "book", "move", "cancel"}
    PROVE  \/ Crash(k)
           \/ job[k].op = "create" /\ Create(k)
           \/ job[k].op = "renew" /\ Renew(k)
           \/ job[k].op = "book" /\ Book(k)
           \/ job[k].op = "move" /\ Move(k)
           \/ job[k].op = "cancel" /\ CancelBooking(k)
<1>1. PICK l \in Workers : Begin(l) \/ Step(l)
  BY DEF Next, Acts, Tick, Join, CancelByParent, vars
<1>2. l = k
  BY <1>1, Alone DEF Go, Acts, TypeOK
<1>3. job[k] # Idle /\ job[k] # SettleJob
  BY DEF Idle, SettleJob
<1>8. ~Begin(k)
  BY <1>3 DEF Begin, BeginCreate, BeginRenew, BeginBook, BeginPaid, BeginOffer, BeginAccept, BeginMove,
              CloseSession, BeginEdit
<1>4. Step(k)
  BY <1>1, <1>2, <1>8
<1>5. ~(Credit(k) \/ Offer(k) \/ Accept(k) \/ Deliver(k) \/ AnsweredSent(k) \/ LetSpotGo(k)
        \/ AnsweredUnreachable(k) \/ AnsweredLater(k) \/ SettleBooked(k) \/ SettleLapsed(k)
        \/ ListBookings(k) \/ Edit(k))
  BY <1>3 DEF Credit, Offer, Accept, Deliver, AnsweredSent, LetSpotGo, AnsweredUnreachable, AnsweredLater,
              SettleBooked, SettleLapsed, ListBookings, Edit
<1>6. /\ Create(k) => job[k].op = "create"
      /\ Renew(k) => job[k].op = "renew"
      /\ Book(k) => job[k].op = "book"
      /\ Move(k) => job[k].op = "move"
      /\ CancelBooking(k) => job[k].op = "cancel"
  BY DEF Create, Renew, Book, Move, CancelBooking
<1>7. QED
  BY <1>4, <1>5, <1>6 DEF Step

(* A coach's cancel that works through what it read cancels no booking of a  *)
(* session that goes ahead: what is in a cancelled session is not moved out  *)
(* of it, so the list is never too long, however late the handler is.        *)
THEOREM OnlyItsSession == Spec => CancelsOnlyItsSession
<1>1. ASSUME TypeOK, JobsAim, [Next]_vars, NEW k \in Workers, NEW b \in Bookings,
             Acts(k), job[k].op = "cancel", booking[b].status = "booked", booking'[b].status = "cancelled"
      PROVE  session[booking[b].session].status = "cancelled"
  <2>1. CancelBooking(k)
    BY <1>1, ItsOwn DEF Crash
  <2>2. job[k].left \subseteq Bookings
    BY <1>1, JobFields
  <2>3. job[k].left # {} /\ b = NextToCancel(k)
    BY <1>1, <2>1 DEF CancelBooking, TypeOK
  <2>4. b \in job[k].left
    BY <2>2, <2>3, NextToCancelTyped
  <2>5. QED
    BY <1>1, <2>4 DEF JobsAim, Aims
<1>2. TypeOK /\ JobsAim /\ [Next]_vars =>
          \A k \in Workers, b \in Bookings :
             /\ Acts(k) /\ job[k].op = "cancel"
             /\ booking[b].status = "booked" /\ booking'[b].status = "cancelled"
             => session[booking[b].session].status = "cancelled"
  BY <1>1
<1>3. QED
  BY <1>2, AimsKept, PTL DEF Spec, CancelsOnlyItsSession

----------------------------------------------------------------------------
(* No overbooking, and the line's first claim: every count is taken at the   *)
(* BEGIN's time and under the lock, and the time of the BEGIN is no later    *)
(* than now, so the count misses nothing that takes a spot now.              *)
InTime == \A k \in Workers : job[k].op \in InTransaction => job[k].at <= clock

UnopenedAreBare == \A s \in Sessions : session[s].status = "unopened" => session[s].override = 0

SpotInv == InTime /\ UnopenedAreBare

(* A step that takes a spot in a session leaves the session within its room. *)
WithinRoom ==
    \A s \in Sessions : NewlyTaken(s) # {} => Cardinality(Taken(s, clock)') <= Capacity(s)'

(* A worker's step that takes spots leaves one for each of the others in     *)
(* line.                                                                     *)
ClaimKept ==
    \A s \in Sessions : \A b \in NewlyTaken(s) :
        Cardinality(Taken(s, clock)' \ (PendingOf(PhoneOf(b)) \ InPass(b))') + Kept(s, PhoneOf(b)')
            <= Capacity(s)

(* A pass is one phone's. *)
OnePhone ==
    \A b, c \in Bookings : booking[b].pass # None /\ booking[c].pass = booking[b].pass
                           => PhoneOf(c) = PhoneOf(b)

NoneNew == \A s \in Sessions : NewlyTaken(s) = {}

LEMMA Bound ==
    ASSUME NEW A \in SUBSET Bookings, NEW B, IsFiniteSet(B), NEW X, X \subseteq A \cup B
    PROVE  /\ Cardinality(X) \in Nat /\ Cardinality(A) \in Nat /\ Cardinality(B) \in Nat
           /\ Cardinality(X) <= Cardinality(A) + Cardinality(B)
<1>1. IsFiniteSet(A)
  BY FiniteBookings
<1>2. IsFiniteSet(A \cup B) /\ Cardinality(A \cup B) <= Cardinality(A) + Cardinality(B)
  BY <1>1, CardUnion
<1>3. IsFiniteSet(X) /\ Cardinality(X) <= Cardinality(A \cup B)
  BY <1>2, FS_Subset
<1>4. QED
  BY <1>1, <1>2, <1>3, FS_CardinalityType

LEMMA Counts ==
    ASSUME NEW s, NEW at, NEW phone
    PROVE  /\ Taken(s, at) \in SUBSET Bookings /\ Cardinality(Taken(s, at)) \in Nat
           /\ Kept(s, phone) \in Nat
<1>1. Taken(s, at) \in SUBSET Bookings
  BY DEF Taken, TakenIn
<1>2. {w \in WaitingFor(s) : Phone[wait[w].child] # phone} \in SUBSET Entries
  BY DEF WaitingFor, LineOf
<1>3. QED
  BY <1>1, <1>2, FiniteBookings DEF Kept

(* What takes a spot now took one when the transaction began. *)
LEMMA TakenSince ==
    ASSUME TypeOK, NEW s, NEW at \in Nat, at <= clock
    PROVE  Taken(s, clock) \subseteq Taken(s, at)
<1>1. \A b \in Bookings : booking[b].hold \in Int
  BY DEF TypeOK, Booking
<1>2. clock \in Nat
  BY DEF TypeOK
<1>3. QED
  BY <1>1, <1>2 DEF Taken, TakenIn, TakesSpot, Live

LEMMA SameCapacity ==
    ASSUME TypeOK, UNCHANGED <<typeCap, session>>
    PROVE  \A s \in Sessions : Capacity(s)' = Capacity(s) /\ Capacity(s) \in Nat
<1>1. \A s \in Sessions : Capacity(s)' = Capacity(s)
  BY DEF Capacity
<1>2. QED
  BY <1>1, CapacityTyped

LEMMA NothingNew ==
    ASSUME NoneNew
    PROVE  WithinRoom /\ ClaimKept
BY DEF NoneNew, WithinRoom, ClaimKept

(* A step that only ends holds or bookings. *)
LEMMA EndsOnly ==
    ASSUME TypeOK, TypeOK', clock <= clock',
           \A b \in Bookings : /\ booking'[b].session = booking[b].session
                               /\ booking'[b].status \in {"pending", "booked"} =>
                                     booking'[b].status = booking[b].status
                               /\ booking'[b].hold = booking[b].hold \/ booking'[b].hold <= clock
    PROVE  NoneNew
<1>1. ASSUME NEW s \in Sessions, NEW b \in Taken(s, clock)'
      PROVE  b \in Taken(s, clock)
  <2>1. /\ b \in Bookings /\ booking'[b].session = s
        /\ booking'[b].status = "booked" \/ (booking'[b].status = "pending" /\ booking'[b].hold > clock')
    BY DEF Taken, TakenIn, TakesSpot, Live
  <2>2. booking[b].hold \in Int /\ booking'[b].hold \in Int /\ clock \in Int /\ clock' \in Int
    BY <2>1 DEF TypeOK, Booking
  <2>3. booking'[b].status = "pending" => booking[b].hold > clock
    BY <2>1, <2>2
  <2>4. QED
    BY <2>1, <2>3 DEF Taken, TakenIn, TakesSpot, Live
<1>2. QED
  BY <1>1 DEF NoneNew, NewlyTaken

LEMMA SameBookings ==
    ASSUME TypeOK, TypeOK', booking' = booking, clock <= clock'
    PROVE  NoneNew
BY EndsOnly

(* Spots taken in one session only, and counted. *)
LEMMA OneTaken ==
    ASSUME NEW s \in Sessions, \A t \in Sessions \ {s} : Taken(t, clock)' \subseteq Taken(t, clock),
           Cardinality(Taken(s, clock)') <= Capacity(s)'
    PROVE  WithinRoom
BY DEF WithinRoom, NewlyTaken

(* The same, for one phone. *)
LEMMA OneClaim ==
    ASSUME NEW s \in Sessions, NEW phone,
           \A t \in Sessions \ {s} : Taken(t, clock)' \subseteq Taken(t, clock),
           \A b \in NewlyTaken(s) : PhoneOf(b)' = phone,
           Capacity(s) \in Nat, Cardinality(Taken(s, clock)') + Kept(s, phone) <= Capacity(s)
    PROVE  ClaimKept
<1>1. ASSUME NEW t \in Sessions, NEW b \in NewlyTaken(t)
      PROVE  Cardinality(Taken(t, clock)' \ (PendingOf(PhoneOf(b)) \ InPass(b))') + Kept(t, PhoneOf(b)')
                <= Capacity(t)
  <2>1. t = s /\ PhoneOf(b)' = phone
    BY <1>1 DEF NewlyTaken
  <2>2. PICK rest : rest = (PendingOf(PhoneOf(b)) \ InPass(b))'
    OBVIOUS
  <2>3. PICK all : all = Taken(s, clock)' /\ all \in SUBSET Bookings
    BY DEF Taken, TakenIn
  <2>4. IsFiniteSet(all) /\ all \ rest \subseteq all
    BY <2>3, FiniteBookings
  <2>5. IsFiniteSet(all \ rest) /\ Cardinality(all \ rest) <= Cardinality(all)
    BY <2>4, FS_Subset
  <2>6. Cardinality(all \ rest) \in Nat /\ Cardinality(all) \in Nat /\ Kept(s, phone) \in Nat
    BY <2>4, <2>5, FS_CardinalityType, Counts
  <2>7. Cardinality(all \ rest) + Kept(s, phone) <= Capacity(s)
    BY <2>3, <2>5, <2>6
  <2>8. QED
    BY <2>1, <2>2, <2>3, <2>7
<1>2. QED
  BY <1>1 DEF ClaimKept

LEMMA CreateCounts ==
    ASSUME TypeOK, TypeOK', Shape, SpotInv, NEW k \in Workers, Create(k), ~OldCapacity(job[k])
    PROVE  WithinRoom /\ ClaimKept
<1> PICK j : j = job[k]
  OBVIOUS
<1>1. /\ j.s \in Sessions /\ j.at \in Nat /\ j.at <= clock /\ j.cap \in Nat
      /\ j.kids \in PassLists /\ Len(j.kids) \in Nat /\ Len(j.kids) >= 1 /\ serial \in Nat /\ clock \in Nat
  BY JobFields, KidsTyped, IdsAssumption DEF Create, SpotInv, InTime, InTransaction, TypeOK
<1>2. Capacity(j.s)' = Capacity(j.s) /\ Capacity(j.s) \in Nat /\ clock' = clock
  BY <1>1, SameCapacity DEF Create
<1>3. j.cap <= Capacity(j.s)
  BY <1>1, <1>2 DEF OldCapacity, Create
<1>4. CASE booking' = booking
  BY <1>1, <1>2, <1>4, SameBookings, NothingNew
<1>5. CASE CreateFits(j) /\ booking' = AfterCreate(j)
  <2> PICK phone : phone = Phone[j.kids[1]]
    OBVIOUS
  <2> DEFINE new == NewIds(Len(j.kids))
             left == Taken(j.s, j.at) \ PendingOf(phone)
  <2>1. ASSUME NEW b \in Bookings
        PROVE  \/ /\ b \in new
                  /\ booking'[b].session = j.s /\ booking'[b].status = "pending"
               \/ /\ b \notin new
                  /\ booking'[b].session = booking[b].session /\ booking'[b].status = booking[b].status
                  /\ booking'[b].hold = IF b \in Taken(j.s, j.at) \cap PendingOf(phone)
                                        THEN j.at ELSE booking[b].hold
    <3>1. CASE b \in new
      BY <1>5, <3>1 DEF AfterCreate, NewHold
    <3>2. CASE b \notin new
      BY <1>1, <1>5, <3>2 DEF AfterCreate, TypeOK, Booking
    <3>3. QED
      BY <3>1, <3>2
  <2>2. Taken(j.s, clock) \subseteq Taken(j.s, j.at)
    BY <1>1, TakenSince
  <2>3. ASSUME NEW s \in Sessions, NEW b \in Taken(s, clock)'
        PROVE  \/ s = j.s /\ b \in new
               \/ b \in Taken(s, clock) /\ (s = j.s => b \in left)
    <3>1. /\ b \in Bookings /\ booking'[b].session = s
          /\ \/ booking'[b].status = "booked"
             \/ booking'[b].status = "pending" /\ booking'[b].hold > clock
      BY <1>2 DEF Taken, TakenIn, TakesSpot, Live
    <3>2. CASE b \in new
      BY <2>1, <3>1, <3>2
    <3>3. CASE b \notin new
      <4>1. booking[b].hold \in Int
        BY <3>1 DEF TypeOK, Booking
      <4>2. /\ booking[b].session = s
            /\ \/ booking[b].status = "booked"
               \/ /\ booking[b].status = "pending" /\ booking[b].hold > clock
                  /\ b \notin Taken(j.s, j.at) \cap PendingOf(phone)
        BY <1>1, <2>1, <3>1, <3>3, <4>1
      <4>3. b \in Taken(s, clock)
        BY <3>1, <4>2 DEF Taken, TakenIn, TakesSpot, Live
      <4>4. booking[b].status = "booked" => b \notin PendingOf(phone)
        BY DEF PendingOf
      <4>5. QED
        BY <2>2, <4>2, <4>3, <4>4
    <3>4. QED
      BY <3>2, <3>3
  <2>4. /\ Cardinality(Taken(j.s, clock)') <= Capacity(j.s)'
        /\ Cardinality(Taken(j.s, clock)') + Kept(j.s, phone) <= Capacity(j.s)
    <3>1. Taken(j.s, clock)' \subseteq left \cup new /\ left \in SUBSET Bookings
      BY <1>1, <2>3, Counts
    <3>2. IsFiniteSet(new) /\ Cardinality(new) = Len(j.kids)
      <4>1. serial + 1 \in Int /\ serial + Len(j.kids) \in Int /\ serial + 1 <= serial + Len(j.kids)
        BY <1>1
      <4>2. /\ IsFiniteSet((serial + 1)..(serial + Len(j.kids)))
            /\ Cardinality((serial + 1)..(serial + Len(j.kids))) = (serial + Len(j.kids)) - (serial + 1) + 1
        BY <4>1, FS_Interval
      <4>3. (serial + Len(j.kids)) - (serial + 1) + 1 = Len(j.kids)
        BY <1>1
      <4>4. QED
        BY <4>2, <4>3 DEF NewIds
    <3>3. /\ Cardinality(Taken(j.s, clock)') <= Cardinality(left) + Len(j.kids)
          /\ Cardinality(Taken(j.s, clock)') \in Nat /\ Cardinality(left) \in Nat
      BY <3>1, <3>2, Bound
    <3>4. Cardinality(left) + Kept(j.s, phone) + Len(j.kids) <= j.cap
      BY <1>1, <1>5 DEF CreateFits
    <3>5. Kept(j.s, phone) \in Nat
      BY Counts
    <3>6. QED
      BY <1>1, <1>2, <1>3, <3>3, <3>4, <3>5
  <2>5. \A b \in NewlyTaken(j.s) : PhoneOf(b)' = phone
    <3>1. ASSUME NEW b \in NewlyTaken(j.s)
          PROVE  PhoneOf(b)' = phone
      <4>1. b \in new /\ b \in Bookings
        BY <1>1, <2>3 DEF NewlyTaken, Taken, TakenIn
      <4>2. booking'[b].child = j.kids[b - serial] /\ b - serial \in 1..Len(j.kids)
        BY <1>1, <1>5, <4>1 DEF AfterCreate, NewHold, NewIds, Bookings
      <4>3. PICK i \in 1..Len(j.kids) : booking'[b].child = j.kids[i]
        BY <4>2
      <4>4. Phone[j.kids[i]] = Phone[j.kids[1]]
        BY <1>1, PassAssumption
      <4>5. QED
        BY <4>3, <4>4 DEF PhoneOf
    <3>2. QED
      BY <3>1
  <2>6. \A t \in Sessions \ {j.s} : Taken(t, clock)' \subseteq Taken(t, clock)
    BY <2>3
  <2>7. WithinRoom
    BY <1>1, <2>4, <2>6, OneTaken
  <2>8. ClaimKept
    BY <1>1, <1>2, <2>4, <2>5, <2>6, OneClaim
  <2>9. QED
    BY <2>7, <2>8
<1>6. QED
  BY <1>4, <1>5 DEF Create

LEMMA RenewCounts ==
    ASSUME TypeOK, TypeOK', Shape, SpotInv, JobsAim, NEW k \in Workers, Renew(k),
           ~RanOut(job[k]), ~OldCapacity(job[k])
    PROVE  WithinRoom /\ ClaimKept
<1> PICK j : j = job[k]
  OBVIOUS
<1> DEFINE pass == InPass(j.b)
           left == Taken(j.s, j.at) \ pass
<1>1. /\ j.s \in Sessions /\ j.at \in Nat /\ j.at <= clock /\ j.cap \in Nat /\ j.b \in Bookings
      /\ clock \in Nat /\ PassWhole
      /\ booking[j.b].status = "pending" => booking[j.b].session = j.s
  BY JobFields DEF Renew, SpotInv, InTime, InTransaction, TypeOK, Shape, JobsAim, Aims
<1>2. Capacity(j.s)' = Capacity(j.s) /\ Capacity(j.s) \in Nat /\ clock' = clock
  BY <1>1, SameCapacity DEF Renew
<1>3. j.cap <= Capacity(j.s)
  BY <1>1, <1>2 DEF OldCapacity, Renew
<1>4. CASE booking' = booking
  BY <1>1, <1>2, <1>4, SameBookings, NothingNew
<1>5. CASE RenewFits(j) /\ booking' = AfterRenew(j)
  <2>1. PendingPass(j.b) = pass
    BY <1>1, <1>5, PendingPassWhole DEF RenewFits
  <2>2. /\ pass \in SUBSET Bookings
        /\ \A b \in pass : booking[b].status = "pending" /\ booking[b].session = j.s
    <3>1. pass \in SUBSET Bookings /\ j.b \in pass
      BY <1>1 DEF InPass
    <3>2. \A b \in pass : booking[b].status = "pending"
      BY <2>1 DEF PendingPass
    <3>3. QED
      BY <1>1, <3>1, <3>2 DEF PassWhole
  <2>3. ASSUME NEW b \in Bookings
        PROVE  /\ booking'[b].session = booking[b].session /\ booking'[b].status = booking[b].status
               /\ booking'[b].child = booking[b].child
               /\ b \notin pass => booking'[b] = booking[b]
    BY <1>5, <2>1 DEF AfterRenew, TypeOK, Booking
  <2>4. ASSUME NEW s \in Sessions, NEW b \in Taken(s, clock)'
        PROVE  \/ s = j.s /\ b \in pass
               \/ b \in Taken(s, clock) /\ b \notin pass
    BY <1>2, <2>2, <2>3 DEF Taken, TakenIn, TakesSpot, Live
  <2>5. CASE AllLive(pass, j.at)
    <3>1. AllLive(pass, clock)
      BY <2>1, <2>5 DEF RanOut, Renew
    <3>2. pass \subseteq Taken(j.s, clock)
      BY <2>2, <3>1 DEF AllLive, Taken, TakenIn, TakesSpot
    <3>3. NoneNew
      BY <2>4, <3>2 DEF NoneNew, NewlyTaken
    <3>4. QED
      BY <3>3, NothingNew
  <2>6. CASE ~AllLive(pass, j.at)
    <3>1. Taken(j.s, clock) \subseteq Taken(j.s, j.at)
      BY <1>1, TakenSince
    <3>2. Taken(j.s, clock)' \subseteq left \cup pass /\ left \in SUBSET Bookings /\ IsFiniteSet(pass)
      BY <1>1, <2>2, <2>4, <3>1, Counts, FiniteBookings
    <3>3. /\ Cardinality(Taken(j.s, clock)') <= Cardinality(left) + Cardinality(pass)
          /\ Cardinality(Taken(j.s, clock)') \in Nat /\ Cardinality(left) \in Nat /\ Cardinality(pass) \in Nat
      BY <3>2, Bound
    <3>4. Cardinality(left) + Kept(j.s, PhoneOf(j.b)) + Cardinality(pass) <= j.cap
      BY <1>1, <1>5, <2>1, <2>6 DEF RenewFits
    <3>5. Kept(j.s, PhoneOf(j.b)) \in Nat
      BY Counts
    <3>6. /\ Cardinality(Taken(j.s, clock)') <= Capacity(j.s)'
          /\ Cardinality(Taken(j.s, clock)') + Kept(j.s, PhoneOf(j.b)) <= Capacity(j.s)
      BY <1>1, <1>2, <1>3, <3>3, <3>4, <3>5
    <3>7. \A b \in NewlyTaken(j.s) : PhoneOf(b)' = PhoneOf(j.b)
      <4>1. ASSUME NEW b \in NewlyTaken(j.s)
            PROVE  PhoneOf(b)' = PhoneOf(j.b)
        <5>1. b \in pass /\ b \in Bookings
          BY <1>1, <2>4 DEF NewlyTaken, InPass, Taken, TakenIn
        <5>2. PhoneOf(b) = PhoneOf(j.b)
          BY <1>1, <2>2, <5>1 DEF PassWhole, InPass
        <5>3. QED
          BY <2>3, <5>1, <5>2 DEF PhoneOf
      <4>2. QED
        BY <4>1
    <3>8. \A t \in Sessions \ {j.s} : Taken(t, clock)' \subseteq Taken(t, clock)
      BY <2>4
    <3>9. WithinRoom
      BY <1>1, <3>6, <3>8, OneTaken
    <3>10. ClaimKept
      BY <1>1, <1>2, <3>6, <3>7, <3>8, OneClaim
    <3>11. QED
      BY <3>9, <3>10
  <2>7. QED
    BY <2>5, <2>6
<1>6. QED
  BY <1>4, <1>5 DEF Renew

LEMMA BookCounts ==
    ASSUME TypeOK, TypeOK', Shape, SpotInv, JobsAim, NEW k \in Workers, Book(k),
           ~RanOut(job[k]), ~OldCapacity(job[k])
    PROVE  WithinRoom /\ (~job[k].paid => ClaimKept)
<1> PICK j : j = job[k]
  OBVIOUS
<1> DEFINE pass == InPass(j.b)
           others == (Taken(j.s, j.at) \ pass) \ PendingOf(PhoneOf(j.b))
<1>1. /\ j.s \in Sessions /\ j.at \in Nat /\ j.at <= clock /\ j.cap \in Nat /\ j.b \in Bookings
      /\ clock \in Nat /\ PassWhole
      /\ booking[j.b].status = "pending" => booking[j.b].session = j.s
  BY JobFields DEF Book, SpotInv, InTime, InTransaction, TypeOK, Shape, JobsAim, Aims
<1>2. Capacity(j.s)' = Capacity(j.s) /\ Capacity(j.s) \in Nat /\ clock' = clock
  BY <1>1, SameCapacity DEF Book
<1>3. j.cap <= Capacity(j.s)
  BY <1>1, <1>2 DEF OldCapacity, Book
<1>4. CASE booking' = booking
  BY <1>1, <1>2, <1>4, SameBookings, NothingNew
<1>5. CASE BookFits(j) /\ booking' = AfterBook(j)
  <2>1. PendingPass(j.b) = pass
    BY <1>1, <1>5, PendingPassWhole DEF BookFits
  <2>2. /\ pass \in SUBSET Bookings
        /\ \A b \in pass : booking[b].status = "pending" /\ booking[b].session = j.s
    <3>1. pass \in SUBSET Bookings /\ j.b \in pass
      BY <1>1 DEF InPass
    <3>2. \A b \in pass : booking[b].status = "pending"
      BY <2>1 DEF PendingPass
    <3>3. QED
      BY <1>1, <3>1, <3>2 DEF PassWhole
  <2>3. ASSUME NEW b \in Bookings
        PROVE  /\ booking'[b].session = booking[b].session
               /\ booking'[b].child = booking[b].child /\ booking'[b].pass = booking[b].pass
               /\ b \in pass => booking'[b].status = "booked"
               /\ b \notin pass => booking'[b].status = booking[b].status
               /\ b \notin pass => booking'[b].hold = IF b \in GivesWay(j) THEN j.at ELSE booking[b].hold
    <3>1. GivesWay(j) \cap pass = {}
      BY DEF GivesWay
    <3>2. booking'[b] = IF b \in GivesWay(j) THEN [booking[b] EXCEPT !.hold = j.at]
                        ELSE IF b \in pass
                             THEN [booking[b] EXCEPT !.status = "booked", !.charged = j.paid]
                             ELSE booking[b]
      BY <1>1, <1>5, <2>1 DEF AfterBook, AfterSale
    <3>3. booking[b] \in Booking
      BY DEF TypeOK
    <3>4. QED
      BY <3>1, <3>2, <3>3 DEF Booking
  <2>4. Taken(j.s, clock) \subseteq Taken(j.s, j.at)
    BY <1>1, TakenSince
  <2>5. ASSUME NEW s \in Sessions, NEW b \in Taken(s, clock)'
        PROVE  \/ s = j.s /\ b \in pass
               \/ b \in Taken(s, clock) /\ b \notin pass /\ b \notin GivesWay(j)
    <3>1. /\ b \in Bookings /\ booking'[b].session = s
          /\ \/ booking'[b].status = "booked"
             \/ booking'[b].status = "pending" /\ booking'[b].hold > clock
      BY <1>2 DEF Taken, TakenIn, TakesSpot, Live
    <3>2. CASE b \in pass
      BY <2>2, <2>3, <3>1, <3>2
    <3>3. CASE b \notin pass
      <4>1. booking[b].hold \in Int
        BY <3>1 DEF TypeOK, Booking
      <4>2. b \in GivesWay(j) => booking[b].status = "pending"
        BY DEF GivesWay, PendingOf
      <4>3. b \notin GivesWay(j)
        BY <1>1, <2>3, <3>1, <3>3, <4>2
      <4>4. QED
        BY <2>3, <3>1, <3>3, <4>3 DEF Taken, TakenIn, TakesSpot, Live
    <3>4. QED
      BY <3>2, <3>3
  <2>6. CASE AllLive(pass, j.at)
    <3>1. AllLive(pass, clock)
      BY <2>1, <2>6 DEF RanOut, Book
    <3>2. pass \subseteq Taken(j.s, clock)
      BY <2>2, <3>1 DEF AllLive, Taken, TakenIn, TakesSpot
    <3>3. NoneNew
      BY <2>5, <3>2 DEF NoneNew, NewlyTaken
    <3>4. QED
      BY <3>3, NothingNew
  <2>7. CASE ~AllLive(pass, j.at)
    <3>1. Cardinality(Taken(j.s, clock)') <= Capacity(j.s)'
      <4>1. CASE Cardinality(TakenIn(AfterSale(j), j.s, j.at)) > j.cap
        <5>1. GivesWay(j) = (Taken(j.s, j.at) \cap PendingOf(PhoneOf(j.b))) \ pass
          BY <4>1 DEF GivesWay
        <5>2. Taken(j.s, clock)' \subseteq others \cup pass /\ others \in SUBSET Bookings /\ IsFiniteSet(pass)
          BY <1>1, <2>2, <2>4, <2>5, <5>1, Counts, FiniteBookings
        <5>3. /\ Cardinality(Taken(j.s, clock)') <= Cardinality(others) + Cardinality(pass)
              /\ Cardinality(Taken(j.s, clock)') \in Nat
              /\ Cardinality(others) \in Nat /\ Cardinality(pass) \in Nat
          BY <5>2, Bound
        <5>4. \E n \in Nat : Cardinality(others) + n + Cardinality(pass) <= j.cap
          <6>1. Kept(j.s, PhoneOf(j.b)) \in Nat
            BY Counts
          <6>2. Cardinality(others) + (IF j.paid THEN 0 ELSE Kept(j.s, PhoneOf(j.b)))
                  + Cardinality(pass) <= j.cap
            BY <1>1, <1>5, <2>1, <2>7 DEF BookFits
          <6>3. QED
            BY <6>1, <6>2
        <5>5. QED
          BY <1>1, <1>2, <1>3, <5>3, <5>4
      <4>2. CASE ~(Cardinality(TakenIn(AfterSale(j), j.s, j.at)) > j.cap)
        <5>1. GivesWay(j) = {}
          BY <4>2 DEF GivesWay
        <5>2. booking' = AfterSale(j)
          BY <1>5, <5>1 DEF AfterBook, AfterSale
        <5>3. PICK sold : sold = TakenIn(AfterSale(j), j.s, j.at)
          OBVIOUS
        <5>4. sold \in SUBSET Bookings
          BY <5>3 DEF TakenIn
        <5>5. Taken(j.s, clock)' \subseteq sold
          <6>1. ASSUME NEW b \in Taken(j.s, clock)'
                PROVE  b \in sold
            <7>1. /\ b \in Bookings /\ booking'[b].session = j.s
                  /\ \/ booking'[b].status = "booked"
                     \/ booking'[b].status = "pending" /\ booking'[b].hold > clock
              BY <1>2 DEF Taken, TakenIn, TakesSpot, Live
            <7>2. booking'[b].hold \in Int
              BY <7>1 DEF TypeOK, Booking
            <7>3. booking'[b].status = "pending" => booking'[b].hold > j.at
              BY <1>1, <7>1, <7>2
            <7>4. QED
              BY <5>2, <5>3, <7>1, <7>3 DEF TakenIn, TakesSpot, Live
          <6>2. QED
            BY <6>1
        <5>6. /\ Cardinality(Taken(j.s, clock)') <= Cardinality(sold) + Cardinality({})
              /\ Cardinality(Taken(j.s, clock)') \in Nat /\ Cardinality(sold) \in Nat
          BY <5>4, <5>5, FS_EmptySet, Bound
        <5>7. Cardinality(sold) <= j.cap
          BY <1>1, <4>2, <5>3, <5>6
        <5>8. QED
          BY <1>1, <1>2, <1>3, <5>6, <5>7, FS_EmptySet
      <4>3. QED
        BY <4>1, <4>2
    <3>2. ASSUME ~j.paid
          PROVE  ClaimKept
      <4>1. ASSUME NEW s \in Sessions, NEW b \in NewlyTaken(s)
            PROVE  Cardinality(Taken(s, clock)' \ (PendingOf(PhoneOf(b)) \ InPass(b))')
                     + Kept(s, PhoneOf(b)') <= Capacity(s)
        <5>1. s = j.s /\ b \in pass /\ b \in Bookings
          BY <2>5 DEF NewlyTaken, Taken, TakenIn
        <5>2. PhoneOf(b) = PhoneOf(j.b) /\ InPass(b) = pass
          BY <1>1, <2>2, <5>1 DEF PassWhole, InPass
        <5>3. PhoneOf(b)' = PhoneOf(j.b)
          BY <2>3, <5>1, <5>2 DEF PhoneOf
        <5>4. PICK rest : rest = (PendingOf(PhoneOf(b)) \ InPass(b))'
          OBVIOUS
        <5>5. ASSUME NEW c \in Taken(j.s, clock)' \ rest, c \notin pass
              PROVE  c \in others
          <6>1. c \in Taken(j.s, j.at) /\ c \in Bookings
            BY <1>1, <2>4, <2>5, <5>5 DEF Taken, TakenIn
          <6>2. CASE c \in PendingOf(PhoneOf(j.b))
            <7>1. booking'[c].status = "pending" /\ PhoneOf(c)' = PhoneOf(j.b)
              BY <2>3, <5>5, <6>1, <6>2 DEF PendingOf, PhoneOf
            <7>2. c \notin InPass(b)'
              BY <2>3, <5>1, <5>2, <5>5, <6>1 DEF InPass
            <7>3. c \in rest
              BY <5>3, <5>4, <6>1, <7>1, <7>2 DEF PendingOf
            <7>4. QED
              BY <5>5, <7>3
          <6>3. QED
            BY <5>5, <6>1, <6>2
        <5>6. PICK left : left = Taken(j.s, clock)' \ rest
          OBVIOUS
        <5>7. left \subseteq others \cup pass /\ others \in SUBSET Bookings /\ IsFiniteSet(pass)
          BY <1>1, <2>2, <5>5, <5>6, Counts, FiniteBookings
        <5>8. /\ Cardinality(left) <= Cardinality(others) + Cardinality(pass)
              /\ Cardinality(left) \in Nat /\ Cardinality(others) \in Nat /\ Cardinality(pass) \in Nat
          BY <5>7, Bound
        <5>9. Cardinality(others) + Kept(j.s, PhoneOf(j.b)) + Cardinality(pass) <= j.cap
          BY <1>1, <1>5, <2>1, <2>7, <3>2 DEF BookFits
        <5>10. Kept(j.s, PhoneOf(j.b)) \in Nat
          BY Counts
        <5>11. Cardinality(left) + Kept(j.s, PhoneOf(j.b)) <= Capacity(j.s)
          BY <1>1, <1>2, <1>3, <5>8, <5>9, <5>10
        <5>12. QED
          BY <5>1, <5>3, <5>4, <5>6, <5>11
      <4>2. QED
        BY <4>1 DEF ClaimKept
    <3>3. \A t \in Sessions \ {j.s} : Taken(t, clock)' \subseteq Taken(t, clock)
      BY <2>5
    <3>4. WithinRoom
      BY <1>1, <3>1, <3>3, OneTaken
    <3>5. QED
      BY <3>2, <3>4
  <2>8. QED
    BY <2>6, <2>7
<1>6. QED
  BY <1>4, <1>5 DEF Book

(* A round that holds spots takes no more than it counted free, if any. *)
LEMMA HoldSpotsCounts ==
    ASSUME TypeOK, TypeOK', Shape, clock' = clock, NEW k \in Workers, NEW s \in Sessions, NEW pool,
           NEW cap \in Nat, NEW at \in Nat, at <= clock, HoldSpots(k, s, pool, cap, at), Capacity(s)' = cap
    PROVE  WithinRoom
<1> DEFINE n == Cardinality(Taken(s, at))
           new == (serial + 1)..(serial + (cap - n))
<1>1. clock \in Nat /\ serial \in Nat /\ n \in Nat
  <2>1. n \in Nat
    BY Counts
  <2>2. QED
    BY <2>1, IdsAssumption DEF TypeOK
<1>2. ASSUME NEW b \in Bookings
      PROVE  \/ booking'[b] = booking[b]
             \/ b \in new /\ n <= cap /\ booking'[b].session = s
  <2>1. \/ booking'[b] = booking[b]
        \/ /\ b > serial /\ b <= serial'
           /\ b <= serial + (cap - n)
           /\ booking'[b].status = "pending" /\ booking'[b].session = s
           /\ booking'[b].pass = b
    BY HoldSpotsRows
  <2>2. b > serial /\ b <= serial + (cap - n) => b \in new /\ n <= cap
    BY <1>1 DEF Bookings
  <2>3. QED
    BY <2>1, <2>2
<1>3. ASSUME NEW t \in Sessions, NEW b \in Taken(t, clock)'
      PROVE  b \in Taken(t, clock) \/ (t = s /\ b \in new /\ n <= cap)
  BY <1>2 DEF Taken, TakenIn, TakesSpot, Live
<1>4. CASE n <= cap
  <2>1. IsFiniteSet(new) /\ Cardinality(new) = cap - n
    <3>1. serial + 1 \in Int /\ serial + (cap - n) \in Int
      BY <1>1
    <3>2. /\ IsFiniteSet(new)
          /\ Cardinality(new) = IF serial + 1 > serial + (cap - n) THEN 0
                                ELSE (serial + (cap - n)) - (serial + 1) + 1
      BY <3>1, FS_Interval
    <3>3. (IF serial + 1 > serial + (cap - n) THEN 0 ELSE (serial + (cap - n)) - (serial + 1) + 1) = cap - n
      BY <1>1, <1>4
    <3>4. QED
      BY <3>2, <3>3
  <2>2. Taken(s, clock) \subseteq Taken(s, at)
    BY TakenSince
  <2>3. Taken(s, at) \in SUBSET Bookings /\ Taken(s, clock)' \subseteq Taken(s, at) \cup new
    BY <1>3, <2>2, Counts
  <2>4. /\ Cardinality(Taken(s, clock)') <= n + Cardinality(new) /\ Cardinality(Taken(s, clock)') \in Nat
    BY <2>1, <2>3, Bound
  <2>5. Cardinality(Taken(s, clock)') <= Capacity(s)'
    BY <1>1, <1>4, <2>1, <2>4
  <2>6. \A t \in Sessions \ {s} : Taken(t, clock)' \subseteq Taken(t, clock)
    BY <1>3
  <2>7. QED
    BY <2>5, <2>6, OneTaken
<1>5. CASE ~(n <= cap)
  <2>1. NoneNew
    BY <1>3, <1>5 DEF NoneNew, NewlyTaken
  <2>2. QED
    BY <2>1, NothingNew
<1>6. QED
  BY <1>4, <1>5

LEMMA MoveCounts ==
    ASSUME TypeOK, TypeOK', RowsFilled, SpotInv, NEW k \in Workers, Move(k)
    PROVE  WithinRoom /\ (OnePhone => ClaimKept)
<1> PICK j : j = job[k]
  OBVIOUS
<1> PICK goes : goes = PaidTogether(j.b)
  OBVIOUS
<1>1. /\ j.to \in Sessions /\ j.at \in Nat /\ j.at <= clock /\ clock \in Nat
      /\ j.b \in Bookings /\ goes \in SUBSET Bookings
  BY JobFields DEF Move, SpotInv, InTime, InTransaction, TypeOK, PaidTogether, InPass
<1>2. Capacity(j.to)' = Capacity(j.to) /\ Capacity(j.to) \in Nat /\ clock' = clock
  BY <1>1, SameCapacity DEF Move
<1>3. CASE booking' = booking
  BY <1>1, <1>2, <1>3, SameBookings, NothingNew
<1>4. CASE /\ MayMove(j.b, j.s)
           /\ Cardinality(Taken(j.to, j.at)) + Kept(j.to, PhoneOf(j.b)) + Cardinality(goes) <= Capacity(j.to)
           /\ booking' = [c \in Bookings |->
                  IF c \in goes THEN [booking[c] EXCEPT !.session = j.to] ELSE booking[c]]
  <2>1. \A c \in goes : booking[c].status = "booked"
    BY <1>4 DEF MayMove
  <2>2. ASSUME NEW b \in Bookings
        PROVE  /\ booking'[b].status = booking[b].status /\ booking'[b].child = booking[b].child
               /\ b \notin goes => booking'[b] = booking[b]
               /\ b \in goes => booking'[b].session = j.to
    BY <1>4 DEF TypeOK, Booking
  <2>3. ASSUME NEW t \in Sessions, NEW b \in Taken(t, clock)'
        PROVE  b \in Taken(t, clock) \/ (t = j.to /\ b \in goes)
    BY <1>2, <2>2 DEF Taken, TakenIn, TakesSpot, Live
  <2>4. Taken(j.to, clock) \subseteq Taken(j.to, j.at)
    BY <1>1, TakenSince
  <2>5. /\ Taken(j.to, j.at) \in SUBSET Bookings /\ IsFiniteSet(goes)
        /\ Taken(j.to, clock)' \subseteq Taken(j.to, j.at) \cup goes
    BY <1>1, <2>3, <2>4, Counts, FiniteBookings
  <2>6. /\ Cardinality(Taken(j.to, clock)') <= Cardinality(Taken(j.to, j.at)) + Cardinality(goes)
        /\ Cardinality(Taken(j.to, clock)') \in Nat /\ Cardinality(Taken(j.to, j.at)) \in Nat
        /\ Cardinality(goes) \in Nat
    BY <2>5, Bound
  <2>7. Kept(j.to, PhoneOf(j.b)) \in Nat
    BY Counts
  <2>8. /\ Cardinality(Taken(j.to, clock)') <= Capacity(j.to)'
        /\ Cardinality(Taken(j.to, clock)') + Kept(j.to, PhoneOf(j.b)) <= Capacity(j.to)
    BY <1>2, <1>4, <2>6, <2>7
  <2>9. \A t \in Sessions \ {j.to} : Taken(t, clock)' \subseteq Taken(t, clock)
    BY <2>3
  <2>10. ASSUME OnePhone
         PROVE  ClaimKept
    <3>1. ASSUME NEW b \in NewlyTaken(j.to)
          PROVE  PhoneOf(b)' = PhoneOf(j.b)
      <4>1. b \in goes /\ b \in Bookings
        BY <1>1, <2>3 DEF NewlyTaken, Taken, TakenIn
      <4>2. booking[b].pass # None
        BY <2>1, <4>1 DEF RowsFilled, Bookings, None
      <4>3. b = j.b \/ booking[b].pass = booking[j.b].pass
        BY <4>1 DEF PaidTogether, InPass
      <4>4. PhoneOf(b) = PhoneOf(j.b)
        BY <1>1, <2>10, <4>1, <4>2, <4>3 DEF OnePhone
      <4>5. QED
        BY <2>2, <4>1, <4>4 DEF PhoneOf
    <3>2. QED
      BY <1>1, <1>2, <2>8, <2>9, <3>1, OneClaim
  <2>11. WithinRoom
    BY <1>1, <2>8, <2>9, OneTaken
  <2>12. QED
    BY <2>10, <2>11
<1>5. QED
  BY <1>3, <1>4 DEF Move

LEMMA AcceptCounts ==
    ASSUME TypeOK, TypeOK', Shape, SpotInv, NEW k \in Workers, Accept(k)
    PROVE  /\ WithinRoom /\ UnopenedAreBare'
           /\ \A t \in Sessions : Capacity(t) <= Capacity(t)'
<1> PICK s : s = job[k].s
  OBVIOUS
<1> PICK at : at = job[k].at
  OBVIOUS
<1>1. /\ s \in Sessions /\ at \in Nat /\ at <= clock /\ clock \in Nat /\ typeCap \in Nat
      /\ Capacity(s) \in Nat /\ clock' = clock /\ typeCap' = typeCap
  BY JobFields, CapacityTyped DEF Accept, SpotInv, InTime, InTransaction, TypeOK
<1>2. CASE UNCHANGED <<session, booking, serial, wait>>
  <2>1. \A t \in Sessions : Capacity(t)' = Capacity(t) /\ Capacity(t) \in Nat
    BY <1>1, <1>2, SameCapacity
  <2>2. NoneNew
    BY <1>1, <1>2, SameBookings
  <2>3. UnopenedAreBare'
    BY <1>2 DEF SpotInv, UnopenedAreBare
  <2>4. QED
    BY <2>1, <2>2, <2>3, NothingNew
<1>3. CASE session[s].status = "scheduled" /\ ~Accepted(s) /\ BackupJoins(k, s, at)
  <2> DEFINE cap == Capacity(s) + typeCap
  <2>1. session' = [session EXCEPT ![s].override = cap]
    BY <1>3 DEF BackupJoins
  <2>2. \A t \in Sessions : /\ session'[t].status = session[t].status
                            /\ session'[t].override = IF t = s THEN cap ELSE session[t].override
    BY <2>1 DEF TypeOK, Session
  <2>3. Capacity(s)' = cap
    BY <1>1, <2>2 DEF Capacity
  <2>4. \A t \in Sessions \ {s} : Capacity(t)' = Capacity(t) /\ Capacity(t) \in Nat
    BY <1>1, <2>2, CapacityTyped DEF Capacity
  <2>5. cap \in Nat /\ \A t \in Sessions : Capacity(t) <= Capacity(t)'
    BY <1>1, <2>3, <2>4
  <2>6. UnopenedAreBare'
    BY <1>3, <2>2 DEF SpotInv, UnopenedAreBare
  <2>7. CASE HoldSpots(k, s, Pool(s), cap, at)
    <3>1. WithinRoom
      BY <1>1, <2>3, <2>5, <2>7, HoldSpotsCounts
    <3>2. QED
      BY <2>5, <2>6, <3>1
  <2>8. CASE UNCHANGED <<booking, serial, wait>>
    <3>1. NoneNew
      BY <1>1, <2>8, SameBookings
    <3>2. QED
      BY <2>5, <2>6, <3>1, NothingNew
  <2>9. QED
    BY <1>3, <2>7, <2>8 DEF BackupJoins
<1>4. CASE session[s].status = "scheduled" /\ ~Accepted(s) /\ SecondGroupOpens(k, s, at)
  <2>1. PICK t \in Sessions :
            /\ session[t].status = "unopened"
            /\ session' = [session EXCEPT ![t] =
                  [status |-> "scheduled", override |-> session[s].override, overflowOf |-> s]]
            /\ \/ HoldSpots(k, t, s, Capacity(s), at)
               \/ Go(k, Idle) /\ UNCHANGED <<booking, serial, wait>>
    BY <1>4 DEF SecondGroupOpens
  <2>2. session[t].override = 0 /\ session[s].override = 0
    BY <1>4, <2>1 DEF SpotInv, UnopenedAreBare, Accepted
  <2>3. \A u \in Sessions : /\ session'[u].override = session[u].override
                            /\ session'[u].status = "unopened" => session[u].status = "unopened"
    BY <2>1, <2>2 DEF TypeOK, Session
  <2>4. \A u \in Sessions : Capacity(u)' = Capacity(u) /\ Capacity(u) \in Nat
    BY <1>1, <2>3, CapacityTyped DEF Capacity
  <2>5. Capacity(t)' = Capacity(s)
    BY <2>2, <2>4 DEF Capacity
  <2>6. UnopenedAreBare'
    BY <2>3 DEF SpotInv, UnopenedAreBare
  <2>7. CASE HoldSpots(k, t, s, Capacity(s), at)
    <3>1. WithinRoom
      BY <1>1, <2>5, <2>7, HoldSpotsCounts
    <3>2. QED
      BY <2>4, <2>6, <3>1
  <2>8. CASE UNCHANGED <<booking, serial, wait>>
    <3>1. NoneNew
      BY <1>1, <2>8, SameBookings
    <3>2. QED
      BY <2>4, <2>6, <3>1, NothingNew
  <2>9. QED
    BY <2>1, <2>7, <2>8
<1>5. QED
  BY <1>1, <1>2, <1>3, <1>4 DEF Accept

(* Only a form, a checkout, a sale, a round of offers, an accepted cover and *)
(* a move take spots; the first three may count on what has changed since.   *)
LEMMA StepCounts ==
    ASSUME TypeOK, TypeOK', RowsFilled, Shape, SpotInv, JobsAim, NEW k \in Workers, Step(k)
    PROVE  WithinRoom \/ RanOut(job[k]) \/ OldCapacity(job[k])
<1>0. clock \in Nat
  BY DEF TypeOK
<1>1. CASE Create(k) \/ Renew(k) \/ Book(k) \/ Move(k)
  BY <1>1, CreateCounts, RenewCounts, BookCounts, MoveCounts
<1>2. CASE NoneNew
  BY <1>2, NothingNew
<1>3. CASE Accept(k)
  BY <1>3, AcceptCounts
<1>4. CASE Offer(k)
  <2>1. PICK s, at : s = job[k].s /\ at = job[k].at
    OBVIOUS
  <2>2. s \in Sessions /\ at \in Nat /\ at <= clock
    BY <1>4, <2>1, JobFields DEF Offer, SpotInv, InTime, InTransaction
  <2>3. UNCHANGED <<clock, typeCap, session>>
    BY <1>4 DEF Offer
  <2>4. Capacity(s)' = Capacity(s) /\ Capacity(s) \in Nat
    BY <2>2, <2>3, SameCapacity
  <2>5. CASE HoldSpots(k, s, Pool(s), Capacity(s), at)
    BY <2>2, <2>3, <2>4, <2>5, HoldSpotsCounts
  <2>6. CASE UNCHANGED booking
    BY <1>0, <1>2, <2>3, <2>6, SameBookings
  <2>7. QED
    BY <1>4, <2>1, <2>5, <2>6 DEF Offer
<1>5. CASE Credit(k)
  <2>1. ASSUME NEW b \in Bookings
        PROVE  /\ booking'[b].session = booking[b].session /\ booking'[b].hold = booking[b].hold
               /\ booking'[b] = booking[b] \/ booking'[b].status = "cancelled"
    <3>1. \/ booking'[b] = booking[b]
          \/ booking'[b] = [booking[b] EXCEPT !.status = "cancelled", !.charged = TRUE]
      BY <1>5 DEF Credit
    <3>2. booking[b] \in Booking
      BY DEF TypeOK
    <3>3. QED
      BY <3>1, <3>2 DEF Booking
  <2>2. clock' = clock
    BY <1>5 DEF Credit
  <2>3. QED
    BY <1>0, <1>2, <2>1, <2>2, EndsOnly
<1>6. CASE Deliver(k)
  <2>1. ASSUME NEW b \in Bookings
        PROVE  /\ booking'[b].session = booking[b].session /\ booking'[b].hold = booking[b].hold
               /\ booking'[b].status = booking[b].status
    BY <1>6 DEF Deliver, TypeOK, Booking
  <2>2. clock' = clock
    BY <1>6 DEF Deliver
  <2>3. QED
    BY <1>0, <1>2, <2>1, <2>2, EndsOnly
<1>7. CASE LetSpotGo(k)
  <2>1. ASSUME NEW b \in Bookings
        PROVE  /\ booking'[b].session = booking[b].session /\ booking'[b].status = booking[b].status
               /\ booking'[b].hold \in {booking[b].hold, clock}
    <3>1. PICK o : o = wait[NextSpot(k)].offer
      OBVIOUS
    <3>2. booking' \in {booking, [booking EXCEPT ![o].hold = clock]}
      BY <1>7, <3>1 DEF LetSpotGo
    <3>3. QED
      BY <3>2 DEF TypeOK, Booking
  <2>2. clock' = clock
    BY <1>7 DEF LetSpotGo
  <2>3. QED
    BY <1>0, <1>2, <2>1, <2>2, EndsOnly
<1>8. CASE CancelBooking(k)
  <2>1. ASSUME NEW b \in Bookings
        PROVE  /\ booking'[b].session = booking[b].session /\ booking'[b].hold = booking[b].hold
               /\ booking'[b] = booking[b] \/ booking'[b].status = "cancelled"
    BY <1>8 DEF CancelBooking, TypeOK, Booking
  <2>2. clock' = clock
    BY <1>8 DEF CancelBooking
  <2>3. QED
    BY <1>0, <1>2, <2>1, <2>2, EndsOnly
<1>9. CASE AnsweredSent(k) \/ Settles(k) \/ ListBookings(k) \/ Edit(k) \/ Crash(k)
  <2>1. UNCHANGED <<clock, booking>>
    BY <1>9, SettlesWait DEF AnsweredSent, ListBookings, Edit, Crash
  <2>2. QED
    BY <1>0, <1>2, <2>1, SameBookings
<1>10. QED
  BY <1>1, <1>3, <1>4, <1>5, <1>6, <1>7, <1>8, <1>9 DEF Step, Settles

(* A session has no fewer spots after a step, unless the coach lowers them. *)
LEMMA StepRoomier ==
    ASSUME TypeOK, TypeOK', Shape, SpotInv, NEW k \in Workers, Step(k)
    PROVE  /\ UnopenedAreBare' /\ clock' = clock
           /\ Lowers(job[k]) \/ \A s \in Sessions : Capacity(s) <= Capacity(s)'
<1>1. CASE UNCHANGED <<clock, typeCap, session>>
  <2>1. UnopenedAreBare'
    BY <1>1 DEF SpotInv, UnopenedAreBare
  <2>2. \A s \in Sessions : Capacity(s)' = Capacity(s) /\ Capacity(s) \in Nat
    BY <1>1, SameCapacity
  <2>3. QED
    BY <1>1, <2>1, <2>2
<1>2. CASE Accept(k)
  BY <1>2, AcceptCounts DEF Accept
<1>3. CASE Edit(k)
  <2>1. /\ UNCHANGED <<clock, session>> /\ typeCap' = job[k].cap /\ job[k].op = "edit"
        /\ job[k].cap \in Nat /\ typeCap \in Nat
    BY <1>3, JobFields DEF Edit, TypeOK
  <2>2. UnopenedAreBare'
    BY <2>1 DEF SpotInv, UnopenedAreBare
  <2>3. \A s \in Sessions : session[s].override \in Nat
    BY DEF TypeOK, Session
  <2>4. QED
    BY <2>1, <2>2, <2>3 DEF Capacity, Lowers
<1>4. CASE Create(k) \/ Renew(k) \/ Book(k) \/ Move(k) \/ Credit(k) \/ Offer(k) \/ Deliver(k) \/ LetSpotGo(k)
           \/ CancelBooking(k) \/ AnsweredSent(k) \/ Settles(k) \/ ListBookings(k) \/ Crash(k)
  BY <1>1, <1>4, SettlesWait DEF Create, Renew, Book, Move, Credit, Offer, Deliver, LetSpotGo, CancelBooking,
                                 AnsweredSent, ListBookings, Crash
<1>5. QED
  BY <1>2, <1>3, <1>4 DEF Step, Settles

(* A handler that works on one of these changes what it is doing. *)
LEMMA StepActs ==
    ASSUME TypeOK, NEW k \in Workers, Step(k), job[k].op \in {"create", "renew", "book", "edit"}
    PROVE  Acts(k)
<1>1. PICK j, i : j = job[k] /\ i = job'[k]
  OBVIOUS
<1>2. j # Idle /\ j # SettleJob /\ (j.op # "renew" => j.op \notin {"send", "unsent", "settle"})
  BY <1>1 DEF Idle, SettleJob
<1>3. CASE Go(k, Idle)
  BY <1>1, <1>2, <1>3 DEF Go, Acts, TypeOK
<1>4. CASE Renew(k)
  <2>1. j.op = "renew" /\ (i = Idle \/ i = PickedJob(j.b, j.s, j.cap))
    BY <1>1, <1>4 DEF Renew, Go, TypeOK
  <2>2. PickedJob(j.b, j.s, j.cap).op = "picked"
    BY DEF PickedJob
  <2>3. QED
    BY <1>1, <1>2, <2>1, <2>2 DEF Acts
<1>5. CASE Book(k)
  <2>1. j.op = "book" /\ (i = Idle \/ i = CreditJob(j.b))
    BY <1>1, <1>5 DEF Book, Go, TypeOK
  <2>2. CreditJob(j.b).op = "credit"
    BY DEF CreditJob
  <2>3. QED
    BY <1>1, <1>2, <2>1, <2>2 DEF Acts
<1>6. CASE Create(k) \/ Edit(k) \/ Crash(k)
  BY <1>3, <1>6 DEF Create, Edit, Crash
<1>7. ~(Credit(k) \/ Offer(k) \/ Accept(k) \/ Move(k) \/ Deliver(k) \/ AnsweredSent(k) \/ LetSpotGo(k)
        \/ AnsweredUnreachable(k) \/ AnsweredLater(k) \/ SettleBooked(k) \/ SettleLapsed(k)
        \/ ListBookings(k) \/ CancelBooking(k))
  BY <1>1, <1>2 DEF Credit, Offer, Accept, Move, Deliver, AnsweredSent, LetSpotGo, AnsweredUnreachable,
                    AnsweredLater, SettleBooked, SettleLapsed, ListBookings, CancelBooking
<1>8. QED
  BY <1>4, <1>5, <1>6, <1>7 DEF Step

(* A BEGIN writes no booking, and no session but to close one. *)
LEMMA BeginQuiet ==
    ASSUME TypeOK, NEW k \in Workers, Begin(k)
    PROVE  /\ UNCHANGED <<clock, typeCap, booking>>
           /\ \A s \in Sessions : /\ session'[s].override = session[s].override
                                  /\ session'[s].status = "unopened" => session[s].status = "unopened"
<1>1. ASSUME NEW s \in Sessions, CloseSession(k, s)
      PROVE  /\ UNCHANGED <<clock, typeCap, booking>>
             /\ \A t \in Sessions : /\ session'[t].override = session[t].override
                                    /\ session'[t].status = "unopened" => session[t].status = "unopened"
  BY <1>1 DEF CloseSession, TypeOK, Session
<1>2. ASSUME NEW s, NEW b, NEW kids, NEW kind, NEW to, NEW cap, NEW pay,
             BeginCreate(k, s, kids) \/ BeginRenew(k, b, pay) \/ BeginPaid(k, b) \/ BeginOffer(k, s)
             \/ BeginAccept(k, s, kind) \/ BeginMove(k, b, to) \/ BeginEdit(k, cap) \/ BeginBook(k)
      PROVE  UNCHANGED <<clock, typeCap, session, booking>>
  BY <1>2 DEF BeginCreate, BeginRenew, BeginPaid, BeginOffer, BeginAccept, BeginMove, BeginEdit, BeginBook
<1>3. QED
  BY <1>1, <1>2 DEF Begin

(* What a worker begins, it begins now. *)
LEMMA BeginsNow ==
    ASSUME TypeOK, NEW k \in Workers, Begin(k) \/ Step(k)
    PROVE  job' = job \/ \E j : Go(k, j) /\ (j.op \in InTransaction => j.at = clock)
<1>1. /\ Idle.op \notin InTransaction /\ SettleJob.op \notin InTransaction
      /\ \A x : /\ SendJob(x).op \notin InTransaction /\ UnsentJob(x).op \notin InTransaction
                /\ CancelJob(x).op \notin InTransaction /\ CloseJob(x).op \notin InTransaction
                /\ CreditJob(x).op \notin InTransaction /\ EditJob(x).op \notin InTransaction
      /\ \A b, s, cap : PickedJob(b, s, cap).op \notin InTransaction
  BY DEF Idle, SettleJob, SendJob, UnsentJob, CancelJob, CloseJob, CreditJob, EditJob, PickedJob, InTransaction
<1>2. \A b, s, kids, cap, pay, to, kind :
          /\ CreateJob(s, kids, clock, cap).at = clock /\ RenewJob(b, s, clock, cap, pay).at = clock
          /\ BookJob(b, s, clock, cap, pay).at = clock /\ OfferJob(s, clock).at = clock
          /\ AcceptJob(s, kind, clock).at = clock /\ MoveJob(b, s, to, clock).at = clock
  BY DEF CreateJob, RenewJob, BookJob, OfferJob, AcceptJob, MoveJob
<1>3. CASE \E s, kids, b, pay, kind, to, cap :
              \/ BeginCreate(k, s, kids) \/ BeginRenew(k, b, pay) \/ BeginOffer(k, s)
              \/ BeginAccept(k, s, kind) \/ BeginMove(k, b, to) \/ CloseSession(k, s) \/ BeginEdit(k, cap)
  BY <1>1, <1>2, <1>3 DEF BeginCreate, BeginRenew, BeginOffer, BeginAccept, BeginMove, CloseSession, BeginEdit
<1>4. CASE BeginBook(k) \/ \E b : BeginPaid(k, b)
  <2>1. CASE BeginBook(k)
    BY <1>2, <2>1 DEF BeginBook
  <2>2. ASSUME NEW b, BeginPaid(k, b)
        PROVE  \E j : Go(k, j) /\ (j.op \in InTransaction => j.at = clock)
    <3>1. \E s, cap : Go(k, CreditJob(b)) \/ Go(k, BookJob(b, s, clock, cap, TRUE))
      BY <2>2 DEF BeginPaid
    <3>2. QED
      BY <1>1, <1>2, <3>1
  <2>3. QED
    BY <1>4, <2>1, <2>2
<1>5. CASE Create(k) \/ Renew(k) \/ Book(k) \/ Credit(k) \/ Move(k) \/ ListBookings(k) \/ CancelBooking(k)
           \/ Edit(k) \/ Crash(k) \/ Deliver(k)
  BY <1>1, <1>5 DEF Create, Renew, Book, Credit, Move, ListBookings, CancelBooking, Edit, Crash, Deliver
<1>6. CASE Offer(k) \/ Accept(k)
  BY <1>1, <1>6 DEF Offer, Accept, BackupJoins, SecondGroupOpens, HoldSpots
<1>7. CASE AnsweredSent(k) \/ LetSpotGo(k) \/ Settles(k)
  BY <1>1, <1>7 DEF AnsweredSent, LetSpotGo, Settles, AnsweredUnreachable, AnsweredLater, Sent,
                    SettleBooked, SettleLapsed
<1>8. QED
  BY <1>3, <1>4, <1>5, <1>6, <1>7 DEF Begin, Step, Settles

LEMMA NextSpotInv ==
    ASSUME TypeOK, TypeOK', Shape, SpotInv, [Next]_vars
    PROVE  SpotInv'
<1>1. clock \in Nat /\ clock' \in Nat
  BY DEF TypeOK
<1>2. ASSUME clock <= clock', NEW k \in Workers, NEW j, Go(k, j), j.op \in InTransaction => j.at = clock
      PROVE  InTime'
  <2>1. ASSUME NEW l \in Workers, job'[l].op \in InTransaction
        PROVE  job'[l].at <= clock'
    <3>1. PICK i, n : i = job[l] /\ n = job'[l]
      OBVIOUS
    <3>2. n = j \/ n = i
      BY <1>2, <3>1 DEF Go, TypeOK
    <3>3. i.op \in InTransaction => i.at \in Nat /\ i.at <= clock
      BY <3>1, JobFields DEF SpotInv, InTime, InTransaction
    <3>4. QED
      BY <1>1, <1>2, <2>1, <3>1, <3>2, <3>3
  <2>2. QED
    BY <2>1 DEF InTime
<1>3. ASSUME clock <= clock', job' = job
      PROVE  InTime'
  <2>1. ASSUME NEW l \in Workers, job'[l].op \in InTransaction
        PROVE  job'[l].at <= clock'
    <3>1. PICK i : i = job[l] /\ i = job'[l]
      BY <1>3
    <3>2. i.op \in InTransaction => i.at \in Nat /\ i.at <= clock
      BY <3>1, JobFields DEF SpotInv, InTime, InTransaction
    <3>3. QED
      BY <1>1, <1>3, <2>1, <3>1, <3>2
  <2>2. QED
    BY <2>1 DEF InTime
<1>4. ASSUME NEW k \in Workers, Begin(k) \/ Step(k)
      PROVE  SpotInv'
  <2>1. clock' = clock /\ UnopenedAreBare'
    <3>1. CASE Begin(k)
      BY <3>1, BeginQuiet DEF SpotInv, UnopenedAreBare
    <3>2. CASE Step(k)
      BY <3>2, StepRoomier
    <3>3. QED
      BY <1>4, <3>1, <3>2
  <2>2. clock <= clock'
    BY <1>1, <2>1
  <2>3. job' = job \/ \E j : Go(k, j) /\ (j.op \in InTransaction => j.at = clock)
    BY <1>4, BeginsNow
  <2>4. InTime'
    BY <1>2, <1>3, <2>2, <2>3
  <2>5. QED
    BY <2>1, <2>4 DEF SpotInv
<1>5. CASE UNCHANGED <<session, job>> /\ clock <= clock'
  BY <1>3, <1>5 DEF SpotInv, UnopenedAreBare
<1>6. QED
  BY <1>1, <1>4, <1>5 DEF Next, Tick, Join, CancelByParent, vars

LEMMA SpotsKept == Spec => [](TypeOK /\ RowsFilled /\ Shape /\ JobsAim /\ SpotInv)
<1>1. Init => SpotInv
  BY DEF Init, SpotInv, InTime, UnopenedAreBare, Idle, InTransaction
<1>2. TypeOK /\ TypeOK' /\ Shape /\ SpotInv /\ [Next]_vars => SpotInv'
  BY NextSpotInv
<1>3. QED
  BY <1>1, <1>2, AimsKept, PTL DEF Spec

(* Steps of nobody's handler, and BEGINs, take no spot and leave the room. *)
LEMMA OthersCount ==
    ASSUME TypeOK, TypeOK', [Next]_vars, ~\E k \in Workers : Step(k)
    PROVE  NoneNew /\ \A s \in Sessions : Capacity(s) <= Capacity(s)'
<1>1. clock \in Nat /\ \A s \in Sessions : Capacity(s) \in Nat
  BY CapacityTyped DEF TypeOK
<1>2. CASE \E k \in Workers : Begin(k)
  <2>1. /\ UNCHANGED <<clock, typeCap, booking>>
        /\ \A s \in Sessions : session'[s].override = session[s].override
    BY <1>2, BeginQuiet
  <2>2. NoneNew
    BY <1>1, <2>1, SameBookings
  <2>3. \A s \in Sessions : Capacity(s)' = Capacity(s)
    BY <2>1 DEF Capacity
  <2>4. QED
    BY <1>1, <2>2, <2>3
<1>3. CASE UNCHANGED <<typeCap, session, booking>> /\ clock <= clock'
  <2>1. NoneNew
    BY <1>3, SameBookings
  <2>2. \A s \in Sessions : Capacity(s)' = Capacity(s)
    BY <1>3, SameCapacity
  <2>3. QED
    BY <1>1, <2>1, <2>2
<1>4. ASSUME NEW b \in Bookings, CancelByParent(b)
      PROVE  NoneNew /\ \A s \in Sessions : Capacity(s) <= Capacity(s)'
  <2>1. ASSUME NEW c \in Bookings
        PROVE  /\ booking'[c].session = booking[c].session /\ booking'[c].hold = booking[c].hold
               /\ booking'[c] = booking[c] \/ booking'[c].status = "cancelled"
    BY <1>4 DEF CancelByParent, TypeOK, Booking
  <2>2. UNCHANGED <<clock, typeCap, session>>
    BY <1>4 DEF CancelByParent
  <2>3. NoneNew
    BY <1>1, <2>1, <2>2, EndsOnly
  <2>4. \A s \in Sessions : Capacity(s)' = Capacity(s)
    BY <2>2, SameCapacity
  <2>5. QED
    BY <1>1, <2>3, <2>4
<1>5. CASE Tick \/ (\E s \in Sessions, kids \in PassLists : Join(s, kids)) \/ UNCHANGED vars
  <2>1. UNCHANGED <<typeCap, session, booking>> /\ clock <= clock'
    BY <1>1, <1>5 DEF Tick, Join, vars
  <2>2. QED
    BY <1>3, <2>1
<1>6. QED
  BY <1>2, <1>4, <1>5 DEF Next

(* However long transactions wait for the session's lock and whatever the    *)
(* coach does to the capacity, a session comes to have more sold and held    *)
(* than it has spots, or takes one more when it does, only by one of three   *)
(* steps: a renewal or sale whose holds ran out as it waited, one sent off   *)
(* with a capacity lowered since, or the lowering itself.                    *)
THEOREM NeverOverbooked == Spec => NoOverbooking
<1> DEFINE Inv == TypeOK /\ RowsFilled /\ Shape /\ JobsAim /\ SpotInv
<1>1. ASSUME Inv, Inv', [Next]_vars, NEW s \in Sessions,
             Over(s)', ~Over(s) \/ NewlyTaken(s) # {},
             ~\E k \in Workers : Acts(k) /\ (RanOut(job[k]) \/ OldCapacity(job[k]) \/ Lowers(job[k]))
      PROVE  FALSE
  <2>1. WithinRoom /\ Capacity(s) <= Capacity(s)'
    <3>1. CASE ~\E k \in Workers : Step(k)
      BY <1>1, <3>1, OthersCount, NothingNew
    <3>2. ASSUME NEW k \in Workers, Step(k)
          PROVE  WithinRoom /\ Capacity(s) <= Capacity(s)'
      <4>1. job[k].op \in {"create", "renew", "book", "edit"} => Acts(k)
        BY <1>1, <3>2, StepActs
      <4>2. ~RanOut(job[k]) /\ ~OldCapacity(job[k]) /\ ~Lowers(job[k])
        BY <1>1, <4>1 DEF RanOut, OldCapacity, Lowers
      <4>3. QED
        BY <1>1, <3>2, <4>2, StepCounts, StepRoomier
    <3>3. QED
      BY <3>1, <3>2
  <2>2. PICK now, then : now = Taken(s, clock) /\ then = Taken(s, clock)'
    OBVIOUS
  <2>3. PICK cap, after : cap = Capacity(s) /\ after = Capacity(s)'
    OBVIOUS
  <2>4. cap \in Nat /\ after \in Nat /\ cap <= after
    BY <1>1, <2>1, <2>3 DEF TypeOK, Capacity, Session
  <2>5. now \in SUBSET Bookings /\ then \in SUBSET Bookings
    BY <2>2 DEF Taken, TakenIn
  <2>6. ~(Cardinality(then) <= after)
    <3>1. Cardinality(then) \in Nat
      BY <2>5, FiniteBookings
    <3>2. QED
      BY <1>1, <2>2, <2>3, <2>4, <3>1 DEF Over
  <2>7. NewlyTaken(s) = {}
    BY <2>1, <2>2, <2>3, <2>6 DEF WithinRoom
  <2>8. then \subseteq now
    BY <2>2, <2>7 DEF NewlyTaken
  <2>9. IsFiniteSet(now) /\ Cardinality(now) \in Nat /\ Cardinality(then) \in Nat
    BY <2>5, FiniteBookings
  <2>10. Cardinality(then) <= Cardinality(now)
    BY <2>8, <2>9, FS_Subset
  <2>11. Cardinality(now) <= cap
    BY <1>1, <2>2, <2>3, <2>4, <2>7, <2>9 DEF Over
  <2>12. QED
    BY <2>4, <2>6, <2>9, <2>10, <2>11
<1>2. Inv /\ Inv' /\ [Next]_vars =>
        \A s \in Sessions :
           Over(s)' /\ (~Over(s) \/ NewlyTaken(s) # {})
           => \E k \in Workers : Acts(k) /\ (RanOut(job[k]) \/ OldCapacity(job[k]) \/ Lowers(job[k]))
  BY <1>1
<1>3. QED
  BY <1>2, SpotsKept, PTL DEF Spec, NoOverbooking

----------------------------------------------------------------------------
(* The people waiting have first claim. *)

SameWho(b) == booking'[b].pass = booking[b].pass /\ booking'[b].child = booking[b].child

LEMMA PhoneStays ==
    ASSUME OnePhone, \A b \in Bookings : SameWho(b)
    PROVE  OnePhone'
BY DEF OnePhone, SameWho, PhoneOf

LEMMA CreatePhone ==
    ASSUME TypeOK, Shape, OnePhone, NEW k \in Workers, Create(k)
    PROVE  OnePhone'
<1> PICK j : j = job[k]
  OBVIOUS
<1>1. serial \in Nat /\ j.kids \in PassLists /\ Len(j.kids) \in Nat
  BY JobFields, KidsTyped, IdsAssumption DEF Create, TypeOK
<1>2. CASE booking' = booking
  BY <1>2, PhoneStays DEF SameWho
<1>3. CASE booking' = AfterCreate(j)
  <2>1. ASSUME NEW b \in Bookings
        PROVE  \/ b \notin NewIds(Len(j.kids)) /\ SameWho(b) /\ booking[b].pass \in 0..serial
               \/ booking'[b].pass = serial + 1 /\ PhoneOf(b)' = Phone[j.kids[1]]
    <3>1. CASE b \in NewIds(Len(j.kids))
      <4>1. booking'[b] = NewHold(j, b)
        BY <1>3, <3>1 DEF AfterCreate
      <4>2. booking'[b].pass = serial + 1 /\ booking'[b].child = j.kids[b - serial]
        BY <4>1 DEF NewHold
      <4>3. b - serial \in 1..Len(j.kids)
        BY <1>1, <3>1 DEF NewIds, Bookings
      <4>4. PICK i \in 1..Len(j.kids) : i = b - serial
        BY <4>3
      <4>5. Phone[j.kids[i]] = Phone[j.kids[1]]
        BY <1>1, PassAssumption
      <4>6. QED
        BY <4>2, <4>4, <4>5 DEF PhoneOf
    <3>2. CASE b \notin NewIds(Len(j.kids))
      <4>1. SameWho(b)
        BY <1>3, <3>2 DEF AfterCreate, SameWho, TypeOK, Booking
      <4>2. booking[b].pass \in 0..serial
        BY <1>1 DEF Shape, IdsInOrder, NoBooking, None
      <4>3. QED
        BY <3>2, <4>1, <4>2
    <3>3. QED
      BY <3>1, <3>2
  <2>2. ASSUME NEW b \in Bookings, NEW c \in Bookings, booking'[b].pass # None,
               booking'[c].pass = booking'[b].pass
        PROVE  PhoneOf(c)' = PhoneOf(b)'
    <3>1. serial + 1 \notin 0..serial
      BY <1>1
    <3>2. CASE booking'[b].pass = serial + 1
      BY <2>1, <2>2, <3>1, <3>2 DEF SameWho
    <3>3. CASE booking'[b].pass # serial + 1
      <4>1. SameWho(b) /\ SameWho(c)
        BY <2>1, <2>2, <3>3
      <4>2. QED
        BY <2>2, <4>1 DEF OnePhone, SameWho, PhoneOf
    <3>4. QED
      BY <3>2, <3>3
  <2>3. QED
    BY <2>2 DEF OnePhone
<1>4. QED
  BY <1>2, <1>3 DEF Create

LEMMA HoldSpotsPhone ==
    ASSUME TypeOK, Shape, OnePhone, NEW k \in Workers, NEW s \in Sessions, NEW pool,
           NEW cap \in Nat, NEW at \in Nat, HoldSpots(k, s, pool, cap, at)
    PROVE  OnePhone'
<1>1. ASSUME NEW b \in Bookings
      PROVE  \/ booking'[b] = booking[b] /\ booking[b].pass \in 0..serial
             \/ b \notin 0..serial /\ booking'[b].pass = b
  <2>1. \/ booking'[b] = booking[b]
        \/ /\ b > serial /\ b <= serial'
           /\ b <= serial + (cap - Cardinality(Taken(s, at)))
           /\ booking'[b].status = "pending" /\ booking'[b].session = s
           /\ booking'[b].pass = b
    BY HoldSpotsRows
  <2>2. serial \in Nat /\ booking[b].pass \in 0..serial
    BY IdsAssumption DEF TypeOK, Shape, IdsInOrder, NoBooking, None
  <2>3. QED
    BY <2>1, <2>2
<1>2. ASSUME NEW b \in Bookings, NEW c \in Bookings, booking'[b].pass # None,
             booking'[c].pass = booking'[b].pass
      PROVE  PhoneOf(c)' = PhoneOf(b)'
  <2>1. b = c \/ (booking'[b] = booking[b] /\ booking'[c] = booking[c])
    BY <1>1, <1>2
  <2>2. QED
    BY <1>2, <2>1 DEF OnePhone, PhoneOf
<1>3. QED
  BY <1>2 DEF OnePhone

LEMMA NextPhone ==
    ASSUME TypeOK, Shape, OnePhone, [Next]_vars
    PROVE  OnePhone'
<1>1. ASSUME booking' = booking PROVE OnePhone'
  BY <1>1, PhoneStays DEF SameWho
<1>2. CASE Tick \/ UNCHANGED vars
  BY <1>1, <1>2 DEF Tick, vars
<1>3. ASSUME NEW s \in Sessions, NEW kids \in PassLists, Join(s, kids) PROVE OnePhone'
  BY <1>1, <1>3 DEF Join
<1>4. ASSUME NEW o \in Bookings, CancelByParent(o) PROVE OnePhone'
  <2>1. \A b \in Bookings : SameWho(b)
    BY <1>4 DEF CancelByParent, TypeOK, Booking, SameWho
  <2>2. QED
    BY <2>1, PhoneStays
<1>5. ASSUME NEW k \in Workers, Begin(k) PROVE OnePhone'
  BY <1>1, <1>5 DEF Begin, BeginCreate, BeginRenew, BeginBook, BeginPaid, BeginOffer, BeginAccept, BeginMove,
                    CloseSession, BeginEdit
<1>6. ASSUME NEW k \in Workers, Step(k) PROVE OnePhone'
  <2>1. CASE Create(k)
    BY <2>1, CreatePhone
  <2>2. CASE Offer(k)
    <3>1. PICK s \in Sessions, at \in Nat : s = job[k].s /\ at = job[k].at
      BY <2>2, JobFields DEF Offer
    <3>2. CASE HoldSpots(k, s, Pool(s), Capacity(s), at)
      BY <3>2, HoldSpotsPhone, CapacityTyped
    <3>3. QED
      BY <1>1, <2>2, <3>1, <3>2 DEF Offer
  <2>3. CASE Accept(k)
    <3>1. PICK s \in Sessions, at \in Nat : s = job[k].s /\ at = job[k].at
      BY <2>3, JobFields DEF Accept
    <3>2. Capacity(s) \in Nat /\ Capacity(s) + typeCap \in Nat
      BY CapacityTyped DEF TypeOK
    <3>3. CASE HoldSpots(k, s, Pool(s), Capacity(s) + typeCap, at)
      BY <3>2, <3>3, HoldSpotsPhone
    <3>4. CASE \E t \in Sessions : HoldSpots(k, t, s, Capacity(s), at)
      BY <3>2, <3>4, HoldSpotsPhone
    <3>5. QED
      BY <1>1, <2>3, <3>1, <3>3, <3>4 DEF Accept, BackupJoins, SecondGroupOpens
  <2>4. CASE Renew(k) \/ Credit(k) \/ Deliver(k) \/ CancelBooking(k) \/ Move(k)
    <3>1. ASSUME NEW b \in Bookings
          PROVE  SameWho(b)
      <4>1. booking[b] \in Booking
        BY DEF TypeOK
      <4>2. CASE Renew(k)
        BY <4>1, <4>2 DEF Renew, AfterRenew, Booking, SameWho
      <4>3. CASE Credit(k)
        BY <4>1, <4>3 DEF Credit, Booking, SameWho
      <4>4. CASE Deliver(k) \/ CancelBooking(k)
        BY <4>4 DEF Deliver, CancelBooking, TypeOK, Booking, SameWho
      <4>5. CASE Move(k)
        <5>1. PICK goes, to : goes = PaidTogether(job[k].b) /\ to = job[k].to
          OBVIOUS
        <5>2. booking'[b] = booking[b] \/ booking'[b] = [booking[b] EXCEPT !.session = to]
          BY <4>5, <5>1 DEF Move
        <5>3. QED
          BY <4>1, <5>2 DEF Booking, SameWho
      <4>6. QED
        BY <2>4, <4>2, <4>3, <4>4, <4>5
    <3>2. QED
      BY <3>1, PhoneStays
  <2>5. CASE Book(k)
    <3>1. ASSUME NEW b \in Bookings
          PROVE  SameWho(b)
      <4>1. PICK j : j = job[k]
        OBVIOUS
      <4>2. \/ booking'[b] = booking[b]
            \/ booking'[b] = [booking[b] EXCEPT !.hold = j.at]
            \/ booking'[b] = [booking[b] EXCEPT !.status = "booked", !.charged = j.paid]
        BY <2>5, <4>1 DEF Book, AfterBook, AfterSale
      <4>3. booking[b] \in Booking
        BY DEF TypeOK
      <4>4. QED
        BY <4>2, <4>3 DEF SameWho, Booking
    <3>2. QED
      BY <3>1, PhoneStays
  <2>6. CASE LetSpotGo(k)
    <3>1. ASSUME NEW b \in Bookings
          PROVE  SameWho(b)
      <4>1. PICK o : o = wait[NextSpot(k)].offer
        OBVIOUS
      <4>2. booking' \in {booking, [booking EXCEPT ![o].hold = clock]}
        BY <2>6, <4>1 DEF LetSpotGo
      <4>3. QED
        BY <4>2 DEF TypeOK, Booking, SameWho
    <3>2. QED
      BY <3>1, PhoneStays
  <2>7. CASE AnsweredSent(k) \/ Settles(k) \/ ListBookings(k) \/ Edit(k) \/ Crash(k)
    BY <1>1, <2>7, SettlesWait DEF AnsweredSent, ListBookings, Edit, Crash
  <2>8. QED
    BY <1>6, <2>1, <2>2, <2>3, <2>4, <2>5, <2>6, <2>7 DEF Step, Settles
<1>7. QED
  BY <1>2, <1>3, <1>4, <1>5, <1>6 DEF Next

(* A form, a checkout, a credit's booking and a move each leave a spot for   *)
(* every other place in line when they commit, also where they waited for    *)
(* the lock, unless they count on a hold or a capacity of before they did.   *)
THEOREM LineGoesFirst == Spec => FirstClaim
<1> DEFINE Inv == TypeOK /\ RowsFilled /\ Shape /\ JobsAim /\ SpotInv
<1>1. Init => OnePhone
  BY DEF Init, OnePhone, NoBooking
<1>2. TypeOK /\ Shape /\ OnePhone /\ [Next]_vars => OnePhone'
  BY NextPhone
<1>3. ASSUME Inv, OnePhone, Inv', [Next]_vars, NEW k \in Workers,
             Acts(k), ~RanOut(job[k]), ~OldCapacity(job[k]),
             \/ job[k].op \in {"create", "renew", "move"}
             \/ job[k].op = "book" /\ ~job[k].paid
      PROVE  ClaimKept
  <2>1. CASE Crash(k)
    <3>1. NoneNew
      BY <1>3, <2>1, SameBookings DEF Crash, TypeOK
    <3>2. QED
      BY <3>1, NothingNew
  <2>2. CASE Create(k) \/ Renew(k) \/ Move(k)
    BY <1>3, <2>2, CreateCounts, RenewCounts, MoveCounts
  <2>3. CASE Book(k) /\ ~job[k].paid
    BY <1>3, <2>3, BookCounts
  <2>4. QED
    BY <1>3, <2>1, <2>2, <2>3, ItsOwn
<1>4. Inv /\ OnePhone /\ Inv' /\ [Next]_vars =>
        \A k \in Workers, s \in Sessions :
         /\ Acts(k) /\ ~RanOut(job[k]) /\ ~OldCapacity(job[k])
         /\ job[k].op \in {"create", "renew", "move"} \/ (job[k].op = "book" /\ ~job[k].paid)
         => \A b \in NewlyTaken(s) :
              LET rest == (PendingOf(PhoneOf(b)) \ InPass(b))'
              IN  Cardinality(Taken(s, clock)' \ rest) + Kept(s, PhoneOf(b)') <= Capacity(s)
  BY <1>3 DEF ClaimKept
<1>5. QED
  BY <1>1, <1>2, <1>4, SpotsKept, PTL DEF Spec, FirstClaim
=============================================================================
