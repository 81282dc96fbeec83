------------------------- MODULE RoomInventoryProofs -------------------------
(***************************************************************************)
(* What the database transactions of the booking service guarantee for any *)
(* employees, trips, travelers and rooms, although forms, deletions and    *)
(* late recounts commit in between and leave the stored holds stale.       *)
(***************************************************************************)
EXTENDS RoomInventory, FiniteSetTheorems, FunctionTheorems, TLAPS

-----------------------------------------------------------------------------
(* Counting rooms. *)

LEMMA BookingIdFinite == IsFiniteSet(BookingId)
<1> DEFINE A == (Traveler \X Trip) \X (1..MaxSeq)
           f == [x \in A |-> <<x[1][1], x[1][2], x[2]>>]
<1>1. IsFiniteSet(Traveler \X Trip)
  BY FS_Product, InventoryAssumption
<1>2. IsFiniteSet(1..MaxSeq)
  BY FS_Interval, InventoryAssumption
<1>3. IsFiniteSet(A)
  BY <1>1, <1>2, FS_Product
<1>4. f \in [A -> BookingId]
  BY DEF BookingId
<1>5. ASSUME NEW b \in BookingId PROVE \E x \in A : f[x] = b
  <2>1. PICK v \in Traveler, t \in Trip, n \in 1..MaxSeq : b = <<v, t, n>>
    BY DEF BookingId
  <2>2. <<<<v, t>>, n>> \in A
    OBVIOUS
  <2>3. f[<<<<v, t>>, n>>] = <<v, t, n>>
    BY <2>2
  <2>. QED BY <2>1, <2>2, <2>3
<1>6. f \in Surjection(A, BookingId)
  BY <1>4, <1>5 DEF Surjection
<1>. HIDE DEF A, f
<1>. QED BY <1>3, <1>6, FS_Surjection

LEMMA RoomsFinite ==
  ASSUME NEW bk, NEW t, NEW p
  PROVE  IsFiniteSet(Rooms(bk, t, p)) /\ Held(bk, t, p) \in Nat
<1>0. IsFiniteSet(1..MaxRooms)
  <2>1. 1 \in Int /\ MaxRooms \in Int
    BY InventoryAssumption
  <2>. QED BY ZenonT(40), <2>1, FS_Interval
<1>1. IsFiniteSet(BookingId \X (1..MaxRooms))
  BY ZenonT(40), <1>0, BookingIdFinite, FS_Product
<1>2. Rooms(bk, t, p) \in SUBSET (BookingId \X (1..MaxRooms))
  BY DEF Rooms
<1>3. IsFiniteSet(Rooms(bk, t, p))
  BY <1>1, <1>2, FS_Subset
<1>. QED BY <1>3, FS_CardinalityType DEF Held

LEMMA HeldOnTyped ==
  ASSUME NEW bk, NEW t PROVE HeldOn(bk, t) \in [Pool -> Nat]
BY RoomsFinite DEF HeldOn

LEMMA ReconciledTyped ==
  ASSUME TypeOK, NEW bk, NEW ts
  PROVE  Reconciled(bk, ts) \in [Trip -> TripRow \cup {None}]
<1>1. ASSUME NEW t \in Trip, trip[t] # None
      PROVE  [trip[t] EXCEPT !.holds = HeldOn(bk, t)] \in TripRow
  <2>1. trip[t] \in TripRow
    BY <1>1 DEF TypeOK
  <2>. QED BY <2>1, HeldOnTyped DEF TripRow
<1>. QED BY <1>1 DEF Reconciled, TypeOK

\* A new booking adds its own rooms to those held on its trip, and no others.
LEMMA HeldGrows ==
  ASSUME NEW bk, NEW b \in BookingId, NEW row \in BookingRow, bk[b] = None,
         bk \in [BookingId -> BookingRow \cup {None}],
         row.status # "Cancelled", NEW p \in Pool
  PROVE  Held([bk EXCEPT ![b] = row], row.trip, p)
            = Held(bk, row.trip, p) + row.demand.rooms[p]
<1> DEFINE new == [bk EXCEPT ![b] = row]
           t   == row.trip
           k   == row.demand.rooms[p]
           own == {b} \X (1..k)
<1>1. k \in 0..MaxRooms
  BY InventoryAssumption DEF BookingRow, DemandType
<1>2. \A c \in BookingId \ {b} : new[c] = bk[c]
  OBVIOUS
<1>3. new[b] = row /\ row # None
  BY NoneAssumption
<1>4. Holding(new, t) = Holding(bk, t) \cup {b} /\ b \notin Holding(bk, t)
  BY <1>2, <1>3 DEF Holding, OnTrip
<1>5. Rooms(new, t, p) = Rooms(bk, t, p) \cup own
  <2>1. ASSUME NEW r \in BookingId \X (1..MaxRooms)
        PROVE  r \in Rooms(new, t, p) <=> r \in Rooms(bk, t, p) \cup own
    <3>1. CASE r[1] = b
      <4>1. r \in own <=> r[2] <= k
        BY <1>1, <3>1, InventoryAssumption
      <4>. QED BY <4>1, <3>1, <1>3, <1>4 DEF Rooms
    <3>2. CASE r[1] # b
      <4>1. r[1] \in BookingId \ {b} /\ r \notin own
        BY <3>2
      <4>2. new[r[1]] = bk[r[1]]
        BY <4>1, <1>2
      <4>. QED BY <4>1, <4>2, <1>4 DEF Rooms
    <3>. QED BY <3>1, <3>2
  <2>2. own \subseteq BookingId \X (1..MaxRooms)
    BY <1>1, InventoryAssumption
  <2>3. Rooms(new, t, p) \subseteq BookingId \X (1..MaxRooms)
        /\ Rooms(bk, t, p) \subseteq BookingId \X (1..MaxRooms)
    BY DEF Rooms
  <2>. QED BY <2>1, <2>2, <2>3
<1>6. Rooms(bk, t, p) \cap own = {}
  BY <1>4 DEF Rooms
<1>7. k \in Nat
  BY <1>1, InventoryAssumption
<1>8. IsFiniteSet(own) /\ Cardinality(own) = k
  <2>1. IsFiniteSet({b}) /\ Cardinality({b}) = 1
    BY FS_Singleton
  <2>. HIDE DEF k
  <2>2. IsFiniteSet(1..k) /\ Cardinality(1..k) = k
    BY <1>7, FS_Interval
  <2>3. IsFiniteSet(own) /\ Cardinality(own) = 1 * k
    BY ZenonT(40), <2>1, <2>2, FS_Product
  <2>. QED BY <2>3, <1>7
<1>. HIDE DEF k, own
<1>9. Cardinality(Rooms(bk, t, p) \cup own)
        = Cardinality(Rooms(bk, t, p)) + Cardinality(own) - Cardinality({})
  <2>1. IsFiniteSet(Rooms(bk, t, p))
    BY RoomsFinite
  <2>. QED BY <2>1, <1>6, <1>8, FS_Union
<1>10. Held(bk, t, p) \in Nat
  BY RoomsFinite
<1>11. Held(new, t, p) = Held(bk, t, p) + k - Cardinality({})
  BY <1>5, <1>8, <1>9 DEF Held
<1>12. Held(new, t, p) = Held(bk, t, p) + k
  <2>1. Cardinality({}) = 0
    BY FS_EmptySet
  <2>. QED BY <1>7, <1>10, <1>11, <2>1
<1>. QED BY <1>12 DEF k

-----------------------------------------------------------------------------
(* Type correctness, one lemma per kind of action. *)

LEMMA ServiceTyped ==
  ASSUME TypeOK, Service
  PROVE  TypeOK'
<1>1. ASSUME NEW t \in Trip, CreateTrip(t) PROVE TypeOK'
  <2>1. PICK c \in Capacity, o \in BOOLEAN :
          trip' = [trip EXCEPT ![t] = [open |-> o, capacity |-> c,
                                       holds |-> [p \in Pool |-> 0]]]
    BY <1>1 DEF CreateTrip
  <2>2. [open |-> o, capacity |-> c, holds |-> [p \in Pool |-> 0]] \in TripRow
    BY DEF TripRow
  <2>3. trip' \in [Trip -> TripRow \cup {None}]
    BY <2>1, <2>2 DEF TypeOK
  <2>. QED BY <1>1, <2>3 DEF CreateTrip, TypeOK
<1>2. ASSUME NEW t \in Trip, EditTrip(t) PROVE TypeOK'
  <2>1. PICK c \in Capacity, o \in BOOLEAN :
          trip' = [trip EXCEPT ![t] = [@ EXCEPT !.open = o, !.capacity = c]]
    BY <1>2 DEF EditTrip
  <2>2. trip[t] \in TripRow
    BY <1>2 DEF EditTrip, TypeOK
  <2>3. [trip[t] EXCEPT !.open = o, !.capacity = c] \in TripRow
    BY <2>2 DEF TripRow
  <2>4. trip' \in [Trip -> TripRow \cup {None}]
    BY <2>1, <2>3 DEF TypeOK
  <2>. QED BY <1>2, <2>4 DEF EditTrip, TypeOK
<1>3. ASSUME NEW ts, Reconcile(ts) PROVE TypeOK'
  BY <1>3, ReconciledTyped DEF Reconcile, TypeOK
<1>4. ASSUME NEW v \in Traveler, NEW t \in Trip, NEW d \in Demand, NEW s \in Session,
             RepeatBooking(v, t, d, s)
      PROVE  TypeOK'
  BY <1>4, ReconciledTyped DEF RepeatBooking, TypeOK
<1>5. ASSUME NEW v \in Traveler, NEW t \in Trip, NEW d \in Demand, NEW s \in Session,
             NEW l \in Lead \cup {None}, CreateBooking(v, t, d, s, l)
      PROVE  TypeOK'
  <2>1. PICK n \in 1..MaxSeq, st \in Target \cap {"Draft", "Waiting Customer"} :
          /\ booking' = [booking EXCEPT ![<<v, t, n>>] =
                [trip |-> t, status |-> st, demand |-> d, session |-> s, lead |-> l]]
          /\ trip' = Reconciled(booking', {t})
          /\ lastBooking' = [lastBooking EXCEPT ![v] = <<v, t, n>>]
          /\ leadBooking' = [k \in Lead |-> IF k = l THEN <<v, t, n>> ELSE leadBooking[k]]
    BY <1>5 DEF CreateBooking
  <2>2. <<v, t, n>> \in BookingId
    BY DEF BookingId
  <2>3. [trip |-> t, status |-> st, demand |-> d, session |-> s, lead |-> l] \in BookingRow
    BY InventoryAssumption DEF BookingRow
  <2>4. booking' \in [BookingId -> BookingRow \cup {None}]
    BY <2>1, <2>2, <2>3 DEF TypeOK
  <2>5. trip' \in [Trip -> TripRow \cup {None}]
    BY <2>1, ReconciledTyped
  <2>6. lastBooking' \in [Traveler -> BookingId \cup {None}]
    BY <2>1, <2>2 DEF TypeOK
  <2>7. leadBooking' \in [Lead -> BookingId \cup {None}]
    BY <2>1, <2>2 DEF TypeOK
  <2>. QED BY <1>5, <2>4, <2>5, <2>6, <2>7 DEF CreateBooking, TypeOK
<1>6. ASSUME NEW b \in BookingId, NEW s \in Target, UpdateStatus(b, s)
      PROVE  TypeOK'
  <2>1. booking[b] \in BookingRow
    BY <1>6 DEF UpdateStatus, TypeOK
  <2>2. [booking[b] EXCEPT !.status = s] \in BookingRow
    BY <2>1, InventoryAssumption DEF BookingRow
  <2>3. booking' \in [BookingId -> BookingRow \cup {None}]
    BY <1>6, <2>2 DEF UpdateStatus, TypeOK
  <2>4. trip' \in [Trip -> TripRow \cup {None}]
    BY <1>6, ReconciledTyped DEF UpdateStatus
  <2>. QED BY <1>6, <2>3, <2>4 DEF UpdateStatus, TypeOK
<1>. QED BY <1>1, <1>2, <1>3, <1>4, <1>5, <1>6 DEF Service

LEMMA FormEffect ==
  ASSUME TypeOK, NEW e \in Employee, CommitForm(e)
  PROVE  \E b \in BookingId, row \in BookingRow :
            /\ booking[b] # None /\ booking' = [booking EXCEPT ![b] = row]
            /\ row.demand = booking[b].demand
<1> DEFINE w   == work[e]
           old == booking[w.booking]
           row == [old EXCEPT !.status = IF w.status = None THEN old.status ELSE w.status,
                              !.trip = IF w.moves THEN w.trip ELSE old.trip]
<1>1. w \in Form /\ w.booking \in BookingId
  BY DEF CommitForm, Form
<1>2. old \in BookingRow /\ old # None
  BY <1>1 DEF CommitForm, TypeOK
<1>3. w.status \in Status \cup {None} /\ w.trip \in Trip \cup {None}
  BY <1>1 DEF Form
<1>4. row \in BookingRow /\ row.demand = old.demand
  BY <1>2, <1>3 DEF BookingRow
<1>5. booking' = [booking EXCEPT ![w.booking] = row]
  BY DEF CommitForm
<1>. QED BY <1>1, <1>2, <1>4, <1>5

LEMMA RequestTyped ==
  ASSUME TypeOK, NEW e \in Employee, Request(e)
  PROVE  TypeOK'
<1>1. ASSUME NEW b \in BookingId, NEW s \in Target \cup {None}, NEW moves \in BOOLEAN,
             NEW t \in Trip \cup {None}, SubmitForm(e, b, s, moves, t)
      PROVE  TypeOK'
  <2>1. [op |-> "form", booking |-> b, status |-> s, moves |-> moves, trip |-> t] \in Work
    BY InventoryAssumption DEF Work, Form
  <2>2. work' \in [Employee -> Work \cup {None}]
    BY <1>1, <2>1 DEF SubmitForm, TypeOK
  <2>. QED BY <1>1, <2>2 DEF SubmitForm, TypeOK
<1>2. ASSUME NEW b \in BookingId, SubmitDelete(e, b) PROVE TypeOK'
  <2>1. booking[b] \in BookingRow
    BY <1>2 DEF SubmitDelete, TypeOK
  <2>2. [op |-> "delete", booking |-> b, trip |-> booking[b].trip,
         lead |-> booking[b].lead] \in Work
    BY <2>1 DEF Work, Delete, BookingRow
  <2>3. work' \in [Employee -> Work \cup {None}]
    BY <1>2, <2>2 DEF SubmitDelete, TypeOK
  <2>. QED BY <1>2, <2>3 DEF SubmitDelete, TypeOK
<1>3. ASSUME NEW t \in Trip, SubmitDrop(e, t) PROVE TypeOK'
  <2>1. [op |-> "drop", trip |-> t] \in Work
    BY DEF Work, Drop
  <2>. QED BY <1>3, <2>1 DEF SubmitDrop, TypeOK
<1>4. CASE CommitForm(e)
  <2>1. booking' \in [BookingId -> BookingRow \cup {None}]
    BY <1>4, FormEffect DEF TypeOK
  <2>. QED BY <1>4, <2>1 DEF CommitForm, TypeOK
<1>5. CASE CommitDelete(e)
  <2> DEFINE b == work[e].booking
  <2>1. work[e] \in Delete /\ b \in BookingId /\ b[1] \in Traveler
        /\ work[e].trip \in Trip \cup {None}
    BY <1>5 DEF CommitDelete, Delete, BookingId
  <2>2. booking' \in [BookingId -> BookingRow \cup {None}]
    BY <1>5, <2>1 DEF CommitDelete, TypeOK
  <2>3. PICK c \in Replacements({o \in Others(b) : o[1] = b[1]}) :
          lastBooking' = [lastBooking EXCEPT ![b[1]] = c]
    BY <1>5 DEF CommitDelete
  <2>4. PICK k \in Replacements({o \in Others(b) : booking[o].lead = work[e].lead}) :
          leadBooking' = [x \in Lead |-> IF x = work[e].lead THEN k ELSE leadBooking[x]]
    BY <1>5 DEF CommitDelete
  <2>5. c \in BookingId \cup {None} /\ k \in BookingId \cup {None}
    BY <2>3, <2>4 DEF Replacements, Others
  <2>6. lastBooking' \in [Traveler -> BookingId \cup {None}]
        /\ leadBooking' \in [Lead -> BookingId \cup {None}]
    BY <2>1, <2>3, <2>4, <2>5 DEF TypeOK
  <2>7. work' \in [Employee -> Work \cup {None}]
    <3>1. work[e].trip # None => [op |-> "recount", trip |-> work[e].trip] \in Work
      BY <2>1 DEF Work, Recount
    <3>. QED BY <1>5, <3>1 DEF CommitDelete, TypeOK
  <2>. QED BY <1>5, <2>2, <2>6, <2>7 DEF CommitDelete, TypeOK
<1>6. CASE CommitDrop(e)
  <2>1. work[e].trip \in Trip
    BY <1>6 DEF CommitDrop, Drop
  <2>2. ASSUME NEW b \in OnTrip(booking, work[e].trip)
        PROVE  [booking[b] EXCEPT !.trip = None] \in BookingRow
    <3>1. booking[b] \in BookingRow
      BY <2>2 DEF OnTrip, TypeOK
    <3>. QED BY <3>1 DEF BookingRow
  <2>3. booking' \in [BookingId -> BookingRow \cup {None}]
    BY <1>6, <2>2 DEF CommitDrop, TypeOK
  <2>4. trip' \in [Trip -> TripRow \cup {None}]
    BY <1>6, <2>1 DEF CommitDrop, TypeOK
  <2>. QED BY <1>6, <2>3, <2>4 DEF CommitDrop, TypeOK
<1>7. CASE ReadHolds(e)
  <2>1. work[e].trip \in Trip
    BY <1>7 DEF ReadHolds, Recount
  <2>2. [op |-> "holds", trip |-> work[e].trip,
         holds |-> HeldOn(booking, work[e].trip)] \in Work
    BY <2>1, HeldOnTyped DEF Work, Holds
  <2>. QED BY <1>7, <2>2 DEF ReadHolds, TypeOK
<1>8. CASE WriteHolds(e)
  <2>1. work[e].trip \in Trip /\ work[e].holds \in [Pool -> Nat]
    BY <1>8 DEF WriteHolds, Holds
  <2>2. trip[work[e].trip] # None =>
          [trip[work[e].trip] EXCEPT !.holds = work[e].holds] \in TripRow
    <3>1. trip[work[e].trip] \in TripRow \cup {None}
      BY <2>1 DEF TypeOK
    <3>. QED BY <2>1, <3>1 DEF TripRow
  <2>3. trip' \in [Trip -> TripRow \cup {None}]
    BY <1>8, <2>1, <2>2 DEF WriteHolds, TypeOK
  <2>. QED BY <1>8, <2>3 DEF WriteHolds, TypeOK
<1>9. CASE Rollback(e)
  BY <1>9 DEF Rollback, TypeOK
<1>. QED BY <1>1, <1>2, <1>3, <1>4, <1>5, <1>6, <1>7, <1>8, <1>9 DEF Request

LEMMA StepTyped ==
  ASSUME TypeOK, [Next]_vars
  PROVE  TypeOK'
<1>1. CASE UNCHANGED vars
  BY <1>1 DEF vars, TypeOK
<1>. QED BY <1>1, ServiceTyped, RequestTyped DEF Next

\* The rows, pointers and pending writes keep their types for any constants.
THEOREM TypeCorrect == Spec => []TypeOK
<1>1. Init => TypeOK
  BY DEF Init, TypeOK
<1>2. TypeOK /\ [Next]_vars => TypeOK'
  BY StepTyped
<1>. QED BY <1>1, <1>2, PTL DEF Spec

-----------------------------------------------------------------------------
(* What create_booking commits. *)

LEMMA CreateEffect ==
  ASSUME TypeOK, NEW v \in Traveler, NEW t \in Trip, NEW d \in Demand,
         NEW s \in Session, NEW l \in Lead \cup {None}, CreateBooking(v, t, d, s, l)
  PROVE  \E b \in BookingId, row \in BookingRow :
            /\ booking[b] = None /\ b[1] = v
            /\ row.trip = t /\ row.demand = d /\ row.status # "Cancelled"
            /\ booking' = [booking EXCEPT ![b] = row]
            /\ lastBooking' = [lastBooking EXCEPT ![v] = b]
            /\ trip'[t].capacity = trip[t].capacity
<1>1. PICK n \in 1..MaxSeq, st \in Target \cap {"Draft", "Waiting Customer"} :
        /\ booking[<<v, t, n>>] = None
        /\ booking' = [booking EXCEPT ![<<v, t, n>>] =
              [trip |-> t, status |-> st, demand |-> d, session |-> s, lead |-> l]]
        /\ trip' = Reconciled(booking', {t})
        /\ lastBooking' = [lastBooking EXCEPT ![v] = <<v, t, n>>]
  BY DEF CreateBooking
<1> DEFINE b   == <<v, t, n>>
           row == [trip |-> t, status |-> st, demand |-> d, session |-> s, lead |-> l]
<1>2. b \in BookingId /\ b[1] = v
  BY DEF BookingId
<1>3. row \in BookingRow /\ row.status # "Cancelled"
  BY InventoryAssumption DEF BookingRow
<1>4. trip[t] \in TripRow /\ trip[t] # None
  BY DEF CreateBooking, TypeOK
<1>5. trip'[t].capacity = trip[t].capacity
  BY <1>1, <1>4 DEF Reconciled, TripRow
<1>. QED BY <1>1, <1>2, <1>3, <1>5

\* No other step makes a booking, and only a deletion ends one.
LEMMA RowsStay ==
  ASSUME TypeOK, [Next]_vars,
         ~ \E v \in Traveler, t \in Trip, d \in Demand, s \in Session,
              l \in Lead \cup {None} : CreateBooking(v, t, d, s, l)
  PROVE  /\ \A b \in BookingId : ~ Created(b)
         /\ \/ /\ lastBooking' = lastBooking
               /\ \A b \in BookingId : booking[b] # None => booking'[b] # None
            \/ \E e \in Employee : CommitDelete(e)
<1>1. CASE UNCHANGED vars
  BY <1>1 DEF vars, Created
<1>2. CASE booking' = booking /\ lastBooking' = lastBooking
  BY <1>2 DEF Created
<1>3. ASSUME NEW b \in BookingId, NEW s \in Target, UpdateStatus(b, s)
      PROVE  /\ lastBooking' = lastBooking
             /\ \A c \in BookingId : booking[c] # None <=> booking'[c] # None
  <2>1. booking[b] \in BookingRow /\ booking[b] # None
    BY <1>3 DEF UpdateStatus, TypeOK
  <2>2. [booking[b] EXCEPT !.status = s] \in BookingRow
    BY <2>1, InventoryAssumption DEF BookingRow
  <2>3. booking' = [booking EXCEPT ![b] = [booking[b] EXCEPT !.status = s]]
    BY <1>3 DEF UpdateStatus
  <2>. QED BY <1>3, <2>1, <2>2, <2>3, NoneAssumption DEF UpdateStatus, TypeOK
<1>4. ASSUME NEW e \in Employee, CommitForm(e)
      PROVE  /\ lastBooking' = lastBooking
             /\ \A c \in BookingId : booking[c] # None <=> booking'[c] # None
  <2>1. PICK b \in BookingId, row \in BookingRow :
           booking[b] # None /\ booking' = [booking EXCEPT ![b] = row]
    BY <1>4, FormEffect
  <2>. QED BY <1>4, <2>1, NoneAssumption DEF CommitForm, TypeOK
<1>5. ASSUME NEW e \in Employee, CommitDrop(e)
      PROVE  /\ lastBooking' = lastBooking
             /\ \A c \in BookingId : booking[c] # None <=> booking'[c] # None
  <2>1. ASSUME NEW b \in BookingId PROVE booking[b] # None <=> booking'[b] # None
    <3>1. CASE b \in OnTrip(booking, work[e].trip)
      <4>1. booking[b] # None /\ booking[b] \in BookingRow
        BY <3>1 DEF OnTrip, TypeOK
      <4>2. [booking[b] EXCEPT !.trip = None] \in BookingRow
        BY <4>1 DEF BookingRow
      <4>3. booking'[b] = [booking[b] EXCEPT !.trip = None]
        BY <1>5, <3>1 DEF CommitDrop
      <4>. QED BY <4>1, <4>2, <4>3, NoneAssumption
    <3>2. CASE b \notin OnTrip(booking, work[e].trip)
      BY <1>5, <3>2 DEF CommitDrop
    <3>. QED BY <3>1, <3>2
  <2>. QED BY <1>5, <2>1 DEF CommitDrop
<1>6. ASSUME NEW e \in Employee, CommitDelete(e)
      PROVE  \A b \in BookingId : ~ Created(b)
  BY <1>6 DEF CommitDelete, Created, TypeOK
<1>7. ASSUME Service PROVE (booking' = booking /\ lastBooking' = lastBooking)
                           \/ \E b \in BookingId, s \in Target : UpdateStatus(b, s)
  BY <1>7 DEF Service, CreateTrip, EditTrip, Reconcile, RepeatBooking
<1>8. ASSUME NEW e \in Employee, Request(e)
      PROVE  (booking' = booking /\ lastBooking' = lastBooking)
             \/ CommitForm(e) \/ CommitDrop(e) \/ CommitDelete(e)
  BY <1>8 DEF Request, SubmitForm, SubmitDelete, SubmitDrop, ReadHolds, WriteHolds, Rollback
<1>9. CASE Service
  BY <1>2, <1>3, <1>7, <1>9 DEF Created
<1>10. CASE \E e \in Employee : Request(e)
  BY <1>2, <1>4, <1>5, <1>6, <1>8, <1>10 DEF Created
<1>. QED BY <1>1, <1>9, <1>10 DEF Next

-----------------------------------------------------------------------------
(* Rooms. *)

LEMMA StepFits ==
  ASSUME TypeOK, [Next]_vars, NEW x \in BookingId, Created(x),
         NEW p \in TypePool, booking'[x].demand.rooms[p] > 0
  PROVE  Held(booking', booking'[x].trip, p) <= trip'[booking'[x].trip].capacity[p]
<1>1. PICK v \in Traveler, t \in Trip, d \in Demand, s \in Session,
           l \in Lead \cup {None} : CreateBooking(v, t, d, s, l)
  BY RowsStay
<1>2. PICK b \in BookingId, row \in BookingRow :
        /\ booking[b] = None
        /\ row.trip = t /\ row.demand = d /\ row.status # "Cancelled"
        /\ booking' = [booking EXCEPT ![b] = row]
        /\ trip'[t].capacity = trip[t].capacity
  BY <1>1, CreateEffect
<1>3. x = b
  BY <1>2 DEF Created, TypeOK
<1>4. booking'[x] = row
  BY <1>2, <1>3 DEF TypeOK
<1>5. p \in Pool
  BY DEF Pool
<1>6. Held(booking', t, p) = Held(booking, t, p) + d.rooms[p]
  BY <1>2, <1>5, HeldGrows DEF TypeOK
<1>7. d.rooms[p] <= CheckedRow(t).capacity[p] - CheckedRow(t).holds[p]
  BY <1>1, <1>2, <1>4 DEF CreateBooking, Fits, Available
<1>8. trip[t] \in TripRow /\ trip[t] # None
  BY <1>1 DEF CreateBooking, TypeOK
<1>9. CheckedRow(t) = [trip[t] EXCEPT !.holds = HeldOn(booking, t)]
  BY <1>8 DEF CheckedRow, Reconciled
<1>10. CheckedRow(t).capacity = trip[t].capacity
       /\ CheckedRow(t).holds[p] = Held(booking, t, p)
  BY <1>5, <1>8, <1>9 DEF TripRow, HeldOn
<1>11. trip[t].capacity[p] \in Nat /\ d.rooms[p] \in Int /\ Held(booking, t, p) \in Nat
  <2>1. trip[t].capacity \in CapacityType
    BY <1>8, InventoryAssumption DEF TripRow
  <2>2. d.rooms[p] \in 0..MaxRooms
    BY <1>5, InventoryAssumption DEF DemandType
  <2>. QED BY <2>1, <2>2, RoomsFinite, InventoryAssumption DEF CapacityType
<1>12. Held(booking, t, p) + d.rooms[p] <= trip[t].capacity[p]
  BY <1>7, <1>10, <1>11
<1>. QED BY <1>2, <1>4, <1>6, <1>12

\* A booking is only made within the rooms its trip has at that moment, for any
\* number of rooms, bookings and requests in progress (create_booking).
THEOREM CreationFitsHolds == Spec => CreationFits
<1>1. TypeOK /\ [Next]_vars => [\A b \in BookingId : Created(b) =>
          LET t == booking'[b].trip IN
          \A p \in TypePool : booking'[b].demand.rooms[p] > 0 =>
             Held(booking', t, p) <= trip'[t].capacity[p]]_vars
  BY StepFits
<1>. QED BY <1>1, TypeCorrect, PTL DEF Spec, CreationFits

-----------------------------------------------------------------------------
(* The last booking of a traveler. *)

\* The pointer is to a booking of the traveler, so a deletion that takes it
\* away rewrites it in the same transaction.
LastBookingInv ==
  \A v \in Traveler : lastBooking[v] # None =>
     lastBooking[v][1] = v /\ booking[lastBooking[v]] # None

LEMMA StepLastBooking ==
  ASSUME TypeOK, LastBookingInv, [Next]_vars
  PROVE  LastBookingInv'
<1>1. ASSUME NEW v \in Traveler, NEW t \in Trip, NEW d \in Demand, NEW s \in Session,
             NEW l \in Lead \cup {None}, CreateBooking(v, t, d, s, l)
      PROVE  LastBookingInv'
  <2>1. PICK b \in BookingId, row \in BookingRow :
          /\ b[1] = v /\ booking' = [booking EXCEPT ![b] = row]
          /\ lastBooking' = [lastBooking EXCEPT ![v] = b]
    BY <1>1, CreateEffect
  <2>2. \A c \in BookingId : booking[c] # None \/ c = b => booking'[c] # None
    BY <2>1, NoneAssumption DEF TypeOK
  <2>3. ASSUME NEW u \in Traveler, lastBooking'[u] # None
        PROVE  lastBooking'[u][1] = u /\ booking'[lastBooking'[u]] # None
    <3>1. CASE u = v
      BY <2>1, <2>2, <3>1 DEF TypeOK
    <3>2. CASE u # v
      <4>1. lastBooking'[u] = lastBooking[u] /\ lastBooking[u] \in BookingId
        BY <2>1, <2>3, <3>2 DEF TypeOK
      <4>. QED BY <4>1, <2>2, <2>3 DEF LastBookingInv
    <3>. QED BY <3>1, <3>2
  <2>. QED BY <2>3 DEF LastBookingInv
<1>2. ASSUME NEW e \in Employee, CommitDelete(e) PROVE LastBookingInv'
  <2> DEFINE b == work[e].booking
  <2>1. b \in BookingId /\ b[1] \in Traveler
    BY <1>2 DEF CommitDelete, Delete, BookingId
  <2>2. PICK c \in Replacements({o \in Others(b) : o[1] = b[1]}) :
          lastBooking' = [lastBooking EXCEPT ![b[1]] = c]
    BY <1>2 DEF CommitDelete
  <2>3. booking' = [booking EXCEPT ![b] = None]
    BY <1>2 DEF CommitDelete
  <2>4. \A x \in BookingId \ {b} : booking'[x] = booking[x]
    BY <2>3 DEF TypeOK
  <2>5. c # None => c \in BookingId \ {b} /\ booking[c] # None /\ c[1] = b[1]
    BY <2>2 DEF Replacements, Others
  <2>6. ASSUME NEW u \in Traveler, lastBooking'[u] # None
        PROVE  lastBooking'[u][1] = u /\ booking'[lastBooking'[u]] # None
    <3>1. CASE u = b[1]
      <4>1. lastBooking'[u] = c
        BY <2>2, <3>1 DEF TypeOK
      <4>. QED BY <4>1, <2>4, <2>5, <2>6, <3>1
    <3>2. CASE u # b[1]
      <4>1. lastBooking'[u] = lastBooking[u] /\ lastBooking[u] \in BookingId
        BY <2>2, <2>6, <3>2 DEF TypeOK
      <4>2. lastBooking[u][1] = u /\ booking[lastBooking[u]] # None
        BY <4>1, <2>6 DEF LastBookingInv
      <4>3. lastBooking[u] # b
        BY <4>2, <3>2
      <4>. QED BY <4>1, <4>2, <4>3, <2>4
    <3>. QED BY <3>1, <3>2
  <2>. QED BY <2>6 DEF LastBookingInv
<1>3. CASE /\ lastBooking' = lastBooking
           /\ \A b \in BookingId : booking[b] # None => booking'[b] # None
  BY <1>3 DEF LastBookingInv, TypeOK
<1>. QED BY <1>1, <1>2, <1>3, RowsStay

\* The last booking of a traveler exists, although two employees may delete one
\* booking around the creation of another with its number (bookings.delete).
THEOREM LastBookingIsLiveHolds == Spec => []LastBookingIsLive
<1>1. Init => LastBookingInv
  BY DEF Init, LastBookingInv
<1>2. TypeOK /\ LastBookingInv /\ [Next]_vars => LastBookingInv'
  BY StepLastBooking
<1>3. LastBookingInv => LastBookingIsLive
  BY DEF LastBookingInv, LastBookingIsLive
<1>. QED BY <1>1, <1>2, <1>3, TypeCorrect, PTL DEF Spec
-----------------------------------------------------------------------------
(* One request at a time.  Without overlap nothing happens between what a  *)
(* handler reads and what it writes, so the trip a form looked up and the  *)
(* booking a deletion read are there when it commits.                      *)

OneWorks == \A d, e \in Employee : work[d] # None /\ work[e] # None => d = e

\* The booking of a lead is there and names the lead.
LeadsPoint ==
  \A l \in Lead : leadBooking[l] # None =>
     /\ booking[leadBooking[l]] # None
     /\ booking[leadBooking[l]].lead = l

FormsSee ==
  \A e \in Employee : (work[e] \in Form /\ work[e].moves /\ work[e].trip # None) =>
     trip[work[e].trip] # None

DeletesSee ==
  \A e \in Employee : work[e] \in Delete =>
     /\ booking[work[e].booking] # None
     /\ booking[work[e].booking].lead = work[e].lead

SoloInv == OneWorks /\ LeadsPoint /\ NoOrphanedBookings /\ FormsSee /\ DeletesSee

LEMMA WorkKinds ==
  /\ None \notin Form \cup Delete
  /\ Form \cap Delete = {} /\ Form \cap (Recount \cup Holds \cup Drop) = {}
  /\ Delete \cap (Recount \cup Holds \cup Drop) = {}
BY WorkAssumption DEF Work, Form, Delete, Recount, Holds, Drop

\* A recount takes no trip away.
LEMMA TripsStay ==
  ASSUME TypeOK, NEW bk, NEW ts, NEW t \in Trip, trip[t] # None
  PROVE  Reconciled(bk, ts)[t] # None
<1>1. trip[t] \in TripRow
  BY DEF TypeOK
<1>2. [trip[t] EXCEPT !.holds = HeldOn(bk, t)] \in TripRow
  BY <1>1, HeldOnTyped DEF TripRow
<1>. QED BY <1>2, NoneAssumption DEF Reconciled

\* With the bookings, their trips and their leads in place, the pointers hold.
LEMMA RowsKept ==
  ASSUME TypeOK, LeadsPoint, NoOrphanedBookings, UNCHANGED leadBooking,
         \A t \in Trip : trip[t] # None => trip'[t] # None,
         \A b \in BookingId :
            /\ booking[b] # None <=> booking'[b] # None
            /\ booking[b] # None => /\ booking'[b].lead = booking[b].lead
                                    /\ booking'[b].trip = booking[b].trip
  PROVE  LeadsPoint' /\ NoOrphanedBookings'
<1>1. \A b \in BookingId : booking[b] # None => booking[b].trip \in Trip \cup {None}
  BY DEF TypeOK, BookingRow
<1>2. LeadsPoint'
  BY DEF LeadsPoint, TypeOK
<1>3. NoOrphanedBookings'
  BY <1>1 DEF NoOrphanedBookings
<1>. QED BY <1>2, <1>3

LEMMA IdleSolo ==
  ASSUME \A e \in Employee : work[e] = None, UNCHANGED work,
         LeadsPoint', NoOrphanedBookings'
  PROVE  SoloInv'
BY WorkKinds DEF SoloInv, OneWorks, FormsSee, DeletesSee

LEMMA ServiceSolo ==
  ASSUME TypeOK, SoloInv, ~Overlap, Service
  PROVE  SoloInv'
<1>0. LeadsPoint /\ NoOrphanedBookings
  BY DEF SoloInv
<1>1. ASSUME NEW t \in Trip, CreateTrip(t) \/ EditTrip(t) PROVE SoloInv'
  <2>1. \A e \in Employee : work[e] = None
    BY <1>1 DEF CreateTrip, EditTrip, Turn
  <2>2. TypeOK'
    BY <1>1, ServiceTyped DEF Service
  <2>3. \A q \in Trip : trip[q] # None => trip'[q] # None
    <3>1. trip'[t] \in TripRow
      <4>1. CASE CreateTrip(t)
        <5>1. PICK c \in Capacity, o \in BOOLEAN :
                trip' = [trip EXCEPT ![t] = [open |-> o, capacity |-> c,
                                             holds |-> [p \in Pool |-> 0]]]
          BY <4>1 DEF CreateTrip
        <5>2. trip'[t] = [open |-> o, capacity |-> c, holds |-> [p \in Pool |-> 0]]
          BY <5>1 DEF TypeOK
        <5>. QED BY <5>2 DEF TripRow
      <4>2. CASE EditTrip(t)
        <5>1. PICK c \in Capacity, o \in BOOLEAN :
                trip' = [trip EXCEPT ![t] = [@ EXCEPT !.open = o, !.capacity = c]]
          BY <4>2 DEF EditTrip
        <5>2. trip[t] \in TripRow
          BY <4>2 DEF EditTrip, TypeOK
        <5>3. trip'[t] = [trip[t] EXCEPT !.open = o, !.capacity = c]
          BY <5>1 DEF TypeOK
        <5>. QED BY <5>2, <5>3 DEF TripRow
      <4>. QED BY <1>1, <4>1, <4>2
    <3>2. \A q \in Trip \ {t} : trip'[q] = trip[q]
      BY <1>1 DEF CreateTrip, EditTrip, TypeOK
    <3>. QED BY <3>1, <3>2, NoneAssumption
  <2>4. UNCHANGED <<booking, leadBooking, work>>
    BY <1>1 DEF CreateTrip, EditTrip
  <2>5. LeadsPoint' /\ NoOrphanedBookings'
    BY <1>0, <2>3, <2>4, RowsKept
  <2>. QED BY <2>1, <2>4, <2>5, IdleSolo
<1>2. ASSUME NEW ts, Reconcile(ts) PROVE SoloInv'
  <2>1. /\ \A e \in Employee : work[e] = None
        /\ UNCHANGED <<booking, leadBooking, work>>
        /\ \A q \in Trip : trip[q] # None => trip'[q] # None
    BY <1>2, TripsStay DEF Reconcile, Turn
  <2>2. LeadsPoint' /\ NoOrphanedBookings'
    BY <1>0, <2>1, RowsKept
  <2>. QED BY <2>1, <2>2, IdleSolo
<1>3. ASSUME NEW v \in Traveler, NEW t \in Trip, NEW d \in Demand, NEW s \in Session,
             RepeatBooking(v, t, d, s)
      PROVE  SoloInv'
  <2>1. /\ \A e \in Employee : work[e] = None
        /\ UNCHANGED <<booking, leadBooking, work>>
        /\ \A q \in Trip : trip[q] # None => trip'[q] # None
    BY <1>3, TripsStay DEF RepeatBooking, Turn
  <2>2. LeadsPoint' /\ NoOrphanedBookings'
    BY <1>0, <2>1, RowsKept
  <2>. QED BY <2>1, <2>2, IdleSolo
<1>4. ASSUME NEW v \in Traveler, NEW t \in Trip, NEW d \in Demand, NEW s \in Session,
             NEW l \in Lead \cup {None}, CreateBooking(v, t, d, s, l)
      PROVE  SoloInv'
  <2>1. PICK n \in 1..MaxSeq, st \in Target \cap {"Draft", "Waiting Customer"} :
          /\ booking[<<v, t, n>>] = None
          /\ booking' = [booking EXCEPT ![<<v, t, n>>] =
                [trip |-> t, status |-> st, demand |-> d, session |-> s, lead |-> l]]
          /\ trip' = Reconciled(booking', {t})
          /\ leadBooking' = [k \in Lead |-> IF k = l THEN <<v, t, n>> ELSE leadBooking[k]]
    BY <1>4 DEF CreateBooking
  <2> DEFINE b   == <<v, t, n>>
             row == [trip |-> t, status |-> st, demand |-> d, session |-> s, lead |-> l]
  <2>2. b \in BookingId /\ row.trip = t /\ row.lead = l
    BY DEF BookingId
  <2>3. row \in BookingRow
    BY InventoryAssumption DEF BookingRow
  <2>4. row # None
    BY <2>3, NoneAssumption
  <2>5. /\ \A e \in Employee : work[e] = None
        /\ UNCHANGED work
        /\ trip[t] # None
    BY <1>4 DEF CreateBooking, Turn
  <2>6. \A q \in Trip : trip[q] # None => trip'[q] # None
    BY <2>1, TripsStay
  <2> HIDE DEF b, row
  <2>7. booking[b] = None /\ booking' = [booking EXCEPT ![b] = row]
        /\ leadBooking' = [k \in Lead |-> IF k = l THEN b ELSE leadBooking[k]]
    BY <2>1 DEF b, row
  <2>8. booking'[b] = row /\ \A c \in BookingId \ {b} : booking'[c] = booking[c]
    BY <2>2, <2>7 DEF TypeOK
  <2>9. LeadsPoint'
    <3> SUFFICES ASSUME NEW k \in Lead, leadBooking'[k] # None
                 PROVE  /\ booking'[leadBooking'[k]] # None
                        /\ booking'[leadBooking'[k]].lead = k
      BY DEF LeadsPoint
    <3>1. CASE k = l
      BY <2>2, <2>4, <2>7, <2>8, <3>1
    <3>2. CASE k # l
      <4>1. leadBooking'[k] = leadBooking[k] /\ leadBooking[k] \in BookingId
        BY <2>7, <3>2 DEF TypeOK
      <4>2. booking[leadBooking[k]] # None /\ booking[leadBooking[k]].lead = k
        BY <1>0, <4>1 DEF LeadsPoint
      <4>3. leadBooking[k] # b
        BY <2>7, <4>2
      <4>. QED BY <2>8, <4>1, <4>2, <4>3
    <3>. QED BY <3>1, <3>2
  <2>10. NoOrphanedBookings'
    <3>1. \A c \in BookingId : booking[c] # None => booking[c].trip \in Trip \cup {None}
      BY DEF TypeOK, BookingRow
    <3>. QED BY <1>0, <2>2, <2>5, <2>6, <2>8, <3>1 DEF NoOrphanedBookings
  <2>. QED BY <2>5, <2>9, <2>10, IdleSolo
<1>5. ASSUME NEW b \in BookingId, NEW s \in Target, UpdateStatus(b, s)
      PROVE  SoloInv'
  <2>1. booking[b] \in BookingRow /\ booking[b] # None
    BY <1>5 DEF UpdateStatus, TypeOK
  <2> DEFINE row == [booking[b] EXCEPT !.status = s]
  <2>2. row \in BookingRow /\ row.lead = booking[b].lead /\ row.trip = booking[b].trip
    BY <2>1, InventoryAssumption DEF BookingRow
  <2>3. booking' = [booking EXCEPT ![b] = row]
    BY <1>5 DEF UpdateStatus
  <2> HIDE DEF row
  <2>4. booking'[b] = row /\ \A c \in BookingId \ {b} : booking'[c] = booking[c]
    BY <2>3 DEF TypeOK
  <2>5. /\ \A e \in Employee : work[e] = None
        /\ UNCHANGED <<leadBooking, work>>
        /\ \A q \in Trip : trip[q] # None => trip'[q] # None
    BY <1>5, TripsStay DEF UpdateStatus, Turn
  <2>6. row # None
    BY <2>2, NoneAssumption
  <2>7. LeadsPoint' /\ NoOrphanedBookings'
    BY <1>0, <2>1, <2>2, <2>4, <2>5, <2>6, RowsKept
  <2>. QED BY <2>5, <2>7, IdleSolo
<1>. QED BY <1>1, <1>2, <1>3, <1>4, <1>5 DEF Service

\* A request that starts finds nobody at work and changes no row.
LEMMA StartSolo ==
  ASSUME TypeOK, SoloInv, ~Overlap, NEW e \in Employee, NEW w \in Work, Starts(e),
         work' = [work EXCEPT ![e] = w], UNCHANGED <<trip, booking, leadBooking>>,
         (w \in Form /\ w.moves /\ w.trip # None) => trip[w.trip] # None,
         w \in Delete => /\ booking[w.booking] # None
                         /\ booking[w.booking].lead = w.lead
  PROVE  SoloInv'
<1>1. work'[e] = w /\ \A d \in Employee \ {e} : work'[d] = None
  BY DEF Starts, Turn, TypeOK
<1>2. OneWorks'
  BY <1>1 DEF OneWorks
<1>3. LeadsPoint' /\ NoOrphanedBookings'
  BY DEF SoloInv, LeadsPoint, NoOrphanedBookings
<1>4. FormsSee' /\ DeletesSee'
  BY <1>1, WorkKinds DEF FormsSee, DeletesSee
<1>. QED BY <1>2, <1>3, <1>4 DEF SoloInv

\* A request that ends, or goes on to recount, leaves no form or deletion.
LEMMA EndSolo ==
  ASSUME TypeOK, SoloInv, NEW e \in Employee, work[e] # None,
         NEW w \in Recount \cup Holds \cup {None}, work' = [work EXCEPT ![e] = w],
         LeadsPoint', NoOrphanedBookings'
  PROVE  SoloInv'
<1>1. work'[e] = w /\ \A d \in Employee \ {e} : work'[d] = None
  BY DEF SoloInv, OneWorks, TypeOK
<1>2. OneWorks'
  BY <1>1 DEF OneWorks
<1>3. FormsSee' /\ DeletesSee'
  BY <1>1, WorkKinds DEF FormsSee, DeletesSee
<1>. QED BY <1>2, <1>3 DEF SoloInv

LEMMA StartsSolo ==
  ASSUME TypeOK, SoloInv, ~Overlap, NEW e \in Employee,
         \/ \E b \in BookingId, s \in Target \cup {None}, moves \in BOOLEAN,
              t \in Trip \cup {None} : SubmitForm(e, b, s, moves, t)
         \/ \E b \in BookingId : SubmitDelete(e, b)
         \/ \E t \in Trip : SubmitDrop(e, t)
  PROVE  SoloInv'
<1>1. ASSUME NEW b \in BookingId, NEW s \in Target \cup {None},
             NEW moves \in BOOLEAN, NEW t \in Trip \cup {None},
             SubmitForm(e, b, s, moves, t)
      PROVE  SoloInv'
  <2> DEFINE w == [op |-> "form", booking |-> b, status |-> s, moves |-> moves, trip |-> t]
  <2>1. w \in Form /\ w.moves = moves /\ w.trip = t
    BY InventoryAssumption DEF Form
  <2>2. moves /\ t # None => trip[t] # None
    BY <1>1 DEF SubmitForm, Selectable
  <2>3. /\ Starts(e) /\ work' = [work EXCEPT ![e] = w]
        /\ UNCHANGED <<trip, booking, leadBooking>>
    BY <1>1 DEF SubmitForm
  <2> HIDE DEF w
  <2>4. w \in Work /\ w \notin Delete
    BY <2>1, WorkKinds DEF Work
  <2>. QED BY <2>1, <2>2, <2>3, <2>4, StartSolo
<1>2. ASSUME NEW b \in BookingId, SubmitDelete(e, b) PROVE SoloInv'
  <2> DEFINE w == [op |-> "delete", booking |-> b, trip |-> booking[b].trip,
                   lead |-> booking[b].lead]
  <2>1. booking[b] \in BookingRow /\ booking[b] # None
    BY <1>2 DEF SubmitDelete, TypeOK
  <2>2. w \in Delete /\ w.booking = b /\ w.lead = booking[b].lead
    BY <2>1 DEF Delete, BookingRow
  <2>3. /\ Starts(e) /\ work' = [work EXCEPT ![e] = w]
        /\ UNCHANGED <<trip, booking, leadBooking>>
    BY <1>2 DEF SubmitDelete
  <2> HIDE DEF w
  <2>4. w \in Work /\ w \notin Form
    BY <2>2, WorkKinds DEF Work
  <2>. QED BY <2>1, <2>2, <2>3, <2>4, StartSolo
<1>3. ASSUME NEW t \in Trip, SubmitDrop(e, t) PROVE SoloInv'
  <2> DEFINE w == [op |-> "drop", trip |-> t]
  <2>1. w \in Drop
    BY DEF Drop
  <2>2. /\ Starts(e) /\ work' = [work EXCEPT ![e] = w]
        /\ UNCHANGED <<trip, booking, leadBooking>>
    BY <1>3 DEF SubmitDrop
  <2> HIDE DEF w
  <2>3. w \in Work /\ w \notin Form /\ w \notin Delete
    BY <2>1, WorkKinds DEF Work
  <2>. QED BY <2>2, <2>3, StartSolo
<1>. QED BY <1>1, <1>2, <1>3

LEMMA FormSolo ==
  ASSUME TypeOK, SoloInv, NEW e \in Employee, CommitForm(e)
  PROVE  SoloInv'
<1> DEFINE w   == work[e]
           old == booking[w.booking]
           row == [old EXCEPT !.status = IF w.status = None THEN old.status ELSE w.status,
                              !.trip = IF w.moves THEN w.trip ELSE old.trip]
<1>1. /\ w \in Form /\ w.booking \in BookingId /\ w.status \in Status \cup {None}
      /\ w.trip \in Trip \cup {None}
  BY DEF CommitForm, Form
<1>2. old \in BookingRow /\ old # None
  BY <1>1 DEF CommitForm, TypeOK
<1>3. /\ row \in BookingRow /\ row.lead = old.lead
      /\ row.trip = IF w.moves THEN w.trip ELSE old.trip
  BY <1>1, <1>2 DEF BookingRow
<1>4. booking' = [booking EXCEPT ![w.booking] = row]
  BY DEF CommitForm
<1>5. w.moves /\ w.trip # None => trip[w.trip] # None
  BY <1>1 DEF SoloInv, FormsSee
<1>6. UNCHANGED <<trip, leadBooking>> /\ work' = [work EXCEPT ![e] = None]
  BY DEF CommitForm
<1>7. w # None
  BY <1>1, WorkKinds
<1> DEFINE b == w.booking
<1>8. b \in BookingId /\ old = booking[b]
  BY <1>1
<1> HIDE DEF w, old, row, b
<1>9. /\ booking'[b] = row /\ row # None
      /\ \A c \in BookingId \ {b} : booking'[c] = booking[c]
  BY <1>3, <1>4, <1>8, NoneAssumption DEF TypeOK, b
<1>10. LeadsPoint'
  BY <1>2, <1>3, <1>6, <1>8, <1>9 DEF LeadsPoint, SoloInv, TypeOK
<1>11. NoOrphanedBookings'
  BY <1>2, <1>3, <1>5, <1>6, <1>8, <1>9 DEF NoOrphanedBookings, SoloInv
<1>. QED BY <1>6, <1>7, <1>10, <1>11, EndSolo DEF w

\* A deletion takes the pointer of the one lead that can name the booking.
LEMMA DeleteSolo ==
  ASSUME TypeOK, SoloInv, NEW e \in Employee, CommitDelete(e)
  PROVE  SoloInv'
<1> DEFINE w == work[e]
           b == w.booking
<1>1. w \in Delete /\ b \in BookingId /\ w.trip \in Trip \cup {None} /\ w # None
  BY WorkKinds DEF CommitDelete, Delete
<1>2. booking[b] # None /\ booking[b].lead = w.lead
  BY <1>1 DEF SoloInv, DeletesSee
<1>3. PICK k \in Replacements({o \in Others(b) : booking[o].lead = w.lead}) :
        leadBooking' = [x \in Lead |-> IF x = w.lead THEN k ELSE leadBooking[x]]
  BY DEF CommitDelete
<1>4. PICK next \in Recount \cup {None} : work' = [work EXCEPT ![e] = next]
  <2>1. w.trip # None => [op |-> "recount", trip |-> w.trip] \in Recount
    BY <1>1 DEF Recount
  <2>. QED BY <2>1 DEF CommitDelete
<1>5. booking'[b] = None /\ \A c \in BookingId \ {b} : booking'[c] = booking[c]
  BY <1>1 DEF CommitDelete, TypeOK
<1>6. k # None => k \in BookingId \ {b} /\ booking[k] # None /\ booking[k].lead = w.lead
  BY <1>3 DEF Replacements, Others
<1>7. UNCHANGED trip
  BY DEF CommitDelete
<1>8. LeadsPoint'
  <2> SUFFICES ASSUME NEW l \in Lead, leadBooking'[l] # None
               PROVE  /\ booking'[leadBooking'[l]] # None
                      /\ booking'[leadBooking'[l]].lead = l
    BY DEF LeadsPoint
  <2>1. CASE l = w.lead
    <3>1. leadBooking'[l] = k
      BY <1>3, <2>1
    <3>. QED BY <1>5, <1>6, <2>1, <3>1
  <2>2. CASE l # w.lead
    <3>1. leadBooking'[l] = leadBooking[l] /\ leadBooking[l] \in BookingId
      BY <1>3, <2>2 DEF TypeOK
    <3>2. booking[leadBooking[l]] # None /\ booking[leadBooking[l]].lead = l
      BY <3>1 DEF SoloInv, LeadsPoint
    <3>3. leadBooking[l] # b
      BY <1>2, <2>2, <3>2
    <3>. QED BY <1>5, <3>1, <3>2, <3>3
  <2>. QED BY <2>1, <2>2
<1>9. NoOrphanedBookings'
  BY <1>5, <1>7 DEF SoloInv, NoOrphanedBookings
<1>10. next \in Recount \cup Holds \cup {None}
  BY <1>4
<1>. QED BY <1>1, <1>4, <1>8, <1>9, <1>10, EndSolo

LEMMA DropSolo ==
  ASSUME TypeOK, SoloInv, NEW e \in Employee, CommitDrop(e)
  PROVE  SoloInv'
<1> DEFINE t == work[e].trip
<1>1. t \in Trip /\ work[e] # None
  BY WorkAssumption DEF CommitDrop, Drop, Work
<1>2. /\ trip' = [trip EXCEPT ![t] = None]
      /\ booking' = [b \in BookingId |-> IF b \in OnTrip(booking, t)
                                         THEN [booking[b] EXCEPT !.trip = None]
                                         ELSE booking[b]]
      /\ work' = [work EXCEPT ![e] = None] /\ UNCHANGED leadBooking
  BY DEF CommitDrop
<1> HIDE DEF t
<1>3. ASSUME NEW b \in BookingId, booking[b] # None
      PROVE  /\ booking'[b] # None /\ booking'[b].lead = booking[b].lead
             /\ booking'[b].trip # t
             /\ booking'[b].trip # None => booking'[b].trip = booking[b].trip
  <2>1. booking[b] \in BookingRow
    BY <1>3 DEF TypeOK
  <2>2. CASE booking[b].trip = t
    <3>1. booking'[b] = [booking[b] EXCEPT !.trip = None]
      BY <1>2, <1>3, <2>2 DEF OnTrip
    <3>2. [booking[b] EXCEPT !.trip = None] \in BookingRow
      BY <2>1 DEF BookingRow
    <3>. QED BY <1>1, <2>1, <3>1, <3>2, NoneAssumption, InventoryAssumption DEF BookingRow
  <2>3. CASE booking[b].trip # t
    BY <1>2, <1>3, <2>3 DEF OnTrip
  <2>. QED BY <2>2, <2>3
<1>4. ASSUME NEW b \in BookingId, booking[b] = None PROVE booking'[b] = None
  BY <1>2, <1>4 DEF OnTrip
<1>5. LeadsPoint'
  BY <1>2, <1>3 DEF SoloInv, LeadsPoint, TypeOK
<1>6. \A q \in Trip \ {t} : trip'[q] = trip[q]
  BY <1>1, <1>2 DEF TypeOK
<1>7. \A b \in BookingId : booking[b] # None => booking[b].trip \in Trip \cup {None}
  BY DEF TypeOK, BookingRow
<1>8. NoOrphanedBookings'
  BY <1>3, <1>4, <1>6, <1>7 DEF SoloInv, NoOrphanedBookings
<1>9. None \in Recount \cup Holds \cup {None}
  OBVIOUS
<1>. QED BY <1>1, <1>2, <1>5, <1>8, <1>9, EndSolo

LEMMA RecountSolo ==
  ASSUME TypeOK, SoloInv, NEW e \in Employee, ReadHolds(e) \/ WriteHolds(e) \/ Rollback(e)
  PROVE  SoloInv'
<1>1. work[e] # None
  BY WorkAssumption DEF ReadHolds, WriteHolds, Rollback, Work
<1>2. PICK w \in Recount \cup Holds \cup {None} : work' = [work EXCEPT ![e] = w]
  <2>1. work[e] \in Recount => [op |-> "holds", trip |-> work[e].trip,
                                holds |-> HeldOn(booking, work[e].trip)] \in Holds
    BY HeldOnTyped DEF Recount, Holds
  <2>. QED BY <2>1 DEF ReadHolds, WriteHolds, Rollback
<1>3. \A q \in Trip : trip[q] # None => trip'[q] # None
  <2>1. CASE WriteHolds(e)
    <3>1. work[e].trip \in Trip /\ work[e].holds \in [Pool -> Nat]
      BY <2>1 DEF WriteHolds, Holds
    <3>2. ASSUME trip[work[e].trip] # None
          PROVE  [trip[work[e].trip] EXCEPT !.holds = work[e].holds] \in TripRow
      <4>1. trip[work[e].trip] \in TripRow
        BY <3>1, <3>2 DEF TypeOK
      <4>. QED BY <3>1, <4>1 DEF TripRow
    <3>. QED BY <2>1, <3>1, <3>2, NoneAssumption DEF WriteHolds, TypeOK
  <2>. QED BY <2>1 DEF ReadHolds, Rollback
<1>4. UNCHANGED <<booking, leadBooking>>
  BY DEF ReadHolds, WriteHolds, Rollback
<1>5. LeadsPoint' /\ NoOrphanedBookings'
  BY <1>3, <1>4, RowsKept DEF SoloInv
<1>. QED BY <1>1, <1>2, <1>5, EndSolo

LEMMA StepSolo == ~Overlap /\ TypeOK /\ SoloInv /\ [Next]_vars => SoloInv'
<1> SUFFICES ASSUME ~Overlap, TypeOK, SoloInv, [Next]_vars PROVE SoloInv'
  OBVIOUS
<1>1. ASSUME NEW e \in Employee, Request(e) PROVE SoloInv'
  BY <1>1, StartsSolo, FormSolo, DeleteSolo, DropSolo, RecountSolo DEF Request
<1>2. CASE UNCHANGED vars
  BY <1>2 DEF vars, SoloInv, OneWorks, LeadsPoint, NoOrphanedBookings, FormsSee, DeletesSee
<1>. QED BY <1>1, <1>2, ServiceSolo DEF Next

LEMMA InvarianceSolo == ASSUME ~Overlap PROVE Spec => []SoloInv
<1>1. Init => SoloInv
  BY WorkKinds DEF Init, SoloInv, OneWorks, LeadsPoint, NoOrphanedBookings, FormsSee,
     DeletesSee
<1>2. TypeOK /\ SoloInv /\ [Next]_vars => SoloInv'
  BY StepSolo
<1>. QED BY <1>1, <1>2, TypeCorrect, PTL DEF Spec

\* Requests that do not overlap leave every lead with a booking that exists,
\* whatever is deleted, moved and numbered again (bookings.delete).
THEOREM SoloLeadBookingIsLive == ASSUME ~Overlap PROVE Spec => []LeadBookingIsLive
<1>1. SoloInv => LeadBookingIsLive
  BY DEF SoloInv, LeadsPoint, LeadBookingIsLive
<1>. QED BY <1>1, InvarianceSolo, PTL

\* Requests that do not overlap never leave a booking on a trip that is gone:
\* a form looks its trip up and the ORM empties a trip it deletes.
THEOREM SoloNoOrphanedBookings == ASSUME ~Overlap PROVE Spec => []NoOrphanedBookings
<1>1. SoloInv => NoOrphanedBookings
  BY DEF SoloInv
<1>. QED BY <1>1, InvarianceSolo, PTL
=============================================================================
