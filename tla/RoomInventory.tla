---------------------------- MODULE RoomInventory ----------------------------
(* Bookings and the rooms of a trip: UnifiedCRMService of unified_service.py, *)
(* the routes of routes/bookings.py and routes/trips.py, on the SQLite file   *)
(* they share. A method of the service that opens its transaction with BEGIN  *)
(* IMMEDIATE is one action. A CRM handler reads and checks first and takes    *)
(* the write lock only at its first write, so it is a Submit action and a     *)
(* Commit action, and others may commit in between.                           *)
EXTENDS Integers, FiniteSets

CONSTANTS
    Employee,       \* employees, each with at most one request in progress
    Trip, Traveler, Lead, Session,
    TypePool,       \* the room types, each with its own remaining count
    GroupPool,      \* boys or girls in a room type: a share of that type
    Demand,         \* the room_requirements_json values requests carry
    Capacity,       \* what an employee may enter as the rooms of a trip
    Target,         \* the statuses requests ask for
    MaxRooms,       \* bound: rooms of one pool in one booking
    MaxSeq,         \* bound: bookings numbered on one trip
    Overlap,        \* may requests run while another is in progress?
    Corrections,    \* do employees save non-standard changes with a reason?
    None

Pool == TypePool \cup GroupPool

\* rooms: rooms asked of each pool. line: the largest single requirement line
\* of a group. The lines are never merged and the check looks at one line.
DemandType == [rooms : [Pool -> 0..MaxRooms], line : [GroupPool -> 0..MaxRooms]]

\* The rooms of a trip. A group has None when neither group of its room type
\* is configured: the type's count is then the only limit.
CapacityType == {c \in [Pool -> Nat \cup {None}] : \A p \in TypePool : c[p] \in Nat}

Status == {"Draft", "Waiting Customer", "Pending Confirmation", "Confirmed",
           "Payment Pending", "Paid", "Completed", "Cancelled"}
Over == {"Completed", "Cancelled"}

ASSUME InventoryAssumption ==
    /\ Demand \subseteq DemandType
    /\ Capacity \subseteq CapacityType
    /\ Target \subseteq Status
    /\ MaxRooms \in Nat /\ MaxSeq \in Nat
    /\ Overlap \in BOOLEAN /\ Corrections \in BOOLEAN
    /\ IsFiniteSet(Traveler) /\ IsFiniteSet(Trip)
    /\ TypePool \cap GroupPool = {}
    /\ None \notin Trip \cup Lead \cup Nat
    /\ None \notin Traveler \X Trip \X (1..MaxSeq)

Transitions == [s \in Status |->
    CASE s = "Draft" -> {"Waiting Customer", "Pending Confirmation", "Cancelled"}
      [] s = "Waiting Customer" -> {"Pending Confirmation", "Confirmed", "Cancelled"}
      [] s = "Pending Confirmation" -> {"Confirmed", "Cancelled"}
      [] s = "Confirmed" -> {"Payment Pending", "Cancelled"}
      [] s = "Payment Pending" -> {"Paid", "Cancelled"}
      [] s = "Paid" -> {"Completed", "Cancelled"}
      [] OTHER -> {}]

\* The primary key names the traveler, the trip the booking was made for and a
\* number; a booking moved to another trip keeps it.
BookingId == Traveler \X Trip \X (1..MaxSeq)

VARIABLES
    trip,           \* the row of a trip: open, capacity, draft holds; or None
    booking,        \* the row of a booking, or None
    lastBooking,    \* travelers.last_booking_id
    leadBooking,    \* leads.booking_id
    work            \* what the request of an employee is about to write
vars == <<trip, booking, lastBooking, leadBooking, work>>

TripRow == [open : BOOLEAN, capacity : Capacity, holds : [Pool -> Nat]]
BookingRow == [trip : Trip \cup {None}, status : Status, demand : Demand,
               session : Session, lead : Lead \cup {None}]
ASSUME NoneAssumption == None \notin BookingRow \cup TripRow

Form == [op : {"form"}, booking : BookingId, status : Status \cup {None},
         moves : BOOLEAN, trip : Trip \cup {None}]
Delete == [op : {"delete"}, booking : BookingId, trip : Trip \cup {None},
           lead : Lead \cup {None}]
Recount == [op : {"recount"}, trip : Trip]
Holds == [op : {"holds"}, trip : Trip, holds : [Pool -> Nat]]
Drop == [op : {"drop"}, trip : Trip]
Work == Form \cup Delete \cup Recount \cup Holds \cup Drop
ASSUME WorkAssumption == None \notin Work

-----------------------------------------------------------------------------
OnTrip(bk, t) == {b \in BookingId : bk[b] # None /\ bk[b].trip = t}

\* A cancelled booking gives its rooms back; a completed one keeps them.
Holding(bk, t) == {b \in OnTrip(bk, t) : bk[b].status # "Cancelled"}

\* The rooms of a pool that the bookings of a trip take: the sum of their
\* demands, counted as pairs of a booking and one of its rooms.
Rooms(bk, t, p) == {r \in BookingId \X (1..MaxRooms) :
                      r[1] \in Holding(bk, t) /\ r[2] <= bk[r[1]].demand.rooms[p]}
Held(bk, t, p) == Cardinality(Rooms(bk, t, p))

HeldOn(bk, t) == [p \in Pool |-> Held(bk, t, p)]

\* _reconcile_trip_room_holds: the holds of the trips ts, counted afresh.
Reconciled(bk, ts) ==
    [t \in Trip |-> IF t \in ts /\ trip[t] # None
                    THEN [trip[t] EXCEPT !.holds = HeldOn(bk, t)] ELSE trip[t]]

\* Mutant: the stored holds are trusted.
StoredRow(t) == trip[t]

\* The row create_booking checks against: recounted in its own transaction.
CheckedRow(t) == Reconciled(booking, {t})[t]

Available(row, p) == row.capacity[p] - row.holds[p]

\* A type is asked for its sum. A group that is configured is asked line by
\* line.
Fits(row, d) ==
    /\ \A p \in TypePool : d.rooms[p] > 0 => d.rooms[p] <= Available(row, p)
    /\ \A p \in GroupPool : (d.line[p] > 0 /\ row.capacity[p] # None)
                                => d.line[p] <= Available(row, p)

\* The bookings create_booking finds instead of making one: those with its
\* idempotency key, wherever they have been moved, and the traveler's on the
\* trip, if they are not over.
Existing(v, t, d, s) ==
    {b \in BookingId :
        /\ b[1] = v /\ booking[b] # None
        /\ booking[b].status \notin Over
        /\ \/ booking[b].trip = t
           \/ b[2] = t /\ booking[b].demand = d /\ booking[b].session = s}

\* _next_booking_id: one more than the bookings on the trip, passing over the
\* numbers the traveler has among them.
IsNextNumber(v, t, n) ==
    LET used == OnTrip(booking, t) IN
    /\ n > Cardinality(used) /\ <<v, t, n>> \notin used
    /\ \A m \in 1..(n - 1) : m > Cardinality(used) => <<v, t, m>> \in used

\* _validate_booking_transition.
Allowed(from, to, corrected) ==
    \/ to = from
    \/ to = "Cancelled" /\ from \notin Over
    \/ to \in Transitions[from]
    \/ corrected

\* Mutant: the trip of the form is not looked up.
SelectableUnseen(t) == t \in Trip \cup {None}

\* A form may choose a trip that is there, or none.
Selectable(t) == t # None => trip[t] # None

Turn == Overlap \/ \A e \in Employee : work[e] = None
Starts(e) == Turn /\ work[e] = None

-----------------------------------------------------------------------------
Init ==
    /\ trip = [t \in Trip |-> None]
    /\ booking = [b \in BookingId |-> None]
    /\ lastBooking = [v \in Traveler |-> None]
    /\ leadBooking = [l \in Lead |-> None]
    /\ work = [e \in Employee |-> None]

CreateTrip(t) ==
    /\ Turn /\ trip[t] = None
    /\ \E c \in Capacity, open \in BOOLEAN :
          trip' = [trip EXCEPT ![t] = [open |-> open, capacity |-> c,
                                       holds |-> [p \in Pool |-> 0]]]
    /\ UNCHANGED <<booking, lastBooking, leadBooking, work>>

\* The trip form and the inventory form write the remaining rooms as typed,
\* whatever is held; the form's DELETE closes the trip and keeps the row.
EditTrip(t) ==
    /\ Turn /\ trip[t] # None
    /\ \E c \in Capacity, open \in BOOLEAN :
          trip' = [trip EXCEPT ![t] = [@ EXCEPT !.open = open, !.capacity = c]]
    /\ UNCHANGED <<booking, lastBooking, leadBooking, work>>

\* get_available_trips and _fetch_trip_record count the holds before they
\* read, and so does reconcile_trip_room_holds.
Reconcile(ts) ==
    /\ Turn
    /\ trip' = Reconciled(booking, ts)
    /\ UNCHANGED <<booking, lastBooking, leadBooking, work>>

\* create_booking finds a booking: it commits the recounted holds and returns.
RepeatBooking(v, t, d, s) ==
    /\ Turn /\ trip[t] # None /\ trip[t].open
    /\ Existing(v, t, d, s) # {}
    /\ trip' = Reconciled(booking, {t})
    /\ UNCHANGED <<booking, lastBooking, leadBooking, work>>

\* create_booking makes one. A number taken by a booking that was moved to
\* another trip is a primary key error, and nothing is committed.
CreateBooking(v, t, d, s, l) ==
    /\ Turn /\ trip[t] # None /\ trip[t].open
    /\ Existing(v, t, d, s) = {}
    /\ Fits(CheckedRow(t), d)
    /\ \E n \in 1..MaxSeq, status \in Target \cap {"Draft", "Waiting Customer"} :
          LET b == <<v, t, n>> IN
          /\ IsNextNumber(v, t, n) /\ booking[b] = None
          /\ booking' = [booking EXCEPT ![b] =
                [trip |-> t, status |-> status, demand |-> d, session |-> s, lead |-> l]]
          /\ trip' = Reconciled(booking', {t})
          /\ lastBooking' = [lastBooking EXCEPT ![v] = b]
          /\ leadBooking' = [k \in Lead |-> IF k = l THEN b ELSE leadBooking[k]]
    /\ UNCHANGED work

\* Mutant: a status outside the vocabulary is stored.
UpdateStatusAsSpelled(b, s) ==
    /\ Turn /\ booking[b] # None
    /\ Allowed(booking[b].status, s, Corrections)
    /\ booking' = [booking EXCEPT ![b] = [@ EXCEPT !.status =
                     IF s = "Cancelled" THEN "Canceled" ELSE s]]
    /\ trip' = Reconciled(booking', {booking[b].trip})
    /\ UNCHANGED <<lastBooking, leadBooking, work>>

\* update_booking_status. A booking without a trip has every trip recounted.
UpdateStatus(b, s) ==
    /\ Turn /\ booking[b] # None
    /\ Allowed(booking[b].status, s, Corrections)
    /\ booking' = [booking EXCEPT ![b] = [@ EXCEPT !.status = s]]
    /\ trip' = Reconciled(booking', IF booking[b].trip = None THEN Trip
                                    ELSE {booking[b].trip})
    /\ UNCHANGED <<lastBooking, leadBooking, work>>

-----------------------------------------------------------------------------
(* The booking form of routes/bookings.py.                                   *)

\* s is None and moves is FALSE when the form keeps what the handler read.
SubmitForm(e, b, s, moves, t) ==
    /\ Starts(e) /\ booking[b] # None
    /\ s # None \/ moves
    /\ s # booking[b].status
    /\ IF moves THEN t # booking[b].trip /\ Selectable(t)
                ELSE t = booking[b].trip
    /\ s # None => Allowed(booking[b].status, s, Corrections)
    /\ (s = "Completed" \/ (s = None /\ booking[b].status = "Completed")) /\ t = None
          => Corrections
    /\ work' = [work EXCEPT ![e] = [op |-> "form", booking |-> b, status |-> s,
                                    moves |-> moves, trip |-> t]]
    /\ UNCHANGED <<trip, booking, lastBooking, leadBooking>>

\* The ORM writes the columns that changed in the handler, on the row with this
\* key, and recounts no holds. No row is an error (Rollback).
CommitForm(e) ==
    /\ work[e] \in Form /\ booking[work[e].booking] # None
    /\ LET w == work[e]  old == booking[w.booking] IN
       booking' = [booking EXCEPT ![w.booking] = [old EXCEPT
                     !.status = IF w.status = None THEN old.status ELSE w.status,
                     !.trip = IF w.moves THEN w.trip ELSE old.trip]]
    /\ work' = [work EXCEPT ![e] = None]
    /\ UNCHANGED <<trip, lastBooking, leadBooking>>

-----------------------------------------------------------------------------
(* Deleting a booking and a trip.                                            *)

SubmitDelete(e, b) ==
    /\ Starts(e) /\ booking[b] # None
    /\ work' = [work EXCEPT ![e] = [op |-> "delete", booking |-> b,
                   trip |-> booking[b].trip, lead |-> booking[b].lead]]
    /\ UNCHANGED <<trip, booking, lastBooking, leadBooking>>

\* Mutant: the booking being deleted may replace itself.
OthersAndItself(b) == {c \in BookingId : booking[c] # None \/ c = b}

Others(b) == {c \in BookingId \ {b} : booking[c] # None}

\* What a pointer to a deleted booking becomes: the newest of the others, by
\* a creation time of whole seconds; any of them here.
Replacements(others) == IF others = {} THEN {None} ELSE others

\* The booking goes and both pointers are replaced, in one transaction.
CommitDelete(e) ==
    /\ work[e] \in Delete
    /\ LET w == work[e]  b == w.booking IN
       /\ booking' = [booking EXCEPT ![b] = None]
       /\ \E c \in Replacements({o \in Others(b) : o[1] = b[1]}) :
             lastBooking' = [lastBooking EXCEPT ![b[1]] = c]
       /\ \E c \in Replacements({o \in Others(b) : booking[o].lead = w.lead}) :
             leadBooking' = [k \in Lead |-> IF k = w.lead THEN c ELSE leadBooking[k]]
       /\ work' = [work EXCEPT ![e] = IF w.trip = None THEN None
                                     ELSE [op |-> "recount", trip |-> w.trip]]
    /\ UNCHANGED trip

\* The handler then recounts the holds on a connection without BEGIN
\* IMMEDIATE: the bookings are counted here ...
ReadHolds(e) ==
    /\ work[e] \in Recount
    /\ work' = [work EXCEPT ![e] = [op |-> "holds", trip |-> work[e].trip,
                                   holds |-> HeldOn(booking, work[e].trip)]]
    /\ UNCHANGED <<trip, booking, lastBooking, leadBooking>>

\* ... and the row is written here.
WriteHolds(e) ==
    /\ work[e] \in Holds
    /\ LET t == work[e].trip IN
       trip' = [trip EXCEPT ![t] = IF @ = None THEN None
                                   ELSE [@ EXCEPT !.holds = work[e].holds]]
    /\ work' = [work EXCEPT ![e] = None]
    /\ UNCHANGED <<booking, lastBooking, leadBooking>>

SubmitDrop(e, t) ==
    /\ Starts(e) /\ trip[t] # None /\ OnTrip(booking, t) = {}
    /\ work' = [work EXCEPT ![e] = [op |-> "drop", trip |-> t]]
    /\ UNCHANGED <<trip, booking, lastBooking, leadBooking>>

\* The ORM takes the trip from the bookings made since, and deletes it.
CommitDrop(e) ==
    /\ work[e] \in Drop
    /\ LET t == work[e].trip IN
       /\ trip' = [trip EXCEPT ![t] = None]
       /\ booking' = [b \in BookingId |-> IF b \in OnTrip(booking, t)
                                          THEN [booking[b] EXCEPT !.trip = None]
                                          ELSE booking[b]]
    /\ work' = [work EXCEPT ![e] = None]
    /\ UNCHANGED <<lastBooking, leadBooking>>

\* A refused commit, a swallowed error of the recount or a worker that dies.
Rollback(e) ==
    /\ work[e] # None
    /\ work' = [work EXCEPT ![e] = None]
    /\ UNCHANGED <<trip, booking, lastBooking, leadBooking>>

-----------------------------------------------------------------------------
Service ==
    \/ \E t \in Trip : CreateTrip(t) \/ EditTrip(t) \/ Reconcile({t})
    \/ Reconcile(Trip)
    \/ \E v \in Traveler, t \in Trip, d \in Demand, s \in Session :
          \/ RepeatBooking(v, t, d, s)
          \/ \E l \in Lead \cup {None} : CreateBooking(v, t, d, s, l)
    \/ \E b \in BookingId, s \in Target : UpdateStatus(b, s)

Request(e) ==
    \/ \E b \in BookingId, s \in Target \cup {None}, moves \in BOOLEAN,
         t \in Trip \cup {None} : SubmitForm(e, b, s, moves, t)
    \/ \E b \in BookingId : SubmitDelete(e, b)
    \/ \E t \in Trip : SubmitDrop(e, t)
    \/ CommitForm(e) \/ CommitDelete(e) \/ CommitDrop(e)
    \/ ReadHolds(e) \/ WriteHolds(e)
    \/ Rollback(e)

Next == Service \/ \E e \in Employee : Request(e)
Spec == Init /\ [][Next]_vars

-----------------------------------------------------------------------------
TypeOK ==
    /\ trip \in [Trip -> TripRow \cup {None}]
    /\ booking \in [BookingId -> BookingRow \cup {None}]
    /\ lastBooking \in [Traveler -> BookingId \cup {None}]
    /\ leadBooking \in [Lead -> BookingId \cup {None}]
    /\ work \in [Employee -> Work \cup {None}]

Created(b) == booking[b] = None /\ booking'[b] # None

\* A booking is only ever made within the rooms the trip has, counted over the
\* bookings that stand at that moment, however stale the holds on the trip had
\* become through forms, deletions and late recounts (create_booking).
CreationFits ==
    [][\A b \in BookingId : Created(b) =>
          LET t == booking'[b].trip IN
          \A p \in TypePool : booking'[b].demand.rooms[p] > 0 =>
             Held(booking', t, p) <= trip'[t].capacity[p]]_vars

\* The last booking of a traveler exists, although two employees may delete one
\* booking around a creation that uses its number again: the second deletion
\* takes the new booking away and must rewrite the pointer (bookings.delete).
LastBookingIsLive ==
    \A v \in Traveler : lastBooking[v] # None => booking[lastBooking[v]] # None

\* The booking of a lead exists. One request at a time: two deletions of one
\* booking around a creation that uses its number again break it.
LeadBookingIsLive ==
    \A l \in Lead : leadBooking[l] # None => booking[leadBooking[l]] # None

\* A booking is on a trip that exists: a form checks the trip it moves to and a
\* trip with bookings is not deleted. One request at a time.
NoOrphanedBookings ==
    \A b \in BookingId : (booking[b] # None /\ booking[b].trip # None) =>
        trip[booking[b].trip] # None
=============================================================================
