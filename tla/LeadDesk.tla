------------------------------ MODULE LeadDesk ------------------------------
(***************************************************************************)
(* The leads of the CRM (routes/leads.py), the booking a lead gets when it *)
(* reaches Booking Draft (booking_automation.py) and the rotation that     *)
(* gives leads and bookings their owner (assignments.py).                  *)
(*                                                                         *)
(* A request is a few transactions of one web worker: the lead is read and *)
(* saved, then a booking is looked for, numbered, given an owner and       *)
(* inserted, then the group size is carried over to it.  Workers run at    *)
(* the same time under READ COMMITTED: every step here is one statement or *)
(* commit.  Only the rotation locks rows (SELECT ... FOR UPDATE), and an   *)
(* INSERT or UPDATE that was flushed before it.  An entry of the history   *)
(* takes its place in it at the commit.                                    *)
(***************************************************************************)
EXTENDS Naturals, Sequences, FiniteSets

CONSTANTS
  Worker,
  Lead,
  TravelerOf,     \* the traveler of a lead
  NSales,         \* the sales employees, numbered in the order of their names
  Size,           \* group sizes
  MaxBookings,    \* bound on the booking numbers
  MaxEvents,      \* bound on requests and changes by the staff
  None

ASSUME NSalesAssumption == NSales \in Nat
ASSUME BoundsAssumption == MaxBookings \in Nat /\ MaxEvents \in Nat
ASSUME NoneAssumption   == None \notin Worker \cup Lead \cup Nat

VARIABLES
  leads, bookings, history, active, lock, work,
  events          \* requests and changes begun, for the bound

vars == << leads, bookings, history, active, lock, work, events >>

-----------------------------------------------------------------------------

Sales == 1..NSales

\* Booking Draft and its aliases, every other stage of the pipeline.
Stage == {"Booking Draft", "Other"}

\* The statuses that stand in the way of another booking of the traveler, the
\* two final ones, and the rest.
Status == {"Active", "Waiting", "Closed"}

LeadRow == [ stage : Stage, size : Size, owner : Sales \cup {None},
             booking : 1..MaxBookings \cup {None} ]

BookingRow == [ lead : Lead \cup {None}, of : {TravelerOf[l] : l \in Lead},
                status : Status, size : Size, owner : Sales \cup {None} ]

ASSUME RowAssumption == None \notin LeadRow \cup BookingRow

\* AssignmentHistory: who got something, by the rotation or not, and whether
\* the rotation had a choice.
Entry == [ user : Sales \cup {None}, auto : BOOLEAN, choice : BOOLEAN ]

Idle == [ step |-> "idle" ]

Job ==
  [ step   : {"insertLead", "save", "unlink", "remove", "find", "link", "number",
              "owner", "flush", "rotate", "insert", "measure", "resize"},
    lead   : Lead,
    was    : LeadRow \cup {None},      \* the lead as it was read
    new    : LeadRow \cup {None},      \* the lead to be saved
    then   : {"nothing", "book", "bookAndResize"},
    id     : 1..MaxBookings \cup {None},
    links  : SUBSET (1..MaxBookings),  \* the bookings a deletion unlinks
    user   : Sales \cup {None},
    auto   : BOOLEAN,
    choice : BOOLEAN,
    shared : BOOLEAN ]                 \* history: another request overlapped

NewJob(l, step, new, then) ==
  [ step |-> step, lead |-> l, was |-> leads[l], new |-> new, then |-> then,
    id |-> None, links |-> {}, user |-> None, auto |-> FALSE, choice |-> FALSE,
    shared |-> \E v \in Worker : work[v] # Idle ]

Init ==
  /\ leads = [l \in Lead |-> None]
  /\ bookings = [b \in 1..MaxBookings |-> None]
  /\ history = << >>
  /\ active = Sales
  /\ lock = None
  /\ work = [w \in Worker |-> Idle]
  /\ events = 0

At(w, step) == work[w] # Idle /\ work[w].step = step

Becomes(w, job) == work' = [work EXCEPT ![w] = job]

Goto(w, step) == Becomes(w, [work[w] EXCEPT !.step = step])

\* A request that begins is seen by those that run.
Begin(w, job) ==
  /\ work[w] = Idle
  /\ events < MaxEvents
  /\ events' = events + 1
  /\ work' = [v \in Worker |->
                IF v = w THEN job
                ELSE IF work[v] = Idle THEN Idle ELSE [work[v] EXCEPT !.shared = TRUE]]

Unlocked(w) == IF lock = w THEN None ELSE lock

End(w) == Becomes(w, Idle)

-----------------------------------------------------------------------------
\* Locks and the rotation.

\* A booking or a lead that is inserted or changed, and not committed.
Flushed(v) == work[v] # Idle /\ work[v].step \in {"rotate", "insert"}
                             /\ work[v].auto /\ work[v].id # None

RowFree(l, w) == \A v \in Worker \ {w} : ~(Flushed(v) /\ work[v].lead = l)
IdFree(b, w)  == \A v \in Worker \ {w} : ~(Flushed(v) /\ work[v].id = b)

\* The last entry of an employee who is still in the rotation.
LastAssigned ==
  LET is == {i \in DOMAIN history : history[i].user \in active}
  IN IF is = {} THEN 0
     ELSE history[CHOOSE i \in is : \A j \in is : j <= i].user

\* Mutant: the rotation does not return to the first.
NextUnwrapped == {LastAssigned + 1}

\* next_round_robin_sales_assignee: the one after the last, or the first.
NextSales ==
  LET later == {u \in active : u > LastAssigned}
      among == IF later = {} THEN active ELSE later
  IN {u \in among : \A v \in among : u <= v}

AfterRotation(w) ==
  IF work[w].id # None THEN "insert" ELSE IF work[w].was = None THEN "insertLead" ELSE "save"

\* Mutant: the employees are read without a lock.
RotateUnlocked(w) ==
  /\ At(w, "rotate")
  /\ \E u \in IF active = {} THEN {None} ELSE NextSales :
       Becomes(w, [work[w] EXCEPT !.step = AfterRotation(w), !.user = u,
                                  !.choice = Cardinality(active) > 1])
  /\ UNCHANGED << leads, bookings, history, active, lock, events >>

\* Who is next is read once the rows of the active sales employees are locked;
\* they stay locked until the commit.
Rotate(w) ==
  /\ At(w, "rotate")
  /\ active # {} => lock = None
  /\ lock' = IF active = {} THEN lock ELSE w
  /\ \E u \in IF active = {} THEN {None} ELSE NextSales :
       Becomes(w, [work[w] EXCEPT !.step = AfterRotation(w), !.user = u,
                                  !.choice = Cardinality(active) > 1])
  /\ UNCHANGED << leads, bookings, history, active, events >>

Recorded(w, user) == Append(history, [user |-> user, auto |-> work[w].auto,
                                      choice |-> work[w].choice])

-----------------------------------------------------------------------------
\* Leads.

\* upsert_lead, the agent's: the owner comes from the rotation, in the
\* transaction that inserts the lead.
CreateByAgent(w, l) ==
  /\ leads[l] = None
  /\ \E st \in Stage, sz \in Size :
       Begin(w, [NewJob(l, "rotate", [stage |-> st, size |-> sz, owner |-> None,
                                      booking |-> None], "book") EXCEPT !.auto = TRUE])
  /\ UNCHANGED << leads, bookings, history, active, lock >>

\* create: the lead is there before it has an owner, by name or by rotation,
\* and gets no booking.
CreateByHand(w, l) ==
  /\ leads[l] = None
  /\ \E st \in Stage, sz \in Size, u \in active \cup {None} :
       LET row == [stage |-> st, size |-> sz, owner |-> None, booking |-> None]
           job == NewJob(l, "save", [row EXCEPT !.owner = u], "nothing")
       IN /\ leads' = [leads EXCEPT ![l] = row]
          /\ Begin(w, [job EXCEPT !.was = row, !.auto = (u = None),
                                  !.step = IF u = None THEN "rotate" ELSE "save"])
  /\ UNCHANGED << bookings, history, active, lock >>

\* create: whoever names an owner and may not assign work is refused once the
\* lead is there, which stays without one.
RefuseOwner(w) ==
  /\ At(w, "save") /\ work[w].then = "nothing" /\ ~work[w].auto
  /\ End(w)
  /\ UNCHANGED << leads, bookings, history, active, lock, events >>

\* update, with an owner who is active or is not touched.  Any stage is within
\* reach of a correction.
Edit(w, l) ==
  /\ leads[l] # None
  /\ \E st \in Stage, sz \in Size, u \in active \cup {None, leads[l].owner} :
       Begin(w, NewJob(l, "save", [leads[l] EXCEPT !.stage = st, !.size = sz, !.owner = u],
                       "bookAndResize"))
  /\ UNCHANGED << leads, bookings, history, active, lock >>

\* advance_stage, quick_action and the agent's update_lead_stage.
Move(w, l) ==
  /\ leads[l] # None
  /\ \E st \in Stage : Begin(w, NewJob(l, "save", [leads[l] EXCEPT !.stage = st], "book"))
  /\ UNCHANGED << leads, bookings, history, active, lock >>

Delete(w, l) ==
  /\ leads[l] # None
  /\ Begin(w, NewJob(l, "unlink", None, "nothing"))
  /\ UNCHANGED << leads, bookings, history, active, lock >>

InsertLead(w) ==
  /\ At(w, "insertLead")
  /\ LET j == work[w] IN
     IF leads[j.lead] # None
       THEN End(w) /\ UNCHANGED << leads, history >>
       ELSE /\ leads' = [leads EXCEPT ![j.lead] = [j.new EXCEPT !.owner = j.user]]
            /\ history' = IF j.user = None THEN history ELSE Recorded(w, j.user)
            /\ Goto(w, "find")
  /\ lock' = Unlocked(w)
  /\ UNCHANGED << bookings, active, events >>

\* The commit writes the columns that changed; a lead that is gone fails it.
Save(w) ==
  /\ At(w, "save")
  /\ RowFree(work[w].lead, w)
  /\ LET j == work[w]
         now == leads[j.lead]
         owner == IF j.auto THEN j.user ELSE j.new.owner
         moved == owner # j.was.owner
     IN IF now = None
          THEN End(w) /\ UNCHANGED << leads, history >>
          ELSE /\ leads' = [leads EXCEPT ![j.lead] =
                    [stage   |-> IF j.new.stage = j.was.stage THEN now.stage ELSE j.new.stage,
                     size    |-> IF j.new.size = j.was.size THEN now.size ELSE j.new.size,
                     owner   |-> IF moved THEN owner ELSE now.owner,
                     booking |-> now.booking]]
               /\ history' = IF moved THEN Recorded(w, owner) ELSE history
               /\ IF j.then = "nothing" THEN End(w) ELSE Goto(w, "find")
  /\ lock' = Unlocked(w)
  /\ UNCHANGED << bookings, active, events >>

OfLead(l) == {b \in DOMAIN bookings : bookings[b] # None /\ bookings[b].lead = l}

\* delete: the bookings are unlinked by a query, then the lead goes; the foreign
\* key refuses that while a booking made in between names it.
Unlink(w) ==
  /\ At(w, "unlink")
  /\ Becomes(w, [work[w] EXCEPT !.step = "remove", !.links = OfLead(work[w].lead)])
  /\ UNCHANGED << leads, bookings, history, active, lock, events >>

Remove(w) ==
  /\ At(w, "remove")
  /\ RowFree(work[w].lead, w)
  /\ IF leads[work[w].lead] = None \/ ~(OfLead(work[w].lead) \subseteq work[w].links)
       THEN UNCHANGED << leads, bookings >>
       ELSE /\ leads' = [leads EXCEPT ![work[w].lead] = None]
            /\ bookings' = [b \in DOMAIN bookings |->
                 IF b \in work[w].links THEN [bookings[b] EXCEPT !.lead = None]
                                        ELSE bookings[b]]
  /\ End(w)
  /\ UNCHANGED << history, active, lock, events >>

-----------------------------------------------------------------------------
\* auto_create_booking_from_lead.

OfTraveler(l) == {b \in DOMAIN bookings :
                    /\ bookings[b] # None
                    /\ bookings[b].of = TravelerOf[l]
                    /\ bookings[b].status = "Active"}

Newest(S) == {b \in S : \A c \in S : c <= b}

\* Mutant: only the bookings of the traveler that are active are looked for.
ExistingActive(l) == OfTraveler(l)

\* The bookings that make another one unnecessary.
Existing(l) == IF OfLead(l) # {} THEN OfLead(l) ELSE OfTraveler(l)

Resizing(w) == IF work[w].then = "bookAndResize" THEN Goto(w, "measure") ELSE End(w)

Find(w) ==
  /\ At(w, "find")
  /\ LET l == work[w].lead IN
     CASE leads[l] = None -> End(w)
       [] leads[l] # None /\ leads[l].stage # "Booking Draft" -> Resizing(w)
       [] OTHER ->
            IF Existing(l) = {}
              THEN Becomes(w, [work[w] EXCEPT !.step = "number", !.new = leads[l]])
            ELSE IF leads[l].booking = None
              THEN \E b \in Newest(Existing(l)) :
                     Becomes(w, [work[w] EXCEPT !.step = "link", !.id = b])
            ELSE Resizing(w)
  /\ UNCHANGED << leads, bookings, history, active, lock, events >>

Link(w) ==
  /\ At(w, "link")
  /\ RowFree(work[w].lead, w)
  /\ IF leads[work[w].lead] = None
       THEN End(w) /\ UNCHANGED leads
       ELSE /\ Resizing(w)
            /\ leads' = [leads EXCEPT ![work[w].lead] =
                            [leads[work[w].lead] EXCEPT !.booking = work[w].id]]
  /\ UNCHANGED << bookings, history, active, lock, events >>

\* _next_prefixed_id
Number(w) ==
  /\ At(w, "number")
  /\ \E b \in DOMAIN bookings :
       /\ bookings[b] = None
       /\ \A c \in DOMAIN bookings : bookings[c] # None => c < b
       /\ \A c \in 1..(b - 1) : bookings[c] # None
       /\ Becomes(w, [work[w] EXCEPT !.step = "owner", !.id = b])
  /\ UNCHANGED << leads, bookings, history, active, lock, events >>

\* The owner of the lead becomes the owner of the booking; an owner who left is
\* refused, and the booking with him: the synchronisation finds that booking in
\* the session, of the new size, and does nothing.  Without an owner the rotation
\* decides, once the booking is flushed.
Owner(w) ==
  /\ At(w, "owner")
  /\ LET u == work[w].new.owner IN
     CASE u = None -> Goto(w, "flush")
       [] u # None /\ u \notin active -> End(w)
       [] OTHER -> Becomes(w, [work[w] EXCEPT !.step = "insert", !.user = u,
                                              !.auto = FALSE, !.choice = FALSE])
  /\ UNCHANGED << leads, bookings, history, active, lock, events >>

\* The number may be taken and the lead gone.
Flush(w) ==
  /\ At(w, "flush")
  /\ RowFree(work[w].lead, w) /\ IdFree(work[w].id, w)
  /\ IF bookings[work[w].id] # None \/ leads[work[w].lead] = None
       THEN End(w)
       ELSE Becomes(w, [work[w] EXCEPT !.step = "rotate", !.auto = TRUE])
  /\ UNCHANGED << leads, bookings, history, active, lock, events >>

\* A failure is swallowed; the session may then refuse the next statement.
Insert(w) ==
  /\ At(w, "insert")
  /\ RowFree(work[w].lead, w) /\ IdFree(work[w].id, w)
  /\ LET j == work[w] IN
     IF bookings[j.id] # None \/ leads[j.lead] = None
       THEN /\ Resizing(w) \/ End(w)
            /\ UNCHANGED << leads, bookings, history >>
       ELSE /\ bookings' = [bookings EXCEPT ![j.id] =
                 [lead |-> j.lead, of |-> TravelerOf[j.lead], status |-> "Active",
                  size |-> j.new.size, owner |-> j.user]]
            /\ leads' = [leads EXCEPT ![j.lead] = [leads[j.lead] EXCEPT !.booking = j.id]]
            /\ history' = IF j.user = None THEN history ELSE Recorded(w, j.user)
            /\ Resizing(w)
  /\ lock' = Unlocked(w)
  /\ UNCHANGED << active, events >>

-----------------------------------------------------------------------------
\* sync_lead_group_size_to_booking.

\* Mutant: only the bookings that name the lead are its own.
BookingNaming(l) == OfLead(l)

\* _find_lead_booking
BookingOf(l) ==
  IF leads[l].booking # None THEN {leads[l].booking} ELSE OfLead(l)

Measure(w) ==
  /\ At(w, "measure")
  /\ LET l == work[w].lead IN
     IF \/ leads[l] = None
        \/ leads[l].size = work[w].was.size
        \/ BookingOf(l) = {}
       THEN End(w)
       ELSE \E b \in Newest(BookingOf(l)) :
              IF bookings[b].size = leads[l].size \/ bookings[b].status = "Closed"
                THEN End(w)
                ELSE Becomes(w, [work[w] EXCEPT !.step = "resize", !.id = b,
                                                !.new = leads[l]])
  /\ UNCHANGED << leads, bookings, history, active, lock, events >>

Resize(w) ==
  /\ At(w, "resize")
  /\ bookings' = [bookings EXCEPT ![work[w].id] =
                     [bookings[work[w].id] EXCEPT !.size = work[w].new.size]]
  /\ End(w)
  /\ UNCHANGED << leads, history, active, lock, events >>

-----------------------------------------------------------------------------
\* The staff, and the database.

SetStatus(b, s) ==
  /\ events < MaxEvents
  /\ bookings[b] # None
  /\ bookings[b].status # s
  /\ bookings' = [bookings EXCEPT ![b] = [bookings[b] EXCEPT !.status = s]]
  /\ events' = events + 1
  /\ UNCHANGED << leads, history, active, lock, work >>

\* toggle_user: the row of an employee in the rotation may be locked.
Toggle(u) ==
  /\ events < MaxEvents
  /\ u \in active => lock = None
  /\ active' = IF u \in active THEN active \ {u} ELSE active \cup {u}
  /\ events' = events + 1
  /\ UNCHANGED << leads, bookings, history, lock, work >>

\* One worker has the employees and waits for the lead, the other has the lead
\* and waits for the employees: PostgreSQL ends one of them.
Deadlocked(v, w) ==
  /\ At(v, "save") /\ lock = v
  /\ At(w, "rotate") /\ Flushed(w) /\ active # {}
  /\ work[v].lead = work[w].lead

Abort(v, w) ==
  /\ Deadlocked(v, w)
  /\ \/ End(v) /\ lock' = None
     \/ End(w) /\ UNCHANGED lock
  /\ UNCHANGED << leads, bookings, history, active, events >>

Start(w, l) == CreateByAgent(w, l) \/ CreateByHand(w, l) \/ Edit(w, l) \/ Move(w, l)
               \/ Delete(w, l)

Continue(w) ==
  \/ Rotate(w) \/ InsertLead(w) \/ RefuseOwner(w) \/ Save(w) \/ Unlink(w) \/ Remove(w)
  \/ Find(w) \/ Link(w) \/ Number(w) \/ Owner(w) \/ Flush(w) \/ Insert(w)
  \/ Measure(w) \/ Resize(w)

Next ==
  \/ \E w \in Worker : Continue(w) \/ \E l \in Lead : Start(w, l)
  \/ \E v, w \in Worker : Abort(v, w)
  \/ \E b \in 1..MaxBookings, s \in Status : SetStatus(b, s)
  \/ \E u \in Sales : Toggle(u)

Spec == Init /\ [][Next]_vars

-----------------------------------------------------------------------------
\* Properties.

\* Types of the tables, the rotation and the requests.
TypeOK ==
  /\ leads \in [Lead -> LeadRow \cup {None}]
  /\ bookings \in [1..MaxBookings -> BookingRow \cup {None}]
  /\ history \in Seq(Entry)
  /\ active \subseteq Sales
  /\ lock \in Worker \cup {None}
  /\ work \in [Worker -> Job \cup {Idle}]
  /\ events \in 0..MaxEvents

\* The rotation never turns to the same employee twice in a row while it has a
\* choice, whatever runs at the same time, is deactivated or is assigned by
\* hand (next_round_robin_sales_assignee).
AutoAlternates ==
  \A i \in 1..(Len(history) - 1) :
    (history[i].auto /\ history[i + 1].auto /\ history[i + 1].choice)
      => history[i].user # history[i + 1].user

\* A lead that comes back to Booking Draft keeps the booking it got the first
\* time, whatever became of it; only requests that overlap make two
\* (auto_create_booking_from_lead).
AloneCreatesOneBooking ==
  [][\A w \in Worker, l \in Lead :
       (/\ At(w, "insert") /\ work'[w] # work[w]
        /\ work[w].lead = l /\ ~work[w].shared)
         => Cardinality(OfLead(l)') <= 1]_vars

\* A request that edits the group size, alone, leaves the lead and its open
\* booking with the same size (sync_lead_group_size_to_booking), unless it had
\* to make another booking and the owner of the lead was refused.
AloneKeepsSizes ==
  [][\A w \in Worker :
       (/\ work[w] # Idle /\ work'[w] = Idle /\ ~At(w, "owner")
        /\ work[w].then = "bookAndResize" /\ ~work[w].shared
        /\ leads[work[w].lead].size # work[w].was.size
        /\ leads[work[w].lead].booking # None)
         => LET b == leads[work[w].lead].booking IN
            bookings[b].status # "Closed" => bookings'[b].size = leads[work[w].lead].size]_vars
=============================================================================
