---------------------------- MODULE AgentBookings ----------------------------
(***************************************************************************)
(* The booking drafts the AI agent writes into the PostgreSQL CRM.  The    *)
(* runtime of the agent (tool_calling_runtime.py, _execute_booking_draft)  *)
(* sends the confirmed draft over HTTP and waits at most 15 seconds; the   *)
(* CRM (routes/crm.py, agent_write) validates it, makes sure that the      *)
(* traveler has a lead, writes the draft (agent_crm_bridge.py,             *)
(* create_booking_draft), reads it back and answers.  Nothing stops a      *)
(* request whose client has given up.                                      *)
(*                                                                         *)
(* The CRM has a few gunicorn workers.  The database driver blocks a       *)
(* worker, so that one request at a time runs in each; two workers work on *)
(* the same tables at READ COMMITTED, and the steps of a request below are *)
(* the statements between which another transaction may commit.  The only  *)
(* constraint on the tables is that identifiers are unique: the keys that  *)
(* make a retry harmless are looked up, never enforced.                    *)
(***************************************************************************)
EXTENDS Integers, FiniteSets

CONSTANTS
  Session,      \* conversations
  Traveler,
  TravelerOf,   \* the verified traveler of a conversation
  Trip,
  Capacity,     \* the rooms left for drafts on a trip, of the type asked for
  Worker,       \* CRM workers
  MaxBooking,   \* bound: bookings (and leads) written
  MaxTry,       \* bound: confirmations of each conversation
  Intake,       \* bound: leads one of which may be on file before
  Correction,   \* bound: the statuses the staff sets
  None

ASSUME TravelerAssumption == TravelerOf \in [Session -> Traveler]
ASSUME CapacityAssumption == Capacity \in [Trip -> Nat]
ASSUME BoundAssumption    == /\ MaxBooking \in Nat
                             /\ MaxTry \in [Session -> Nat]
                             /\ Correction \subseteq
                                  {"Draft", "Confirmed", "Waiting", "Completed", "Cancelled"}
ASSUME NoneAssumption     == None \notin Session \cup Traveler \cup Trip \cup Nat

VARIABLES
  sales,      \* trips.sales_status
  held,       \* trips.draft_holds_*
  booking,    \* trip_bookings, by identifier
  lead,       \* leads, by identifier
  conv,       \* conv[s]: where the conversation stands
  sent,       \* requests on their way to a worker
  job         \* job[w]: the request a worker is running

tables == << sales, held, booking, lead >>
vars   == << sales, held, booking, lead, conv, sent, job >>

-----------------------------------------------------------------------------

Id == 1 .. MaxBooking

\* Live statuses the bridge looks for itself (Draft, Confirmed), the other
\* active ones (Waiting: Waiting Customer, Pending Confirmation, Payment
\* Pending, Paid), and the two that end a booking.
Status       == {"Draft", "Confirmed", "Waiting", "Completed", "Cancelled"}
ActiveStatus == {"Draft", "Confirmed", "Waiting"}
BridgeStatus == {"Draft", "Confirmed"}

Sales == {"Open", "Closed", "Cancelled"}

Row == [traveler : Traveler, trip : Trip, session : Session, status : Status]

\* A lead may be without a traveler.  The conversation it was made in is part
\* of its key, with the telephone number and the trip asked about.
Lead == [traveler : Traveler \cup {None}, session : Session]

ASSUME RowAssumption    == None \notin Row \cup Lead
ASSUME IntakeAssumption == Intake \subseteq Lead

Conversation == [ at   : {"asked", "sent", "completed"},
                  trip : Trip,
                  told : Id \cup {None},   \* the booking it was told of
                  try  : Nat ]

Request == [session : Session, trip : Trip, try : Nat]

Job == [ at      : {"idle", "validate", "lead", "newLead", "check", "allocate",
                    "write", "readBack"},
         request : Request \cup {None},
         lead    : Id \cup {None},     \* the identifier of a new lead
         holds   : Nat,                \* the holds of the trip, as read
         id      : Id \cup {None},
         again   : BOOLEAN,            \* the second attempt
         alone   : BOOLEAN,            \* history: no other request meanwhile,
         quiet   : BOOLEAN ]           \* and no change by the staff

Idle == [ at |-> "idle", request |-> None, lead |-> None, holds |-> 0,
          id |-> None, again |-> FALSE, alone |-> FALSE,
          quiet |-> FALSE ]

Init ==
  /\ sales   = [t \in Trip |-> "Open"]
  /\ held    = [t \in Trip |-> 0]
  /\ booking = [i \in Id |-> None]
  /\ \E l \in Intake \cup {None} : lead = [i \in Id |-> IF i = 1 THEN l ELSE None]
  /\ conv \in [Session -> {[at |-> "asked", trip |-> t, told |-> None, try |-> 0] :
                             t \in Trip}]
  /\ sent    = {}
  /\ job     = [w \in Worker |-> Idle]

-----------------------------------------------------------------------------
\* What the tables say.

Written == {i \in Id : booking[i] # None}

\* The bookings of a traveler on a trip whose status is one of ss.
On(u, t, ss) == {i \in Written : /\ booking[i].traveler = u
                                 /\ booking[i].trip = t
                                 /\ booking[i].status \in ss}

\* Mutant: the validator looks for the statuses of the bridge only.
KnownToBridge(u, t) == On(u, t, BridgeStatus)

\* The validator's duplicate: any active status.
Known(u, t) == On(u, t, ActiveStatus)

\* Mutant: only a live draft answers for its key.
KeyedLive(s, t) == {i \in Written : /\ booking[i].session = s
                                    /\ booking[i].trip = t
                                    /\ booking[i].status \in BridgeStatus}

\* The draft the same confirmation wrote before, whatever became of it.
Keyed(s, t) == {i \in Written : booking[i].session = s /\ booking[i].trip = t}

Leads == {i \in Id : lead[i] # None}

\* A lead the conversation names, found by the traveler or the number, is
\* accepted if it is the traveler's or nobody's; one that has the key, whosever
\* it is.
Accepted(s) == {i \in Leads : \/ lead[i].traveler \in {TravelerOf[s], None}
                             \/ lead[i].session = s}

LeadsOf(u) == {i \in Leads : lead[i].traveler = u}

\* _next_prefixed_id: the largest number of the table, plus one.
NextId(used) == IF used = {} THEN 1
                ELSE 1 + (CHOOSE n \in used : \A k \in used : k <= n)

UserOf(w) == TravelerOf[job[w].request.session]
TripOf(w) == job[w].request.trip

-----------------------------------------------------------------------------
\* The conversation.

\* The conversation at one more confirmation.
Confirmed(s, t) == [conv[s] EXCEPT !.trip = t, !.try = @ + 1]

\* The customer confirms.  The agent validates the draft before it sends it: a
\* traveler who has an active booking on the trip is told of that one, and a
\* trip that is not open is refused.
Confirm(s, t) ==
  /\ conv[s].at = "asked"
  /\ conv[s].try < MaxTry[s]
  /\ \/ /\ sales[t] # "Open"
        /\ conv' = [conv EXCEPT ![s] = Confirmed(s, t)]
        /\ UNCHANGED sent
     \/ /\ sales[t] = "Open"
        /\ \E i \in Known(TravelerOf[s], t) :
             conv' = [conv EXCEPT ![s] = [Confirmed(s, t) EXCEPT !.at = "completed",
                                                                !.told = i]]
        /\ UNCHANGED sent
     \/ /\ sales[t] = "Open"
        /\ Known(TravelerOf[s], t) = {}
        /\ conv' = [conv EXCEPT ![s] = [Confirmed(s, t) EXCEPT !.at = "sent"]]
        /\ sent' = sent \cup {[session |-> s, trip |-> t, try |-> Confirmed(s, t).try]}
  /\ UNCHANGED << tables, job >>

\* No answer in time, or the answer is lost with the turn: the confirmation is
\* asked for once more.
GiveUp(s) ==
  /\ conv[s].at = "sent"
  /\ conv' = [conv EXCEPT ![s].at = "asked"]
  /\ UNCHANGED << tables, sent, job >>

\* _start_new_booking_after_completion, on an explicit wish for another booking.
NewBooking(s) ==
  /\ conv[s].at = "completed"
  /\ conv[s].try < MaxTry[s]
  /\ conv' = [conv EXCEPT ![s].at = "asked", ![s].told = None]
  /\ UNCHANGED << tables, sent, job >>

-----------------------------------------------------------------------------
\* A request in a worker.

\* Mutant: an answer is not matched with the request that waits for it.
WaitsAnyTry(r) == conv[r.session].at = "sent"

\* The connection of a client that gave up is closed: only the request the
\* conversation waits for can be answered.
Waits(r) == conv[r.session].at = "sent" /\ conv[r.session].try = r.try

\* A customer is told of success only with a record and a status that stands
\* for one; `reused' and `duplicate' do.
Succeeds(id) == id # None

\* The worker is done with its request: id is the booking of the answer, None
\* a refusal or a failure.
Answer(w, id) ==
  /\ conv' = IF ~Waits(job[w].request) THEN conv
             ELSE [conv EXCEPT ![job[w].request.session] =
                     [conv[job[w].request.session] EXCEPT
                        !.at = IF Succeeds(id) THEN "completed" ELSE "asked",
                        !.told = id]]
  /\ job' = [job EXCEPT ![w] = Idle]

\* A refusal, an exception or an id that could not be verified: the answer is a
\* result like any other, with the status `failed' or `blocked'.
Fail(w) == Answer(w, None)

\* The validator's refusal of a second booking names the first, and is turned
\* into a success.
Duplicate(w, i) == Answer(w, i)

\* Worker w goes on: every other request is no longer alone.
Step(w, next) == job' = [v \in Worker |-> IF v = w THEN next ELSE job[v]]

\* A request reaches a worker.
Take(w, r) ==
  /\ job[w].at = "idle"
  /\ r \in sent
  /\ sent' = sent \ {r}
  /\ job' = [v \in Worker |->
               IF v = w
                 THEN [Idle EXCEPT !.at = "validate", !.request = r,
                                   !.quiet = TRUE,
                                   !.alone = \A x \in Worker : job[x].at = "idle"]
                 ELSE [job[v] EXCEPT !.alone = FALSE]]
  /\ UNCHANGED << tables, conv >>

\* The validator runs again inside the CRM.
Validate(w) ==
  /\ job[w].at = "validate"
  /\ \/ /\ sales[TripOf(w)] # "Open"
        /\ Fail(w)
     \/ /\ sales[TripOf(w)] = "Open"
        /\ \E i \in Known(UserOf(w), TripOf(w)) : Duplicate(w, i)
     \/ /\ sales[TripOf(w)] = "Open"
        /\ Known(UserOf(w), TripOf(w)) = {}
        /\ Step(w, [job[w] EXCEPT !.at = "lead"])
        /\ UNCHANGED conv
  /\ UNCHANGED << tables, sent >>

\* _ensure_booking_lead: the lead the conversation names, the one with its key
\* or one of the traveler is used again, else a new one gets the next
\* identifier.  What a conversation names and which trip a lead was about is not
\* in the model: a lead that is accepted may also not be found, unless it is the
\* traveler's.
FindLead(w) ==
  /\ job[w].at = "lead"
  /\ \/ /\ Accepted(job[w].request.session) # {}
        /\ Step(w, [job[w] EXCEPT !.at = "check"])
     \/ /\ LeadsOf(UserOf(w)) = {}
        /\ NextId(Leads) \in Id
        /\ Step(w, [job[w] EXCEPT !.at = "newLead", !.lead = NextId(Leads)])
  /\ UNCHANGED << tables, conv, sent >>

\* The lead is committed on its own.  A taken identifier fails the insert, and
\* the session it leaves behind fails the second attempt too.
InsertLead(w) ==
  /\ job[w].at = "newLead"
  /\ \/ /\ lead[job[w].lead] = None
        /\ lead' = [lead EXCEPT ![job[w].lead] = [traveler |-> UserOf(w),
                                                  session  |-> job[w].request.session]]
        /\ Step(w, [job[w] EXCEPT !.at = "check", !.lead = None])
        /\ UNCHANGED conv
     \/ /\ lead[job[w].lead] # None
        /\ Fail(w)
        /\ UNCHANGED lead
  /\ UNCHANGED << sales, held, booking, sent >>

\* Mutant: attempts are not counted.
RefuseAgain(w) ==
  /\ Step(w, [job[w] EXCEPT !.at = "lead", !.again = TRUE])
  /\ UNCHANGED conv

\* _create_with_verified_retry: what is refused at the first attempt is tried
\* once more, from the lead on.
Refuse(w) ==
  \/ /\ ~job[w].again
     /\ Step(w, [job[w] EXCEPT !.at = "lead", !.again = TRUE])
     /\ UNCHANGED conv
  \/ /\ job[w].again
     /\ Fail(w)

Refused(t) == sales[t] = "Cancelled"

\* A draft of this key, or one of this traveler on this trip that the bridge
\* takes for live.
Existing(w) ==
  IF Keyed(job[w].request.session, TripOf(w)) # {}
    THEN Keyed(job[w].request.session, TripOf(w))
    ELSE On(UserOf(w), TripOf(w), BridgeStatus)

\* Mutant: the capacity of a trip is compared without the draft in hand.
RoomLeftAny(t) == held[t] <= Capacity[t]

RoomLeft(t) == held[t] < Capacity[t]

\* create_booking_draft up to the capacity test, with the trip row it read.
Check(w) ==
  /\ job[w].at = "check"
  /\ LET t == TripOf(w) IN
     \/ /\ Refused(t)
        /\ Refuse(w)
     \/ /\ ~Refused(t)
        /\ \E i \in Existing(w) :
             Step(w, [job[w] EXCEPT !.at = "readBack", !.id = i])
        /\ UNCHANGED conv
     \/ /\ ~Refused(t)
        /\ Existing(w) = {}
        /\ ~RoomLeft(t)
        /\ Refuse(w)
     \/ /\ ~Refused(t)
        /\ Existing(w) = {}
        /\ RoomLeft(t)
        /\ Step(w, [job[w] EXCEPT !.at = "allocate", !.holds = held[t]])
        /\ UNCHANGED conv
  /\ UNCHANGED << tables, sent >>

Allocate(w) ==
  /\ job[w].at = "allocate"
  /\ NextId(Written) \in Id
  /\ Step(w, [job[w] EXCEPT !.at = "write", !.id = NextId(Written)])
  /\ UNCHANGED << tables, conv, sent >>

\* Mutant: the draft has a status no booking has.
DraftPending(w) == [ traveler |-> UserOf(w), trip |-> TripOf(w),
                     session |-> job[w].request.session, status |-> "Pending" ]

Draft(w) == [ traveler |-> UserOf(w), trip |-> TripOf(w),
              session |-> job[w].request.session, status |-> "Draft" ]

\* The holds are written as the number that was read, plus the rooms asked for.
HoldsAfter(w) == job[w].holds + 1

\* Mutant: the holds are counted up before the insert that may fail.
CommitHoldsFirst(w) ==
  /\ job[w].at = "write"
  /\ held' = [held EXCEPT ![TripOf(w)] = @ + 1]
  /\ \/ /\ booking[job[w].id] = None
        /\ booking' = [booking EXCEPT ![job[w].id] = Draft(w)]
        /\ Step(w, [job[w] EXCEPT !.at = "readBack"])
        /\ UNCHANGED conv
     \/ /\ booking[job[w].id] # None
        /\ Fail(w)
        /\ UNCHANGED booking
  /\ UNCHANGED << sales, lead, sent >>

\* The draft, the holds and the history row are one transaction.
Commit(w) ==
  /\ job[w].at = "write"
  /\ \/ /\ booking[job[w].id] = None
        /\ booking' = [booking EXCEPT ![job[w].id] = Draft(w)]
        /\ held' = [held EXCEPT ![TripOf(w)] = HoldsAfter(w)]
        /\ Step(w, [job[w] EXCEPT !.at = "readBack"])
        /\ UNCHANGED conv
     \/ /\ booking[job[w].id] # None
        /\ Fail(w)
        /\ UNCHANGED << booking, held >>
  /\ UNCHANGED << sales, lead, sent >>

\* The booking is read back before anybody is told of it.  A read that fails
\* counts as an attempt.
ReadBack(w) ==
  /\ job[w].at = "readBack"
  /\ \/ Answer(w, job[w].id)
     \/ Refuse(w)
  /\ UNCHANGED << tables, sent >>

-----------------------------------------------------------------------------
\* The staff, whose requests take a worker too.

Noticed == job' = [w \in Worker |-> [job[w] EXCEPT !.quiet = FALSE]]

\* An employee may correct a booking into any status; on PostgreSQL no status
\* gives the rooms back.
SetStatus(i, status) ==
  /\ \E w \in Worker : job[w].at = "idle"
  /\ i \in Written
  /\ booking[i].status # status
  /\ booking' = [booking EXCEPT ![i] = [booking[i] EXCEPT !.status = status]]
  /\ Noticed
  /\ UNCHANGED << sales, held, lead, conv, sent >>

\* The sales status of a trip is edited.
SetSales(t, status) ==
  /\ \E w \in Worker : job[w].at = "idle"
  /\ sales[t] # status
  /\ sales' = [sales EXCEPT ![t] = status]
  /\ Noticed
  /\ UNCHANGED << held, booking, lead, conv, sent >>

-----------------------------------------------------------------------------

Advance(w) == \/ Validate(w) \/ FindLead(w) \/ InsertLead(w) \/ Check(w)
              \/ Allocate(w) \/ Commit(w) \/ ReadBack(w)

Next ==
  \/ \E s \in Session : \/ \E t \in Trip : Confirm(s, t)
                        \/ GiveUp(s)
                        \/ NewBooking(s)
  \/ \E w \in Worker : \/ \E r \in sent : Take(w, r)
                       \/ Advance(w)
  \/ \E i \in Id, status \in Correction : SetStatus(i, status)
  \/ \E t \in Trip, status \in Sales : SetSales(t, status)

Spec == Init /\ [][Next]_vars

\* A worker takes what is sent to it and goes on with what it took; nothing
\* else is promised.
Fairness == \A w \in Worker : /\ WF_vars(\E r \in sent : Take(w, r))
                              /\ WF_vars(Advance(w))

FairSpec == Spec /\ Fairness

-----------------------------------------------------------------------------
(***************************************************************************)
(* Properties                                                              *)
(***************************************************************************)

\* Types of the tables, the conversations and the requests.
TypeOK ==
  /\ sales \in [Trip -> Sales]
  /\ held \in [Trip -> Nat]
  /\ booking \in [Id -> Row \cup {None}]
  /\ lead \in [Id -> Lead \cup {None}]
  /\ conv \in [Session -> Conversation]
  /\ sent \subseteq Request
  /\ job \in [Worker -> Job]

\* A customer who was told that a booking is recorded was told of a booking
\* that is in the table, of the customer's own traveler and on the trip that
\* was confirmed last, although answers of requests that were given up may
\* still be on their way and failed drafts are tried again.
ToldOfOwnBooking ==
  \A s \in Session : conv[s].told # None =>
    LET i == conv[s].told IN
    /\ booking[i] # None
    /\ booking[i].traveler = TravelerOf[s]
    /\ booking[i].trip = conv[s].trip

\* However drafts race, fail and are repeated, the rooms held on a trip never
\* exceed the drafts that were written: what is lost is lost to the trip.
HeldByDrafts ==
  \A t \in Trip : held[t] <= Cardinality({i \in Written : booking[i].trip = t})

\* The step that writes the draft of worker w.
Writes(w) == job[w].at = "write" /\ job'[w].at = "readBack"

\* A request that met no other request on its way holds exactly the room it
\* writes, and never one the trip does not have.
AloneHoldsTheRoom ==
  [][\A w \in Worker : Writes(w) /\ job[w].alone =>
       /\ held'[TripOf(w)] = held[TripOf(w)] + 1
       /\ held'[TripOf(w)] <= Capacity[TripOf(w)]]_vars

\* A confirmation that is repeated after its first request has ended, because
\* the answer was lost or late, writes no second draft, whatever the staff made
\* of the first one in between.
RepeatedConfirmationWritesOnce ==
  [][\A w \in Worker : Writes(w) /\ job[w].alone =>
       ~ \E i \in Written : /\ booking[i].session = job[w].request.session
                            /\ booking[i].trip = TripOf(w)]_vars

\* Without another request and without a correction by the staff on its way, a
\* request never gives a traveler a second active booking on a trip, although
\* the bridge itself looks for three of the active statuses only.
AloneWritesNoDuplicate ==
  [][\A w \in Worker : Writes(w) /\ job[w].alone /\ job[w].quiet =>
       ~ \E i \in Written : /\ booking[i].traveler = UserOf(w)
                            /\ booking[i].trip = TripOf(w)
                            /\ booking[i].status \in ActiveStatus]_vars

\* Whatever a customer confirms is answered: with a booking, or by asking for
\* the confirmation once more.
ConfirmationsAreAnswered ==
  \A s \in Session : conv[s].at = "sent" ~> conv[s].at # "sent"

-----------------------------------------------------------------------------
\* A statement the code does not keep.

\* POSTGRES_MIGRATION_ROLLBACK_PLAN.md: no duplicate booking is created by
\* repeated confirmation.
NoDuplicateByRepetition ==
  \A i, j \in Written :
    /\ booking[i].session = booking[j].session
    /\ booking[i].trip = booking[j].trip
    => i = j
=============================================================================
