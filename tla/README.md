# TLA+ models and proofs for the Ravel CRM

Ravel is a travel company's CRM: a Flask application used by employees
(`apps/api`), an AI agent that talks to customers on web chat and Instagram
(`services/ai_agent`, `services/instagram`), and a service layer both use
(`services/crm`). In production the CRM runs as two gunicorn workers on
PostgreSQL under READ COMMITTED; the agent is one eventlet worker whose sessions
are rows of the same database (`AI_AGENT_SESSION_DATABASE_URL`, else
`DATABASE_URL`). SQLite is the development backend.

The modules in this directory model the parts of the system whose correctness
depends on state shared between requests: money, rooms, stages, ownership,
sessions. Each action is translated from the Python source; `PROJECT.json`
gives, for every definition, the lines it stands for.

## The system: parts, state, interaction

| Part | Source | State it keeps | Operations |
|---|---|---|---|
| **A. Private trips** | `routes/private_requests.py`, `services/private_trip_money.py`, `services/private_trip_ledger.py`, `services/crm/.../private_trips.py` | request rows (stage, agreed price, deposit milestone), append-only `private_trip_transactions`, fees | create, price, pay, refund, reverse, move stage, delete, add and void a fee |
| **B. Trips, rooms and bookings** | `unified_service.py`, `routes/bookings.py`, `routes/trips.py` | available rooms per trip and room type, bookings (status, room quantities, idempotency key) | create, change status, cancel, reconcile holds, edit, delete |
| **C. Booking money** | `routes/bookings.py`, `payment_rules.py`, `booking_ledger.py`, `refund_limits.py` | payment status, running refund amount, `booking_transactions` | change payment status, refund, derive a status from the ledger |
| **D. Ownership** | `services/assignments.py` | one round-robin cursor per queue, owner columns, assignment history | assign, reassign, auto-assign |
| **E. Leads** | `unified_service.py`, `routes/leads.py`, `booking_automation.py` | lead stage, qualification, linked booking | qualify, move stage, create the booking when ready |
| **F. Handoffs** | `routes/handoffs.py`, `unified_service.create_handoff_case` | support cases, the flag on the conversation | open, acknowledge, resolve, resume the agent |
| **G. Agent sessions** | `agent/session_store.py`, `agent/tool_calling_runtime.py` | conversation state with a version, a processing lease | acquire, process, save, release |
| **H. Agent runtime** | `tool_calling_runtime.py`, `session_flow.py`, `workflow_policy.py`, `write_tool_executor.py` | workflow slots, pending confirmation, tool results | interpret a message, ask, confirm, call a CRM write |
| **I. Derived counters** | `services/traveler_stats.py`, `revenue_analytics.py`, `booking_audit.py` | counters on the traveler row | recompute after a commit |
| **J. Inbound channels** | `services/instagram`, `record_inbound_channel_event` | recorded channel events | verify, deduplicate, hand to the agent |
| **K. Spreadsheet mirror** | `services/ai_agent/.../sheets` | a Google sheet or workbook | best-effort copies of rows |
| **L. Access** | `routes/auth.py`, `security.py`, `permissions` | users, sessions, login counters | sign in, check a permission |
| **M. Prototypes and tools** | `apps/middleware`, `apps/admin-web`, `Forntend`, `scripts`, `tools`, `database/migrations` | none at run time | one-off imports, audits, migrations |

How they interact. The agent (H) runs one message at a time per session under
the lease of G, and calls B, E and F through `UnifiedCRMService`. The
employees' routes call the same service (B, E) or write through the ORM (A, C,
D). A commit in A, B or C is followed, in a transaction of its own, by I. There
are no foreign callbacks or message queues: two parts meet only in the
database. What is hard is therefore always the same question: **what may
another request commit between the moment a handler reads and the moment it
writes?** READ COMMITTED re-checks nothing, so an answer rests on row locks
(`FOR UPDATE`, `BEGIN IMMEDIATE`), on constraints (UNIQUE, FOREIGN KEY), on
optimistic tokens, or on nothing.

### What makes each part correct

* **A.** Money is never orphaned, never recorded twice for one deposit, never
  edited; a committed stage has money behind it; refunds stay within receipts;
  one currency; stages follow the pipeline and `paid` is final.
* **B.** Rooms held plus rooms available is the capacity of the trip; no type
  goes negative; no booking is made beside an active one of the traveler on the
  trip; an idempotency key
  makes one booking; a terminal booking stays terminal.
* **C.** A payment status only advances unless corrected; a refund stays within
  what the booking is worth; a form overwrites only what it showed; every change
  is on record.
* **D.** Consecutive assignments go round the eligible employees; the history
  row and the owner column agree.
* **E.** A lead gets at most one booking, and is Won only with one.
* **F.** A paused conversation has an open case, and is resumed only when it
  has none.
* **G.** Two processes never run the same session at once, and a save never
  overwrites one it has not read.
* **I.** Once writers stop, the stored counter equals the live count.
* **J.** A redelivered event is handled once.

## Modules

| # | Module | Part | Status |
|---|---|---|---|
| 1 | `PrivateTripRequests`, over the abstract `AppendOnlyLedger` | A | checked, proved |
| 2 | `SessionStore`: lease, load, versioned save | G | checked, proved |
| 3 | `InstagramWebhook`, composing deliveries with 2 | J | checked, proved |
| 4 | `RoomInventory`: bookings against the rooms of a trip, on SQLite | B | checked, proved |
| 5 | `AgentBookings`: the drafts of the agent in the PostgreSQL CRM, from the confirmation to the answer | B, H | checked, proved |
| 6 | `BookingConversation`: the handlers, the policy and the confirmation gate of one conversation | H | checked, proved |
| 7 | `LeadDesk`: leads, the bookings made of them, the rotation of owners | D, E | checked, proved |
| 8 | `BookingMoney`: the form of a booking, its payment, refund and fees, the records of its changes, the revenue of its traveler | C, I | checked, proved |

`InstagramWebhook` EXTENDS `SessionStore`: a delivery is a turn of a session.
`AgentBookings` and `BookingConversation` meet at the draft: the conversation
decides that a confirmed draft is sent and what an answer does to the session
(one step there), `AgentBookings` what becomes of it on the way and in the
tables (many steps there). `SessionStore` is why a message is one step of
`BookingConversation`: turns of one session are serialised.

`X.tla` is a component, `XProofs.tla` its theorems, `MCX.tla` its instances for
TLC with one `.cfg` per question. No module that is proved about reaches a
RECURSIVE operator.

Every property of the twelve runs but two has a theorem that states it for every
value of the constants. The two are the liveness properties `SessionsRecover`
and `ConfirmationsAreAnswered`: liveness under fairness needs ENABLED, which the
provers do not have. One statement has a theorem and no run: `LiveLeaseIsOwner`,
on which the theorems of the store rest. What remains to be modelled: fees of a
private trip, support cases as rows (F), the other recomputed counters (I).

## 1. `PrivateTripRequests`

A handler of `routes/private_requests.py` is one database transaction: it loads
the request, reads the ledger totals, checks, adds rows to the ORM session and
commits. The model splits it in two. The first action (`SetAgreedPrice`,
`RecordPayment`, `RecordRefund`, `ReverseEntry`, `MoveStage`, `PayDeposit`,
`ConfirmDeposit`, `DeleteRequest`) takes the reads and the checks and puts the
writes into `session[e]`; the second (`CommitPrice`, `CommitEntry`,
`CommitStage`, `CommitDelete`) is the flush and commit, where only the database
has a say. `Rollback` is a refused commit or a worker that dies before it.
`CreateRequest` reads and writes nothing another handler uses, so it is one
action; it reuses an identifier exactly when the code does.

| Model | Code |
|---|---|
| `requests`, `stage`, `price` | rows of `private_trip_requests`, `stage`, `agreed_price_currency` |
| `deposit` | whether `deposit_amount`, `deposit_paid_at`, ... are filled |
| `ledger` | `private_trip_transactions`; the position is the serial id |
| `isDeposit` | `idempotency_key = private-deposit:<request id>`, the only key in use |
| `Standing`, `RemainingRefundable`, `RequestCurrency` | `live_transactions_query`, `PrivateLedgerTotals`, `request_currency` |
| `Insert`, `Committing`, `CommitDelete` | UNIQUE key, ORM row counts, foreign key |

Abstractions. Amounts are small integers (the code rounds floats to cents and
compares with half a cent of tolerance). All reads of one handler are one step.
The amount of the agreed price is left out, since no ledger rule reads it. A
query without ORDER BY returns rows in any order, so the ledger's currency is
any standing row's. The retired stage `converted` has no writer and is not a
stage of the model. Permissions are not modelled: every employee may do
everything. Attribution (dates, methods, references) is left out.

### Runs

| Run | Shows |
|---|---|
| `private_trip_race` | two employees on one request, three rows: types, one deposit row, no orphan, committed stages funded, and the ledger implements `AppendOnlyLedger` |
| `private_trip_serial` | one handler at a time, four rows of amounts 1 and 2: one currency, one reversal per row, the refunds of a request do not exceed its receipts when one is recorded |

The properties the two passing runs divide between them are the point of the
model: the first list needs only the database's constraints and holds under
every interleaving; the second list needs the handlers' own checks and holds
only when handlers do not overlap: with two employees every member of the
second list is violated (two first payments in two currencies, two reversals of
one row, two refunds of the same money).

Bounds. One request suffices: handlers only read and write rows of the request
in their URL, and identifier reuse happens with one request too. Two employees
are enough for every race of two handlers. Three rows are the least for pay,
deposit and reversal (race), four for pay, pay, refund and reversal (serial).
Amounts 1 and 2 let a refund be partial. `MaxEntries` guards both the handler
and the insertion. Employees and currencies are symmetric.

### Proofs: `PrivateTripProofs`

For every set of employees, requests, currencies and amounts and every bound:

| Theorem | States |
|---|---|
| `TypeCorrect` | `Spec => []TypeOK` |
| `MoneyIsNeverOrphaned` | `Spec => []NoOrphanedMoney` |
| `CommittedMeansFunded` | `Spec => []CommittedStagesAreFunded` |
| `LedgerKeepsPromise` | `Spec => KeepsPromise`, the refinement of `AppendOnlyLedger` |
| `DepositsAreRecordedOnce` | `Spec => []DepositRecordedOnce` |
| `AloneReversesOnce` | `Alone`: `Spec => []ReversedAtMostOnce` |
| `AloneKeepsOneCurrency` | `Alone`: `Spec => []OneCurrency` |
| `AloneRefundsWithinReceipts` | `Alone`: `Spec => RefundStaysWithinReceipts` |

The argument is one inductive invariant, `IInv`. The properties are about
committed rows, but a step that breaks them is the commit of something decided
earlier, so the invariant has to speak of units of work in flight:
`SessionsSound` says that what each was built from is *still* true. Those facts
survive every other commit because the ledger only grows: a payment once in the
history stays there, a row a correction aims at stays where it is, the deposit
columns are never emptied, and a request with a row cannot be deleted. Facts
that do not have this shape (that money still stands, that a row is not yet
reversed) are exactly the ones that hold for one handler at a time only.
`DepositsAreRecordedOnce` uses the invariant only to get the refinement, then
follows from the abstract ledger alone. The last three theorems assume `Alone`,
that there is at most one employee, as in `private_trip_serial`, and add
`AloneInv`: the unit of work in flight still fits the ledger it was built from
(`Fits`), because between the read of the only handler and its commit nothing
but a new request can come in. Without `Alone` all three statements fail.

The sums of the ledger are numbers of pairs of a row and one of its units
(`Total`), so that what a sum does can be derived from cardinalities instead of
by induction over a fold: a row that is appended adds its amount to the sum of
its kind (`PairsGrow`), and the refund in flight was checked against the sums
that are still there (`CoverInv`). The property is about the request whose
refund is recorded. Said of all requests at once it is false with two requests
and five rows: the refund of one is recorded while the payment of the other,
refunded before, is already reversed.

The other assumptions are on the constants: requests are naturals, amounts positive
naturals, and NULL is none of the values of a column.

The model states no liveness: the code retries nothing and promises nothing
about when an employee acts, so there is no fairness to assume.

## 2. `SessionStore`

A turn of a conversation is `handle_message_by_id`: `session_lock` polls the
lease, `load` reads the row, `handle_message` works on the copy, `save` stores
it under the version that was loaded, the lease is given back. The store calls
itself cross-process, so the model lets requests interleave at every statement
the database commits or reads by itself: `CheckVersion` (the SELECT in `save`)
and `Write` (its UPDATE) are two steps. In today's deployment one eventlet
worker serves all requests; it switches between them at the calls of the model
and at the sleeps of the polling, not inside a database call, so there the two
steps run together. A second worker process separates them.

| Model | Code |
|---|---|
| `row[s]` | the row of `ai_agent_sessions`: `version`, `payload`, `lock_owner` |
| `row[s].turns` | the turns the payload contains |
| `turn[r].lease` | `locked_until` against the clock: `live` until `Expire` |
| `Acquirable` | the WHERE clause of the UPDATE in `_try_acquire_lock` |
| `Acquire`, `GiveUp` | the polling loop of `session_lock`; `GiveUp` is the timeout, `session_busy` |
| `Release`, `ReleaseFails` | `_release_lock`, by owner; a failure is logged and swallowed |
| `Crash` | the process dies; an uncommitted save is rolled back |

The 30 seconds of the lease become a flag that flips once. `LeaseCanLapse` says
whether it may flip while the turn is still running; the code neither renews
the lease nor bounds a turn. The content of a payload is abstracted to the
turns it contains.

| Run | Shows |
|---|---|
| `session_lapse` | three requests, one session, leases lapse mid-turn, requests crash, releases fail, under fairness: valid leases exclude each other, and a session can always be taken again later |

Three requests are an owner, a request that takes over and a late release;
leases of different sessions do not meet, so one session suffices.

Fairness (`FairSpec`). A request that is being served goes on: every step is a
call that returns or raises, and a waiting request gives up after ten seconds
(`WF` on `Serve(r)`). Time passes (`WF` on `Expire(r)`). Nothing makes a
customer write or a process die, so those have no fairness. No symmetry is used
in a run with a liveness property.

Proofs (`SessionStoreProofs`), for any requests and sessions: `TypeCorrect`,
`LiveLeaseIsOwnerHolds` (the row names the holder of a valid lease) and
`ExclusiveTurnsHolds` without assumptions, and `AnsweredTurnsAreKeptInTime`,
which assumes `~LeaseCanLapse`. Its invariant
`KeptInv` adds to the properties what is true of a turn in flight: it holds its
lease (`RunningIsLeased`), the copy it loaded is the row (`CopyIsFresh`), and
its own work is in the copy or in the row (`WorkIsThere`). The version check
appears nowhere in the argument: within the lease it is redundant, and beyond
the lease it does not help (see the last section but one).

## 3. `InstagramWebhook`

`webhook_received` handles the events of a delivery one by one: record the
event as an interaction under a unique key, find or create the session of the
sender, run a turn. The module EXTENDS `SessionStore` and conjoins its actions
with the webhook's own state; a `Request` is one event of one delivery.

| Model | Code |
|---|---|
| `recorded` | `message_key`s of `interactions`, unique per channel |
| `sender`, `notes` | the columns `instagram_sender_id` and `agent_state` of a session |
| `memory`, `object` | `_state_by_session` and the `AgentState` objects it refers to |
| `Look`, `Insert` | the SELECT and the INSERT of `record_inbound_channel_event` |
| `RecordFails` | the `except` of the webhook: an event that could not be recorded counts as new; `lost` remembers it |
| `Failing` | the requests for which a call to the store can raise |
| `Find`, `FindNone`, `CreateFor`, `Claim` | `get_or_create_session_for_instagram`; `Claim` is the second save, without lease or expected version |
| `FetchState`, `WorkOn`, `Pack` | the turn writes to the object it fetched; the save packs the object the dict holds by then |
| `Restart` | PM2 restarts the only worker: all requests in flight and the dict are gone |

| Run | Shows |
|---|---|
| `instagram_once` | two deliveries of one event, and another event of the sender in a delivery with the first, restarts, a store that may fail for one of the requests: a recorded event reaches the agent once; the second, unleased save of a new session never lands on an answered turn |

Two first messages of one sender can also create two sessions: the index on
`instagram_sender_id` is not unique. `Find` therefore picks any of them, as the
query, which takes the first row in no particular order, does.

Bounds. Three requests: two for the race on one event, and a third of the same
sender for the race on its session. Two sessions let the sender end with two.

Proofs (`InstagramWebhookProofs`): `WebTypeCorrect` without assumptions;
`WebHandlesOnce` whatever fails, from `TakenOnce`: at most one delivery of an
event that was not `lost` is past `marked`, and only one whose key is recorded.
A delivery whose event could not be recorded is handled as new, and nothing
tells its redelivery apart, which is why `HandledOnce` leaves it out;
`WebTurnsAreKept` if no turn outlives its lease. The last one needs that the
unleased second save of a new session is harmless: `Private` says that a session
without a sender has exactly one request that knows it, which has not begun its
turn, so what `Claim` overwrites is empty. Not in the model: the text of the
reply, the interaction written for it, and the sending of it to Meta.

## 4. `RoomInventory`

The bookings of `UnifiedCRMService` and the routes that edit them, on SQLite,
where both work on one file. (On PostgreSQL the routes leave that file, and the
agent books through `agent_crm_bridge.py`: section 5.) A
method of the service takes the write lock first (`BEGIN IMMEDIATE`) and is one
action. A route reads and checks, and takes the lock at its first write: it is
a `Submit...` and a `Commit...`, and others commit in between. The deletion of
a booking is followed, in a transaction of its own that may fail, by a recount
of the holds without `BEGIN IMMEDIATE`: `ReadHolds`, `WriteHolds`.

| Model | Code |
|---|---|
| `trip[t]` | `sales_status` is open, the remaining rooms (`single_remaining`, ..., `boys_double`, ...), the `draft_holds_...` columns |
| `booking[b]` | the row with primary key `b` = traveler, trip it was made for, number |
| `demand` | `room_requirements_json`: the rooms of each pool and the largest line of each group |
| `Held` | the sum over the bookings of a trip in `_reconcile_trip_room_holds` |
| `Existing` | the look-ups by idempotency key and by traveler and trip |
| `lastBooking`, `leadBooking` | `travelers.last_booking_id`, `leads.booking_id` |
| `SubmitForm`, `CommitForm` | `update_status` of `routes/bookings.py`; the ORM writes the changed columns only |

Abstractions. The sum of rooms is the number of pairs of a booking and one of
its rooms, which is the same and can be reasoned about with cardinalities. The
newest of several bookings (a creation time in seconds) is any of them. Money,
history rows, notes and assignment are left out; the form is the one of a
client that sends no `expected_history_count`, which is optional. The form's
`room_type` does not appear: a booking made by `create_booking` has its
requirements, and the recount reads those. Foreign keys are not enforced on
SQLite. `Overlap` says whether requests may overlap, `Corrections` whether
employees override the life cycle with a reason, `Target` which statuses are
asked for.

| Run | Shows |
|---|---|
| `rooms_race` | two employees and the service on one trip, with corrections: a creation fits into the rooms that are free at that moment, whatever the stored holds said before; the last booking of a traveler exists, although a booking may be deleted twice around a creation that uses its number again |
| `rooms_serial` | one request at a time, all eight statuses, two kinds of demand, a group that is configured or not: the booking of a lead exists, the trip of a booking exists |

Again the two passing runs divide what the transaction guarantees from what
only the absence of overlap does. The stored holds may be wrong for a long time
(forms and deletions do not recount, a late recount writes an old count), and
bookings may exceed the rooms (a form moves a booking or takes back a
cancellation without asking, an employee lowers the capacity), but a creation
never adds to that, because it recounts inside its own transaction.

Bounds. One trip with one or two rooms: bookings leave it to no trip and come
back, which exercises moved keys and taken numbers as a second trip would. One
traveler with two numbers is the least for a duplicate and for a number used
again. Two employees are enough for every race of two handlers. `MaxSeq` stops
creation, `MaxRooms` bounds the demands. `Target` has the statuses that matter to
the run: in the race a draft, a finished and a cancelled booking.

Proofs (`RoomInventoryProofs`), for any trips, travelers, rooms, demands and
employees, with overlap and corrections: `TypeCorrect`, `CreationFitsHolds`,
`LastBookingIsLiveHolds`. `CreationFits` rests on
`HeldGrows`: a new row adds exactly its own rooms to those held on its trip,
since the pairs it contributes are disjoint from the others. It needs no
invariant beyond the types: the check and the insertion see one state. The
last rests on `LastBookingInv`, that the pointer of a traveler is to a booking
of *that* traveler: the deletion of a booking then rewrites the only pointer
that can be to it. For leads the same does not hold under overlap, because the
number of a deleted booking may come back for another lead.
`SoloLeadBookingIsLive` and `SoloNoOrphanedBookings` prove the two properties of
`rooms_serial` from `~Overlap`: `SoloInv` says that one request is in flight,
that the booking a lead names exists and names that lead, and that the trip a
form looked up and the booking a deletion read are still there when it commits.
The assumptions: finitely many trips and travelers, NULL is no row, unit of
work, identifier or number.

## 5. `AgentBookings`

The way of a confirmed draft on PostgreSQL. The runtime of the agent
(`_execute_booking_draft`) validates it, sends it over HTTP and waits at most
15 seconds; a CRM worker (`agent_write`, `write_tool_executor.py`,
`agent_crm_bridge.create_booking_draft`) validates it again, makes sure of a
lead, looks for an existing draft, compares the rooms, allocates a number,
commits, reads the row back and answers. Nothing stops a request whose client
has given up. A worker runs one request at a time (the driver blocks it); two
workers meet in the tables under READ COMMITTED, so every statement between
which another transaction may commit is a step.

| Model | Code |
|---|---|
| `booking`, `lead` | rows of `trip_bookings` and `leads`, by the number of their identifier; a lead is the traveler it is linked to, if any, and the conversation in its idempotency key |
| `held[t]`, `Capacity` | `draft_holds_*` and the remaining rooms of a trip, of the type asked for |
| `conv[s]` | where the conversation stands, its last confirmation, what it was told |
| `sent`, `job[w]` | requests on their way; what the request in a worker has read so far |
| `Confirm`, `GiveUp`, `NewBooking` | `_execute_booking_draft` with its preview, the time-out of `crm_api_client.py`, `_start_new_booking_after_completion` |
| `Take` ... `ReadBack` | the request, statement by statement |
| `Keyed`, `Existing`, `Known` | the idempotency key (a query, not a constraint), the bridge's and the validator's test for a duplicate |
| `Refuse` | `_create_with_verified_retry`: one more attempt, from the lead on |
| `SetStatus`, `SetSales` | the staff; a correction reaches any status |

Abstractions. The rooms of a draft are one room of one type. The four active
statuses the bridge does not look for are one (`Waiting`). The history row and
the notes are left out; the traveler of a session is verified and does not
change. Of a lead only matters that there is one: which one the conversation
names, the trip in its key and the lead a booking is linked to are left out, so
`FindLead` may take any lead the code would accept (`Accepted`: the traveler's,
one without a traveler, or one with the key, whosever it is) and makes a new one
only when the traveler has none. A taken identifier fails the insert and, as the
code leaves the session broken, the second attempt too.

| Run | Shows |
|---|---|
| `agent_bookings_race` | two workers, two conversations of two travelers, one trip: a trip never holds more rooms than drafts were written on it; a confirmation repeated after its first request has ended writes no second draft |
| `agent_bookings_serial` | one worker, two conversations of one traveler, two trips, under fairness: nobody is told of a booking that is not theirs; a request alone takes a room that is there and makes no second active booking; every confirmation is answered |

The race makes two drafts take the last room and lose one of two holds, and a
confirmation whose first request is still running is written twice. The
properties say what is left: `HeldByDrafts` is an inequality, and the others
are about a request that meets no other one (`alone`, and `quiet` where the
staff must not act either), a history that `Take` and the staff's actions keep.

Bounds. `MaxBooking` bounds numbers of bookings and of leads, `MaxTry` the
confirmations of a conversation: two of the first one (a repetition), one of
the second (a rival). `Intake` are the leads one of which may be there before:
one of the other traveler made by the first conversation, or one without a
traveler. Two rooms on one trip and one on the other let a trip be
full. The staff sets a status the bridge ignores and a final one. Deadlock is
not checked because confirmations are bounded.

Fairness (`FairSpec`). A worker takes what is sent to it and goes on with what
it took: statements return or raise. The customer, the time-out and the staff
have none. `ConfirmationsAreAnswered` also ends because `Refuse` retries once.

Proofs (`AgentBookingsProofs`), for any workers, conversations, travelers,
trips, capacities and bounds: every safety property of the two runs. `TypeInv`
joins the types with `JobsOK`, what a request knows at each of its steps (the
booking it reads back is of its traveler and trip), which no other step can take
away because bookings only grow.
`ToldInv` adds that a request in flight is of the current confirmation or of one
given up, so that an answer is heard only by the confirmation it answers.
`AloneInv` says that what an undisturbed request has read is still so.
`HeldInv` bounds the holds a request has read by the drafts of the trip; a
draft adds one to both. Model-checked only: the liveness property.

## 6. `BookingConversation`

What `handle_message` of `tool_calling_runtime.py` does to a session. A message
is offered to one handler after another, in the order of the code: after a
booking or a handoff (`StartNewBooking`, `Support`), corrections (`Revise`),
the passport, the answer to a summary, navigation, a person, discovery, and the
workflow, which records what the message says, finds the next step
(`workflow_policy.evaluate`, here `Step`) and either asks, hands over, saves the
traveler, asks for the confirmation or, when `booking_confirmed` is set, writes
the draft.

| Model | Code |
|---|---|
| `session` | the slots of `AgentSession` a decision reads: identity, selection, flags, results of writes |
| `Step`, `At` | `WorkflowPolicy.evaluate` and the stage a step is stored as |
| `Reply`, `WayBack`, `Wish`, `Detail` | what the recognisers make of a message |
| `party`, `Offer` | rooms, head counts and nationalities of a group; what the CRM has for it |
| `crm`, `minor` | what the CRM answers about the number; whether the birthday is a minor's |
| `visible`, `shown`, `written` | whether the last text was a summary; of which trip; records since the last new booking |
| `UploadPassport` | `handle_passport_attachment` |
| `DeleteTraveler`, `CreateTraveler` | the staff, in the CRM |

Abstractions. A message is its class; what the words of a message are
recognised as is its input, so every class may arrive in every state. `Details`
may select any trip that was named before. Every write and read-back may fail
where the code handles a failure. Left out: the three-strikes escalations (they
open a case and change counters only), the choice between several leads of a
traveler, the tool calls the model makes of its own accord, the off-script
classifier, trip media and wording.

| Run | Shows |
|---|---|
| `conversation_group` | a customer of the group trips, any order of their messages: what is asked to be confirmed is complete, a draft is of the trip that was summarised, a minor has the consent of a guardian on file |
| `conversation_private` | a customer who may turn to a private trip, come back, ask for a person and go on after a booking: one record between two explicit new bookings, and a private request is always with a person |

Bounds. A local and an international trip; two parties, of which the second
finds no price on the one and no rooms on the other. The state space is finite
without a bound on the number of messages. The messages are divided between the
two runs to keep each within minutes; on one international trip and one party
all six properties also hold for all messages together (718,826 states).

Proofs (`BookingConversationProofs`), for any trips, parties and offers and all
messages: `TypeCorrect`, and `AskedIsComplete`: while a "yes" is asked for,
everything the policy needs is still there. The invariant is short; the work is
in the handlers. A message either leaves every slot the policy reads as it is
(`Step` reads the fields of `SameBooking` only), or takes the question back
(`FreeIsUnasked`: a message that is free of an open question arrives with the
flag cleared), or asks anew after looking at the step.

`WrittenOnce`, `RequestsAreHandedOver` and `MinorsAreGuarded` share a second
invariant, `RecordInv`, about what is on file. A booking and a wish for a
private trip exclude each other, so a record is never written beside another
(`Fine`, `Count`); an open request keeps the conversation with the support or a
person, so that no handler of the workflow takes a message meanwhile
(`FiledIsKept`, `FiledTakesAll`). For minors it says what is left when a deleted
traveler takes the number away: the guardian was named before that. `Near(o, k)`
collects the sessions that differ from `o` only in what the invariant does not
read; all handlers but the new booking, the private request and the draft stay
there, and these three are treated by hand.

`DraftsWereShown` rests on a third, `ShownInv`: as long as a confirmation is
asked for, counts, or could be given to the last text, the trip of the session
is the one that was shown. Every handler stays within `Held`, the sessions of
which this is true: whatever replaces the trip takes the question and the
answer back with it (`_clear_booking_dependent_state`), but not the stage, so a
handler that replaces the trip must not run at the stage of the question. It
does not, because there only a "yes" gets past `AnswerSummary`, and it moves
the stage first (`HeldHeard`). TLC checked `ShownInv` on both instances before.

The code promises no progress of a customer, so no
liveness is stated.

## 7. `LeadDesk`

The leads on PostgreSQL: `routes/leads.py` and the agent's `upsert_lead`, the
booking a lead gets at Booking Draft (`booking_automation.py`), and the rotation
(`assignments.py`). A request is a few transactions of a worker; every
statement or commit is a step. Only the rotation takes a lock before its commit
(`SELECT ... FOR UPDATE` on the sales employees), and what was flushed keeps its
row locked.

| Model | Code |
|---|---|
| `leads`, `bookings` | stage, size, owner and link of a lead; lead, status, size and owner of a booking |
| `history`, `active`, `lock` | `assignment_history` in commit order, active sales employees, who has their rows locked |
| `work[w]` | the step of the request in worker `w` and what it has read |
| `CreateByAgent`, `CreateByHand`, `Edit`, `Move`, `Delete` | the requests; the agent's gets its owner in the transaction that inserts it |
| `RefuseOwner` | whoever creates a lead by hand, names an owner and may not assign work is refused when the lead is already committed; it stays without an owner |
| `Rotate`, `NextSales` | `next_round_robin_sales_assignee` under the lock |
| `Find` ... `Insert` | `auto_create_booking_from_lead`: look, link or number, own, flush, commit |
| `Measure`, `Resize` | `sync_lead_group_size_to_booking` |
| `Remove` | the foreign key of `database/postgres/001_create_schema.sql:302` refuses the deletion of a lead a booking names |
| `Abort` | PostgreSQL ends a deadlock: one request has the employees and waits for the lead, the other the reverse |

Abstractions. The stages are Booking Draft and the rest, because a correction
reaches any. Forms that are refused as out of date have no effect and are left
out, as are the `booking_id` the form accepts, handoffs, the event
trail, follow-ups and notes. A lead `upsert_lead` finds only counts the
contact; private requests take turns in the same rotation and are not
actors here. Failures the code swallows are steps: an owner who was
deactivated, a number that is taken.

| Run | Shows |
|---|---|
| `lead_desk` | two workers, two leads of one traveler, two employees, three requests or changes: the rotation alternates, a lead gets one booking unless requests overlap, a group size reaches the booking |

Bounds. `MaxEvents = 3` is a lead, a request on it and a rival; `MaxBookings = 2`
lets a second booking be made. Workers and leads are symmetric. Deadlock is not
checked because requests are bounded.

Proofs (`LeadDeskProofs`), for any workers, leads and numbers: `TypeCorrect`
and `RotationAlternates`. The invariant adds to the types what a request knows at
each step, and `RotationOK`: whoever was chosen and is not yet recorded was chosen
under the lock, which the request still has, and is still not the one recorded
last among those active.

`OneBookingPerLead` and `SizesAreKept` are about a request that meets no other
one. `SoloInv` says what such a request may still rely on at each step: every
other request is idle, the lead it works for is as it read it and, while it makes a
booking, the lead has none (`Making`, `Bookless`) and the number it took stays
free, because the staff between two steps only changes statuses and who is
active. From `EditsEndMeasured` follows that an edit
ends by measuring or resizing, unless the owner was refused; that exception was
found by the proof, and TLC confirms it with five events: a lead that is
linked to another booking of its traveler, whose owner is deactivated
while the size is edited, is left with one size and its booking with another,
because the exception of the new booking is swallowed (`leads.py:702-705`) with
that booking still in the session and the lead pointing at it
(`booking_automation.py:172-173`): the synchronisation finds it, already of the
new size, has nothing to do, and the end of the request throws both away.

## 8. `BookingMoney`

The booking form (`update_status` of `routes/bookings.py`) with the fields the
money depends on, the fees, the deletion, and what follows a commit: the
timeline (`booking_audit.py`) and the revenue of the traveler
(`traveler_stats.py`). A form is open for any time. A request reads the booking
and the fees, checks, flushes, commits and then recalculates in a second
transaction; nothing is locked in between.

| Model | Code |
|---|---|
| `booking` | `booking_status`, `payment_status`, `refund_amount`, `currency`, `group_size` |
| `fees` | `additional_fees` of the booking, voided ones included |
| `history`, `trail` | number and newest row of `booking_status_history`, number and latest values of `booking_event_trail` |
| `revenue` | `travelers.lifetime_revenue`, here of one booking |
| `work[e]` | the open page with its two tokens (`expected_history_count`, `expected_payment_state`), or the request and what it has read |
| `Submit`, `SubmitJson` | the form, which sends every field and both tokens; a JSON client, which sends some fields and no token |
| `Flush`, `Commit` | the numbers of the events are chosen at the flush and unique at the commit; the ORM writes the changed columns only |
| `Recalculate`, `Store`, `RecalculationFails` | `recalculate_traveler_stats`, after the commit, whose exceptions are logged |
| `overlap`, `missed` | history: requests have met; a recalculation failed, or was not asked for |

Abstractions. Amounts are naturals. All reads of one handler are one step, and
so are those of one recalculation. The trip and the room type of the booking
stay; its traveler has no other booking. `booking_transactions` has no rows,
because no route writes any (`scripts/backfill_booking_ledger.py` does), so the
figures come from the columns. A form changes at most two of the values it
shows (`Filled`). A correction needs a reason, which is a note, and only the
form can make one. Exceptions the audit swallows by itself, notes, files and
the other details are left out.

| Run | Shows |
|---|---|
| `booking_money` | two employees, three requests, one fee: the history and the timeline end with what the booking says however requests meet; a form that met no other request overwrites only what it showed; a save that met no other request leaves a refund within the worth of the booking; the stored revenue is right at rest |

What the code does not give is in the conditions. Two forms that overlap both
pass the tokens, which are compared outside any lock. The tokens do not cover
the details: a form that is out of date puts an old currency or size back, and
a JSON client, without tokens, overwrites anything. A currency, a size or a
voided fee can leave a refund beyond the worth of its booking; `RefundsAreBacked`
is about the saves that change the money. A JSON client that sends a refund
alone is not followed by a recalculation (`missed`).

Bounds. One size, a price of 2 in USD and of 4 in EGP, refunds of 1 and 3: a
refund of 3 fits in EGP, and in USD only with the fee. Three requests are a
save, a rival and what an open page sends later (289,435 states). Employees are
symmetric. Deadlock is not checked because requests are bounded.

Proofs (`BookingMoneyProofs`), for any prices, sizes, amounts, employees and
bounds, all five: `TypeCorrect`, `RecordsAreTrue`, `RevenueIsKept`,
`FormsKeepPromise` and `RefundsStayBacked`. `RecordsAreTrue` needs no invariant
beyond itself: a commit writes the columns it has an entry about. The others
rest on `MoneyInv`. As long as no requests have met, at most one is running and
what it read is still true; a page that is open with a count of the history
equal to the present one still shows the present status, since the status never
changes without the history growing; and the revenue is current, or the request
that will recalculate it is under way.

## Statements the code does not keep

Each is a definition of its module. It is in no configuration; TLC refutes it
when it is added to the one named, and what refutes it is code, not a choice of
the model.

| Statement | Configuration | What happens |
|---|---|---|
| `RefundsWithinReceipts(r)`, of every request `r` | `PrivateTripSerial` | pay, refund, reverse the payment (`private_trip_money.py:350`): the refund stands against nothing. `RefundStaysWithinReceipts` shows that a refund alone never does it |
| `AnsweredTurnsAreKept` | `SessionStoreLapse` | a turn outlives its lease, another takes the session over, both pass the version check (`session_store.py:275`) and an answered turn is overwritten, which `tool_calling_runtime.py:478-480` rules out |
| `MarkedIsHandled` | `InstagramOnce` | recorded, interrupted, and the redelivery dismissed as a duplicate (`server.py:2056`) |
| `AgentStateIsKept` | `InstagramOnce` | the next message of the sender replaces the agent state in memory while a turn waits for the model (`tool_calling_runtime.py:446`) |
| `NoDuplicateByRepetition` | `AgentBookingsRace` | the customer confirms again while the first request is still running: both find no draft (`agent_crm_bridge.py:827`). `POSTGRES_MIGRATION_ROLLBACK_PLAN.md:81` promises one booking |
| `DraftsAnswerAYes` | `ConversationGroup` | a confirmation that could not be used yet (the guardian's consent was not saved) writes the draft messages later |
| `SummariesCanBeSold` | `ConversationGroup` | after a search that does not return it, a trip counts as available and priced (`workflow_policy.py:399`) |

Two more are visible in the models and stated by no document: a payment form
submitted twice records the money twice (`private_requests.py:875` passes no
key), and a status form decided while a booking was a draft is committed after
its cancellation and puts it back (`bookings.py:708`).

## Not modelled

* **Fees of a private trip (A)**, rows that are added, voided and summed like
  those of a booking and read by no rule of its ledger, and the payment ledger
  of bookings, `booking_transactions`, which no route writes.
* **Support cases (F)** as rows, and the **counters (I)** other than the
  revenue, which are recomputed with it.
* **The older runtime** (`session_flow.py`, `gemini_agent.py`) beyond the
  slots and helpers the tool-calling runtime takes from it.
* **Access (L)** restricts who may take a step, not what the step does;
  **the spreadsheet mirror (K)**, the importer, identity normalisation, media
  and pages that only read are I/O and data transformation around the writes
  modelled here. **M** has no state at run time.

The definitions stand for about one line in six of the implementation. The rest
is mostly what a state machine has little to say about: the recognition of
Arabic and English text and the wording of replies (about half of the two agent
runtimes), SQL and schema upkeep (`unified_service.py`, `__init__.py`), pages and
reports (`revenue_analytics.py`), imports and file storage.
