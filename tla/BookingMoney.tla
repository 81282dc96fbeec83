---------------------------- MODULE BookingMoney ----------------------------
(***************************************************************************)
(* The money of one booking: its payment status and running refund, the    *)
(* additional fees, the status and details that price it, the two records  *)
(* of what was changed and the stored revenue of its traveler              *)
(* (routes/bookings.py, payment_rules.py, refund_limits.py,                *)
(* additional_fees.py, booking_audit.py, traveler_stats.py).               *)
(*                                                                         *)
(* A request reads the booking and checks everything against what it read; *)
(* the flush numbers the new events of the timeline; the commit writes the *)
(* columns the request changed, and only those; the counters of the        *)
(* traveler are read and written afterwards, in a transaction of their     *)
(* own.  Nothing is locked in between.  The booking page sends every field *)
(* of its form and two tokens of what it showed; a JSON client sends some  *)
(* fields and no token.                                                    *)
(*                                                                         *)
(* The trip and the room type are set and stay; no booking has rows in the *)
(* payment ledger, which only a script fills.                              *)
(***************************************************************************)
EXTENDS Naturals, Sequences, FiniteSets

CONSTANTS
  Employee,
  Price,        \* the price of the room by currency, 0 when there is none
  Size,         \* group sizes
  Refund,       \* refund amounts that are sent
  FeeAmount,    \* amounts of fees
  StatusSent,   \* booking statuses that are sent
  PaymentSent,  \* payment statuses that are sent
  JsonFields,   \* the sets of fields a JSON client sends
  MaxFees,      \* bound on the fees
  MaxRequests,  \* bound on the requests
  None

-----------------------------------------------------------------------------

Currency == {"USD", "EGP"}

Status == {"Draft", "Waiting Customer", "Pending Confirmation", "Confirmed",
           "Payment Pending", "Paid", "Completed", "Cancelled"}

Payment == {"Pending", "Deposit Paid", "Fully Paid"} \cup
           {"Partial Refund", "Full Refund", "Refunded"}

RefundStatus == {"Partial Refund", "Full Refund", "Refunded"}

Field == {"status", "payment", "refund", "currency", "size"}

MoneyField == {"payment", "refund"}

ASSUME PriceAssumption  == Price \in [Currency -> Nat]
ASSUME AmountAssumption ==
  Size \subseteq Nat \ {0} /\ Refund \subseteq Nat /\ FeeAmount \subseteq Nat \ {0}
ASSUME SentAssumption   ==
  /\ StatusSent \subseteq Status /\ PaymentSent \subseteq Payment
  /\ JsonFields \subseteq SUBSET Field
ASSUME BoundsAssumption == MaxFees \in Nat /\ MaxRequests \in Nat
ASSUME NoneAssumption   == None \notin Nat \cup Currency \cup Status \cup Payment

VARIABLES
  booking,   \* its row, or None
  fees,      \* additional_fees of the booking, voided ones included
  history,   \* booking_status_history: how many rows, and the newest
  trail,     \* booking_event_trail: how many events, what the newest tell
  revenue,   \* travelers.lifetime_revenue
  work,      \* work[e]: the page or the request of an employee
  begun,     \* requests begun, for the bound
  overlap,   \* history: two requests have run at the same time
  missed     \* history: a recalculation failed, or was not asked for

vars == << booking, fees, history, trail, revenue, work, begun, overlap, missed >>

Booking == [ status   : Status,
             payment  : Payment,
             refund   : Nat \cup {None},
             currency : Currency \cup {None},
             size     : Size ]

Fee == [ amount : FeeAmount, currency : Currency, live : BOOLEAN ]

Idle == [ at |-> "idle" ]

\* A booking page that is open, with what its tokens say.
Page == [ at : {"open"}, shows : Booking, count : Nat ]

\* A request that passed its checks.
Request ==
  [ at      : {"checked", "flushed"},
    shows   : Booking \cup {None},   \* of the page it was sent from
    new     : Booking,               \* what it found, with its changes
    changes : SUBSET Field,
    fee     : Fee \cup {None},       \* the fee to be added
    void    : Nat,                   \* the fee to be voided, or 0
    noted   : BOOLEAN,               \* whether the timeline gets a note
    after   : BOOLEAN,               \* whether the counters are recalculated
    number  : Nat ]                  \* the events there were at the flush

Recalculation == [ at : {"stale", "read"}, found : Nat, amount : Nat ]

Stale == [ at |-> "stale", found |-> 0, amount |-> 0 ]

Init ==
  /\ booking \in [ status : {"Draft"}, payment : {"Pending"}, refund : {None},
                   currency : Currency \cup {None}, size : Size ]
  /\ fees = << >>
  /\ history = [count |-> 1, newest |-> "Draft"]
  /\ trail = [count |-> 1, newest |-> booking]
  /\ revenue = 0
  /\ work = [e \in Employee |-> Idle]
  /\ begun = 0
  /\ overlap = FALSE
  /\ missed = FALSE

Running(e) == work[e].at \notin {"idle", "open"}

Becomes(e, w) == work' = [work EXCEPT ![e] = w]

\* A request of e begins, and may meet another one.
Begin(e, w) ==
  /\ begun < MaxRequests
  /\ begun' = begun + 1
  /\ overlap' = (overlap \/ \E f \in Employee \ {e} : Running(f))
  /\ Becomes(e, w)

-----------------------------------------------------------------------------
(* Value, revenue and the rules of a save. *)

\* active_fee_total: the live fees in a currency, added up as the number of
\* pairs of a fee and one of its units.
FeeTotal(fs, c) ==
  LET counted == {i \in DOMAIN fs : fs[i].live /\ fs[i].currency = c}
  IN Cardinality(UNION {{i} \X (1 .. fs[i].amount) : i \in counted})

\* booking_contract_value, of a booking that has a price.
Value(b, fs) == Price[b.currency] * b.size + FeeTotal(fs, b.currency)

Priced(b) == b.currency # None /\ Price[b.currency] > 0

\* booking_revenue: what is kept, of a booking that counts.
Recognized(b) ==
  /\ b # None
  /\ b.status \in {"Confirmed", "Paid", "Completed"}
  /\ b.payment \in {"Fully Paid"} \cup RefundStatus
  /\ b.currency # None

RevenueOf(b, fs) ==
  IF ~Recognized(b) THEN 0
  ELSE LET returned == IF b.refund = None THEN 0 ELSE b.refund
       IN IF returned > Value(b, fs) THEN 0 ELSE Value(b, fs) - returned

\* PAYMENT_TRANSITIONS
Forward(from) ==
  CASE from = "Pending"        -> Payment \ {"Pending"}
    [] from = "Deposit Paid"   -> {"Fully Paid"} \cup RefundStatus
    [] from = "Fully Paid"     -> RefundStatus
    [] from = "Partial Refund" -> {"Full Refund"}
    [] OTHER                   -> {}

\* BOOKING_TRANSITIONS; a booking that is not over can be cancelled.
Onward(from) ==
  CASE from = "Draft"                -> {"Waiting Customer", "Pending Confirmation",
                                         "Cancelled"}
    [] from = "Waiting Customer"     -> {"Pending Confirmation", "Confirmed",
                                         "Cancelled"}
    [] from = "Pending Confirmation" -> {"Confirmed", "Cancelled"}
    [] from = "Confirmed"            -> {"Payment Pending", "Cancelled"}
    [] from = "Payment Pending"      -> {"Paid", "Cancelled"}
    [] from = "Paid"                 -> {"Completed", "Cancelled"}
    [] OTHER                         -> {}

\* Mutant of Sent: what is not sent is cleared.
SentOrNone(b, sent, f) == IF f \in DOMAIN sent THEN sent[f] ELSE None

\* The value of a field after the save: what was sent, or what is there.
Sent(b, sent, f) == IF f \in DOMAIN sent THEN sent[f] ELSE b[f]

\* Only a refund status has an amount; without a change of the money the
\* column is not assigned.
RefundAfter(b, sent) ==
  IF "refund" \in DOMAIN sent \/ Sent(b, sent, "payment") # b.payment
  THEN IF Sent(b, sent, "payment") \in RefundStatus
       THEN Sent(b, sent, "refund") ELSE None
  ELSE b.refund

After(b, sent) ==
  [ status   |-> Sent(b, sent, "status"),
    payment  |-> Sent(b, sent, "payment"),
    refund   |-> RefundAfter(b, sent),
    currency |-> Sent(b, sent, "currency"),
    size     |-> Sent(b, sent, "size") ]

\* validate_payment_transition, _validate_booking_transition and
\* _validate_completeness_for_status; an employee may go against them with a
\* reason.
Regular(b, new) ==
  /\ new.payment \in {b.payment} \cup Forward(b.payment)
  /\ new.status \in {b.status} \cup Onward(b.status)
  /\ new.status = "Completed" \/ new.payment = "Fully Paid" => new.currency # None

\* Mutant of Ceiling: the booking is priced as it is stored, if it can be.
CeilingStored(b, new, fs) == IF Priced(b) THEN Value(b, fs) ELSE Value(new, fs)

\* The booking is priced as it will be after the save.
Ceiling(b, new, fs) == Value(new, fs)

\* _validate_refund_amount_for_status and validate_refund_total.
RefundAllowed(b, sent, new, fs) ==
  /\ new.payment \in RefundStatus
  /\ new.payment # b.payment \/ "refund" \in DOMAIN sent
  => /\ new.refund # None /\ new.refund > 0
     /\ Priced(new) => new.refund <= Ceiling(b, new, fs)

\* Mutant of TokensMatch: the second token leaves the refund out.
TokensMatchStatus(page) ==
  page.count = history.count /\ page.shows.payment = booking.payment

\* expected_history_count and expected_payment_state
TokensMatch(page) ==
  /\ page.count = history.count
  /\ page.shows.payment = booking.payment /\ page.shows.refund = booking.refund

\* Mutant of Asked: only the two statuses count.
AskedByStatus(fields, changes) == changes \cap {"status", "payment"} # {}

\* Whether a save has the counters recalculated: a status, or a detail field
\* that is sent; the group size only if it changes.
Asked(fields, changes) ==
  "currency" \in fields \/ changes \cap {"status", "payment", "size"} # {}

-----------------------------------------------------------------------------
(* The booking page and its form (update_status). *)

\* Opening the page, or reloading it.
Open(e) ==
  /\ ~Running(e)
  /\ booking # None
  /\ Becomes(e, [at |-> "open", shows |-> booking, count |-> history.count])
  /\ UNCHANGED << booking, fees, history, trail, revenue, begun, overlap, missed >>

\* The values a client may choose for a field.
Values(f) ==
  CASE f = "status"   -> StatusSent
    [] f = "payment"  -> PaymentSent
    [] f = "refund"   -> Refund \cup {None}
    [] f = "currency" -> Currency \cup {None}
    [] f = "size"     -> Size

\* The fields of a request that changes at most two of the values it was shown;
\* b is what it was shown.
Filled(fields, b) ==
  LET shown == [f \in fields |-> b[f]]
  IN UNION {UNION {{[shown EXCEPT ![f] = v, ![g] = w] : v \in Values(f), w \in Values(g)}
                     : g \in fields} : f \in fields}

\* What passed its checks: sent is what the client sends.
Checked(page, sent, noted) ==
  LET new     == After(booking, sent)
      changes == {f \in Field : new[f] # booking[f]}
  IN [ at |-> "checked",
       shows |-> IF page = None THEN None ELSE page.shows,
       new |-> new, changes |-> changes, fee |-> None, void |-> 0,
       noted |-> noted, after |-> Asked(DOMAIN sent, changes), number |-> 0 ]

\* What is checked before anything is written.
Check(e, page, sent, noted) ==
  LET new == After(booking, sent)
  IN /\ Regular(booking, new) \/ (page # None /\ noted)
     /\ RefundAllowed(booking, sent, new, fees)
     /\ Begin(e, Checked(page, sent, noted))

\* The form sends the money fields if the employee may change them.  It says
\* that it is a correction, which a note makes one.
Submit(e) ==
  /\ work[e].at = "open"
  /\ booking # None
  /\ TokensMatch(work[e])
  /\ \E fields \in {Field, Field \ MoneyField}, noted \in BOOLEAN :
       \E sent \in Filled(fields, work[e].shows) : Check(e, work[e], sent, noted)
  /\ UNCHANGED << booking, fees, history, trail, revenue, missed >>

SubmitJson(e) ==
  /\ work[e].at = "idle"
  /\ booking # None
  /\ \E fields \in JsonFields, noted \in BOOLEAN :
       \E sent \in Filled(fields, booking) : Check(e, None, sent, noted)
  /\ UNCHANGED << booking, fees, history, trail, revenue, missed >>

-----------------------------------------------------------------------------
(* Fees (add_booking_fee, void_booking_fee). *)

FeeRequest(fee, void) ==
  [ at |-> "checked", shows |-> None, new |-> booking, changes |-> {},
    fee |-> fee, void |-> void, noted |-> TRUE, after |-> TRUE, number |-> 0 ]

\* A fee is in the currency of its booking; without one there are no fees.
AddFee(e) ==
  /\ work[e].at = "idle"
  /\ booking # None
  /\ Len(fees) < MaxFees
  /\ booking.currency # None
  /\ \E a \in FeeAmount :
       Begin(e, FeeRequest([amount |-> a, currency |-> booking.currency,
                            live |-> TRUE], 0))
  /\ UNCHANGED << booking, fees, history, trail, revenue, missed >>

VoidFee(e) ==
  /\ work[e].at = "idle"
  /\ booking # None
  /\ \E i \in DOMAIN fees : fees[i].live /\ Begin(e, FeeRequest(None, i))
  /\ UNCHANGED << booking, fees, history, trail, revenue, missed >>

-----------------------------------------------------------------------------
(* The end of a request: flush, commit, recalculation. *)

\* The events of a request: of its changes, and its note.
Tells(e) == work[e].changes # {} \/ work[e].noted

\* _before_flush_audit reads the highest event number.
Flush(e) ==
  /\ work[e].at = "checked"
  /\ work' = [work EXCEPT ![e].at = "flushed", ![e].number = trail.count]
  /\ UNCHANGED << booking, fees, history, trail, revenue, begun, overlap, missed >>

\* The numbers of its events are still free, and its booking is still there.
Committable(e) == booking # None /\ (Tells(e) => work[e].number = trail.count)

\* Mutant of Written: the row is written as it was read and changed.
WrittenWhole(e) == work[e].new

\* Only the columns that the request changed are in the UPDATE.
Written(e) ==
  LET column(f) == IF f \in work[e].changes THEN work[e].new[f] ELSE booking[f]
  IN [ status |-> column("status"), payment |-> column("payment"),
       refund |-> column("refund"), currency |-> column("currency"),
       size |-> column("size") ]

\* The newest events tell the new values of the columns it changed.
Told(e) ==
  LET column(f) ==
        IF f \in work[e].changes THEN work[e].new[f] ELSE trail.newest[f]
  IN [ status |-> column("status"), payment |-> column("payment"),
       refund |-> column("refund"), currency |-> column("currency"),
       size |-> column("size") ]

FeesAfter(e) ==
  IF work[e].fee # None THEN Append(fees, work[e].fee)
  ELSE IF work[e].void # 0 THEN [fees EXCEPT ![work[e].void].live = FALSE]
  ELSE fees

Commit(e) ==
  /\ work[e].at = "flushed"
  /\ Committable(e)
  /\ booking' = Written(e)
  /\ fees' = FeesAfter(e)
  /\ history' = IF "status" \in work[e].changes
                THEN [count |-> history.count + 1, newest |-> work[e].new.status]
                ELSE history
  /\ trail' = IF Tells(e) THEN [count |-> trail.count + 1, newest |-> Told(e)]
              ELSE trail
  /\ Becomes(e, IF work[e].after THEN Stale ELSE Idle)
  /\ missed' = (missed \/ (~work[e].after /\ "refund" \in work[e].changes))
  /\ UNCHANGED << revenue, begun, overlap >>

\* Another event has the number, of this booking or of another one, the booking
\* is gone, or the database fails: all is rolled back.
CommitFails(e) ==
  /\ work[e].at = "flushed"
  /\ Becomes(e, Idle)
  /\ UNCHANGED << booking, fees, history, trail, revenue, begun, overlap, missed >>

\* The deletion takes the history, the events and the fees with it.
Delete(e) ==
  /\ work[e].at = "idle"
  /\ booking # None
  /\ booking' = None
  /\ fees' = << >>
  /\ history' = [count |-> 0, newest |-> None]
  /\ trail' = [count |-> 0, newest |-> None]
  /\ Begin(e, Stale)
  /\ UNCHANGED << revenue, missed >>

\* _recalculate_postgres: the traveler, the bookings and their fees are read.
Recalculate(e) ==
  /\ work[e].at = "stale"
  /\ Becomes(e, [at |-> "read", found |-> revenue,
                 amount |-> RevenueOf(booking, fees)])
  /\ UNCHANGED << booking, fees, history, trail, revenue, begun, overlap, missed >>

\* The column is written if it is not what was read.
Store(e) ==
  /\ work[e].at = "read"
  /\ revenue' = IF work[e].amount = work[e].found THEN revenue ELSE work[e].amount
  /\ Becomes(e, Idle)
  /\ UNCHANGED << booking, fees, history, trail, begun, overlap, missed >>

\* An exception is logged, and the save stands.
RecalculationFails(e) ==
  /\ work[e].at \in {"stale", "read"}
  /\ Becomes(e, Idle)
  /\ missed' = TRUE
  /\ UNCHANGED << booking, fees, history, trail, revenue, begun, overlap >>

Next ==
  \E e \in Employee :
    \/ Open(e) \/ Submit(e) \/ SubmitJson(e) \/ AddFee(e) \/ VoidFee(e)
    \/ Flush(e) \/ Commit(e) \/ CommitFails(e) \/ Delete(e)
    \/ Recalculate(e) \/ Store(e) \/ RecalculationFails(e)

Spec == Init /\ [][Next]_vars

-----------------------------------------------------------------------------
(* Properties. *)

TypeOK ==
  /\ booking \in Booking \cup {None}
  /\ fees \in Seq(Fee)
  /\ history \in [count : Nat, newest : Status \cup {None}]
  /\ trail \in [count : Nat, newest : Booking \cup {None}]
  /\ revenue \in Nat
  /\ work \in [Employee -> {Idle} \cup Page \cup Request \cup Recalculation]
  /\ begun \in Nat /\ overlap \in BOOLEAN /\ missed \in BOOLEAN

\* However requests meet, the status history and the timeline end with what the
\* booking says: a save never puts back a value without an entry about it.
RecordsTellCurrent ==
  booking # None =>
    /\ history.newest = booking.status
    /\ trail.newest = booking

\* As long as requests do not meet, a form that changes the payment status, the
\* refund or the booking status overwrites the value it showed the employee,
\* however long the page was open.
FormsOverwriteWhatTheyShowed ==
  [][\A e \in Employee :
       Commit(e) /\ work[e].shows # None /\ ~overlap =>
         \A f \in {"status", "payment", "refund"} :
           booking'[f] # booking[f] => booking[f] = work[e].shows[f]]_vars

\* A refund status has an amount, no other status has one, and the amount is
\* within what the booking is worth, its fees included.
Backed(b, fs) ==
  /\ b.payment \in RefundStatus <=> b.refund # None
  /\ b.refund # None =>
       /\ b.refund > 0
       /\ Priced(b) => b.refund <= Value(b, fs)

\* As long as requests do not meet, whatever changes the payment status or the
\* refund of a booking leaves its refund backed.
RefundsAreBacked ==
  [][booking' # None /\ ~overlap'
     /\ (booking'.payment # booking.payment \/ booking'.refund # booking.refund)
     => Backed(booking', fees')]_vars

\* When no request runs, the stored revenue of the traveler is what the booking
\* counts for, unless requests have met, a recalculation has failed or a client
\* has sent a refund alone, after which the code does not recalculate.
RevenueIsCurrent ==
  (\A e \in Employee : ~Running(e)) /\ ~overlap /\ ~missed
    => revenue = RevenueOf(booking, fees)

=============================================================================
