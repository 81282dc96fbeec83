------------------------ MODULE PrivateTripRequests ------------------------
(***************************************************************************)
(* Private (custom) trip requests: the stage pipeline an employee walks a  *)
(* request through and the append-only ledger of the money received and    *)
(* given back (apps/api/app/routes/private_requests.py over                *)
(* services/private_trip_money.py and services/private_trip_ledger.py).    *)
(*                                                                         *)
(* Every handler is one database transaction under READ COMMITTED: it      *)
(* reads the rows it decides on, builds its writes in the ORM session, and *)
(* commits them.  Nothing locks what was read, so the handlers of other    *)
(* employees (two gunicorn workers) may commit in between.  Each handler   *)
(* is two actions: the first reads, checks and fills session[e], the       *)
(* second is the commit, which re-checks only what the database does: the  *)
(* foreign keys, and the UNIQUE idempotency key.                           *)
(***************************************************************************)
EXTENDS Naturals, Sequences, FiniteSets

CONSTANTS
  Employee,    \* employees whose HTTP requests may be in flight
  Request,     \* numbers in the PRT-000001, PRT-000002, ... identifiers
  Currency,    \* the currencies a request can be denominated in: EGP, USD
  Amount,      \* money amounts, in the smallest unit
  MaxEntries,  \* bound: ledger rows ever written
  None         \* the SQL NULL

ASSUME RequestAssumption == Request \subseteq Nat
ASSUME AmountAssumption  == Amount \subseteq Nat \ {0}
ASSUME BoundAssumption   == MaxEntries \in Nat

VARIABLES
  requests,  \* identifiers of the rows of private_trip_requests
  stage,     \* private_trip_requests.stage
  price,     \* private_trip_requests.agreed_price_currency
  deposit,   \* whether the deposit milestone columns are filled
  ledger,    \* private_trip_transactions, transaction_id is the position
  session    \* session[e]: what e's handler decided to write, or None

vars == << requests, stage, price, deposit, ledger, session >>

-----------------------------------------------------------------------------
(* The pipeline. *)

Pipeline == << "registered", "consultation_scheduled", "consultation_done",
               "deposit_pending", "deposit_paid", "designing",
               "design_delivered", "payment_pending", "paid" >>

Stage == {Pipeline[i] : i \in DOMAIN Pipeline} \cup {"lost"}

\* Stages at which the customer has committed: a deposit has been taken.
CommittedStage == {Pipeline[i] : i \in 5..9}

CanTransition(from, to) ==
  \/ /\ to = "lost"
     /\ from \notin {"paid", "lost"}
  \/ \E i \in 1..8 : Pipeline[i] = from /\ Pipeline[i + 1] = to

-----------------------------------------------------------------------------
(* The ledger rows, and what the totals make of them. *)

Entry == [ request       : Request,
           type          : {"payment", "refund"},
           amount        : Amount,
           currency      : Currency,
           nonRefundable : BOOLEAN,
           reverses      : 0..MaxEntries,  \* transaction_id, 0 for NULL
           isDeposit     : BOOLEAN ]  \* key private-deposit:<request_id>

ASSUME NoneAssumption == None \notin Currency \cup Stage /\ None \notin Entry

Original(r, type, amount, currency, nonRefundable, isDeposit) ==
  [ request |-> r, type |-> type, amount |-> amount, currency |-> currency,
    nonRefundable |-> nonRefundable, reverses |-> 0, isDeposit |-> isDeposit ]

RowsOf(r) == {i \in DOMAIN ledger : ledger[i].request = r}

Reversed(i) == \E j \in DOMAIN ledger : ledger[j].reverses = i

\* Rows that still stand: neither a reversal nor reversed.
Standing(r) == {i \in RowsOf(r) : ledger[i].reverses = 0 /\ ~Reversed(i)}

Payments(r) == {i \in Standing(r) : ledger[i].type = "payment"}
Refunds(r)  == {i \in Standing(r) : ledger[i].type = "refund"}

\* The sum of the amounts of some rows, as the number of pairs of a row and one
\* of its units.
Total(rows) == Cardinality(UNION {{i} \X (1 .. ledger[i].amount) : i \in rows})

RefundablePaid(r) == Total({i \in Payments(r) : ~ledger[i].nonRefundable})

\* Mutant of RemainingRefundable: forgets what was already given back.
RemainingIgnoringRefunds(r) == RefundablePaid(r)

\* What may still be given back, never negative.
RemainingRefundable(r) ==
  IF Total(Refunds(r)) < RefundablePaid(r)
  THEN RefundablePaid(r) - Total(Refunds(r))
  ELSE 0

LedgerCurrencies(r) == {ledger[i].currency : i \in Standing(r)}

\* The currency of the request: that of the first standing row, in whatever
\* order the query returns them, else that of the agreed price, else open.
RequestCurrency(r) ==
  IF LedgerCurrencies(r) # {} THEN LedgerCurrencies(r)
  ELSE {price[r]} \ {None}

Denominated(r, c) == RequestCurrency(r) = {} \/ c \in RequestCurrency(r)

DepositRecorded(r) == \E i \in RowsOf(r) : ledger[i].isDeposit

-----------------------------------------------------------------------------
(* A unit of work: the writes one handler is about to commit. *)

Work == [ op      : {"price", "entry", "stage", "delete"},
          request : Request,
          entry   : Entry \cup {None},      \* ledger row to insert
          price   : Currency \cup {None},   \* new agreed_price_currency
          stage   : Stage \cup {None} ]     \* new stage

PriceWork(r, c) ==
  [op |-> "price", request |-> r, entry |-> None, price |-> c, stage |-> None]

EntryWork(r, row) ==
  [op |-> "entry", request |-> r, entry |-> row, price |-> None, stage |-> None]

StageWork(r, s, row) ==
  [op |-> "stage", request |-> r, entry |-> row, price |-> None, stage |-> s]

DeleteWork(r) ==
  [op |-> "delete", request |-> r, entry |-> None, price |-> None, stage |-> None]

Begin(e, work) ==
  /\ session[e] = None
  /\ session' = [session EXCEPT ![e] = work]
  /\ UNCHANGED << requests, stage, price, deposit, ledger >>

RoomInLedger == Len(ledger) < MaxEntries

-----------------------------------------------------------------------------
(* The handlers: read, check, build the writes. *)

\* The next identifier is one more than the largest there is.
CreateRequest(r) ==
  /\ r \notin requests
  /\ \A q \in requests : q < r
  /\ r = 1 \/ r - 1 \in requests
  /\ requests' = requests \cup {r}
  /\ stage'   = [stage   EXCEPT ![r] = "registered"]
  /\ price'   = [price   EXCEPT ![r] = None]
  /\ deposit' = [deposit EXCEPT ![r] = FALSE]
  /\ UNCHANGED << ledger, session >>

\* Mutant of SetAgreedPrice: reprices over recorded money.
SetAgreedPriceUnchecked(e, r, c) ==
  /\ r \in requests
  /\ Begin(e, PriceWork(r, IF c = price[r] THEN None ELSE c))

\* Repricing in another currency is refused while standing rows hold money.
\* The ORM writes the currency column only when its value changes.
SetAgreedPrice(e, r, c) ==
  /\ r \in requests
  /\ LedgerCurrencies(r) = {} \/ c \in LedgerCurrencies(r)
  /\ Begin(e, PriceWork(r, IF c = price[r] THEN None ELSE c))

RecordPayment(e, r, a, c, nonRefundable) ==
  /\ r \in requests
  /\ RoomInLedger
  /\ Denominated(r, c)
  /\ Begin(e, EntryWork(r, Original(r, "payment", a, c, nonRefundable, FALSE)))

RecordRefund(e, r, a, c) ==
  /\ r \in requests
  /\ RoomInLedger
  /\ c \in RequestCurrency(r)
  /\ a <= RemainingRefundable(r)
  /\ Begin(e, EntryWork(r, Original(r, "refund", a, c, FALSE, FALSE)))

\* The correction repeats the row it reverses, all but its idempotency key.
MirrorOf(i) ==
  [ request |-> ledger[i].request, type |-> ledger[i].type,
    amount |-> ledger[i].amount, currency |-> ledger[i].currency,
    nonRefundable |-> ledger[i].nonRefundable, reverses |-> i, isDeposit |-> FALSE ]

\* Mutant of Reversible: no test for an earlier reversal.
ReversibleAgain(i) == ledger[i].reverses = 0

\* Mutant of Reversible: lets a correction be reversed.
ReversibleCorrection(i) == ~Reversed(i)

\* A row can be reversed unless it is itself a correction or was reversed.
Reversible(i) == ledger[i].reverses = 0 /\ ~Reversed(i)

ReverseEntry(e, i) ==
  /\ i \in DOMAIN ledger
  /\ ledger[i].request \in requests
  /\ RoomInLedger
  /\ Reversible(i)
  /\ Begin(e, EntryWork(ledger[i].request, MirrorOf(i)))

\* Mutant of MoveStage: the retired stage can still be entered.
MoveStageToConverted(e, r, to) ==
  /\ r \in requests
  /\ to # "deposit_paid"
  /\ CanTransition(stage[r], to)
  /\ Begin(e, StageWork(r, IF to = "lost" THEN "converted" ELSE to, None))

\* Any step of the pipeline that makes no claim about money.
MoveStage(e, r, to) ==
  /\ r \in requests
  /\ to # "deposit_paid"
  /\ CanTransition(stage[r], to)
  /\ Begin(e, StageWork(r, to, None))

\* deposit_paid with an amount typed on the form: a non-refundable payment
\* under the key of the request, or the row that key already names.
PayDeposit(e, r, a, c) ==
  /\ r \in requests
  /\ CanTransition(stage[r], "deposit_paid")
  /\ \/ /\ DepositRecorded(r)
        /\ Begin(e, StageWork(r, "deposit_paid", None))
     \/ /\ ~DepositRecorded(r)
        /\ RoomInLedger
        /\ Denominated(r, c)
        /\ Begin(e, StageWork(r, "deposit_paid",
                              Original(r, "payment", a, c, TRUE, TRUE)))

\* Mutant of ConfirmDeposit: takes the click for the money.
ConfirmDepositUnchecked(e, r) ==
  /\ r \in requests
  /\ CanTransition(stage[r], "deposit_paid")
  /\ Begin(e, StageWork(r, "deposit_paid", None))

\* deposit_paid with no amount typed: total_paid must be positive, which,
\* amounts being positive, is that some payment stands.
ConfirmDeposit(e, r) ==
  /\ r \in requests
  /\ CanTransition(stage[r], "deposit_paid")
  /\ Payments(r) # {}
  /\ Begin(e, StageWork(r, "deposit_paid", None))

\* Refused while the totals count any standing row.
DeleteRequest(e, r) ==
  /\ r \in requests
  /\ Standing(r) = {}
  /\ Begin(e, DeleteWork(r))

-----------------------------------------------------------------------------
(* The commits.  The database refuses a row whose request is gone (foreign *)
(* key), a second row with one key (UNIQUE), the UPDATE of a row that is   *)
(* gone (the ORM counts the rows it matched), and the deletion of a        *)
(* request any ledger row still names.                                     *)

Finish(e) == session' = [session EXCEPT ![e] = None]

\* Mutant of Insert: the key column is not UNIQUE.
InsertWithoutUniqueKey(row) ==
  /\ RoomInLedger
  /\ ledger' = Append(ledger, row)

Insert(row) ==
  /\ RoomInLedger
  /\ row.isDeposit => ~DepositRecorded(row.request)
  /\ ledger' = Append(ledger, row)

Committing(e, op) ==
  /\ session[e] # None
  /\ session[e].op = op
  /\ session[e].request \in requests
  /\ Finish(e)

CommitPrice(e) ==
  /\ Committing(e, "price")
  /\ price' = IF session[e].price = None THEN price
              ELSE [price EXCEPT ![session[e].request] = session[e].price]
  /\ UNCHANGED << requests, stage, deposit, ledger >>

CommitEntry(e) ==
  /\ Committing(e, "entry")
  /\ Insert(session[e].entry)
  /\ UNCHANGED << requests, stage, price, deposit >>

CommitStage(e) ==
  /\ Committing(e, "stage")
  /\ IF session[e].entry = None THEN UNCHANGED ledger
     ELSE Insert(session[e].entry)
  /\ stage' = [stage EXCEPT ![session[e].request] = session[e].stage]
  /\ deposit' = [deposit EXCEPT ![session[e].request] =
                   @ \/ session[e].stage = "deposit_paid"]
  /\ UNCHANGED << requests, price >>

\* Mutant of CommitDelete: the database has no foreign keys.
CommitDeleteWithoutForeignKey(e) ==
  /\ Committing(e, "delete")
  /\ requests' = requests \ {session[e].request}
  /\ UNCHANGED << stage, price, deposit, ledger >>

CommitDelete(e) ==
  /\ Committing(e, "delete")
  /\ RowsOf(session[e].request) = {}
  /\ requests' = requests \ {session[e].request}
  /\ UNCHANGED << stage, price, deposit, ledger >>

\* The database refused the commit, or the worker died before it.
Rollback(e) ==
  /\ session[e] # None
  /\ Finish(e)
  /\ UNCHANGED << requests, stage, price, deposit, ledger >>

-----------------------------------------------------------------------------
Init ==
  /\ requests = {}
  /\ stage    = [r \in Request  |-> "registered"]
  /\ price    = [r \in Request  |-> None]
  /\ deposit  = [r \in Request  |-> FALSE]
  /\ ledger   = << >>
  /\ session  = [e \in Employee |-> None]

Handle(e) ==
  \/ \E r \in Request, c \in Currency : SetAgreedPrice(e, r, c)
  \/ \E r \in Request, a \in Amount, c \in Currency, n \in BOOLEAN :
        RecordPayment(e, r, a, c, n)
  \/ \E r \in Request, a \in Amount, c \in Currency : RecordRefund(e, r, a, c)
  \/ \E i \in DOMAIN ledger : ReverseEntry(e, i)
  \/ \E r \in Request, to \in Stage : MoveStage(e, r, to)
  \/ \E r \in Request, a \in Amount, c \in Currency : PayDeposit(e, r, a, c)
  \/ \E r \in Request : ConfirmDeposit(e, r)
  \/ \E r \in Request : DeleteRequest(e, r)

Commit(e) ==
  \/ CommitPrice(e)
  \/ CommitEntry(e)
  \/ CommitStage(e)
  \/ CommitDelete(e)

Next ==
  \/ \E r \in Request : CreateRequest(r)
  \/ \E e \in Employee : Handle(e) \/ Commit(e) \/ Rollback(e)

Spec == Init /\ [][Next]_vars

-----------------------------------------------------------------------------
(* What holds however the handlers interleave. *)

\* The columns hold values of their types, and so does every unit of work.
TypeOK ==
  /\ requests \subseteq Request
  /\ stage    \in [Request  -> Stage]
  /\ price    \in [Request  -> Currency \cup {None}]
  /\ deposit  \in [Request  -> BOOLEAN]
  /\ ledger   \in Seq(Entry)
  /\ session  \in [Employee -> Work \cup {None}]

\* A deposit form submitted twice, retried, or sent by two employees at once
\* records its money once (the private-deposit:<id> key of update_stage).
DepositRecordedOnce ==
  \A i, j \in DOMAIN ledger :
     /\ ledger[i].isDeposit
     /\ ledger[j].isDeposit
     /\ ledger[i].request = ledger[j].request
     => i = j

\* A row always belongs to a request that exists: deleting a request while a
\* payment on it is being recorded never leaves money nobody owns.
NoOrphanedMoney == \A i \in DOMAIN ledger : ledger[i].request \in requests

\* A request past the deposit milestone has its deposit columns filled and
\* some payment in its history, whoever else moved, reversed or deleted
\* while the milestone was being ticked ("a claim about money").
CommittedStagesAreFunded ==
  \A r \in requests :
     stage[r] \in CommittedStage =>
        /\ deposit[r]
        /\ \E i \in RowsOf(r) : ledger[i].type = "payment"

\* Two rows say the same of the same request.
SameMoney(x, y) ==
  /\ x.request       = y.request
  /\ x.type          = y.type
  /\ x.amount        = y.amount
  /\ x.currency      = y.currency
  /\ x.nonRefundable = y.nonRefundable

SameDeposit(x, y) == x.isDeposit /\ y.isDeposit /\ x.request = y.request

Reverses(x) == x.reverses

\* The ledger is append-only, records one row per key, and corrects a row
\* only by its mirror image: the promise of both ledgers of the CRM.
Promise == INSTANCE AppendOnlyLedger WITH
  log     <- ledger,
  Row     <- Entry,
  SameKey <- SameDeposit,
  Target  <- Reverses,
  Mirrors <- SameMoney

KeepsPromise == Promise!Spec

-----------------------------------------------------------------------------
(* What holds when handlers run one at a time, and the interleavings that  *)
(* break some of it.                                                       *)

\* All that stands on a request, and its agreed price, is in one currency.
OneCurrency ==
  \A r \in requests :
     Cardinality(LedgerCurrencies(r) \cup ({price[r]} \ {None})) <= 1

\* A row is cancelled by one mirror image, so the audit trail nets out.
ReversedAtMostOnce ==
  \A i, j \in DOMAIN ledger :
     ledger[i].reverses # 0 /\ ledger[i].reverses = ledger[j].reverses => i = j

\* What was given back on a request is within the refundable money that stands.
RefundsWithinReceipts(r) == Total(Refunds(r)) <= RefundablePaid(r)

\* A row was appended, and it is a refund of r.
RefundRecorded(r) ==
  /\ Len(ledger') > Len(ledger)
  /\ ledger'[Len(ledger')].request = r
  /\ ledger'[Len(ledger')].type = "refund"
  /\ ledger'[Len(ledger')].reverses = 0

\* Recording a refund never takes its request over what it received: only the
\* reversal of a payment already refunded can.
RefundStaysWithinReceipts ==
  [][\A r \in Request : RefundRecorded(r) => RefundsWithinReceipts(r)']_vars
=============================================================================
