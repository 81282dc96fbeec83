------------------------- MODULE BookingMoneyProofs -------------------------
(***************************************************************************)
(* Theorems about BookingMoney, for any employees, prices, amounts, sets   *)
(* of values that are sent and bounds.                                     *)
(***************************************************************************)
EXTENDS BookingMoney, FiniteSetTheorems, TLAPS

-----------------------------------------------------------------------------
(* What a booking is worth. *)

LEMMA FeeTotalNat ==
  ASSUME NEW fs \in Seq(Fee), NEW c
  PROVE  FeeTotal(fs, c) \in Nat
<1>. DEFINE counted == {i \in DOMAIN fs : fs[i].live /\ fs[i].currency = c}
            Units(i) == {i} \X (1 .. fs[i].amount)
            units == {Units(i) : i \in counted}
<1>1. IsFiniteSet(DOMAIN fs)
  <2>1. DOMAIN fs = 1 .. Len(fs) /\ Len(fs) \in Nat
    OBVIOUS
  <2>. QED BY <2>1, FS_Interval
<1>2. IsFiniteSet(counted)
  BY <1>1, FS_Subset
<1>3. IsFiniteSet(units)
  <2>. DEFINE f == [i \in counted |-> Units(i)]
  <2>1. f \in Surjection(counted, units)
    BY DEF Surjection
  <2>. HIDE DEF counted, f, units
  <2>. QED BY <1>2, <2>1, FS_Surjection
<1>4. ASSUME NEW u \in units PROVE IsFiniteSet(u)
  <2>1. PICK i \in counted : u = Units(i)
    OBVIOUS
  <2>2. fs[i].amount \in Nat
    <3>1. i \in DOMAIN fs
      OBVIOUS
    <3>2. fs[i] \in Fee
      BY <3>1
    <3>. QED BY <3>2, AmountAssumption DEF Fee
  <2>3. IsFiniteSet(1 .. fs[i].amount)
    BY <2>2, FS_Interval
  <2>4. IsFiniteSet({i})
    BY FS_Singleton
  <2>. HIDE DEF counted
  <2>. QED BY ZenonT(40), <2>1, <2>3, <2>4, FS_Product
<1>5. IsFiniteSet(UNION units)
  <2>. HIDE DEF units
  <2>. QED BY <1>3, <1>4, FS_UNION
<1>. QED BY <1>5, FS_CardinalityType DEF FeeTotal

LEMMA ValueNat ==
  ASSUME NEW b \in Booking, b.currency # None, NEW fs \in Seq(Fee)
  PROVE  Value(b, fs) \in Nat
<1>1. Price[b.currency] \in Nat /\ b.size \in Nat
  BY PriceAssumption, AmountAssumption DEF Booking
<1>2. FeeTotal(fs, b.currency) \in Nat
  BY FeeTotalNat
<1>3. \A p, q \in Nat : p * q \in Nat
  OBVIOUS
<1>. QED BY <1>1, <1>2, <1>3 DEF Value

LEMMA RevenueNat ==
  ASSUME NEW b \in Booking \cup {None}, NEW fs \in Seq(Fee)
  PROVE  RevenueOf(b, fs) \in Nat
<1>1. CASE ~Recognized(b)
  BY <1>1 DEF RevenueOf
<1>2. CASE Recognized(b)
  <2>1. b \in Booking /\ b.currency # None
    BY <1>2 DEF Recognized
  <2>2. Value(b, fs) \in Nat
    BY <2>1, ValueNat
  <2>3. b.refund \in Nat \cup {None}
    BY <2>1 DEF Booking
  <2>. QED BY <1>2, <2>2, <2>3 DEF RevenueOf
<1>. QED BY <1>1, <1>2

-----------------------------------------------------------------------------
(* What is sent, and what a booking is after it. *)

LEMMA FilledFacts ==
  ASSUME NEW fields, NEW b, NEW sent \in Filled(fields, b)
  PROVE  /\ DOMAIN sent = fields
         /\ \A f \in fields : sent[f] = b[f] \/ sent[f] \in Values(f)
<1>. DEFINE shown == [f \in fields |-> b[f]]
<1>1. PICK f \in fields, g \in fields :
        \E v \in Values(f), w \in Values(g) :
          sent = [shown EXCEPT ![f] = v, ![g] = w]
  BY DEF Filled
<1>2. PICK v \in Values(f), w \in Values(g) :
        sent = [shown EXCEPT ![f] = v, ![g] = w]
  BY <1>1
<1>. QED BY <1>2

\* A value of a field, as a column of a booking holds it.
Fits(f, v) ==
  CASE f = "status"   -> v \in Status
    [] f = "payment"  -> v \in Payment
    [] f = "refund"   -> v \in Nat \cup {None}
    [] f = "currency" -> v \in Currency \cup {None}
    [] f = "size"     -> v \in Size

LEMMA ValuesFit ==
  ASSUME NEW f \in Field, NEW v \in Values(f)
  PROVE  Fits(f, v)
BY SentAssumption, AmountAssumption DEF Values, Fits, Field

LEMMA BookingFits ==
  ASSUME NEW b \in Booking, NEW f \in Field
  PROVE  Fits(f, b[f])
BY DEF Booking, Fits, Field

LEMMA SentFits ==
  ASSUME NEW fields \in SUBSET Field, NEW shown \in Booking, NEW b \in Booking,
         NEW sent \in Filled(fields, shown), NEW f \in Field
  PROVE  Fits(f, Sent(b, sent, f))
<1>1. DOMAIN sent = fields
      /\ \A g \in fields : sent[g] = shown[g] \/ sent[g] \in Values(g)
  BY FilledFacts
<1>2. CASE f \in fields
  BY <1>1, <1>2, ValuesFit, BookingFits DEF Sent
<1>3. CASE f \notin fields
  BY <1>1, <1>3, BookingFits DEF Sent
<1>. QED BY <1>2, <1>3

LEMMA AfterIsBooking ==
  ASSUME NEW fields \in SUBSET Field, NEW shown \in Booking, NEW b \in Booking,
         NEW sent \in Filled(fields, shown)
  PROVE  After(b, sent) \in Booking
<1>1. \A f \in Field : Fits(f, Sent(b, sent, f))
  BY SentFits
<1>2. /\ Sent(b, sent, "status") \in Status
      /\ Sent(b, sent, "payment") \in Payment
      /\ Sent(b, sent, "refund") \in Nat \cup {None}
      /\ Sent(b, sent, "currency") \in Currency \cup {None}
      /\ Sent(b, sent, "size") \in Size
  BY <1>1 DEF Fits, Field
<1>3. RefundAfter(b, sent) \in Nat \cup {None}
  BY <1>2 DEF RefundAfter, Booking
<1>. QED BY <1>2, <1>3 DEF After, Booking

-----------------------------------------------------------------------------
(* Types. *)

InRequest(e) == work[e].at \in {"checked", "flushed"}

LEMMA WorkKinds ==
  ASSUME TypeOK, NEW e \in Employee
  PROVE  /\ work[e].at = "open" => work[e] \in Page
         /\ InRequest(e) => work[e] \in Request
         /\ work[e].at \in {"stale", "read"} => work[e] \in Recalculation
         /\ work[e].at \in {"idle", "open", "checked", "flushed", "stale", "read"}
<1>1. work[e] \in {Idle} \cup Page \cup Request \cup Recalculation
  BY DEF TypeOK
<1>2. CASE work[e] = Idle
  BY <1>2 DEF Idle, InRequest
<1>3. CASE work[e] \in Page
  BY <1>3 DEF Page, InRequest
<1>4. CASE work[e] \in Request
  BY <1>4 DEF Request, InRequest
<1>5. CASE work[e] \in Recalculation
  BY <1>5 DEF Recalculation, InRequest
<1>. QED BY <1>1, <1>2, <1>3, <1>4, <1>5

LEMMA WorkStays ==
  ASSUME TypeOK, NEW e \in Employee, NEW w, Becomes(e, w),
         w \in {Idle} \cup Page \cup Request \cup Recalculation
  PROVE  /\ work' \in [Employee -> {Idle} \cup Page \cup Request \cup Recalculation]
         /\ work'[e] = w
         /\ \A f \in Employee \ {e} : work'[f] = work[f]
BY DEF TypeOK, Becomes

LEMMA WrittenIsBooking ==
  ASSUME TypeOK, NEW e \in Employee, InRequest(e), booking # None
  PROVE  Written(e) \in Booking
<1>1. work[e].new \in Booking /\ booking \in Booking
  BY WorkKinds DEF TypeOK, Request
<1>. QED BY <1>1 DEF Written, Booking

LEMMA FeesAfterAreFees ==
  ASSUME TypeOK, NEW e \in Employee, InRequest(e)
  PROVE  FeesAfter(e) \in Seq(Fee)
<1>1. work[e].fee \in Fee \cup {None} /\ fees \in Seq(Fee)
  BY WorkKinds DEF TypeOK, Request
<1>2. CASE work[e].fee # None
  BY <1>1, <1>2 DEF FeesAfter
<1>3. CASE work[e].fee = None /\ work[e].void # 0
  <2>. DEFINE i == work[e].void
  <2>1. [fees EXCEPT ![i].live = FALSE] \in [1 .. Len(fees) -> Fee]
    <3>1. \A j \in 1 .. Len(fees) : fees[j] \in Fee
      BY <1>1
    <3>2. \A fee \in Fee : [fee EXCEPT !.live = FALSE] \in Fee
      BY DEF Fee
    <3>3. fees \in [1 .. Len(fees) -> Fee]
      BY <1>1
    <3>. HIDE DEF i
    <3>. QED BY <3>1, <3>2, <3>3
  <2>2. [fees EXCEPT ![i].live = FALSE] \in Seq(Fee)
    BY <1>1, <2>1
  <2>. QED BY <1>3, <2>2 DEF FeesAfter
<1>4. CASE work[e].fee = None /\ work[e].void = 0
  BY <1>1, <1>4 DEF FeesAfter
<1>. QED BY <1>2, <1>3, <1>4

-----------------------------------------------------------------------------
(* What passed its checks. *)

\* What holds of a request at the moment it begins.
Opening(r) ==
  /\ r.at = "checked"
  /\ r.fee # None \/ r.void # 0 => r.changes = {}
  /\ ~r.after => r.changes \subseteq {"refund"} /\ r.fee = None /\ r.void = 0
  /\ r.changes = {f \in Field : r.new[f] # booking[f]}
  /\ r.changes \cap MoneyField # {} => Backed(r.new, fees)

LEMMA SavedMoneyIsBacked ==
  ASSUME NEW b \in Booking, NEW fs \in Seq(Fee), NEW fields \in SUBSET Field,
         NEW shown \in Booking, NEW sent \in Filled(fields, shown),
         RefundAllowed(b, sent, After(b, sent), fs),
         \E f \in MoneyField : After(b, sent)[f] # b[f]
  PROVE  Backed(After(b, sent), fs)
<1>. DEFINE new == After(b, sent)
<1>1. new \in Booking
  BY AfterIsBooking
<1>2. /\ new.payment = Sent(b, sent, "payment")
      /\ new.refund = RefundAfter(b, sent)
  BY DEF After
<1>3. new.payment # b.payment \/ new.refund # b.refund
  BY DEF MoneyField
<1>4. "refund" \in DOMAIN sent \/ new.payment # b.payment
  BY <1>2, <1>3 DEF RefundAfter
<1>5. new.payment \notin RefundStatus => new.refund = None
  BY <1>2, <1>4 DEF RefundAfter
<1>6. new.payment \in RefundStatus =>
        /\ new.refund # None /\ new.refund > 0
        /\ Priced(new) => new.refund <= Ceiling(b, new, fs)
  BY <1>4 DEF RefundAllowed
<1>. HIDE DEF new
<1>7. Backed(new, fs)
  BY <1>5, <1>6 DEF Backed, Ceiling
<1>. QED BY <1>7 DEF new

LEMMA UnaskedChanges ==
  ASSUME NEW b \in Booking, NEW fields \in SUBSET Field, NEW shown \in Booking,
         NEW sent \in Filled(fields, shown), NEW changes \in SUBSET Field,
         changes = {f \in Field : After(b, sent)[f] # b[f]},
         ~Asked(DOMAIN sent, changes)
  PROVE  changes \subseteq {"refund"}
<1>1. "currency" \notin DOMAIN sent /\ changes \cap {"status", "payment", "size"} = {}
  BY DEF Asked
<1>2. After(b, sent).currency = b.currency
  BY <1>1 DEF After, Sent
<1>. QED BY <1>1, <1>2 DEF Field

LEMMA CheckedOpens ==
  ASSUME TypeOK, booking # None, NEW e \in Employee, NEW page \in Page \cup {None},
         NEW fields \in SUBSET Field, NEW shown \in Booking,
         NEW sent \in Filled(fields, shown), NEW noted \in BOOLEAN,
         Check(e, page, sent, noted)
  PROVE  /\ Checked(page, sent, noted) \in Request
         /\ Opening(Checked(page, sent, noted))
<1>. DEFINE r == Checked(page, sent, noted)
            changes == {f \in Field : After(booking, sent)[f] # booking[f]}
<1>1. booking \in Booking /\ fees \in Seq(Fee)
  BY DEF TypeOK
<1>2. After(booking, sent) \in Booking
  BY <1>1, AfterIsBooking
<1>3. /\ r.at = "checked" /\ r.new = After(booking, sent) /\ r.changes = changes
      /\ r.fee = None /\ r.void = 0 /\ r.noted = noted /\ r.number = 0
      /\ r.after = Asked(DOMAIN sent, changes)
      /\ r.shows = IF page = None THEN None ELSE page.shows
  BY DEF Checked
<1>4. r \in Request
  <2>1. r.shows \in Booking \cup {None}
    BY <1>3 DEF Page
  <2>2. r.after \in BOOLEAN
    BY <1>3 DEF Asked
  <2>. QED BY <1>2, <2>1, <2>2 DEF Request, Checked
<1>5. ~r.after => r.changes \subseteq {"refund"}
  BY <1>1, <1>3, UnaskedChanges
<1>6. r.changes \cap MoneyField # {} => Backed(r.new, fees)
  <2>1. RefundAllowed(booking, sent, After(booking, sent), fees)
    BY DEF Check
  <2>2. r.changes \cap MoneyField # {} =>
          \E f \in MoneyField : After(booking, sent)[f] # booking[f]
    BY <1>3
  <2>. QED BY <1>1, <1>3, <2>1, <2>2, SavedMoneyIsBacked
<1>. QED BY <1>3, <1>4, <1>5, <1>6 DEF Opening

\* An action that begins a request.
Opens(e) == Submit(e) \/ SubmitJson(e) \/ AddFee(e) \/ VoidFee(e)

LEMMA FeeOpens ==
  ASSUME TypeOK, booking # None, NEW fee \in Fee \cup {None}, NEW void \in Nat
  PROVE  FeeRequest(fee, void) \in Request /\ Opening(FeeRequest(fee, void))
<1>1. booking \in Booking
  BY DEF TypeOK
<1>. QED BY <1>1 DEF FeeRequest, Request, Opening

LEMMA OpensFacts ==
  ASSUME TypeOK, NEW e \in Employee, Opens(e)
  PROVE  /\ booking # None
         /\ ~Running(e)
         /\ UNCHANGED << booking, fees, history, trail, revenue, missed >>
         /\ \E r \in Request :
              /\ Begin(e, r) /\ Opening(r)
              /\ r.shows # None =>
                   /\ work[e].at = "open" /\ r.shows = work[e].shows
                   /\ TokensMatch(work[e])
<1>. DEFINE Goal == \E r \in Request :
                      /\ Begin(e, r) /\ Opening(r)
                      /\ r.shows # None =>
                           /\ work[e].at = "open" /\ r.shows = work[e].shows
                           /\ TokensMatch(work[e])
<1>1. /\ booking # None /\ ~Running(e)
      /\ UNCHANGED << booking, fees, history, trail, revenue, missed >>
  BY DEF Opens, Submit, SubmitJson, AddFee, VoidFee, Running
<1>2. booking \in Booking
  BY <1>1 DEF TypeOK
<1>3. CASE Submit(e)
  <2>1. work[e].at = "open" /\ TokensMatch(work[e])
    BY <1>3 DEF Submit
  <2>2. work[e] \in Page /\ work[e].shows \in Booking
    BY <2>1, WorkKinds DEF Page
  <2>3. PICK fields \in {Field, Field \ MoneyField}, noted \in BOOLEAN :
          \E sent \in Filled(fields, work[e].shows) : Check(e, work[e], sent, noted)
    BY <1>3 DEF Submit
  <2>4. PICK sent \in Filled(fields, work[e].shows) : Check(e, work[e], sent, noted)
    BY <2>3
  <2>5. fields \in SUBSET Field
    OBVIOUS
  <2>6. /\ Checked(work[e], sent, noted) \in Request
        /\ Opening(Checked(work[e], sent, noted))
    BY <1>1, <2>2, <2>4, <2>5, CheckedOpens
  <2>7. Begin(e, Checked(work[e], sent, noted))
    BY <2>4 DEF Check
  <2>8. Checked(work[e], sent, noted).shows \in {None, work[e].shows}
    BY DEF Checked
  <2>9. Goal
    BY <2>1, <2>6, <2>7, <2>8
  <2>. QED BY <1>1, <2>9
<1>4. CASE SubmitJson(e)
  <2>1. PICK fields \in JsonFields, noted \in BOOLEAN :
          \E sent \in Filled(fields, booking) : Check(e, None, sent, noted)
    BY <1>4 DEF SubmitJson
  <2>2. PICK sent \in Filled(fields, booking) : Check(e, None, sent, noted)
    BY <2>1
  <2>3. fields \in SUBSET Field
    BY SentAssumption
  <2>4. /\ Checked(None, sent, noted) \in Request
        /\ Opening(Checked(None, sent, noted))
    BY <1>1, <1>2, <2>2, <2>3, CheckedOpens
  <2>5. Begin(e, Checked(None, sent, noted))
    BY <2>2 DEF Check
  <2>6. Checked(None, sent, noted).shows = None
    BY DEF Checked
  <2>7. Goal
    BY <2>4, <2>5, <2>6
  <2>. QED BY <1>1, <2>7
<1>5. CASE AddFee(e)
  <2>1. PICK a \in FeeAmount :
          Begin(e, FeeRequest([amount |-> a, currency |-> booking.currency,
                               live |-> TRUE], 0))
    BY <1>5 DEF AddFee
  <2>. DEFINE fee == [amount |-> a, currency |-> booking.currency, live |-> TRUE]
  <2>2. booking.currency \in Currency
    BY <1>2, <1>5 DEF AddFee, Booking
  <2>3. fee \in Fee
    BY <2>2 DEF Fee
  <2>4. FeeRequest(fee, 0) \in Request /\ Opening(FeeRequest(fee, 0))
    BY <1>1, <2>3, FeeOpens
  <2>5. FeeRequest(fee, 0).shows = None
    BY DEF FeeRequest
  <2>6. Goal
    BY <2>1, <2>4, <2>5
  <2>. QED BY <1>1, <2>6
<1>6. CASE VoidFee(e)
  <2>1. PICK i \in DOMAIN fees : Begin(e, FeeRequest(None, i))
    BY <1>6 DEF VoidFee
  <2>2. i \in Nat
    BY DEF TypeOK
  <2>3. FeeRequest(None, i) \in Request /\ Opening(FeeRequest(None, i))
    BY <1>1, <2>2, FeeOpens
  <2>4. FeeRequest(None, i).shows = None
    BY DEF FeeRequest
  <2>5. Goal
    BY <2>1, <2>3, <2>4
  <2>. QED BY <1>1, <2>5
<1>. QED BY <1>3, <1>4, <1>5, <1>6 DEF Opens

\* The steps that go on with what an employee began.
Goes(e) ==
  \/ Open(e) \/ Opens(e) \/ Flush(e) \/ Commit(e) \/ CommitFails(e) \/ Delete(e)
  \/ Recalculate(e) \/ Store(e) \/ RecalculationFails(e)

LEMMA NextGoes == Next => \E e \in Employee : Goes(e)
BY DEF Next, Goes, Opens

LEMMA TypeInit == Init => TypeOK
<1>. SUFFICES ASSUME Init PROVE TypeOK
  OBVIOUS
<1>1. booking \in Booking
  BY DEF Init, Booking, Status, Payment
<1>2. fees \in Seq(Fee)
  BY DEF Init
<1>3. work \in [Employee -> {Idle} \cup Page \cup Request \cup Recalculation]
  BY DEF Init
<1>. QED BY <1>1, <1>2, <1>3 DEF Init, TypeOK, Status

LEMMA TypeStep ==
  ASSUME TypeOK, RecordsTellCurrent, [Next]_vars
  PROVE  TypeOK'
<1>. DEFINE Kind == {Idle} \cup Page \cup Request \cup Recalculation
<1>1. CASE UNCHANGED vars
  BY <1>1 DEF vars, TypeOK
<1>. SUFFICES ASSUME NEW e \in Employee, Goes(e) PROVE TypeOK'
  BY <1>1, NextGoes
<1>. USE DEF TypeOK
<1>2. CASE Open(e)
  <2>. DEFINE w == [at |-> "open", shows |-> booking, count |-> history.count]
  <2>1. w \in Kind
    BY <1>2 DEF Open, Page
  <2>. QED BY <1>2, <2>1, WorkStays DEF Open
<1>3. CASE Opens(e)
  <2>1. PICK r \in Request : Begin(e, r)
    BY <1>3, OpensFacts
  <2>2. UNCHANGED << booking, fees, history, trail, revenue, missed >>
    BY <1>3, OpensFacts
  <2>3. begun' \in Nat /\ overlap' \in BOOLEAN /\ Becomes(e, r)
    BY <2>1 DEF Begin
  <2>. QED BY <2>2, <2>3, WorkStays
<1>4. CASE Flush(e)
  <2>1. work[e] \in Request
    BY <1>4, WorkKinds DEF Flush, InRequest
  <2>2. [work[e] EXCEPT !.at = "flushed", !.number = trail.count] \in Request
    BY <2>1 DEF Request
  <2>. QED BY <1>4, <2>2 DEF Flush
<1>5. CASE Commit(e)
  <2>1. InRequest(e) /\ booking # None
    BY <1>5 DEF Commit, InRequest, Committable
  <2>2. work[e].new \in Booking
    BY <2>1, WorkKinds DEF Request
  <2>3. booking' \in Booking
    BY <1>5, <2>1, WrittenIsBooking DEF Commit
  <2>4. fees' \in Seq(Fee)
    BY <1>5, <2>1, FeesAfterAreFees DEF Commit
  <2>5. history' \in [count : Nat, newest : Status \cup {None}]
    BY <1>5, <2>2 DEF Commit, Booking
  <2>6. trail' \in [count : Nat, newest : Booking \cup {None}]
    <3>1. trail.newest \in Booking => Told(e) \in Booking
      BY <2>2 DEF Told, Booking
    <3>2. trail.newest \in Booking
      BY <2>1 DEF RecordsTellCurrent
    <3>. QED BY <1>5, <3>1, <3>2 DEF Commit
  <2>7. Idle \in Kind /\ Stale \in Kind
    BY DEF Stale, Recalculation
  <2>8. work' \in [Employee -> Kind]
    BY <1>5, <2>7, WorkStays DEF Commit
  <2>9. missed' \in BOOLEAN
    BY <1>5 DEF Commit
  <2>. QED BY <1>5, <2>3, <2>4, <2>5, <2>6, <2>8, <2>9 DEF Commit
<1>6. CASE CommitFails(e)
  BY <1>6, WorkStays DEF CommitFails
<1>7. CASE Delete(e)
  <2>1. Stale \in Kind
    BY DEF Stale, Recalculation
  <2>2. begun' \in Nat /\ overlap' \in BOOLEAN /\ Becomes(e, Stale)
    BY <1>7 DEF Delete, Begin
  <2>. QED BY <1>7, <2>1, <2>2, WorkStays DEF Delete
<1>8. CASE Recalculate(e)
  <2>1. RevenueOf(booking, fees) \in Nat
    BY RevenueNat
  <2>. DEFINE w == [at |-> "read", found |-> revenue, amount |-> RevenueOf(booking, fees)]
  <2>2. w \in Kind
    BY <2>1 DEF Recalculation
  <2>. QED BY <1>8, <2>2, WorkStays DEF Recalculate
<1>9. CASE Store(e)
  <2>1. work[e].amount \in Nat
    BY <1>9, WorkKinds DEF Store, Recalculation
  <2>. QED BY <1>9, <2>1, WorkStays DEF Store
<1>10. CASE RecalculationFails(e)
  BY <1>10, WorkStays DEF RecalculationFails
<1>. QED BY <1>2, <1>3, <1>4, <1>5, <1>6, <1>7, <1>8, <1>9, <1>10 DEF Goes

-----------------------------------------------------------------------------
(* The two records of what was changed. *)

LEMMA RecordsInit == Init => RecordsTellCurrent
BY DEF Init, RecordsTellCurrent

LEMMA RecordsStep ==
  ASSUME TypeOK, RecordsTellCurrent, [Next]_vars
  PROVE  RecordsTellCurrent'
<1>1. CASE UNCHANGED vars
  BY <1>1 DEF vars, RecordsTellCurrent
<1>. SUFFICES ASSUME NEW e \in Employee, Goes(e) PROVE RecordsTellCurrent'
  BY <1>1, NextGoes
<1>2. CASE UNCHANGED << booking, history, trail >>
  BY <1>2 DEF RecordsTellCurrent
<1>3. CASE Commit(e)
  <2>1. booking # None /\ InRequest(e)
    BY <1>3 DEF Commit, Committable, InRequest
  <2>2. /\ booking \in Booking /\ work[e] \in Request
        /\ history.newest = booking.status /\ trail.newest = booking
    BY <2>1, WorkKinds DEF TypeOK, RecordsTellCurrent
  <2>3. history'.newest = booking'.status
    BY <1>3, <2>2 DEF Commit, Written
  <2>4. Told(e) = Written(e)
    BY <2>2 DEF Told, Written
  <2>5. CASE Tells(e)
    BY <1>3, <2>3, <2>4, <2>5 DEF Commit, RecordsTellCurrent
  <2>6. CASE ~Tells(e)
    <3>1. work[e].changes = {}
      BY <2>6 DEF Tells
    <3>2. Written(e) = booking
      BY <2>2, <3>1 DEF Written, Booking
    <3>. QED BY <1>3, <2>2, <2>3, <2>6, <3>2 DEF Commit, RecordsTellCurrent
  <2>. QED BY <2>5, <2>6
<1>4. CASE Delete(e)
  BY <1>4 DEF Delete, RecordsTellCurrent
<1>5. CASE Opens(e)
  BY <1>2, <1>5, OpensFacts
<1>. QED
  BY <1>2, <1>3, <1>4, <1>5
     DEF Goes, Open, Flush, CommitFails, Recalculate, Store, RecalculationFails

\* Every variable has its type: what a client sends and what is computed from
\* it is always a value of its column, and the stored revenue never negative.
THEOREM TypeCorrect == Spec => []TypeOK
<1>1. Init => TypeOK /\ RecordsTellCurrent
  BY TypeInit, RecordsInit
<1>2. TypeOK /\ RecordsTellCurrent /\ [Next]_vars => (TypeOK /\ RecordsTellCurrent)'
  BY TypeStep, RecordsStep
<1>. QED BY <1>1, <1>2, PTL DEF Spec

\* However requests meet, roll back and recalculate, the status history and the
\* timeline end with what the booking says, because a commit writes the columns
\* it has an entry about and no other.
THEOREM RecordsAreTrue == Spec => []RecordsTellCurrent
<1>1. Init => TypeOK /\ RecordsTellCurrent
  BY TypeInit, RecordsInit
<1>2. TypeOK /\ RecordsTellCurrent /\ [Next]_vars => (TypeOK /\ RecordsTellCurrent)'
  BY TypeStep, RecordsStep
<1>. QED BY <1>1, <1>2, PTL DEF Spec

-----------------------------------------------------------------------------
(* Requests that meet no other one. *)

\* What is true of every request, whatever it meets: one with a fee changes no
\* column, and only a refund alone is not followed by a recalculation.
Plain ==
  \A e \in Employee : InRequest(e) =>
    /\ work[e].fee # None \/ work[e].void # 0 => work[e].changes = {}
    /\ ~work[e].after => /\ work[e].changes \subseteq {"refund"}
                         /\ work[e].fee = None /\ work[e].void = 0

\* The history only grows while the booking is there, and grows when the
\* status changes: a page that counts it right shows the right status.
PagesAge ==
  \A e \in Employee : work[e].at = "open" /\ booking # None =>
    /\ work[e].count <= history.count
    /\ work[e].count = history.count => work[e].shows.status = booking.status

AtMostOne == \A e, f \in Employee : Running(e) /\ Running(f) => e = f

\* What the request of e was checked against is still so.
StillTrue(e) ==
  /\ booking # None
  /\ work[e].changes = {f \in Field : work[e].new[f] # booking[f]}
  /\ work[e].shows # None =>
       \A f \in {"status", "payment", "refund"} : work[e].shows[f] = booking[f]
  /\ work[e].changes \cap MoneyField # {} => Backed(work[e].new, fees)

\* The stored revenue is right unless a recalculation is due, and what a
\* recalculation has read is right.
CountersTrue ==
  /\ (\A e \in Employee : work[e].at \notin {"stale", "read"})
       => revenue = RevenueOf(booking, fees)
  /\ \A e \in Employee : work[e].at = "read" =>
       work[e].found = revenue /\ work[e].amount = RevenueOf(booking, fees)

AloneInv ==
  ~overlap =>
    /\ AtMostOne
    /\ \A e \in Employee : InRequest(e) => StillTrue(e)
    /\ ~missed => CountersTrue

LEMMA PlainStep ==
  ASSUME TypeOK, Plain, [Next]_vars
  PROVE  Plain'
<1>1. CASE UNCHANGED vars
  BY <1>1 DEF vars, Plain, InRequest
<1>. SUFFICES ASSUME NEW e \in Employee, Goes(e) PROVE Plain'
  BY <1>1, NextGoes
<1>. DEFINE Ok(r) ==
       r.at \in {"checked", "flushed"} =>
         /\ r.fee # None \/ r.void # 0 => r.changes = {}
         /\ ~r.after => /\ r.changes \subseteq {"refund"}
                        /\ r.fee = None /\ r.void = 0
<1>2. ASSUME NEW w \in {Idle} \cup Page \cup Request \cup Recalculation,
             Becomes(e, w), Ok(w)
      PROVE  Plain'
  <2>1. /\ work'[e] = w
        /\ \A f \in Employee \ {e} : work'[f] = work[f]
    BY <1>2, WorkStays
  <2>2. \A f \in Employee : Ok(work[f])
    BY DEF Plain, InRequest
  <2>3. \A f \in Employee : Ok(work'[f])
    BY <1>2, <2>1, <2>2
  <2>. QED BY <2>3 DEF Plain, InRequest
<1>3. ASSUME NEW w, Becomes(e, w), w \in Page \cup Recalculation \cup {Idle}
      PROVE  Plain'
  <2>1. Ok(w)
    BY <1>3 DEF Page, Recalculation, Idle
  <2>. QED BY <1>2, <1>3, <2>1
<1>4. Stale \in Recalculation
  BY DEF Stale, Recalculation
<1>5. CASE Open(e)
  <2>1. [at |-> "open", shows |-> booking, count |-> history.count] \in Page
    BY <1>5 DEF Open, Page, TypeOK
  <2>. QED BY <1>3, <1>5, <2>1 DEF Open
<1>6. CASE Opens(e)
  <2>1. PICK r \in Request : Begin(e, r) /\ Opening(r)
    BY <1>6, OpensFacts
  <2>2. Ok(r)
    BY <2>1 DEF Opening
  <2>. QED BY <1>2, <2>1, <2>2 DEF Begin
<1>7. CASE Flush(e)
  <2>1. work[e] \in Request /\ InRequest(e)
    BY <1>7, WorkKinds DEF Flush, InRequest
  <2>. DEFINE w == [work[e] EXCEPT !.at = "flushed", !.number = trail.count]
  <2>2. w \in Request
    BY <2>1 DEF Request, TypeOK
  <2>3. Ok(w)
    BY <2>1 DEF Request, Plain
  <2>4. Becomes(e, w)
    BY <1>7 DEF Flush, Becomes, TypeOK
  <2>. QED BY <1>2, <2>2, <2>3, <2>4
<1>8. CASE Commit(e)
  BY <1>3, <1>4, <1>8 DEF Commit
<1>9. CASE Delete(e)
  BY <1>3, <1>4, <1>9 DEF Delete, Begin
<1>10. CASE Recalculate(e)
  <2>1. RevenueOf(booking, fees) \in Nat
    BY RevenueNat DEF TypeOK
  <2>2. [at |-> "read", found |-> revenue, amount |-> RevenueOf(booking, fees)]
          \in Recalculation
    BY <2>1 DEF Recalculation, TypeOK
  <2>. QED BY <1>3, <1>10, <2>2 DEF Recalculate
<1>11. CASE CommitFails(e) \/ Store(e) \/ RecalculationFails(e)
  BY <1>3, <1>11 DEF CommitFails, Store, RecalculationFails
<1>. QED BY <1>5, <1>6, <1>7, <1>8, <1>9, <1>10, <1>11 DEF Goes

LEMMA PagesStep ==
  ASSUME TypeOK, PagesAge, [Next]_vars
  PROVE  PagesAge'
<1>1. CASE UNCHANGED vars
  BY <1>1 DEF vars, PagesAge
<1>. SUFFICES ASSUME NEW e \in Employee, Goes(e) PROVE PagesAge'
  BY <1>1, NextGoes
<1>. DEFINE Quiet(w) == w.at # "open"
<1>2. ASSUME NEW w \in {Idle} \cup Page \cup Request \cup Recalculation,
             Becomes(e, w), Quiet(w),
             booking' # None =>
               /\ booking # None
               /\ \/ history' = history /\ booking'.status = booking.status
                  \/ history'.count = history.count + 1
      PROVE  PagesAge'
  <2>. SUFFICES ASSUME NEW f \in Employee, work'[f].at = "open", booking' # None
                PROVE  /\ work'[f].count <= history'.count
                       /\ work'[f].count = history'.count =>
                            work'[f].shows.status = booking'.status
    BY DEF PagesAge
  <2>1. f # e /\ work'[f] = work[f]
    BY <1>2, WorkStays
  <2>2. work[f].at = "open" /\ booking # None
    BY <1>2, <2>1
  <2>3. work[f].count \in Nat /\ history.count \in Nat
    BY <2>2, WorkKinds DEF Page, TypeOK
  <2>. QED BY <1>2, <2>1, <2>2, <2>3 DEF PagesAge
<1>3. Quiet(Idle) /\ Quiet(Stale) /\ Stale \in Recalculation
  BY DEF Idle, Stale, Recalculation
<1>4. CASE Open(e)
  <2>. DEFINE w == [at |-> "open", shows |-> booking, count |-> history.count]
  <2>1. w \in Page /\ Becomes(e, w) /\ UNCHANGED << booking, history >>
    BY <1>4 DEF Open, Page, TypeOK
  <2>2. /\ work'[e] = w
        /\ \A f \in Employee \ {e} : work'[f] = work[f]
    BY <2>1, WorkStays
  <2>3. history.count \in Nat
    BY DEF TypeOK
  <2>. QED BY <2>1, <2>2, <2>3 DEF PagesAge
<1>5. CASE Opens(e)
  <2>1. PICK r \in Request : Begin(e, r) /\ Opening(r)
    BY <1>5, OpensFacts
  <2>2. Becomes(e, r) /\ Quiet(r)
    BY <2>1 DEF Begin, Opening
  <2>. QED BY <1>2, <1>5, <2>2, OpensFacts
<1>6. CASE Flush(e)
  <2>. DEFINE w == [work[e] EXCEPT !.at = "flushed", !.number = trail.count]
  <2>1. work[e] \in Request
    BY <1>6, WorkKinds DEF Flush, InRequest
  <2>2. w \in Request /\ Quiet(w)
    BY <2>1 DEF Request, TypeOK
  <2>3. Becomes(e, w) /\ UNCHANGED << booking, history >>
    BY <1>6 DEF Flush, Becomes, TypeOK
  <2>. HIDE DEF w
  <2>. QED BY <1>2, <2>2, <2>3
<1>7. CASE Commit(e)
  <2>1. booking # None
    BY <1>7 DEF Commit, Committable
  <2>2. \/ history' = history /\ booking'.status = booking.status
        \/ history'.count = history.count + 1
    BY <1>7 DEF Commit, Written
  <2>3. Becomes(e, Stale) \/ Becomes(e, Idle)
    BY <1>7 DEF Commit
  <2>. QED BY <1>2, <1>3, <2>1, <2>2, <2>3
<1>8. CASE Delete(e)
  <2>1. booking' = None /\ Becomes(e, Stale)
    BY <1>8 DEF Delete, Begin
  <2>. QED BY <1>2, <1>3, <2>1
<1>9. CASE Recalculate(e)
  <2>. DEFINE w == [at |-> "read", found |-> revenue, amount |-> RevenueOf(booking, fees)]
  <2>1. RevenueOf(booking, fees) \in Nat
    BY RevenueNat DEF TypeOK
  <2>2. w \in Recalculation /\ Quiet(w)
    BY <2>1 DEF Recalculation, TypeOK
  <2>3. Becomes(e, w) /\ UNCHANGED << booking, history >>
    BY <1>9 DEF Recalculate
  <2>. HIDE DEF w
  <2>. QED BY <1>2, <2>2, <2>3
<1>10. CASE CommitFails(e) \/ Store(e) \/ RecalculationFails(e)
  BY <1>2, <1>3, <1>10 DEF CommitFails, Store, RecalculationFails
<1>. QED BY <1>4, <1>5, <1>6, <1>7, <1>8, <1>9, <1>10 DEF Goes

\* A request that runs alone: every other employee is idle or reads a page, now
\* and after the step w of e.
LEMMA AloneFacts ==
  ASSUME TypeOK, NEW e \in Employee, NEW w, Becomes(e, w),
         w \in {Idle} \cup Page \cup Request \cup Recalculation,
         \A f \in Employee \ {e} : ~Running(f)
  PROVE  /\ work'[e] = w
         /\ \A f \in Employee \ {e} :
              work'[f] = work[f] /\ work'[f].at \in {"idle", "open"}
         /\ AtMostOne'
BY WorkStays DEF Running, AtMostOne

LEMMA AloneOpens ==
  ASSUME TypeOK, PagesAge, AloneInv, NEW e \in Employee, Opens(e), ~overlap'
  PROVE  AloneInv'
<1>1. /\ booking # None /\ ~Running(e)
      /\ UNCHANGED << booking, fees, history, trail, revenue, missed >>
  BY OpensFacts
<1>2. PICK r \in Request :
        /\ Begin(e, r) /\ Opening(r)
        /\ r.shows # None =>
             /\ work[e].at = "open" /\ r.shows = work[e].shows
             /\ TokensMatch(work[e])
  BY OpensFacts
<1>3. /\ ~overlap /\ Becomes(e, r)
      /\ \A f \in Employee \ {e} : ~Running(f)
  BY <1>2 DEF Begin
<1>4. /\ work'[e] = r
      /\ \A f \in Employee \ {e} :
           work'[f] = work[f] /\ work'[f].at \in {"idle", "open"}
      /\ AtMostOne'
  BY <1>3, AloneFacts
<1>5. r.at = "checked"
  BY <1>2 DEF Opening
<1>6. StillTrue(e)'
  <2>1. r.shows # None =>
          \A f \in {"status", "payment", "refund"} : r.shows[f] = booking[f]
    <3>1. SUFFICES ASSUME r.shows # None
                   PROVE  \A f \in {"status", "payment", "refund"} :
                            r.shows[f] = booking[f]
      OBVIOUS
    <3>2. work[e].at = "open" /\ r.shows = work[e].shows /\ TokensMatch(work[e])
      BY <1>2, <3>1
    <3>3. r.shows.status = booking.status
      BY <1>1, <3>2 DEF PagesAge, TokensMatch
    <3>4. r.shows.payment = booking.payment /\ r.shows.refund = booking.refund
      BY <3>2 DEF TokensMatch
    <3>. QED BY <3>3, <3>4
  <2>. QED BY <1>1, <1>2, <1>4, <2>1 DEF StillTrue, Opening
<1>7. \A f \in Employee : InRequest(f)' => StillTrue(f)'
  <2>1. \A f \in Employee \ {e} : ~InRequest(f)'
    BY <1>4 DEF InRequest
  <2>. QED BY <1>6, <2>1
<1>8. ~missed' => CountersTrue'
  <2>1. \A f \in Employee : work[f].at \notin {"stale", "read"}
    BY <1>1, <1>3 DEF Running
  <2>2. ~missed => revenue = RevenueOf(booking, fees)
    BY <1>3, <2>1 DEF AloneInv, CountersTrue
  <2>3. \A f \in Employee : work'[f].at # "read"
    BY <1>4, <1>5
  <2>. QED BY <1>1, <2>2, <2>3 DEF CountersTrue
<1>. QED BY <1>4, <1>7, <1>8 DEF AloneInv

LEMMA AloneCommits ==
  ASSUME TypeOK, Plain, AloneInv, NEW e \in Employee, Commit(e), ~overlap'
  PROVE  AloneInv'
<1>1. /\ work[e].at = "flushed" /\ InRequest(e) /\ Running(e)
      /\ booking # None /\ ~overlap /\ revenue' = revenue
  BY DEF Commit, Committable, InRequest, Running
<1>2. \A f \in Employee \ {e} : ~Running(f)
  BY <1>1 DEF AloneInv, AtMostOne
<1>. DEFINE w == IF work[e].after THEN Stale ELSE Idle
<1>3. Becomes(e, w) /\ w \in {Idle} \cup Recalculation
  BY DEF Commit, Stale, Recalculation
<1>4. /\ work'[e] = w
      /\ \A f \in Employee \ {e} :
           work'[f] = work[f] /\ work'[f].at \in {"idle", "open"}
      /\ AtMostOne'
  BY <1>2, <1>3, AloneFacts
<1>5. w.at \in {"stale", "idle"} /\ (work[e].after <=> w.at = "stale")
  BY WorkKinds, <1>1 DEF Stale, Idle, Request
<1>. HIDE DEF w
<1>6. \A f \in Employee : ~InRequest(f)'
  BY <1>4, <1>5 DEF InRequest
<1>7. ~missed' => CountersTrue'
  <2>1. SUFFICES ASSUME ~missed' PROVE CountersTrue'
    OBVIOUS
  <2>2. ~missed /\ (work[e].after \/ "refund" \notin work[e].changes)
    BY <2>1 DEF Commit
  <2>3. \A f \in Employee : work'[f].at # "read"
    BY <1>4, <1>5
  <2>4. CASE work[e].after
    BY <1>4, <1>5, <2>3, <2>4 DEF CountersTrue
  <2>5. CASE ~work[e].after
    <3>1. work[e].changes = {} /\ work[e].fee = None /\ work[e].void = 0
      BY <1>1, <2>2, <2>5 DEF Plain
    <3>2. booking' = booking /\ fees' = fees
      BY <1>1, <3>1 DEF Commit, Written, FeesAfter, TypeOK, Booking
    <3>3. \A f \in Employee : work[f].at \notin {"stale", "read"}
      BY <1>1, <1>2 DEF Running
    <3>4. revenue = RevenueOf(booking, fees)
      BY <1>1, <2>2, <3>3 DEF AloneInv, CountersTrue
    <3>. QED BY <1>1, <2>3, <3>2, <3>4 DEF CountersTrue
  <2>. QED BY <2>4, <2>5
<1>. QED BY <1>4, <1>6, <1>7 DEF AloneInv

LEMMA AloneStep ==
  ASSUME TypeOK, Plain, PagesAge, AloneInv, [Next]_vars
  PROVE  AloneInv'
<1>1. CASE UNCHANGED vars
  <2>. USE <1>1 DEF vars
  <2>1. AtMostOne => AtMostOne'
    BY DEF AtMostOne, Running
  <2>2. \A f \in Employee : (InRequest(f)' => InRequest(f)) /\ (StillTrue(f) => StillTrue(f)')
    BY DEF InRequest, StillTrue
  <2>3. CountersTrue => CountersTrue'
    BY DEF CountersTrue
  <2>. QED BY <2>1, <2>2, <2>3 DEF AloneInv
<1>. SUFFICES ASSUME NEW e \in Employee, Goes(e), ~overlap' PROVE AloneInv'
  BY <1>1, NextGoes DEF AloneInv
<1>2. CASE Opens(e)
  BY <1>2, AloneOpens
<1>3. CASE Commit(e)
  BY <1>3, AloneCommits
<1>4. CASE Open(e)
  <2>. DEFINE w == [at |-> "open", shows |-> booking, count |-> history.count]
  <2>1. /\ Becomes(e, w) /\ w \in Page /\ ~overlap /\ ~Running(e)
        /\ UNCHANGED << booking, fees, revenue, missed >>
    BY <1>4 DEF Open, Page, TypeOK
  <2>2. work'[e] = w /\ \A f \in Employee \ {e} : work'[f] = work[f]
    BY <2>1, WorkStays
  <2>3. AtMostOne'
    BY <2>1, <2>2 DEF AloneInv, AtMostOne, Running
  <2>4. \A f \in Employee : InRequest(f)' => InRequest(f) /\ StillTrue(f)'
    BY <2>1, <2>2 DEF AloneInv, InRequest, StillTrue
  <2>5. ~missed => CountersTrue'
    BY <2>1, <2>2 DEF AloneInv, CountersTrue, Running
  <2>. QED BY <2>1, <2>3, <2>4, <2>5 DEF AloneInv
<1>5. CASE Flush(e)
  <2>1. /\ InRequest(e) /\ work[e].at = "checked" /\ Running(e) /\ ~overlap
        /\ UNCHANGED << booking, fees, revenue, missed >>
    BY <1>5 DEF Flush, InRequest, Running
  <2>2. work[e] \in Request
    BY <2>1, WorkKinds
  <2>3. /\ work'[e].at = "flushed"
        /\ work'[e].changes = work[e].changes /\ work'[e].new = work[e].new
        /\ work'[e].shows = work[e].shows
        /\ \A f \in Employee \ {e} : work'[f] = work[f]
    BY <1>5, <2>2 DEF Flush, TypeOK, Request
  <2>4. AtMostOne'
    BY <2>1, <2>3 DEF AloneInv, AtMostOne, Running
  <2>5. \A f \in Employee : InRequest(f)' => InRequest(f) /\ StillTrue(f)'
    BY <2>1, <2>3 DEF AloneInv, InRequest, StillTrue
  <2>6. ~missed => CountersTrue'
    BY <2>1, <2>3 DEF AloneInv, CountersTrue
  <2>. QED BY <2>1, <2>4, <2>5, <2>6 DEF AloneInv
<1>6. CASE CommitFails(e)
  <2>1. /\ work[e].at = "flushed" /\ Running(e) /\ ~overlap /\ Becomes(e, Idle)
        /\ UNCHANGED << booking, fees, revenue, missed >>
    BY <1>6 DEF CommitFails, Running
  <2>2. \A f \in Employee \ {e} : ~Running(f)
    BY <2>1 DEF AloneInv, AtMostOne
  <2>3. /\ work'[e] = Idle
        /\ \A f \in Employee \ {e} :
             work'[f] = work[f] /\ work'[f].at \in {"idle", "open"}
        /\ AtMostOne'
    BY <2>1, <2>2, AloneFacts
  <2>4. \A f \in Employee : work'[f].at \in {"idle", "open"}
    BY <2>3 DEF Idle
  <2>5. \A f \in Employee : work[f].at \notin {"stale", "read"}
    BY <2>1, <2>2 DEF Running
  <2>6. ~missed => CountersTrue'
    BY <2>1, <2>4, <2>5 DEF AloneInv, CountersTrue
  <2>. QED BY <2>1, <2>3, <2>4, <2>6 DEF AloneInv, InRequest
<1>7. CASE Delete(e)
  <2>1. /\ ~overlap /\ Becomes(e, Stale) /\ Stale \in Recalculation
        /\ \A f \in Employee \ {e} : ~Running(f)
    BY <1>7 DEF Delete, Begin, Stale, Recalculation
  <2>2. /\ work'[e] = Stale
        /\ \A f \in Employee \ {e} :
             work'[f] = work[f] /\ work'[f].at \in {"idle", "open"}
        /\ AtMostOne'
    BY <2>1, AloneFacts
  <2>3. Stale.at = "stale"
    BY DEF Stale
  <2>. HIDE DEF Stale
  <2>4. CountersTrue'
    BY <2>2, <2>3 DEF CountersTrue
  <2>. QED BY <2>2, <2>3, <2>4 DEF AloneInv, InRequest
<1>8. CASE Recalculate(e)
  <2>. DEFINE w == [at |-> "read", found |-> revenue, amount |-> RevenueOf(booking, fees)]
  <2>1. /\ work[e].at = "stale" /\ Running(e) /\ ~overlap /\ Becomes(e, w)
        /\ UNCHANGED << booking, fees, revenue, missed >>
    BY <1>8 DEF Recalculate, Running
  <2>2. \A f \in Employee \ {e} : ~Running(f)
    BY <2>1 DEF AloneInv, AtMostOne
  <2>3. w \in Recalculation
    BY RevenueNat DEF Recalculation, TypeOK
  <2>4. /\ work'[e] = w
        /\ \A f \in Employee \ {e} :
             work'[f] = work[f] /\ work'[f].at \in {"idle", "open"}
        /\ AtMostOne'
    BY <2>1, <2>2, <2>3, AloneFacts
  <2>5. CountersTrue'
    BY <2>1, <2>4 DEF CountersTrue
  <2>. QED BY <2>4, <2>5 DEF AloneInv, InRequest
<1>9. CASE Store(e)
  <2>1. /\ work[e].at = "read" /\ Running(e) /\ ~overlap /\ Becomes(e, Idle)
        /\ UNCHANGED << booking, fees, missed >>
        /\ revenue' = IF work[e].amount = work[e].found THEN revenue ELSE work[e].amount
    BY <1>9 DEF Store, Running
  <2>2. \A f \in Employee \ {e} : ~Running(f)
    BY <2>1 DEF AloneInv, AtMostOne
  <2>3. /\ work'[e] = Idle
        /\ \A f \in Employee \ {e} :
             work'[f] = work[f] /\ work'[f].at \in {"idle", "open"}
        /\ AtMostOne'
    BY <2>1, <2>2, AloneFacts
  <2>4. \A f \in Employee : work'[f].at \in {"idle", "open"}
    BY <2>3 DEF Idle
  <2>5. ~missed => revenue' = RevenueOf(booking, fees)
    BY <2>1 DEF AloneInv, CountersTrue
  <2>6. ~missed => CountersTrue'
    BY <2>1, <2>4, <2>5 DEF CountersTrue
  <2>. QED BY <2>1, <2>3, <2>4, <2>6 DEF AloneInv, InRequest
<1>10. CASE RecalculationFails(e)
  <2>1. /\ work[e].at \in {"stale", "read"} /\ Running(e) /\ ~overlap
        /\ Becomes(e, Idle) /\ missed'
    BY <1>10 DEF RecalculationFails, Running
  <2>2. \A f \in Employee \ {e} : ~Running(f)
    BY <2>1 DEF AloneInv, AtMostOne
  <2>3. /\ work'[e] = Idle
        /\ \A f \in Employee \ {e} :
             work'[f] = work[f] /\ work'[f].at \in {"idle", "open"}
        /\ AtMostOne'
    BY <2>1, <2>2, AloneFacts
  <2>. QED BY <2>1, <2>3 DEF AloneInv, InRequest, Idle
<1>. QED BY <1>2, <1>3, <1>4, <1>5, <1>6, <1>7, <1>8, <1>9, <1>10 DEF Goes

-----------------------------------------------------------------------------
(* What the requests keep. *)

MoneyInv == TypeOK /\ RecordsTellCurrent /\ Plain /\ PagesAge /\ AloneInv

LEMMA MoneyInit == Init => MoneyInv
<1>. SUFFICES ASSUME Init PROVE MoneyInv
  OBVIOUS
<1>1. TypeOK /\ RecordsTellCurrent
  BY TypeInit, RecordsInit
<1>2. booking \in Booking /\ \A e \in Employee : work[e] = Idle
  BY DEF Init, Booking, Status, Payment
<1>3. Plain /\ PagesAge /\ AtMostOne /\ \A e \in Employee : ~InRequest(e)
  BY <1>2 DEF Idle, Plain, PagesAge, AtMostOne, InRequest, Running
<1>4. CountersTrue
  <2>1. ~Recognized(booking)
    BY DEF Init, Recognized
  <2>2. revenue = RevenueOf(booking, fees)
    BY <2>1 DEF Init, RevenueOf
  <2>. QED BY <1>2, <2>2 DEF CountersTrue, Idle
<1>. QED BY <1>1, <1>3, <1>4 DEF MoneyInv, AloneInv

LEMMA MoneyIsInvariant == Spec => []MoneyInv
<1>1. MoneyInv /\ [Next]_vars => MoneyInv'
  BY TypeStep, RecordsStep, PlainStep, PagesStep, AloneStep DEF MoneyInv
<1>. QED BY <1>1, MoneyInit, PTL DEF Spec

\* A request that met no other one writes the booking it checked.
LEMMA CommitOfChecked ==
  ASSUME MoneyInv, NEW e \in Employee, Commit(e), ~overlap
  PROVE  /\ InRequest(e) /\ StillTrue(e)
         /\ booking' = work[e].new
         /\ work[e].changes # {} => fees' = fees
<1>1. InRequest(e) /\ StillTrue(e)
  BY DEF MoneyInv, AloneInv, Commit, InRequest
<1>2. work[e].new \in Booking /\ booking \in Booking
  BY <1>1, WorkKinds DEF MoneyInv, StillTrue, TypeOK, Request
<1>3. \A f \in Field \ work[e].changes : work[e].new[f] = booking[f]
  BY <1>1 DEF StillTrue
<1>4. Written(e) = work[e].new
  BY <1>2, <1>3 DEF Written, Booking, Field
<1>5. work[e].changes # {} => fees' = fees
  BY <1>1 DEF MoneyInv, Plain, Commit, FeesAfter
<1>. QED BY <1>1, <1>4, <1>5 DEF Commit

\* Only a commit changes the money of a booking that stays.
LEMMA OnlyCommitsChange ==
  ASSUME MoneyInv, [Next]_vars, booking' # booking, booking' # None
  PROVE  \E e \in Employee : Commit(e)
<1>1. PICK e \in Employee : Goes(e)
  BY NextGoes DEF vars
<1>2. ~Opens(e)
  BY OpensFacts DEF MoneyInv
<1>. QED
  BY <1>1, <1>2
     DEF Goes, Open, Flush, CommitFails, Delete, Recalculate, Store,
         RecalculationFails

\* When no request runs, the stored revenue of the traveler is what the booking
\* counts for: the last request of those that ran one after the other either
\* changed nothing that counts or read the saved row and fees again after its
\* commit, and nothing was saved in between.  Overlapping requests, failed
\* recalculations and refunds sent alone are the exceptions, and no others.
THEOREM RevenueIsKept == Spec => []RevenueIsCurrent
<1>1. MoneyInv => RevenueIsCurrent
  BY DEF MoneyInv, AloneInv, CountersTrue, RevenueIsCurrent, Running
<1>. QED BY <1>1, MoneyIsInvariant, PTL

\* A form that met no other request overwrites the payment status, the refund
\* and the booking status it showed: the second token compares the money itself,
\* and the count of the history stands for the status, which never changes
\* without the history growing.
THEOREM FormsKeepPromise == Spec => FormsOverwriteWhatTheyShowed
<1>1. MoneyInv /\ [Next]_vars =>
        [\A e \in Employee :
           Commit(e) /\ work[e].shows # None /\ ~overlap =>
             \A f \in {"status", "payment", "refund"} :
               booking'[f] # booking[f] => booking[f] = work[e].shows[f]]_vars
  BY CommitOfChecked DEF StillTrue
<1>. QED BY <1>1, MoneyIsInvariant, PTL DEF Spec, FormsOverwriteWhatTheyShowed

\* A save that met no other request leaves the money backed: a refund status has
\* a positive amount, no other status has one, and the amount is within the
\* value that the saved booking has with the fees there are at the commit.
THEOREM RefundsStayBacked == Spec => RefundsAreBacked
<1>1. MoneyInv /\ [Next]_vars =>
        [booking' # None /\ ~overlap'
         /\ (booking'.payment # booking.payment \/ booking'.refund # booking.refund)
         => Backed(booking', fees')]_vars
  <2>1. SUFFICES ASSUME MoneyInv, [Next]_vars, booking' # None, ~overlap',
                        \/ booking'.payment # booking.payment
                        \/ booking'.refund # booking.refund
                 PROVE  Backed(booking', fees')
    OBVIOUS
  <2>2. PICK e \in Employee : Commit(e)
    BY <2>1, OnlyCommitsChange
  <2>3. ~overlap
    BY <2>1, <2>2 DEF Commit
  <2>4. /\ StillTrue(e) /\ booking' = work[e].new
        /\ work[e].changes # {} => fees' = fees
    BY <2>1, <2>2, <2>3, CommitOfChecked
  <2>5. work[e].changes \cap MoneyField # {}
    <3>1. \E f \in MoneyField : work[e].new[f] # booking[f]
      BY <2>1, <2>4 DEF MoneyField
    <3>. QED BY <2>4, <3>1 DEF StillTrue, MoneyField, Field
  <2>6. Backed(work[e].new, fees) /\ fees' = fees
    BY <2>4, <2>5 DEF StillTrue
  <2>. QED BY <2>4, <2>6
<1>. QED BY <1>1, MoneyIsInvariant, PTL DEF Spec, RefundsAreBacked

=============================================================================
