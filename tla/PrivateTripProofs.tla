-------------------------- MODULE PrivateTripProofs --------------------------
(***************************************************************************)
(* Theorems about PrivateTripRequests, for every set of employees and      *)
(* requests and every bound on the ledger.                                 *)
(***************************************************************************)
EXTENDS PrivateTripRequests, FiniteSetTheorems, TLAPS

\* A payment on r is in the ledger.
HasPayment(r) ==
  \E i \in DOMAIN ledger : ledger[i].request = r /\ ledger[i].type = "payment"

\* A correction about to be inserted still aims at an original row it mirrors.
Aimed(row) ==
  row.reverses # 0 =>
     /\ row.reverses \in DOMAIN ledger
     /\ ledger[row.reverses].reverses = 0
     /\ SameMoney(row, ledger[row.reverses])

\* What a unit of work was built from is still true when it is committed.
WorkSound(w) ==
  /\ w.op = "entry" => w.entry # None
  /\ w.op = "stage" => w.stage # None
  /\ w.entry # None => /\ w.entry.request = w.request
                       /\ w.entry.isDeposit => w.entry.type = "payment"
                       /\ Aimed(w.entry)
  /\ w.op = "stage" /\ w.stage \in CommittedStage =>
       /\ w.stage # "deposit_paid" => deposit[w.request] /\ HasPayment(w.request)
       /\ w.entry # None => w.entry.type = "payment"
       /\ w.entry = None => HasPayment(w.request)

SessionsSound ==
  \A e \in Employee : session[e] # None => WorkSound(session[e])

Funded ==
  \A r \in requests : stage[r] \in CommittedStage => deposit[r] /\ HasPayment(r)

DepositsArePayments ==
  \A i \in DOMAIN ledger : ledger[i].isDeposit => ledger[i].type = "payment"

IInv ==
  /\ TypeOK
  /\ DepositsArePayments
  /\ SessionsSound
  /\ NoOrphanedMoney
  /\ Funded

-----------------------------------------------------------------------------
(* The pipeline. *)

LEMMA StageMembers ==
  /\ Stage = {"registered", "consultation_scheduled", "consultation_done",
              "deposit_pending", "deposit_paid", "designing",
              "design_delivered", "payment_pending", "paid", "lost"}
  /\ CommittedStage = {"deposit_paid", "designing", "design_delivered",
                       "payment_pending", "paid"}
<1>1. DOMAIN Pipeline = 1..9
  BY DEF Pipeline
<1>2. \A i \in 1..9 : i \in {1, 2, 3, 4, 5, 6, 7, 8, 9}
  OBVIOUS
<1>3. \A i \in 5..9 : i \in {5, 6, 7, 8, 9}
  OBVIOUS
<1>4. QED
  BY <1>1, <1>2, <1>3 DEF Pipeline, Stage, CommittedStage

\* Past deposit_paid a request can only have come from a committed stage.
LEMMA CommittedFromCommitted ==
  ASSUME NEW from \in Stage, NEW to \in CommittedStage,
         CanTransition(from, to), to # "deposit_paid"
  PROVE  from \in CommittedStage
<1>1. to # "lost"
  BY StageMembers
<1>2. PICK i \in 1..8 : Pipeline[i] = from /\ Pipeline[i + 1] = to
  BY <1>1 DEF CanTransition
<1>3. i \in {1, 2, 3, 4, 5, 6, 7, 8}
  BY <1>2
<1>4. QED
  BY <1>2, <1>3, StageMembers DEF Pipeline

-----------------------------------------------------------------------------
(* A handler builds a well-typed and sound unit of work. *)

GoodWork == {w \in Work : WorkSound(w)}

LEMMA BuiltPrice ==
  ASSUME IInv, NEW e \in Employee, NEW r \in Request, NEW c \in Currency,
         SetAgreedPrice(e, r, c)
  PROVE  \E w \in GoodWork : Begin(e, w)
<1>1. PriceWork(r, IF c = price[r] THEN None ELSE c) \in GoodWork
  BY DEF PriceWork, Work, GoodWork, WorkSound
<1>2. QED
  BY <1>1 DEF SetAgreedPrice

\* A row that is not a correction makes a good unit of work.
LEMMA BuiltEntry ==
  ASSUME NEW r \in Request, NEW row \in Entry, row.request = r,
         row.isDeposit => row.type = "payment", Aimed(row)
  PROVE  EntryWork(r, row) \in GoodWork
BY NoneAssumption DEF EntryWork, Work, GoodWork, WorkSound

LEMMA BuiltPayment ==
  ASSUME IInv, NEW e \in Employee, NEW r \in Request, NEW a \in Amount,
         NEW c \in Currency, NEW n \in BOOLEAN, RecordPayment(e, r, a, c, n)
  PROVE  \E w \in GoodWork : Begin(e, w)
<1> DEFINE row == Original(r, "payment", a, c, n, FALSE)
<1>1. EntryWork(r, row) \in GoodWork
  <2>1. row \in Entry /\ row.request = r /\ row.isDeposit = FALSE /\ row.reverses = 0
    BY BoundAssumption DEF Original, Entry
  <2> HIDE DEF row
  <2>2. Aimed(row)
    BY <2>1 DEF Aimed
  <2>3. QED
    BY <2>1, <2>2, BuiltEntry
<1>2. QED
  BY <1>1 DEF RecordPayment

LEMMA BuiltRefund ==
  ASSUME IInv, NEW e \in Employee, NEW r \in Request, NEW a \in Amount,
         NEW c \in Currency, RecordRefund(e, r, a, c)
  PROVE  \E w \in GoodWork : Begin(e, w)
<1> DEFINE row == Original(r, "refund", a, c, FALSE, FALSE)
<1>1. EntryWork(r, row) \in GoodWork
  <2>1. row \in Entry /\ row.request = r /\ row.isDeposit = FALSE /\ row.reverses = 0
    BY BoundAssumption DEF Original, Entry
  <2> HIDE DEF row
  <2>2. Aimed(row)
    BY <2>1 DEF Aimed
  <2>3. QED
    BY <2>1, <2>2, BuiltEntry
<1>2. QED
  BY <1>1 DEF RecordRefund

LEMMA BuiltReversal ==
  ASSUME IInv, NEW e \in Employee, NEW i \in DOMAIN ledger, ReverseEntry(e, i)
  PROVE  \E w \in GoodWork : Begin(e, w)
<1>1. i \in 1..MaxEntries /\ ledger[i] \in Entry /\ ledger[i].reverses = 0
  BY BoundAssumption DEF ReverseEntry, RoomInLedger, Reversible, IInv, TypeOK
<1>2. /\ MirrorOf(i) \in Entry
      /\ MirrorOf(i).request = ledger[i].request
      /\ ~MirrorOf(i).isDeposit
      /\ MirrorOf(i).reverses = i
  BY <1>1 DEF MirrorOf, Entry
<1>3. Aimed(MirrorOf(i))
  BY <1>1, <1>2 DEF Aimed, SameMoney, MirrorOf
<1>4. EntryWork(ledger[i].request, MirrorOf(i)) \in GoodWork
  <2>1. ledger[i].request \in Request
    BY <1>1 DEF Entry
  <2>2. QED
    BY <1>2, <1>3, <2>1, BuiltEntry
<1>5. QED
  BY <1>4 DEF ReverseEntry

LEMMA BuiltMove ==
  ASSUME IInv, NEW e \in Employee, NEW r \in Request, NEW to \in Stage,
         MoveStage(e, r, to)
  PROVE  \E w \in GoodWork : Begin(e, w)
<1>1. to \in CommittedStage => deposit[r] /\ HasPayment(r)
  <2>1. stage[r] \in Stage /\ r \in requests
    BY DEF MoveStage, IInv, TypeOK
  <2>2. to \in CommittedStage => stage[r] \in CommittedStage
    BY <2>1, CommittedFromCommitted DEF MoveStage
  <2>3. QED
    BY <2>1, <2>2 DEF IInv, Funded
<1>2. StageWork(r, to, None) \in GoodWork
  BY <1>1, NoneAssumption DEF StageWork, Work, GoodWork, WorkSound
<1>3. QED
  BY <1>2 DEF MoveStage

\* The milestone without a new row rests on a payment already in the ledger.
LEMMA BuiltMilestone ==
  ASSUME NEW r \in Request, HasPayment(r)
  PROVE  StageWork(r, "deposit_paid", None) \in GoodWork
BY StageMembers, NoneAssumption DEF StageWork, Work, GoodWork, WorkSound

LEMMA BuiltDeposit ==
  ASSUME IInv, NEW e \in Employee, NEW r \in Request, NEW a \in Amount,
         NEW c \in Currency, PayDeposit(e, r, a, c)
  PROVE  \E w \in GoodWork : Begin(e, w)
<1>1. CASE DepositRecorded(r) /\ Begin(e, StageWork(r, "deposit_paid", None))
  <2>1. HasPayment(r)
    BY <1>1 DEF DepositRecorded, RowsOf, HasPayment, IInv, DepositsArePayments
  <2>2. QED
    BY <1>1, <2>1, BuiltMilestone
<1>2. CASE Begin(e, StageWork(r, "deposit_paid", Original(r, "payment", a, c, TRUE, TRUE)))
  <2> DEFINE row == Original(r, "payment", a, c, TRUE, TRUE)
  <2>1. row \in Entry /\ row.request = r /\ row.type = "payment" /\ row.reverses = 0
    BY BoundAssumption DEF Original, Entry
  <2>2. row # None /\ Aimed(row)
    BY <2>1, NoneAssumption DEF Aimed
  <2> HIDE DEF row
  <2>3. StageWork(r, "deposit_paid", row) \in GoodWork
    BY <2>1, <2>2, StageMembers, NoneAssumption DEF StageWork, Work, GoodWork, WorkSound
  <2>4. QED
    BY <1>2, <2>3 DEF row
<1>3. QED
  BY <1>1, <1>2 DEF PayDeposit

LEMMA BuiltConfirmation ==
  ASSUME IInv, NEW e \in Employee, NEW r \in Request, ConfirmDeposit(e, r)
  PROVE  \E w \in GoodWork : Begin(e, w)
<1>1. HasPayment(r)
  BY DEF ConfirmDeposit, Payments, Standing, RowsOf, HasPayment
<1>2. QED
  BY <1>1, BuiltMilestone DEF ConfirmDeposit

LEMMA BuiltDeletion ==
  ASSUME IInv, NEW e \in Employee, NEW r \in Request, DeleteRequest(e, r)
  PROVE  \E w \in GoodWork : Begin(e, w)
<1>1. DeleteWork(r) \in GoodWork
  BY DEF DeleteWork, Work, GoodWork, WorkSound
<1>2. QED
  BY <1>1 DEF DeleteRequest

LEMMA BuiltWork ==
  ASSUME IInv, NEW e \in Employee, Handle(e)
  PROVE  \E w \in GoodWork : Begin(e, w)
BY BuiltPrice, BuiltPayment, BuiltRefund, BuiltReversal, BuiltMove, BuiltDeposit,
   BuiltConfirmation, BuiltDeletion DEF Handle

-----------------------------------------------------------------------------
(* The inductive invariant. *)

LEMMA InitIInv == Init => IInv
<1> SUFFICES ASSUME Init PROVE IInv
  OBVIOUS
<1>1. TypeOK
  BY StageMembers DEF Init, TypeOK
<1>2. SessionsSound /\ NoOrphanedMoney /\ Funded /\ DepositsArePayments
  BY DEF Init, SessionsSound, NoOrphanedMoney, Funded, DepositsArePayments
<1>3. QED
  BY <1>1, <1>2 DEF IInv

LEMMA CreateIInv ==
  ASSUME IInv, NEW r \in Request, CreateRequest(r)
  PROVE  IInv'
<1> USE DEF IInv
<1>1. TypeOK'
  BY StageMembers DEF CreateRequest, TypeOK
<1>2. NoOrphanedMoney' /\ DepositsArePayments'
  BY DEF CreateRequest, NoOrphanedMoney, DepositsArePayments
<1>3. Funded'
  BY StageMembers DEF CreateRequest, Funded, TypeOK, HasPayment
<1>4. SessionsSound'
  <2> SUFFICES ASSUME NEW e \in Employee, session[e] # None
               PROVE  WorkSound(session[e])'
    BY DEF CreateRequest, SessionsSound
  <2> DEFINE w == session[e]
  <2>1. WorkSound(w) /\ w \in Work
    BY DEF SessionsSound, TypeOK
  <2>2. Aimed(w.entry) => Aimed(w.entry)'
    BY DEF CreateRequest, Aimed
  <2>3. HasPayment(w.request) => HasPayment(w.request)' /\ w.request # r
    BY DEF CreateRequest, HasPayment, NoOrphanedMoney
  <2>4. QED
    BY <2>1, <2>2, <2>3 DEF CreateRequest, WorkSound, TypeOK, Work
<1>5. QED
  BY <1>1, <1>2, <1>3, <1>4

LEMMA BeginIInv ==
  ASSUME IInv, NEW e \in Employee, NEW w \in GoodWork, Begin(e, w)
  PROVE  IInv'
<1> USE DEF IInv
<1>1. TypeOK'
  BY DEF Begin, TypeOK, GoodWork
<1>2. NoOrphanedMoney' /\ DepositsArePayments' /\ Funded'
  BY DEF Begin, NoOrphanedMoney, DepositsArePayments, Funded, HasPayment
<1>3. \A x : WorkSound(x) => WorkSound(x)'
  BY DEF Begin, WorkSound, Aimed, HasPayment
<1>4. SessionsSound'
  BY <1>3 DEF Begin, SessionsSound, GoodWork, TypeOK
<1>5. QED
  BY <1>1, <1>2, <1>4

LEMMA RollbackIInv ==
  ASSUME IInv, NEW e \in Employee, Rollback(e)
  PROVE  IInv'
<1> USE DEF IInv
<1>1. TypeOK'
  BY DEF Rollback, Finish, TypeOK
<1>2. NoOrphanedMoney' /\ DepositsArePayments' /\ Funded'
  BY DEF Rollback, NoOrphanedMoney, DepositsArePayments, Funded, HasPayment
<1>3. \A x : WorkSound(x) => WorkSound(x)'
  BY DEF Rollback, WorkSound, Aimed, HasPayment
<1>4. SessionsSound'
  BY <1>3 DEF Rollback, Finish, SessionsSound, TypeOK
<1>5. QED
  BY <1>1, <1>2, <1>4

-----------------------------------------------------------------------------
(* The commits. *)

\* What the ledger held it still holds, at the same positions.
LEMMA Appended ==
  ASSUME TypeOK, NEW row \in Entry, ledger' = Append(ledger, row)
  PROVE  /\ DOMAIN ledger' = DOMAIN ledger \cup {Len(ledger) + 1}
         /\ Len(ledger) + 1 \notin DOMAIN ledger
         /\ ledger'[Len(ledger) + 1] = row
         /\ \A i \in DOMAIN ledger : i \in DOMAIN ledger' /\ ledger'[i] = ledger[i]
BY DEF TypeOK

\* So nothing a unit of work was built from is lost by an insertion.
LEMMA Remembered ==
  ASSUME TypeOK, NEW row \in Entry, Insert(row)
  PROVE  /\ \A x : Aimed(x) => Aimed(x)'
         /\ \A r \in Request : HasPayment(r) => HasPayment(r)'
         /\ row.type = "payment" => \A r : row.request = r => HasPayment(r)'
<1>1. /\ DOMAIN ledger' = DOMAIN ledger \cup {Len(ledger) + 1}
      /\ ledger'[Len(ledger) + 1] = row
      /\ \A i \in DOMAIN ledger : i \in DOMAIN ledger' /\ ledger'[i] = ledger[i]
  BY Appended DEF Insert
<1>2. \A x : Aimed(x) => Aimed(x)'
  BY <1>1 DEF Aimed
<1>3. \A r \in Request : HasPayment(r) => HasPayment(r)'
  BY <1>1 DEF HasPayment
<1>4. row.type = "payment" => \A r : row.request = r => HasPayment(r)'
  BY <1>1 DEF HasPayment
<1>5. QED
  BY <1>2, <1>3, <1>4

\* A row of a request that exists, a deposit only as a payment.
LEMMA InsertKeeps ==
  ASSUME TypeOK, DepositsArePayments, NoOrphanedMoney, NEW row \in Entry,
         Insert(row), requests' = requests, row.request \in requests,
         row.isDeposit => row.type = "payment"
  PROVE  /\ ledger' \in Seq(Entry)
         /\ DepositsArePayments'
         /\ NoOrphanedMoney'
<1>1. /\ DOMAIN ledger' = DOMAIN ledger \cup {Len(ledger) + 1}
      /\ ledger'[Len(ledger) + 1] = row
      /\ \A i \in DOMAIN ledger : i \in DOMAIN ledger' /\ ledger'[i] = ledger[i]
  BY Appended DEF Insert
<1>2. DepositsArePayments' /\ NoOrphanedMoney'
  BY <1>1 DEF DepositsArePayments, NoOrphanedMoney
<1>3. ledger' \in Seq(Entry)
  BY DEF Insert, TypeOK
<1>4. QED
  BY <1>2, <1>3

LEMMA CommitPriceIInv ==
  ASSUME IInv, NEW e \in Employee, CommitPrice(e)
  PROVE  IInv'
<1> USE DEF IInv
<1>1. session[e] \in Work /\ session[e].price \in Currency \cup {None}
  BY DEF CommitPrice, Committing, TypeOK, Work
<1>2. TypeOK'
  BY <1>1 DEF CommitPrice, Committing, Finish, TypeOK
<1>3. NoOrphanedMoney' /\ DepositsArePayments' /\ Funded'
  BY DEF CommitPrice, NoOrphanedMoney, DepositsArePayments, Funded, HasPayment
<1>4. \A x : WorkSound(x) => WorkSound(x)'
  BY DEF CommitPrice, WorkSound, Aimed, HasPayment
<1>5. SessionsSound'
  BY <1>4 DEF CommitPrice, Committing, Finish, SessionsSound, TypeOK
<1>6. QED
  BY <1>2, <1>3, <1>5

LEMMA CommitEntryIInv ==
  ASSUME IInv, NEW e \in Employee, CommitEntry(e)
  PROVE  IInv'
<1> USE DEF IInv
<1> DEFINE row == session[e].entry
<1>1. /\ session[e] # None /\ session[e].request \in requests
      /\ session[e] \in Work /\ WorkSound(session[e])
      /\ session[e].op = "entry"
  BY DEF CommitEntry, Committing, TypeOK, SessionsSound
<1>2. /\ row \in Entry /\ row.request \in requests
      /\ row.isDeposit => row.type = "payment"
  BY <1>1 DEF WorkSound, Work
<1>3. Insert(row) /\ UNCHANGED << requests, stage, price, deposit >>
  BY DEF CommitEntry
<1>4. \A x \in Work : WorkSound(x) => WorkSound(x)'
  <2>1. /\ \A x : Aimed(x) => Aimed(x)'
        /\ \A r \in Request : HasPayment(r) => HasPayment(r)'
    BY <1>2, <1>3, Remembered
  <2>2. QED
    BY <1>3, <2>1 DEF WorkSound, Work
<1>5. TypeOK' /\ DepositsArePayments' /\ NoOrphanedMoney'
  <2>1. ledger' \in Seq(Entry) /\ DepositsArePayments' /\ NoOrphanedMoney'
    BY <1>2, <1>3, InsertKeeps
  <2>2. QED
    BY <1>3, <2>1 DEF CommitEntry, Committing, Finish, TypeOK
<1>6. Funded'
  <2>1. \A r \in Request : HasPayment(r) => HasPayment(r)'
    BY <1>2, <1>3, Remembered
  <2>2. QED
    BY <1>3, <2>1 DEF Funded, TypeOK
<1>7. SessionsSound'
  BY <1>4 DEF CommitEntry, Committing, Finish, SessionsSound, TypeOK
<1>8. QED
  BY <1>5, <1>6, <1>7

LEMMA CommitStageIInv ==
  ASSUME IInv, NEW e \in Employee, CommitStage(e)
  PROVE  IInv'
<1> USE DEF IInv
<1>0. PICK w \in Work : w = session[e] /\ w # None
  BY DEF CommitStage, Committing, TypeOK
<1>1. /\ w # None /\ w.request \in requests /\ w \in Work /\ WorkSound(w)
      /\ w.op = "stage" /\ w.stage \in Stage /\ w.request \in Request
  BY <1>0 DEF CommitStage, Committing, SessionsSound, WorkSound, Work
<1>2. /\ requests' = requests /\ price' = price
      /\ stage' = [stage EXCEPT ![w.request] = w.stage]
      /\ deposit' = [deposit EXCEPT ![w.request] = @ \/ w.stage = "deposit_paid"]
      /\ session' = [session EXCEPT ![e] = None]
  BY <1>0 DEF CommitStage, Committing, Finish
<1>3. w.entry # None =>
        /\ w.entry \in Entry /\ w.entry.request = w.request
        /\ w.entry.isDeposit => w.entry.type = "payment"
        /\ Insert(w.entry)
  BY <1>0, <1>1 DEF WorkSound, Work, CommitStage
<1>4. ledger' \in Seq(Entry) /\ DepositsArePayments' /\ NoOrphanedMoney'
  <2>1. CASE w.entry = None
    BY <1>0, <1>2, <2>1 DEF CommitStage, TypeOK, DepositsArePayments, NoOrphanedMoney
  <2>2. CASE w.entry # None
    BY <1>1, <1>2, <1>3, <2>2, InsertKeeps
  <2>3. QED
    BY <2>1, <2>2
<1>5. /\ \A x : Aimed(x) => Aimed(x)'
      /\ \A r \in Request : HasPayment(r) => HasPayment(r)'
      /\ w.stage \in CommittedStage => HasPayment(w.request)'
  <2>1. CASE w.entry = None
    BY <1>0, <1>1, <2>1 DEF CommitStage, Aimed, HasPayment, WorkSound
  <2>2. CASE w.entry # None
    <3>1. w.stage \in CommittedStage => w.entry.type = "payment"
      BY <1>1, <2>2 DEF WorkSound
    <3>2. QED
      BY <1>1, <1>3, <2>2, <3>1, Remembered DEF TypeOK
  <2>3. QED
    BY <2>1, <2>2
<1>6. TypeOK'
  BY <1>1, <1>2, <1>4 DEF TypeOK
<1>7. \A r \in Request : deposit[r] => deposit'[r]
  BY <1>1, <1>2 DEF TypeOK
<1>8. w.stage \in CommittedStage => deposit'[w.request]
  BY <1>1, <1>2, <1>7 DEF WorkSound, TypeOK
<1>9. Funded'
  BY <1>1, <1>2, <1>5, <1>7, <1>8 DEF Funded, TypeOK
<1>10. SessionsSound'
  <2>1. \A x \in Work : WorkSound(x) => WorkSound(x)'
    BY <1>5, <1>7 DEF WorkSound, Work
  <2>2. QED
    BY <1>2, <2>1 DEF SessionsSound, TypeOK
<1>11. QED
  BY <1>4, <1>6, <1>9, <1>10

\* A request can go only when the foreign key finds no row that names it.
LEMMA CommitDeleteIInv ==
  ASSUME IInv, NEW e \in Employee, CommitDelete(e)
  PROVE  IInv'
<1> USE DEF IInv
<1>1. TypeOK'
  BY DEF CommitDelete, Committing, Finish, TypeOK
<1>2. NoOrphanedMoney'
  BY DEF CommitDelete, NoOrphanedMoney, RowsOf
<1>3. DepositsArePayments' /\ Funded'
  BY DEF CommitDelete, DepositsArePayments, Funded, HasPayment
<1>4. \A x : WorkSound(x) => WorkSound(x)'
  BY DEF CommitDelete, WorkSound, Aimed, HasPayment
<1>5. SessionsSound'
  BY <1>4 DEF CommitDelete, Committing, Finish, SessionsSound, TypeOK
<1>6. QED
  BY <1>1, <1>2, <1>3, <1>5

LEMMA NextIInv == IInv /\ [Next]_vars => IInv'
<1> SUFFICES ASSUME IInv, [Next]_vars PROVE IInv'
  OBVIOUS
<1>1. ASSUME NEW r \in Request, CreateRequest(r) PROVE IInv'
  BY <1>1, CreateIInv
<1>2. ASSUME NEW e \in Employee, Handle(e) PROVE IInv'
  BY <1>2, BuiltWork, BeginIInv
<1>3. ASSUME NEW e \in Employee, Commit(e) PROVE IInv'
  BY <1>3, CommitPriceIInv, CommitEntryIInv, CommitStageIInv, CommitDeleteIInv DEF Commit
<1>4. ASSUME NEW e \in Employee, Rollback(e) PROVE IInv'
  BY <1>4, RollbackIInv
<1>5. CASE UNCHANGED vars
  BY <1>5 DEF vars, IInv, TypeOK, DepositsArePayments, SessionsSound, NoOrphanedMoney,
     Funded, WorkSound, Aimed, HasPayment, SameMoney
<1>6. QED
  BY <1>1, <1>2, <1>3, <1>4, <1>5 DEF Next

-----------------------------------------------------------------------------
(* The theorems. *)

LEMMA Invariance == Spec => []IInv
BY InitIInv, NextIInv, PTL DEF Spec

\* Every column and every unit of work keeps its type.
THEOREM TypeCorrect == Spec => []TypeOK
<1>1. IInv => TypeOK
  BY DEF IInv
<1>2. QED
  BY <1>1, Invariance, PTL

\* No interleaving of deletions and ledger writes leaves a row whose request
\* is gone, for any number of employees and requests.
THEOREM MoneyIsNeverOrphaned == Spec => []NoOrphanedMoney
<1>1. IInv => NoOrphanedMoney
  BY DEF IInv
<1>2. QED
  BY <1>1, Invariance, PTL

\* A request shown at or past deposit_paid has its deposit columns filled and
\* a payment in its history, for any number of employees and requests.
THEOREM CommittedMeansFunded == Spec => []CommittedStagesAreFunded
<1>1. IInv => CommittedStagesAreFunded
  BY DEF IInv, Funded, HasPayment, CommittedStagesAreFunded, RowsOf
<1>2. QED
  BY <1>1, Invariance, PTL

-----------------------------------------------------------------------------
(* The promise of the ledger. *)

\* A row enters the ledger only under a key of its own, and aimed at a row
\* that is not itself a correction.
LEMMA InsertKeepsPromise ==
  ASSUME TypeOK, NEW row \in Entry, Insert(row), Aimed(row)
  PROVE  Promise!Next
<1>1. Promise!Fresh(row)
  BY DEF Insert, DepositRecorded, RowsOf, Promise!Fresh, SameDeposit
<1>2. Promise!WellAimed(row)
  BY DEF Aimed, Promise!WellAimed, Reverses
<1>3. Promise!Record(row)
  BY <1>1, <1>2 DEF Insert, Promise!Record
<1>4. QED
  BY <1>3 DEF Promise!Next

LEMMA StepKeepsPromise == IInv /\ [Next]_vars => [Promise!Next]_ledger
<1> SUFFICES ASSUME IInv, [Next]_vars PROVE Promise!Next \/ UNCHANGED ledger
  OBVIOUS
<1>1. ASSUME NEW e \in Employee, CommitEntry(e) PROVE Promise!Next
  <2>1. /\ session[e].entry \in Entry
        /\ Aimed(session[e].entry)
    BY <1>1 DEF CommitEntry, Committing, IInv, TypeOK, SessionsSound, WorkSound, Work
  <2>2. QED
    BY <1>1, <2>1, InsertKeepsPromise DEF CommitEntry, IInv
<1>2. ASSUME NEW e \in Employee, CommitStage(e), session[e].entry # None
      PROVE  Promise!Next
  <2>1. /\ session[e].entry \in Entry
        /\ Aimed(session[e].entry)
    BY <1>2 DEF CommitStage, Committing, IInv, TypeOK, SessionsSound, WorkSound, Work
  <2>2. QED
    BY <1>2, <2>1, InsertKeepsPromise DEF CommitStage, IInv
<1>3. ASSUME NEW e \in Employee, Commit(e)
      PROVE  Promise!Next \/ UNCHANGED ledger
  BY <1>1, <1>2, <1>3 DEF Commit, CommitPrice, CommitStage, CommitDelete
<1>4. ASSUME NEW e \in Employee, Handle(e) PROVE UNCHANGED ledger
  BY <1>4 DEF Handle, SetAgreedPrice, RecordPayment, RecordRefund, ReverseEntry,
     MoveStage, PayDeposit, ConfirmDeposit, DeleteRequest, Begin
<1>5. QED
  BY <1>3, <1>4 DEF Next, CreateRequest, Rollback, vars

\* The ledger of private trips implements the append-only ledger, whoever
\* writes to it and however many write at once.
THEOREM LedgerKeepsPromise == Spec => KeepsPromise
<1>1. Init => Promise!Init
  BY DEF Init, Promise!Init
<1>2. QED
  BY <1>1, Invariance, StepKeepsPromise, PTL DEF Spec, KeepsPromise, Promise!Spec

-----------------------------------------------------------------------------
(* One deposit per request. *)

LEMMA PromiseKeepsKeys ==
  ASSUME TypeOK, DepositRecordedOnce, Promise!Next
  PROVE  DepositRecordedOnce'
<1>1. PICK row \in Entry : Promise!Record(row)
  BY DEF Promise!Next
<1>2. ledger' = Append(ledger, row)
  BY <1>1 DEF Promise!Record
<1>3. /\ DOMAIN ledger' = DOMAIN ledger \cup {Len(ledger) + 1}
      /\ ledger'[Len(ledger) + 1] = row
      /\ \A i \in DOMAIN ledger : i \in DOMAIN ledger' /\ ledger'[i] = ledger[i]
  BY <1>2, Appended
<1>4. \A i \in DOMAIN ledger :
        ~(ledger[i].isDeposit /\ row.isDeposit /\ ledger[i].request = row.request)
  BY <1>1 DEF Promise!Record, Promise!Fresh, SameDeposit
<1>5. QED
  BY <1>3, <1>4 DEF DepositRecordedOnce

\* A deposit is recorded once per request, however often and by however many
\* employees the form is submitted: it follows from the promise alone.
THEOREM DepositsAreRecordedOnce == Spec => []DepositRecordedOnce
<1>1. Init => DepositRecordedOnce
  BY DEF Init, DepositRecordedOnce
<1>2. IInv /\ DepositRecordedOnce /\ [Next]_vars => DepositRecordedOnce'
  <2>1. IInv => TypeOK
    BY DEF IInv
  <2>2. UNCHANGED ledger /\ DepositRecordedOnce => DepositRecordedOnce'
    BY DEF DepositRecordedOnce
  <2>3. QED
    BY <2>1, <2>2, StepKeepsPromise, PromiseKeepsKeys
<1>3. QED
  BY <1>1, <1>2, Invariance, PTL DEF Spec
-----------------------------------------------------------------------------
(* What the checks of the handlers establish when nobody else is at work:  *)
(* between the read of a handler and its commit only a new request can     *)
(* come in, so what was read still holds when the row is written.          *)

Alone == \A d, e \in Employee : d = e

CurrenciesOf(r) == LedgerCurrencies(r) \cup ({price[r]} \ {None})

AgreesOn(r) == \A x, y \in CurrenciesOf(r) : x = y

\* The unit of work still fits the ledger it was built from.
Fits(w) ==
  /\ w.op = "price" /\ w.price # None => LedgerCurrencies(w.request) \subseteq {w.price}
  /\ w.entry # None /\ w.entry.reverses = 0 =>
       CurrenciesOf(w.request) \subseteq {w.entry.currency}
  /\ w.entry # None /\ w.entry.reverses # 0 => ~Reversed(w.entry.reverses)

AloneInv ==
  /\ ReversedAtMostOnce
  /\ \A r \in requests : AgreesOn(r)
  /\ \A e \in Employee : session[e] # None => Fits(session[e])

\* Where everything agrees, naming a currency of the request names them all.
LEMMA DenominatedFits ==
  ASSUME NEW r, NEW c \in Currency, AgreesOn(r), Denominated(r, c)
  PROVE  CurrenciesOf(r) \subseteq {c}
<1>1. CASE LedgerCurrencies(r) = {}
  BY <1>1 DEF Denominated, RequestCurrency, CurrenciesOf
<1>2. CASE LedgerCurrencies(r) # {}
  <2>1. c \in CurrenciesOf(r)
    BY <1>2 DEF Denominated, RequestCurrency, CurrenciesOf
  <2>2. QED
    BY <2>1 DEF AgreesOn
<1>3. QED
  BY <1>1, <1>2

\* A new payment or refund in the currency of the request fits.
LEMMA OriginalFits ==
  ASSUME NEW r \in Request, NEW type, NEW a, NEW c \in Currency, NEW n, NEW d,
         AgreesOn(r), Denominated(r, c)
  PROVE  /\ Fits(EntryWork(r, Original(r, type, a, c, n, d)))
         /\ Fits(StageWork(r, "deposit_paid", Original(r, type, a, c, n, d)))
<1> DEFINE row == Original(r, type, a, c, n, d)
<1>1. row.reverses = 0 /\ row.currency = c
  BY DEF Original
<1> HIDE DEF row
<1>2. CurrenciesOf(r) \subseteq {c}
  BY DenominatedFits
<1>3. Fits(EntryWork(r, row)) /\ Fits(StageWork(r, "deposit_paid", row))
  BY <1>1, <1>2 DEF Fits, EntryWork, StageWork
<1>4. QED
  BY <1>3 DEF row

\* A unit of work that inserts no row and sets no price fits.
LEMMA RowlessFits ==
  ASSUME NEW w, w.entry = None, w.op # "price"
  PROVE  Fits(w)
BY DEF Fits

LEMMA BuiltFits ==
  ASSUME IInv, AloneInv, NEW e \in Employee, Handle(e)
  PROVE  \E w : Begin(e, w) /\ Fits(w)
<1>0. \A r \in Request : r \in requests => AgreesOn(r)
  BY DEF AloneInv
<1>1. ASSUME NEW r \in Request, NEW c \in Currency, SetAgreedPrice(e, r, c)
      PROVE  \E w : Begin(e, w) /\ Fits(w)
  <2> DEFINE w == PriceWork(r, IF c = price[r] THEN None ELSE c)
  <2>1. LedgerCurrencies(r) \subseteq {c}
    BY <1>0, <1>1 DEF SetAgreedPrice, AgreesOn, CurrenciesOf
  <2>2. /\ w.entry = None /\ w.request = r
        /\ w.price = IF c = price[r] THEN None ELSE c
    BY DEF PriceWork
  <2>3. Begin(e, w)
    BY <1>1 DEF SetAgreedPrice
  <2> HIDE DEF w
  <2>4. Fits(w)
    BY <2>1, <2>2 DEF Fits
  <2>5. QED
    BY <2>3, <2>4
<1>2. ASSUME NEW r \in Request, NEW a \in Amount, NEW c \in Currency, NEW n \in BOOLEAN,
             RecordPayment(e, r, a, c, n)
      PROVE  \E w : Begin(e, w) /\ Fits(w)
  BY <1>0, <1>2, OriginalFits DEF RecordPayment
<1>3. ASSUME NEW r \in Request, NEW a \in Amount, NEW c \in Currency,
             RecordRefund(e, r, a, c)
      PROVE  \E w : Begin(e, w) /\ Fits(w)
  <2>1. Denominated(r, c) /\ AgreesOn(r)
    BY <1>0, <1>3 DEF RecordRefund, Denominated
  <2>2. QED
    BY <1>3, <2>1, OriginalFits DEF RecordRefund
<1>4. ASSUME NEW i \in DOMAIN ledger, ReverseEntry(e, i)
      PROVE  \E w : Begin(e, w) /\ Fits(w)
  <2> DEFINE row == MirrorOf(i)
  <2>1. row.reverses = i /\ ~Reversed(i)
    BY <1>4 DEF MirrorOf, ReverseEntry, Reversible
  <2>2. i # 0
    BY DEF IInv, TypeOK
  <2> HIDE DEF row
  <2>3. Fits(EntryWork(ledger[i].request, row))
    BY <2>1, <2>2 DEF Fits, EntryWork
  <2>4. QED
    BY <1>4, <2>3 DEF ReverseEntry, row
<1>5. ASSUME NEW r \in Request, NEW to \in Stage, MoveStage(e, r, to)
      PROVE  \E w : Begin(e, w) /\ Fits(w)
  <2>1. Fits(StageWork(r, to, None))
    BY RowlessFits DEF StageWork
  <2>2. QED
    BY <1>5, <2>1 DEF MoveStage
<1>6. Fits(StageWork(e, "deposit_paid", None)) /\ \A r : Fits(StageWork(r, "deposit_paid", None))
  BY RowlessFits DEF StageWork
<1>7. ASSUME NEW r \in Request, NEW a \in Amount, NEW c \in Currency, PayDeposit(e, r, a, c)
      PROVE  \E w : Begin(e, w) /\ Fits(w)
  BY <1>0, <1>6, <1>7, OriginalFits DEF PayDeposit
<1>8. ASSUME NEW r \in Request, ConfirmDeposit(e, r)
      PROVE  \E w : Begin(e, w) /\ Fits(w)
  BY <1>6, <1>8 DEF ConfirmDeposit
<1>9. ASSUME NEW r \in Request, DeleteRequest(e, r)
      PROVE  \E w : Begin(e, w) /\ Fits(w)
  <2>1. Fits(DeleteWork(r))
    BY RowlessFits DEF DeleteWork
  <2>2. QED
    BY <1>9, <2>1 DEF DeleteRequest
<1>10. QED
  BY <1>1, <1>2, <1>3, <1>4, <1>5, <1>7, <1>8, <1>9 DEF Handle

\* A row that fits adds no second correction and no second currency.
LEMMA InsertFits ==
  ASSUME TypeOK, ReversedAtMostOnce, NEW row \in Entry, Insert(row),
         row.reverses # 0 => ~Reversed(row.reverses)
  PROVE  /\ ReversedAtMostOnce'
         /\ \A r : LedgerCurrencies(r)' \subseteq LedgerCurrencies(r) \cup
               {c \in {row.currency} : row.request = r /\ row.reverses = 0}
<1>1. /\ DOMAIN ledger' = DOMAIN ledger \cup {Len(ledger) + 1}
      /\ Len(ledger) + 1 \notin DOMAIN ledger
      /\ ledger'[Len(ledger) + 1] = row
      /\ \A i \in DOMAIN ledger : i \in DOMAIN ledger' /\ ledger'[i] = ledger[i]
  BY Appended DEF Insert
<1>2. ReversedAtMostOnce'
  BY <1>1 DEF ReversedAtMostOnce, Reversed
<1>3. \A r : Standing(r)' \subseteq Standing(r) \cup
        {i \in {Len(ledger) + 1} : row.request = r /\ row.reverses = 0}
  BY <1>1 DEF Standing, RowsOf, Reversed
<1>4. ASSUME NEW r, NEW i \in Standing(r)'
      PROVE  ledger'[i].currency \in LedgerCurrencies(r) \cup
               {c \in {row.currency} : row.request = r /\ row.reverses = 0}
  <2>1. CASE i \in Standing(r)
    BY <1>1, <2>1 DEF LedgerCurrencies, Standing, RowsOf
  <2>2. CASE i = Len(ledger) + 1 /\ row.request = r /\ row.reverses = 0
    BY <1>1, <2>2
  <2>3. QED
    BY <1>3, <2>1, <2>2
<1>5. QED
  BY <1>2, <1>4 DEF LedgerCurrencies

\* The insertions of a payment, a refund, a correction or a deposit.
LEMMA InsertAlone ==
  ASSUME IInv, AloneInv, NEW w \in Work, WorkSound(w), Fits(w), w.entry # None,
         Insert(w.entry), UNCHANGED << requests, price >>
  PROVE  ReversedAtMostOnce' /\ \A r \in requests' : AgreesOn(r)'
<1> DEFINE row == w.entry
<1>1. row \in Entry /\ row.request = w.request
  BY DEF Work, WorkSound
<1>2. /\ ReversedAtMostOnce'
      /\ \A r : LedgerCurrencies(r)' \subseteq LedgerCurrencies(r) \cup
            {c \in {row.currency} : row.request = r /\ row.reverses = 0}
  BY <1>1, InsertFits DEF IInv, AloneInv, Fits
<1>3. row.reverses = 0 => CurrenciesOf(row.request) \subseteq {row.currency}
  BY <1>1 DEF Fits
<1>4. ASSUME NEW r \in requests PROVE AgreesOn(r)'
  <2>1. CurrenciesOf(r)' \subseteq CurrenciesOf(r) \cup
           {c \in {row.currency} : row.request = r /\ row.reverses = 0}
    BY <1>2 DEF CurrenciesOf
  <2>2. AgreesOn(r)
    BY DEF AloneInv
  <2>3. \A x, y \in CurrenciesOf(r)' : x = y
    BY <1>3, <2>1, <2>2 DEF AgreesOn
  <2>4. QED
    BY <2>3 DEF AgreesOn
<1>5. QED
  BY <1>2, <1>4

LEMMA NextAlone == Alone /\ IInv /\ AloneInv /\ [Next]_vars => AloneInv'
<1> SUFFICES ASSUME Alone, IInv, AloneInv, [Next]_vars PROVE AloneInv'
  OBVIOUS
<1> DEFINE Agreed == \A r \in requests : AgreesOn(r)
<1>1. ASSUME NEW e \in Employee, session'[e] = None
      PROVE  \A d \in Employee : session'[d] # None => Fits(session[d])'
  BY <1>1 DEF Alone
<1>2. ASSUME UNCHANGED << requests, price, ledger >>
      PROVE  /\ ReversedAtMostOnce' /\ Agreed'
             /\ \A w : Fits(w) => Fits(w)'
  BY <1>2 DEF AloneInv, ReversedAtMostOnce, AgreesOn, CurrenciesOf, LedgerCurrencies,
     Standing, RowsOf, Reversed, Fits
<1>3. ASSUME NEW r \in Request, CreateRequest(r) PROVE AloneInv'
  <2>1. \A q : LedgerCurrencies(q)' = LedgerCurrencies(q)
    BY <1>3 DEF CreateRequest, LedgerCurrencies, Standing, RowsOf, Reversed
  <2>2. LedgerCurrencies(r) = {} /\ price'[r] = None
    BY <1>3 DEF CreateRequest, LedgerCurrencies, Standing, RowsOf, IInv, TypeOK, NoOrphanedMoney
  <2>3. \A q \in Request : CurrenciesOf(q)' \subseteq CurrenciesOf(q)
    BY <1>3, <2>1, <2>2 DEF CreateRequest, CurrenciesOf, IInv, TypeOK
  <2>4. ReversedAtMostOnce'
    BY <1>3 DEF CreateRequest, AloneInv, ReversedAtMostOnce
  <2>5. Agreed'
    <3> SUFFICES ASSUME NEW q \in requests' PROVE AgreesOn(q)'
      OBVIOUS
    <3>1. q \in Request /\ (q = r \/ q \in requests)
      BY <1>3 DEF CreateRequest, IInv, TypeOK
    <3>2. CurrenciesOf(r)' = {}
      BY <2>1, <2>2 DEF CurrenciesOf
    <3>3. QED
      BY <2>3, <3>1, <3>2 DEF AgreesOn, AloneInv
  <2>6. ASSUME NEW d \in Employee, session'[d] # None PROVE Fits(session[d])'
    <3>1. /\ session' = session /\ session[d] \in Work /\ Fits(session[d])
          /\ session[d].request \in Request
      BY <1>3, <2>6 DEF CreateRequest, AloneInv, IInv, TypeOK, Work
    <3>2. \A i : Reversed(i)' = Reversed(i)
      BY <1>3 DEF CreateRequest, Reversed
    <3>3. QED
      BY <2>1, <2>3, <3>1, <3>2 DEF Fits
  <2>7. QED
    BY <2>4, <2>5, <2>6 DEF AloneInv
<1>4. ASSUME NEW e \in Employee, Handle(e) PROVE AloneInv'
  <2>1. PICK w : Begin(e, w) /\ Fits(w)
    BY <1>4, BuiltFits
  <2>2. UNCHANGED << requests, price, ledger >> /\ session'[e] = w
    BY <2>1 DEF Begin, IInv, TypeOK
  <2>3. \A d \in Employee : session'[d] # None => Fits(session[d])'
    BY <1>2, <2>1, <2>2 DEF Alone
  <2>4. QED
    BY <1>2, <2>2, <2>3 DEF AloneInv
<1>5. ASSUME NEW e \in Employee, CommitPrice(e) PROVE AloneInv'
  <2> DEFINE w == session[e]
  <2>1. /\ w \in Work /\ Fits(w) /\ w.op = "price" /\ w.request \in Request
        /\ UNCHANGED << requests, ledger >> /\ session'[e] = None
        /\ price' = IF w.price = None THEN price ELSE [price EXCEPT ![w.request] = w.price]
    BY <1>5 DEF CommitPrice, Committing, Finish, AloneInv, IInv, TypeOK, Work
  <2>2. ReversedAtMostOnce' /\ \A r : LedgerCurrencies(r)' = LedgerCurrencies(r)
    BY <2>1 DEF AloneInv, ReversedAtMostOnce, LedgerCurrencies, Standing, RowsOf, Reversed
  <2>3. ASSUME NEW r \in requests PROVE AgreesOn(r)'
    <3>1. CASE price'[r] = price[r]
      BY <2>2, <3>1 DEF AgreesOn, CurrenciesOf, AloneInv
    <3>2. CASE w.price # None /\ r = w.request
      <4>1. CurrenciesOf(r)' \subseteq {w.price}
        BY <2>1, <2>2, <3>2 DEF CurrenciesOf, Fits, IInv, TypeOK
      <4>2. QED
        BY <4>1 DEF AgreesOn
    <3>3. QED
      BY <2>1, <3>1, <3>2 DEF IInv, TypeOK
  <2>4. QED
    BY <1>1, <2>1, <2>2, <2>3 DEF AloneInv
<1>6. ASSUME NEW e \in Employee, CommitEntry(e) \/ CommitStage(e) PROVE AloneInv'
  <2> DEFINE w == session[e]
  <2>1. /\ w \in Work /\ Fits(w) /\ WorkSound(w) /\ session'[e] = None
        /\ UNCHANGED << requests, price >>
    BY <1>6 DEF CommitEntry, CommitStage, Committing, Finish, AloneInv, IInv, TypeOK,
       SessionsSound
  <2>2. CASE UNCHANGED ledger
    BY <1>1, <1>2, <2>1, <2>2 DEF AloneInv
  <2>3. CASE w.entry # None /\ Insert(w.entry)
    <3>1. ReversedAtMostOnce' /\ Agreed'
      BY <2>1, <2>3, InsertAlone
    <3>2. QED
      BY <1>1, <2>1, <3>1 DEF AloneInv
  <2>4. QED
    BY <1>6, <2>1, <2>2, <2>3 DEF CommitEntry, CommitStage, Committing, WorkSound
<1>7. ASSUME NEW e \in Employee, CommitDelete(e) PROVE AloneInv'
  <2>1. /\ requests' \subseteq requests /\ UNCHANGED << price, ledger >>
        /\ session'[e] = None
    BY <1>7 DEF CommitDelete, Committing, Finish, IInv, TypeOK
  <2>2. ReversedAtMostOnce' /\ Agreed'
    BY <2>1 DEF AloneInv, ReversedAtMostOnce, AgreesOn, CurrenciesOf, LedgerCurrencies,
       Standing, RowsOf, Reversed
  <2>3. QED
    BY <1>1, <2>1, <2>2 DEF AloneInv
<1>8. ASSUME NEW e \in Employee, Rollback(e) PROVE AloneInv'
  <2>1. session'[e] = None /\ UNCHANGED << requests, price, ledger >>
    BY <1>8 DEF Rollback, Finish, IInv, TypeOK
  <2>2. QED
    BY <1>1, <1>2, <2>1 DEF AloneInv
<1>9. CASE UNCHANGED vars
  BY <1>2, <1>9 DEF vars, AloneInv
<1>10. QED
  BY <1>3, <1>4, <1>5, <1>6, <1>7, <1>8, <1>9 DEF Next, Commit

LEMMA InitAlone == Init => AloneInv
<1> SUFFICES ASSUME Init PROVE AloneInv
  OBVIOUS
<1>1. ReversedAtMostOnce
  BY DEF Init, ReversedAtMostOnce
<1>2. QED
  BY <1>1 DEF Init, AloneInv

LEMMA InvarianceAlone == ASSUME Alone PROVE Spec => []AloneInv
<1>1. IInv /\ AloneInv /\ [Next]_vars => AloneInv'
  BY NextAlone
<1>2. QED
  BY <1>1, InitAlone, Invariance, PTL DEF Spec

\* One employee never cancels a row twice, whatever the length of the ledger
\* and the number of requests; two employees at once do.
THEOREM AloneReversesOnce == ASSUME Alone PROVE Spec => []ReversedAtMostOnce
<1>1. AloneInv => ReversedAtMostOnce
  BY DEF AloneInv
<1>2. QED
  BY <1>1, InvarianceAlone, PTL

\* One employee never mixes currencies on a request: what stands in its ledger
\* and its agreed price are in one; two employees at once mix them.
THEOREM AloneKeepsOneCurrency == ASSUME Alone PROVE Spec => []OneCurrency
<1>1. AloneInv => OneCurrency
  <2> SUFFICES ASSUME AloneInv, NEW r \in requests
               PROVE  Cardinality(CurrenciesOf(r)) <= 1
    BY DEF OneCurrency, CurrenciesOf
  <2>1. \A x, y \in CurrenciesOf(r) : x = y
    BY DEF AloneInv, AgreesOn
  <2>2. CASE CurrenciesOf(r) = {}
    BY <2>2, FS_EmptySet
  <2>3. CASE CurrenciesOf(r) # {}
    <3>1. PICK x : CurrenciesOf(r) = {x}
      BY <2>1, <2>3
    <3>2. Cardinality({x}) = 1
      BY FS_Singleton
    <3>3. QED
      BY <3>1, <3>2
  <2>4. QED
    BY <2>2, <2>3
<1>2. QED
  BY <1>1, InvarianceAlone, PTL

-----------------------------------------------------------------------------
(* Refunds.  A sum of amounts counts the pairs of a row and one of its     *)
(* units, so what a new row adds is what the pairs of that row count.      *)

Units(l, i) == {i} \X (1 .. l[i].amount)

Pairs(l, rows) == UNION {Units(l, i) : i \in rows}

LEMMA UnitsCount ==
  ASSUME NEW l \in Seq(Entry), NEW i \in DOMAIN l
  PROVE  /\ IsFiniteSet(Units(l, i))
         /\ Cardinality(Units(l, i)) = l[i].amount
         /\ l[i].amount \in Nat
<1>1. l[i].amount \in Nat
  <2>1. l[i] \in Entry
    OBVIOUS
  <2>. QED BY <2>1, AmountAssumption DEF Entry
<1>2. IsFiniteSet(1 .. l[i].amount) /\ Cardinality(1 .. l[i].amount) = l[i].amount
  <2>1. \A a \in Nat : IsFiniteSet(1 .. a) /\ Cardinality(1 .. a) = a
    <3>. SUFFICES ASSUME NEW a \in Nat
                  PROVE  IsFiniteSet(1 .. a) /\ Cardinality(1 .. a) = a
      OBVIOUS
    <3>1. IsFiniteSet(1 .. a) /\ Cardinality(1 .. a) = IF 1 > a THEN 0 ELSE a - 1 + 1
      BY FS_Interval
    <3>. QED BY <3>1
  <2>. QED BY <1>1, <2>1
<1>3. IsFiniteSet({i}) /\ Cardinality({i}) = 1
  BY FS_Singleton
<1>4. /\ IsFiniteSet(Units(l, i))
      /\ Cardinality(Units(l, i)) = Cardinality({i}) * Cardinality(1 .. l[i].amount)
  BY ZenonT(40), <1>2, <1>3, FS_Product DEF Units
<1>. QED BY <1>1, <1>2, <1>3, <1>4

LEMMA PairsCount ==
  ASSUME NEW l \in Seq(Entry), NEW rows \in SUBSET DOMAIN l
  PROVE  IsFiniteSet(Pairs(l, rows)) /\ Cardinality(Pairs(l, rows)) \in Nat
<1>. DEFINE f == [i \in rows |-> Units(l, i)]
            units == {Units(l, i) : i \in rows}
<1>1. IsFiniteSet(rows)
  <2>1. IsFiniteSet(DOMAIN l)
    <3>1. DOMAIN l = 1 .. Len(l) /\ Len(l) \in Nat
      OBVIOUS
    <3>. QED BY <3>1, FS_Interval
  <2>. QED BY <2>1, FS_Subset
<1>2. IsFiniteSet(units)
  <2>1. f \in Surjection(rows, units)
    BY DEF Surjection
  <2>. HIDE DEF f, units
  <2>. QED BY <1>1, <2>1, FS_Surjection
<1>3. \A u \in units : IsFiniteSet(u)
  BY UnitsCount
<1>4. IsFiniteSet(UNION units)
  <2>. HIDE DEF units
  <2>. QED BY <1>2, <1>3, FS_UNION
<1>. QED BY <1>4, FS_CardinalityType DEF Pairs

\* One more row adds at most its amount.
LEMMA PairsGrow ==
  ASSUME NEW l \in Seq(Entry), NEW m \in Seq(Entry), NEW n \in DOMAIN m,
         NEW rows \in SUBSET DOMAIN l, NEW more \in SUBSET DOMAIN m,
         more \subseteq rows \cup {n}, \A i \in rows : m[i] = l[i]
  PROVE  Cardinality(Pairs(m, more)) <= Cardinality(Pairs(l, rows)) + m[n].amount
<1>1. Pairs(m, more) \subseteq Pairs(l, rows) \cup Units(m, n)
  BY DEF Pairs, Units
<1>2. /\ IsFiniteSet(Pairs(l, rows)) /\ Cardinality(Pairs(l, rows)) \in Nat
      /\ IsFiniteSet(Units(m, n)) /\ Cardinality(Units(m, n)) = m[n].amount
      /\ m[n].amount \in Nat
  BY PairsCount, UnitsCount
<1>. DEFINE A == Pairs(l, rows)  B == Units(m, n)  C == Pairs(m, more)
<1>3. IsFiniteSet(A \cup B) /\ Cardinality(A \cup B) = Cardinality(A) + Cardinality(B)
                                                         - Cardinality(A \cap B)
  <2>. HIDE DEF A, B
  <2>. QED BY <1>2, FS_Union DEF A, B
<1>4. Cardinality(A \cap B) \in Nat
  <2>1. IsFiniteSet(A \cap B)
    <3>. HIDE DEF A, B
    <3>1. (A \cap B) \in SUBSET A
      OBVIOUS
    <3>2. IsFiniteSet(A)
      BY <1>2 DEF A
    <3>. QED BY <3>1, <3>2, FS_Subset
  <2>. QED BY <2>1, FS_CardinalityType
<1>5. Cardinality(C) <= Cardinality(A \cup B) /\ Cardinality(C) \in Nat
  <2>1. C \in SUBSET (A \cup B)
    BY <1>1
  <2>2. IsFiniteSet(C)
    BY PairsCount
  <2>. HIDE DEF A, B, C
  <2>. QED BY <1>3, <2>1, <2>2, FS_Subset, FS_CardinalityType
<1>. HIDE DEF A, B, C
<1>6. Cardinality(A) \in Nat /\ Cardinality(B) = m[n].amount /\ m[n].amount \in Nat
  BY <1>2 DEF A, B
<1>7. Cardinality(C) <= Cardinality(A) + m[n].amount
  BY <1>3, <1>4, <1>5, <1>6
<1>. QED BY <1>7 DEF A, C

LEMMA TotalsAreNat ==
  ASSUME TypeOK, NEW r
  PROVE  /\ Total(Refunds(r)) \in Nat
         /\ RefundablePaid(r) \in Nat
<1>1. \A rows \in SUBSET DOMAIN ledger : Total(rows) \in Nat
  BY PairsCount DEF TypeOK, Total, Pairs, Units
<1>2. /\ Refunds(r) \in SUBSET DOMAIN ledger
      /\ {i \in Payments(r) : ~ledger[i].nonRefundable} \in SUBSET DOMAIN ledger
  BY DEF Refunds, Payments, Standing, RowsOf
<1>. QED BY <1>1, <1>2 DEF RefundablePaid

\* The money a refund about to be written gives back is still there.
Covers(w) ==
  w.entry # None /\ w.entry.reverses = 0 /\ w.entry.type = "refund" =>
    Total(Refunds(w.request)) + w.entry.amount <= RefundablePaid(w.request)

CoverInv == \A e \in Employee : session[e] # None => Covers(session[e])

LEMMA BuiltCovers ==
  ASSUME IInv, NEW e \in Employee, Handle(e)
  PROVE  \E w : Begin(e, w) /\ Covers(w)
<1>1. ASSUME NEW r, NEW a, NEW c, NEW n, NEW d
      PROVE  /\ Covers(EntryWork(r, Original(r, "payment", a, c, n, d)))
             /\ Covers(StageWork(r, "deposit_paid", Original(r, "payment", a, c, n, d)))
  BY DEF Covers, EntryWork, StageWork, Original
<1>2. \A r, s, c : /\ Covers(PriceWork(r, c)) /\ Covers(StageWork(r, s, None))
                   /\ Covers(DeleteWork(r))
  BY DEF Covers, PriceWork, StageWork, DeleteWork
<1>3. ASSUME NEW r \in Request, NEW a \in Amount, NEW c \in Currency,
             RecordRefund(e, r, a, c)
      PROVE  \E w : Begin(e, w) /\ Covers(w)
  <2>. DEFINE row == Original(r, "refund", a, c, FALSE, FALSE)
  <2>1. Total(Refunds(r)) + a <= RefundablePaid(r)
    BY <1>3, TotalsAreNat, AmountAssumption DEF IInv, RecordRefund, RemainingRefundable
  <2>2. row.amount = a
    BY DEF Original
  <2>. HIDE DEF row
  <2>3. Covers(EntryWork(r, row))
    BY <2>1, <2>2 DEF Covers, EntryWork
  <2>. QED BY <1>3, <2>3 DEF RecordRefund, row
<1>4. ASSUME NEW i \in DOMAIN ledger, ReverseEntry(e, i)
      PROVE  \E w : Begin(e, w) /\ Covers(w)
  <2>. DEFINE row == MirrorOf(i)
  <2>1. row.reverses # 0
    BY DEF MirrorOf, IInv, TypeOK
  <2>. HIDE DEF row
  <2>2. Covers(EntryWork(ledger[i].request, row))
    BY <2>1 DEF Covers, EntryWork
  <2>. QED BY <1>4, <2>2 DEF ReverseEntry, row
<1>. QED
  BY <1>1, <1>2, <1>3, <1>4
     DEF Handle, SetAgreedPrice, RecordPayment, MoveStage, PayDeposit,
         ConfirmDeposit, DeleteRequest

LEMMA NextCovers == Alone /\ IInv /\ CoverInv /\ [Next]_vars => CoverInv'
<1>. SUFFICES ASSUME Alone, IInv, CoverInv, [Next]_vars PROVE CoverInv'
  OBVIOUS
<1>1. ASSUME UNCHANGED ledger, NEW w, Covers(w) PROVE Covers(w)'
  BY <1>1 DEF Covers, Total, Refunds, RefundablePaid, Payments, Standing, RowsOf, Reversed
<1>2. CASE UNCHANGED << ledger, session >>
  BY <1>1, <1>2 DEF CoverInv
<1>3. ASSUME NEW e \in Employee, session'[e] = None PROVE CoverInv'
  BY <1>3 DEF Alone, CoverInv
<1>4. ASSUME NEW e \in Employee, Handle(e) PROVE CoverInv'
  <2>1. PICK w : Begin(e, w) /\ Covers(w)
    BY <1>4, BuiltCovers
  <2>2. UNCHANGED ledger /\ session'[e] = w
    BY <2>1 DEF Begin, IInv, TypeOK
  <2>. QED BY <1>1, <2>1, <2>2 DEF Alone, CoverInv
<1>5. ASSUME NEW e \in Employee, Commit(e) \/ Rollback(e) PROVE CoverInv'
  <2>1. session'[e] = None
    BY <1>5 DEF Commit, CommitPrice, CommitEntry, CommitStage, CommitDelete, Rollback,
       Committing, Finish, IInv, TypeOK
  <2>. QED BY <1>3, <2>1
<1>. QED BY <1>2, <1>4, <1>5 DEF Next, CreateRequest, vars

\* A row that is appended and gives money back was covered when it was checked,
\* and nobody else was there since.
LEMMA RefundIsCovered ==
  ASSUME IInv, CoverInv, [Next]_vars, NEW r \in Request, RefundRecorded(r)
  PROVE  RefundsWithinReceipts(r)'
<1>0. ledger' # ledger
  BY DEF RefundRecorded, IInv, TypeOK
<1>1. PICK e \in Employee : CommitEntry(e) \/ CommitStage(e)
  <2>1. \A e \in Employee : Handle(e) => ledger' = ledger
    BY BuiltCovers DEF Begin
  <2>. QED
    BY <1>0, <2>1
       DEF Next, CreateRequest, Commit, Rollback, CommitPrice, CommitDelete, vars
<1>. DEFINE w == session[e]  row == w.entry  n == Len(ledger) + 1
<1>2. w \in Work /\ WorkSound(w) /\ Covers(w) /\ row # None /\ Insert(row)
  <2>1. w # None
    BY <1>1 DEF CommitEntry, CommitStage, Committing
  <2>2. w \in Work /\ WorkSound(w) /\ Covers(w)
    BY <2>1 DEF IInv, TypeOK, SessionsSound, CoverInv
  <2>3. CASE CommitEntry(e)
    BY <2>2, <2>3 DEF CommitEntry, Committing, WorkSound
  <2>4. CASE CommitStage(e)
    BY <1>0, <2>2, <2>4 DEF CommitStage
  <2>. QED BY <1>1, <2>2, <2>3, <2>4
<1>3. row \in Entry /\ row.request = w.request
  BY <1>2 DEF Work, WorkSound
<1>4. /\ DOMAIN ledger' = DOMAIN ledger \cup {n} /\ n \notin DOMAIN ledger
      /\ ledger' \in Seq(Entry) /\ ledger'[n] = row /\ Len(ledger') = n
      /\ \A i \in DOMAIN ledger : ledger'[i] = ledger[i]
      /\ \A i \in DOMAIN ledger : i # 0
  BY <1>2, <1>3, Appended DEF Insert, IInv, TypeOK
<1>. HIDE DEF n
<1>5. row.request = r /\ row.type = "refund" /\ row.reverses = 0
  BY <1>4 DEF RefundRecorded
<1>6. Total(Refunds(r)) + row.amount <= RefundablePaid(r)
  BY <1>2, <1>3, <1>5 DEF Covers
<1>7. \A i \in DOMAIN ledger : Reversed(i)' = Reversed(i)
  BY <1>4, <1>5 DEF Reversed
<1>8. Refunds(r)' \subseteq Refunds(r) \cup {n} /\ Refunds(r)' \subseteq DOMAIN ledger'
  BY <1>4, <1>7 DEF Refunds, Standing, RowsOf
<1>9. Total(Refunds(r))' <= Total(Refunds(r)) + row.amount
  <2>1. Refunds(r) \subseteq DOMAIN ledger /\ ledger \in Seq(Entry)
    BY DEF Refunds, Standing, RowsOf, IInv, TypeOK
  <2>2. Cardinality(Pairs(ledger', Refunds(r)'))
          <= Cardinality(Pairs(ledger, Refunds(r))) + ledger'[n].amount
    BY <1>4, <1>8, <2>1, PairsGrow
  <2>. QED BY <1>4, <2>2 DEF Total, Pairs, Units
<1>10. RefundablePaid(r)' = RefundablePaid(r)
  <2>. DEFINE paid == {i \in Payments(r) : ~ledger[i].nonRefundable}
  <2>1. paid' = paid
    BY <1>4, <1>5, <1>7 DEF Payments, Standing, RowsOf
  <2>2. \A i \in paid : ledger'[i] = ledger[i]
    BY <1>4 DEF Payments, Standing, RowsOf
  <2>. HIDE DEF paid
  <2>3. Total(paid)' = Total(paid)
    BY <2>1, <2>2 DEF Total
  <2>. QED BY <2>3 DEF RefundablePaid, paid
<1>11. Total(Refunds(r)) \in Nat /\ RefundablePaid(r) \in Nat /\ row.amount \in Nat
  BY <1>3, TotalsAreNat, AmountAssumption DEF IInv, Entry
<1>12. Total(Refunds(r))' \in Nat
  BY <1>4, <1>8, PairsCount DEF Total, Pairs, Units
<1>. QED BY <1>6, <1>9, <1>10, <1>11, <1>12 DEF RefundsWithinReceipts

\* One employee never records a refund that takes its request over the
\* refundable money that stands: the ceiling is read, compared and acted on in
\* three steps, and only another employee can come in between.  With two of
\* them, or by reversing a payment that was refunded, the code goes over it.
THEOREM AloneRefundsWithinReceipts == ASSUME Alone PROVE Spec => RefundStaysWithinReceipts
<1>1. Init => CoverInv
  BY DEF Init, CoverInv
<1>2. IInv /\ CoverInv /\ [Next]_vars => CoverInv'
  BY NextCovers
<1>3. IInv /\ CoverInv /\ [Next]_vars =>
        [\A r \in Request : RefundRecorded(r) => RefundsWithinReceipts(r)']_vars
  BY RefundIsCovered
<1>. QED BY <1>1, <1>2, <1>3, Invariance, PTL DEF Spec, RefundStaysWithinReceipts
=============================================================================
