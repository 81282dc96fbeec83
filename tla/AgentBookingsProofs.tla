------------------------- MODULE AgentBookingsProofs -------------------------
(***************************************************************************)
(* For any number of CRM workers, conversations, travelers, trips and      *)
(* confirmations: the types of AgentBookings, what a customer was told,    *)
(* and what a request that met no other one writes.                        *)
(***************************************************************************)
EXTENDS AgentBookings, FiniteSetTheorems, TLAPS

-----------------------------------------------------------------------------
(* What a request knows at each of its steps.                              *)

\* The booking of row b is of traveler u and trip t.
IsOf(b, u, t) == b \in Row /\ b.traveler = u /\ b.trip = t

JobOK(j, bk) ==
  /\ j.at # "idle" => j.request \in Request
  /\ j.at = "newLead" => j.lead \in Id
  /\ j.at \in {"write", "readBack"} => j.id \in Id
  /\ j.at = "readBack" =>
       IsOf(bk[j.id], TravelerOf[j.request.session], j.request.trip)

JobsOK == \A w \in Worker : JobOK(job[w], booking)

\* A row is of the traveler of its conversation.
RowOK(b) == b \in Row => b.traveler = TravelerOf[b.session]

RowsOK == \A i \in Id : RowOK(booking[i])

TypeInv == TypeOK /\ RowsOK /\ JobsOK

\* Rows stay, but for their status.
Same(b, c) == /\ c \in Row
              /\ c.traveler = b.traveler /\ c.trip = b.trip
              /\ c.session = b.session

Grows == \A i \in Id : booking[i] \in Row => Same(booking[i], booking'[i])

-----------------------------------------------------------------------------
(* The frame of a step: what a worker becomes, and the others.             *)

LEMMA IdleIsJob ==
  ASSUME NEW bk
  PROVE  Idle \in Job /\ JobOK(Idle, bk)
BY DEF Idle, Job, JobOK

LEMMA WrittenRows ==
  ASSUME TypeOK, NEW i \in Id
  PROVE  booking[i] # None <=> booking[i] \in Row
BY RowAssumption DEF TypeOK

LEMMA JobGrows ==
  ASSUME TypeInv, Grows, NEW j \in Job, JobOK(j, booking)
  PROVE  JobOK(j, booking')
<1>1. j.at # "idle" => TravelerOf[j.request.session] \in Traveler
  BY TravelerAssumption DEF JobOK, Request
<1>2. j.at = "readBack" =>
        IsOf(booking'[j.id], TravelerOf[j.request.session], j.request.trip)
  BY <1>1 DEF JobOK, Grows, IsOf, Same
<1>. QED BY <1>2 DEF JobOK

LEMMA StepKeeps ==
  ASSUME TypeInv, Grows, NEW w \in Worker, NEW next \in Job, Step(w, next),
         JobOK(next, booking')
  PROVE  job' \in [Worker -> Job] /\ JobsOK'
<1>1. job' \in [Worker -> Job]
  BY DEF Step, TypeInv, TypeOK
<1>2. ASSUME NEW v \in Worker PROVE JobOK(job'[v], booking')
  <2>1. CASE v = w
    BY <2>1 DEF Step
  <2>2. CASE v # w
    <3>1. job'[v] = job[v] /\ job[v] \in Job
      BY <2>2 DEF Step, TypeInv, TypeOK
    <3>. QED BY <3>1, JobGrows DEF TypeInv, JobsOK
  <2>. QED BY <2>1, <2>2
<1>. QED BY <1>1, <1>2 DEF JobsOK

LEMMA RowsStay ==
  ASSUME RowsOK, TypeOK, Grows, \A i \in Id : booking'[i] \in Row => booking[i] \in Row
  PROVE  RowsOK'
BY DEF RowsOK, RowOK, Grows, Same

\* A step of a worker that leaves the tables alone.
LEMMA QuietKeeps ==
  ASSUME TypeInv, UNCHANGED tables, NEW w \in Worker, NEW next \in Job, Step(w, next),
         JobOK(next, booking), conv' \in [Session -> Conversation],
         sent' \subseteq Request
  PROVE  TypeInv'
<1>1. Grows
  BY DEF tables, Grows, Same
<1>2. job' \in [Worker -> Job] /\ JobsOK'
  BY <1>1, StepKeeps DEF tables
<1>3. RowsOK'
  BY DEF TypeInv, tables, RowsOK, RowOK
<1>. QED BY <1>2, <1>3 DEF TypeInv, TypeOK, tables

LEMMA AnswerEffect ==
  ASSUME TypeInv, NEW w \in Worker, job[w].at # "idle", NEW id \in Id \cup {None},
         Answer(w, id)
  PROVE  Step(w, Idle) /\ conv' \in [Session -> Conversation]
<1>1. Step(w, Idle)
  BY DEF Answer, Step, TypeInv, TypeOK
<1>2. job[w].request.session \in Session
  BY DEF TypeInv, JobsOK, JobOK, Request
<1>. DEFINE c == conv[job[w].request.session]
            d == [c EXCEPT !.at = IF Succeeds(id) THEN "completed" ELSE "asked", !.told = id]
<1>3. d \in Conversation
  <2>1. c \in Conversation
    BY <1>2 DEF TypeInv, TypeOK
  <2>. QED BY <2>1 DEF Conversation
<1>4. conv' = conv \/ conv' = [conv EXCEPT ![job[w].request.session] = d]
  BY DEF Answer
<1>. HIDE DEF d
<1>. QED BY <1>1, <1>2, <1>3, <1>4 DEF TypeInv, TypeOK

LEMMA AnswerKeeps ==
  ASSUME TypeInv, UNCHANGED << tables, sent >>, NEW w \in Worker, job[w].at # "idle",
         NEW id \in Id \cup {None}, Answer(w, id)
  PROVE  TypeInv'
BY AnswerEffect, IdleIsJob, QuietKeeps DEF TypeInv, TypeOK

LEMMA RefuseKeeps ==
  ASSUME TypeInv, UNCHANGED << tables, sent >>, NEW w \in Worker, job[w].at # "idle",
         Refuse(w)
  PROVE  TypeInv'
<1>1. CASE Fail(w)
  BY <1>1, AnswerKeeps DEF Fail
<1>2. CASE ~Fail(w)
  <2>. DEFINE next == [job[w] EXCEPT !.at = "lead", !.again = TRUE]
  <2>1. job[w] \in Job /\ JobOK(job[w], booking)
    BY DEF TypeInv, TypeOK, JobsOK
  <2>2. next \in Job
    BY <2>1 DEF Job
  <2>3. JobOK(next, booking)
    BY <2>1 DEF Job, JobOK
  <2>4. Step(w, next) /\ UNCHANGED conv
    BY <1>2 DEF Refuse
  <2>. HIDE DEF next
  <2>. QED BY <2>2, <2>3, <2>4, QuietKeeps DEF TypeInv, TypeOK
<1>. QED BY <1>1, <1>2

-----------------------------------------------------------------------------
(* One lemma per action.                                                   *)

LEMMA Working ==
  ASSUME TypeInv, NEW w \in Worker
  PROVE  /\ job[w] \in Job /\ JobOK(job[w], booking)
         /\ job[w].at # "idle" => /\ job[w].request \in Request
                                  /\ UserOf(w) \in Traveler /\ TripOf(w) \in Trip
BY TravelerAssumption DEF TypeInv, TypeOK, JobsOK, JobOK, Request, UserOf, TripOf

LEMMA ConfirmKeeps ==
  ASSUME TypeInv, NEW s \in Session, NEW t \in Trip, Confirm(s, t)
  PROVE  TypeInv'
<1>. DEFINE next == Confirmed(s, t)
            req == [session |-> s, trip |-> t, try |-> next.try]
<1>1. conv[s] \in Conversation
  BY DEF TypeInv, TypeOK
<1>2. next \in Conversation /\ req \in Request
  <2>1. conv[s].try + 1 \in Nat
    BY <1>1 DEF Conversation
  <2>2. next \in Conversation
    BY <1>1, <2>1 DEF Conversation, Confirmed
  <2>. QED BY <2>2 DEF Conversation, Request
<1>3. ASSUME NEW c \in Conversation
      PROVE  /\ \A i \in Id : [c EXCEPT !.at = "completed", !.told = i] \in Conversation
             /\ [c EXCEPT !.at = "sent"] \in Conversation
  BY DEF Conversation
<1>5. \/ conv' = [conv EXCEPT ![s] = next] /\ UNCHANGED sent
      \/ /\ \E i \in Id : conv' = [conv EXCEPT ![s] = [next EXCEPT !.at = "completed",
                                                                 !.told = i]]
         /\ UNCHANGED sent
      \/ conv' = [conv EXCEPT ![s] = [next EXCEPT !.at = "sent"]] /\ sent' = sent \cup {req}
  BY DEF Confirm, Known, On, Written
<1>. HIDE DEF next, req
<1>6. conv' \in [Session -> Conversation] /\ sent' \subseteq Request
  BY <1>2, <1>3, <1>5 DEF TypeInv, TypeOK
<1>7. UNCHANGED << tables, job >>
  BY DEF Confirm
<1>. QED BY <1>6, <1>7 DEF TypeInv, TypeOK, RowsOK, RowOK, JobsOK, tables

LEMMA ConversationKeeps ==
  ASSUME TypeInv, NEW s \in Session, GiveUp(s) \/ NewBooking(s)
  PROVE  TypeInv'
<1>1. /\ [conv[s] EXCEPT !.at = "asked"] \in Conversation
      /\ [[conv[s] EXCEPT !.at = "asked"] EXCEPT !.told = None] \in Conversation
  <2>1. conv[s] \in Conversation
    BY DEF TypeInv, TypeOK
  <2>. QED BY <2>1 DEF Conversation
<1>2. \/ conv' = [conv EXCEPT ![s] = [conv[s] EXCEPT !.at = "asked"]]
      \/ conv' = [conv EXCEPT ![s] = [[conv[s] EXCEPT !.at = "asked"] EXCEPT !.told = None]]
  BY DEF GiveUp, NewBooking, TypeInv, TypeOK
<1>3. conv' \in [Session -> Conversation]
  BY <1>1, <1>2 DEF TypeInv, TypeOK
<1>4. UNCHANGED << tables, sent, job >>
  BY DEF GiveUp, NewBooking
<1>. QED BY <1>3, <1>4 DEF TypeInv, TypeOK, RowsOK, RowOK, JobsOK, tables

LEMMA TakeKeeps ==
  ASSUME TypeInv, NEW w \in Worker, NEW r, Take(w, r)
  PROVE  TypeInv'
<1>. DEFINE alone == \A x \in Worker : job[x].at = "idle"
            next == [Idle EXCEPT !.at = "validate", !.request = r, !.quiet = TRUE,
                                 !.alone = alone]
<1>1. next \in Job /\ JobOK(next, booking)
  <2>1. r \in Request
    BY DEF Take, TypeInv, TypeOK
  <2>. QED BY <2>1 DEF Job, Idle, JobOK
<1>2. \A v \in Worker : /\ [job[v] EXCEPT !.alone = FALSE] \in Job
                        /\ JobOK([job[v] EXCEPT !.alone = FALSE], booking)
  <2>. SUFFICES ASSUME NEW v \in Worker
               PROVE  /\ [job[v] EXCEPT !.alone = FALSE] \in Job
                      /\ JobOK([job[v] EXCEPT !.alone = FALSE], booking)
    OBVIOUS
  <2>1. job[v] \in Job /\ JobOK(job[v], booking)
    BY Working
  <2>. QED BY <2>1 DEF Job, JobOK
<1>3. job' = [v \in Worker |-> IF v = w THEN next ELSE [job[v] EXCEPT !.alone = FALSE]]
  BY DEF Take
<1>. HIDE DEF next
<1>4. job' \in [Worker -> Job] /\ \A v \in Worker : JobOK(job'[v], booking)
  BY <1>1, <1>2, <1>3
<1>5. UNCHANGED << tables, conv >> /\ sent' \subseteq sent
  BY DEF Take
<1>. QED BY <1>4, <1>5 DEF TypeInv, TypeOK, RowsOK, RowOK, JobsOK, tables

LEMMA ValidateKeeps ==
  ASSUME TypeInv, NEW w \in Worker, Validate(w)
  PROVE  TypeInv'
<1>1. UNCHANGED << tables, sent >> /\ job[w].at # "idle"
  BY DEF Validate
<1>2. CASE Fail(w)
  BY <1>1, <1>2, AnswerKeeps DEF Fail
<1>3. CASE \E i \in Known(UserOf(w), TripOf(w)) : Duplicate(w, i)
  BY <1>1, <1>3, AnswerKeeps DEF Duplicate, Known, On, Written
<1>4. CASE Step(w, [job[w] EXCEPT !.at = "lead"]) /\ UNCHANGED conv
  <2>. DEFINE next == [job[w] EXCEPT !.at = "lead"]
  <2>1. next \in Job /\ JobOK(next, booking)
    <3>1. job[w] \in Job /\ JobOK(job[w], booking) /\ job[w].request \in Request
      BY <1>1, Working
    <3>. QED BY <3>1 DEF Job, JobOK
  <2>. HIDE DEF next
  <2>. QED BY <1>1, <1>4, <2>1, QuietKeeps DEF TypeInv, TypeOK, next
<1>. QED BY <1>2, <1>3, <1>4 DEF Validate

\* The step of a request that finds a lead or inserts one.
Onward(w, at, i) ==
  /\ at \in {"check", "newLead"} /\ i \in Id \cup {None}
  /\ at = "newLead" => i \in Id
  /\ Step(w, [job[w] EXCEPT !.at = at, !.lead = i])

LEMMA LeadSteps ==
  ASSUME NEW w \in Worker, job[w] \in Job,
         FindLead(w) \/ (InsertLead(w) /\ ~Fail(w))
  PROVE  \E at, i : Onward(w, at, i)
<1>1. CASE Step(w, [job[w] EXCEPT !.at = "check"])
  <2>1. /\ [job[w] EXCEPT !.at = "check"]
             = [job[w] EXCEPT !.at = "check", !.lead = job[w].lead]
        /\ job[w].lead \in Id \cup {None}
    BY DEF Job
  <2>2. Onward(w, "check", job[w].lead)
    BY <1>1, <2>1 DEF Onward
  <2>. QED BY <2>2
<1>2. CASE /\ NextId(Leads) \in Id
           /\ Step(w, [job[w] EXCEPT !.at = "newLead", !.lead = NextId(Leads)])
  <2>1. Onward(w, "newLead", NextId(Leads))
    BY <1>2 DEF Onward
  <2>. QED BY <2>1
<1>3. CASE Step(w, [job[w] EXCEPT !.at = "check", !.lead = None])
  <2>1. Onward(w, "check", None)
    BY <1>3 DEF Onward
  <2>. QED BY <2>1
<1>. QED BY <1>1, <1>2, <1>3 DEF FindLead, InsertLead

LEMMA FindLeadKeeps ==
  ASSUME TypeInv, NEW w \in Worker, FindLead(w)
  PROVE  TypeInv'
<1>1. UNCHANGED << tables, conv, sent >> /\ job[w].at = "lead"
  BY DEF FindLead
<1>2. job[w] \in Job /\ job[w].request \in Request
  BY <1>1, Working
<1>3. PICK at, i : Onward(w, at, i)
  BY <1>2, LeadSteps
<1>. DEFINE next == [job[w] EXCEPT !.at = at, !.lead = i]
<1>4. /\ next \in Job /\ next.at = at /\ next.lead = i
      /\ next.request = job[w].request /\ Step(w, next)
  BY <1>2, <1>3 DEF Onward, Job
<1>5. JobOK(next, booking)
  BY <1>2, <1>3, <1>4 DEF JobOK, Onward
<1>. HIDE DEF next
<1>. QED BY <1>1, <1>4, <1>5, QuietKeeps DEF TypeInv, TypeOK

LEMMA InsertLeadKeeps ==
  ASSUME TypeInv, NEW w \in Worker, InsertLead(w)
  PROVE  TypeInv'
<1>1. job[w].at = "newLead" /\ UNCHANGED << sales, held, booking, sent >>
  BY DEF InsertLead
<1>2. /\ job[w] \in Job /\ JobOK(job[w], booking)
      /\ job[w].request \in Request /\ UserOf(w) \in Traveler
  BY <1>1, Working
<1>3. CASE Fail(w) /\ UNCHANGED lead
  BY <1>1, <1>3, AnswerKeeps DEF Fail, tables
<1>4. CASE ~(Fail(w) /\ UNCHANGED lead)
  <2>. DEFINE l == job[w].lead
              row == [traveler |-> UserOf(w), session |-> job[w].request.session]
              next == [job[w] EXCEPT !.at = "check", !.lead = None]
  <2>1. /\ lead' = [lead EXCEPT ![l] = row]
        /\ Step(w, next) /\ UNCHANGED conv
    BY <1>4 DEF InsertLead
  <2>2. row \in Lead
    BY <1>2 DEF Lead, Request
  <2>3. lead' \in [Id -> Lead \cup {None}]
    BY <2>1, <2>2 DEF TypeInv, TypeOK
  <2>4. Grows
    BY <1>1 DEF Grows, Same
  <2>5. next \in Job /\ JobOK(next, booking')
    BY <1>1, <1>2 DEF Job, JobOK
  <2>. HIDE DEF next
  <2>6. job' \in [Worker -> Job] /\ JobsOK'
    BY <2>1, <2>4, <2>5, StepKeeps
  <2>7. RowsOK'
    BY <1>1 DEF TypeInv, RowsOK, RowOK
  <2>. QED BY <1>1, <2>1, <2>3, <2>6, <2>7 DEF TypeInv, TypeOK
<1>. QED BY <1>3, <1>4

LEMMA ExistingIsOf ==
  ASSUME TypeInv, NEW w \in Worker, job[w].at # "idle", NEW i \in Existing(w)
  PROVE  i \in Id /\ IsOf(booking[i], UserOf(w), TripOf(w))
<1>1. CASE i \in Keyed(job[w].request.session, TripOf(w))
  <2>1. /\ i \in Id /\ booking[i] \in Row
        /\ booking[i].session = job[w].request.session /\ booking[i].trip = TripOf(w)
    BY <1>1, WrittenRows DEF Keyed, Written, TypeInv
  <2>2. booking[i].traveler = UserOf(w)
    BY <2>1 DEF TypeInv, RowsOK, RowOK, UserOf
  <2>. QED BY <2>1, <2>2 DEF IsOf
<1>2. CASE i \in On(UserOf(w), TripOf(w), BridgeStatus)
  BY <1>2, WrittenRows DEF On, Written, IsOf, TypeInv
<1>. QED BY <1>1, <1>2 DEF Existing

LEMMA CheckKeeps ==
  ASSUME TypeInv, NEW w \in Worker, Check(w)
  PROVE  TypeInv'
<1>1. job[w].at = "check" /\ UNCHANGED << tables, sent >>
  BY DEF Check
<1>2. /\ job[w] \in Job /\ JobOK(job[w], booking)
      /\ job[w].request \in Request /\ TripOf(w) \in Trip
  BY <1>1, Working
<1>3. CASE Refuse(w)
  BY <1>1, <1>3, RefuseKeeps
<1>4. CASE \E i \in Existing(w) :
             /\ Step(w, [job[w] EXCEPT !.at = "readBack", !.id = i])
             /\ UNCHANGED conv
  <2>1. PICK i \in Existing(w) : /\ Step(w, [job[w] EXCEPT !.at = "readBack", !.id = i])
                                 /\ UNCHANGED conv
    BY <1>4
  <2>. DEFINE next == [job[w] EXCEPT !.at = "readBack", !.id = i]
  <2>2. i \in Id /\ IsOf(booking[i], TravelerOf[job[w].request.session],
                         job[w].request.trip)
    BY <1>1, ExistingIsOf DEF UserOf, TripOf
  <2>3. next \in Job /\ JobOK(next, booking)
    BY <1>1, <1>2, <2>2 DEF Job, JobOK
  <2>. HIDE DEF next
  <2>. QED BY <1>1, <2>1, <2>3, QuietKeeps DEF TypeInv, TypeOK, next
<1>5. CASE /\ Step(w, [job[w] EXCEPT !.at = "allocate", !.holds = held[TripOf(w)]])
           /\ UNCHANGED conv
  <2>. DEFINE next == [job[w] EXCEPT !.at = "allocate", !.holds = held[TripOf(w)]]
  <2>1. next \in Job /\ JobOK(next, booking)
    BY <1>1, <1>2 DEF Job, JobOK, TypeInv, TypeOK
  <2>. HIDE DEF next
  <2>. QED BY <1>1, <1>5, <2>1, QuietKeeps DEF TypeInv, TypeOK, next
<1>. QED BY <1>3, <1>4, <1>5 DEF Check

LEMMA AllocateKeeps ==
  ASSUME TypeInv, NEW w \in Worker, Allocate(w)
  PROVE  TypeInv'
<1>1. /\ job[w].at = "allocate" /\ UNCHANGED << tables, conv, sent >>
      /\ NextId(Written) \in Id
      /\ Step(w, [job[w] EXCEPT !.at = "write", !.id = NextId(Written)])
  BY DEF Allocate
<1>2. job[w] \in Job /\ JobOK(job[w], booking)
  BY Working
<1>. DEFINE next == [job[w] EXCEPT !.at = "write", !.id = NextId(Written)]
<1>3. next \in Job /\ JobOK(next, booking)
  BY <1>1, <1>2 DEF Job, JobOK
<1>. HIDE DEF next
<1>. QED BY <1>1, <1>3, QuietKeeps DEF TypeInv, TypeOK, next

LEMMA DraftIsRow ==
  ASSUME TypeInv, NEW w \in Worker, job[w].at = "write"
  PROVE  /\ Draft(w) \in Row /\ Draft(w) # None
         /\ IsOf(Draft(w), UserOf(w), TripOf(w))
         /\ RowOK(Draft(w))
         /\ job[w].id \in Id
<1>1. /\ JobOK(job[w], booking) /\ job[w].request \in Request
      /\ UserOf(w) \in Traveler /\ TripOf(w) \in Trip
  BY Working
<1>2. Draft(w) \in Row
  BY <1>1 DEF Draft, Row, Request, Status
<1>. QED BY <1>1, <1>2, RowAssumption DEF Draft, IsOf, RowOK, JobOK, UserOf

\* Either the draft is written, or nothing is.
LEMMA CommitEffect ==
  ASSUME TypeInv, NEW w \in Worker, Commit(w)
  PROVE  \/ Fail(w) /\ UNCHANGED << tables, sent >>
         \/ /\ booking[job[w].id] = None
            /\ booking' = [booking EXCEPT ![job[w].id] = Draft(w)]
            /\ held' = [held EXCEPT ![TripOf(w)] = HoldsAfter(w)]
            /\ Step(w, [job[w] EXCEPT !.at = "readBack"])
            /\ UNCHANGED << sales, lead, sent, conv >>
BY DEF Commit, tables

LEMMA CommitKeeps ==
  ASSUME TypeInv, NEW w \in Worker, Commit(w)
  PROVE  TypeInv'
<1>1. job[w].at = "write"
  BY DEF Commit
<1>2. /\ job[w] \in Job /\ JobOK(job[w], booking) /\ TripOf(w) \in Trip
  BY <1>1, Working
<1>3. CASE Fail(w) /\ UNCHANGED << tables, sent >>
  BY <1>1, <1>3, AnswerKeeps DEF Fail
<1>4. CASE ~(Fail(w) /\ UNCHANGED << tables, sent >>)
  <2>. DEFINE i == job[w].id
              next == [job[w] EXCEPT !.at = "readBack"]
  <2>1. /\ booking[i] = None /\ booking' = [booking EXCEPT ![i] = Draft(w)]
        /\ held' = [held EXCEPT ![TripOf(w)] = HoldsAfter(w)]
        /\ Step(w, next) /\ UNCHANGED << sales, lead, sent, conv >>
    BY <1>4, CommitEffect
  <2>2. i \in Id /\ Draft(w) \in Row /\ IsOf(Draft(w), UserOf(w), TripOf(w))
        /\ RowOK(Draft(w))
    BY <1>1, DraftIsRow
  <2>3. /\ booking' \in [Id -> Row \cup {None}] /\ booking'[i] = Draft(w)
        /\ \A k \in Id : k # i => booking'[k] = booking[k]
    BY <2>1, <2>2 DEF TypeInv, TypeOK
  <2>4. held' \in [Trip -> Nat]
    BY <1>2, <2>1 DEF TypeInv, TypeOK, HoldsAfter, Job
  <2>5. Grows
    BY <2>1, <2>3, RowAssumption DEF Grows, Same
  <2>6. next \in Job /\ JobOK(next, booking')
    BY <1>1, <1>2, <2>1, <2>2, <2>3 DEF Job, JobOK, UserOf, TripOf
  <2>. HIDE DEF next
  <2>7. job' \in [Worker -> Job] /\ JobsOK'
    BY <2>1, <2>5, <2>6, StepKeeps
  <2>8. RowsOK'
    BY <2>1, <2>2, <2>3 DEF TypeInv, RowsOK, RowOK
  <2>. QED BY <2>1, <2>3, <2>4, <2>7, <2>8 DEF TypeInv, TypeOK
<1>. QED BY <1>3, <1>4

LEMMA ReadBackKeeps ==
  ASSUME TypeInv, NEW w \in Worker, ReadBack(w)
  PROVE  TypeInv'
<1>1. job[w].at = "readBack" /\ UNCHANGED << tables, sent >>
  BY DEF ReadBack
<1>2. job[w].id \in Id
  BY <1>1, Working DEF JobOK
<1>. QED BY <1>1, <1>2, AnswerKeeps, RefuseKeeps DEF ReadBack

LEMMA NoticedKeeps ==
  ASSUME TypeInv, Grows, Noticed
  PROVE  job' \in [Worker -> Job] /\ JobsOK'
<1>1. \A v \in Worker : /\ [job[v] EXCEPT !.quiet = FALSE] \in Job
                        /\ JobOK([job[v] EXCEPT !.quiet = FALSE], booking')
  <2>. SUFFICES ASSUME NEW v \in Worker
               PROVE  /\ [job[v] EXCEPT !.quiet = FALSE] \in Job
                      /\ JobOK([job[v] EXCEPT !.quiet = FALSE], booking')
    OBVIOUS
  <2>1. job[v] \in Job /\ JobOK(job[v], booking')
    BY Working, JobGrows
  <2>. QED BY <2>1 DEF Job, JobOK
<1>. QED BY <1>1 DEF Noticed, JobsOK

LEMMA SetStatusEffect ==
  ASSUME TypeInv, NEW i, NEW status \in Correction, SetStatus(i, status)
  PROVE  /\ i \in Id /\ booking[i] \in Row
         /\ booking' \in [Id -> Row \cup {None}]
         /\ Same(booking[i], booking'[i]) /\ booking'[i].status = status
         /\ \A k \in Id : k # i => booking'[k] = booking[k]
         /\ Noticed /\ UNCHANGED << sales, held, lead, conv, sent >>
<1>1. i \in Id /\ booking[i] \in Row
  BY WrittenRows DEF SetStatus, Written, TypeInv
<1>. DEFINE b == [booking[i] EXCEPT !.status = status]
<1>2. b \in Row /\ Same(booking[i], b) /\ b.status = status
  BY <1>1, BoundAssumption DEF Row, Status, Same
<1>3. /\ booking' = [booking EXCEPT ![i] = b]
      /\ Noticed /\ UNCHANGED << sales, held, lead, conv, sent >>
  BY DEF SetStatus
<1>. HIDE DEF b
<1>. QED BY <1>1, <1>2, <1>3 DEF TypeInv, TypeOK

LEMMA SetStatusKeeps ==
  ASSUME TypeInv, NEW i, NEW status \in Correction, SetStatus(i, status)
  PROVE  TypeInv'
<1>1. /\ booking' \in [Id -> Row \cup {None}] /\ booking[i] \in Row /\ i \in Id
      /\ Noticed /\ UNCHANGED << sales, held, lead, conv, sent >>
  BY SetStatusEffect
<1>2. Grows
  BY SetStatusEffect DEF Grows, Same
<1>3. RowsOK'
  <2>1. \A k \in Id : booking'[k] \in Row => booking[k] \in Row
    BY SetStatusEffect
  <2>. QED BY <1>2, <2>1, RowsStay DEF TypeInv
<1>4. job' \in [Worker -> Job] /\ JobsOK'
  BY <1>1, <1>2, NoticedKeeps
<1>. QED BY <1>1, <1>3, <1>4 DEF TypeInv, TypeOK

LEMMA SetSalesKeeps ==
  ASSUME TypeInv, NEW t \in Trip, NEW status \in Sales, SetSales(t, status)
  PROVE  TypeInv'
<1>1. /\ sales' = [sales EXCEPT ![t] = status] /\ Noticed
      /\ UNCHANGED << held, booking, lead, conv, sent >>
  BY DEF SetSales
<1>2. Grows
  BY <1>1 DEF Grows, Same
<1>3. job' \in [Worker -> Job] /\ JobsOK'
  BY <1>1, <1>2, NoticedKeeps
<1>. QED BY <1>1, <1>3 DEF TypeInv, TypeOK, RowsOK, RowOK

LEMMA AdvanceKeeps ==
  ASSUME TypeInv, NEW w \in Worker, Advance(w)
  PROVE  TypeInv'
BY ValidateKeeps, FindLeadKeeps, InsertLeadKeeps, CheckKeeps, AllocateKeeps, CommitKeeps,
   ReadBackKeeps DEF Advance

LEMMA NextKeepsTypes == TypeInv /\ [Next]_vars => TypeInv'
<1>. SUFFICES ASSUME TypeInv, [Next]_vars PROVE TypeInv'
  OBVIOUS
<1>1. ASSUME NEW s \in Session, NEW t \in Trip, Confirm(s, t) PROVE TypeInv'
  BY <1>1, ConfirmKeeps
<1>2. ASSUME NEW s \in Session, GiveUp(s) \/ NewBooking(s) PROVE TypeInv'
  BY <1>2, ConversationKeeps
<1>3. ASSUME NEW w \in Worker, NEW r \in sent, Take(w, r) PROVE TypeInv'
  BY <1>3, TakeKeeps
<1>4. ASSUME NEW w \in Worker, Advance(w) PROVE TypeInv'
  BY <1>4, AdvanceKeeps
<1>5. ASSUME NEW i \in Id, NEW st \in Correction, SetStatus(i, st) PROVE TypeInv'
  BY <1>5, SetStatusKeeps
<1>6. ASSUME NEW t \in Trip, NEW st \in Sales, SetSales(t, st) PROVE TypeInv'
  BY <1>6, SetSalesKeeps
<1>7. CASE UNCHANGED vars
  BY <1>7 DEF vars, TypeInv, TypeOK, RowsOK, RowOK, JobsOK
<1>. QED BY <1>1, <1>2, <1>3, <1>4, <1>5, <1>6, <1>7 DEF Next

LEMMA InitIsTyped == Init => TypeInv
<1>. SUFFICES ASSUME Init PROVE TypeInv
  OBVIOUS
<1>1. TypeOK
  <2>1. conv \in [Session -> Conversation]
    BY DEF Init, Conversation
  <2>2. \A bk : Idle \in Job /\ JobOK(Idle, bk)
    BY IdleIsJob
  <2>. QED BY <2>1, <2>2, IntakeAssumption DEF Init, TypeOK, Sales
<1>2. RowsOK
  BY RowAssumption DEF Init, RowsOK, RowOK
<1>3. JobsOK
  BY IdleIsJob DEF Init, JobsOK
<1>. QED BY <1>1, <1>2, <1>3 DEF TypeInv

\* The types of the tables, the conversations and the requests.
THEOREM TypeCorrect == Spec => []TypeOK
<1>1. TypeInv => TypeOK
  BY DEF TypeInv
<1>. QED BY <1>1, InitIsTyped, NextKeepsTypes, PTL DEF Spec

-----------------------------------------------------------------------------
(* What a worker does with its request: it goes on, or it answers.         *)

\* The request goes on with the same request and the same history.
GoesOn(w) ==
  \E next \in Job : /\ Step(w, next)
                    /\ next.at # "idle" /\ next.request = job[w].request
                    /\ next.alone = job[w].alone /\ next.quiet = job[w].quiet

\* The answer is a refusal, or a booking of the traveler on the trip.
Answers(w) ==
  \E id \in Id \cup {None} :
     /\ Answer(w, id)
     /\ id # None => IsOf(booking[id], UserOf(w), TripOf(w))

LEMMA FailAnswers ==
  ASSUME NEW w, Fail(w)
  PROVE  Answers(w)
BY DEF Fail, Answers

LEMMA RefuseEffect ==
  ASSUME TypeInv, NEW w \in Worker, job[w].at # "idle", Refuse(w)
  PROVE  (GoesOn(w) /\ UNCHANGED conv) \/ Answers(w)
<1>1. CASE Fail(w)
  BY <1>1, FailAnswers
<1>2. CASE ~Fail(w)
  <2>1. Step(w, [job[w] EXCEPT !.at = "lead", !.again = TRUE]) /\ UNCHANGED conv
    BY <1>2 DEF Refuse
  <2>. DEFINE next == [job[w] EXCEPT !.at = "lead", !.again = TRUE]
  <2>2. job[w] \in Job
    BY Working
  <2>3. /\ next \in Job /\ next.at # "idle" /\ next.request = job[w].request
        /\ next.alone = job[w].alone /\ next.quiet = job[w].quiet
    BY <2>2 DEF Job
  <2>. QED BY <2>1, <2>3 DEF GoesOn
<1>. QED BY <1>1, <1>2

LEMMA ValidateEffect ==
  ASSUME TypeInv, NEW w \in Worker, Validate(w)
  PROVE  (GoesOn(w) /\ UNCHANGED conv) \/ Answers(w)
<1>1. job[w].at = "validate" /\ job[w] \in Job
  BY Working DEF Validate
<1>2. CASE \E i \in Known(UserOf(w), TripOf(w)) : Duplicate(w, i)
  <2>1. PICK i \in Known(UserOf(w), TripOf(w)) : Answer(w, i)
    BY <1>2 DEF Duplicate
  <2>2. i \in Id /\ IsOf(booking[i], UserOf(w), TripOf(w))
    BY WrittenRows DEF Known, On, Written, IsOf, TypeInv
  <2>. QED BY <2>1, <2>2 DEF Answers
<1>3. CASE Step(w, [job[w] EXCEPT !.at = "lead"]) /\ UNCHANGED conv
  <2>. DEFINE next == [job[w] EXCEPT !.at = "lead"]
  <2>1. /\ next \in Job /\ next.at # "idle" /\ next.request = job[w].request
        /\ next.alone = job[w].alone /\ next.quiet = job[w].quiet
    BY <1>1 DEF Job
  <2>. QED BY <1>3, <2>1 DEF GoesOn
<1>. QED BY <1>2, <1>3, FailAnswers DEF Validate

LEMMA LeadEffect ==
  ASSUME TypeInv, NEW w \in Worker, FindLead(w) \/ (InsertLead(w) /\ ~Fail(w))
  PROVE  GoesOn(w)
<1>1. job[w] \in Job
  BY Working DEF FindLead, InsertLead
<1>2. PICK at, i : Onward(w, at, i)
  BY <1>1, LeadSteps
<1>. DEFINE next == [job[w] EXCEPT !.at = at, !.lead = i]
<1>3. /\ next \in Job /\ next.at # "idle" /\ next.request = job[w].request
      /\ next.alone = job[w].alone /\ next.quiet = job[w].quiet /\ Step(w, next)
  BY <1>1, <1>2 DEF Onward, Job
<1>. QED BY <1>3 DEF GoesOn

LEMMA FindLeadEffect ==
  ASSUME TypeInv, NEW w \in Worker, FindLead(w)
  PROVE  GoesOn(w)
BY LeadEffect

LEMMA InsertLeadEffect ==
  ASSUME TypeInv, NEW w \in Worker, InsertLead(w)
  PROVE  (GoesOn(w) /\ UNCHANGED conv) \/ Answers(w)
<1>1. ~Fail(w) => UNCHANGED conv
  BY DEF InsertLead
<1>. QED BY <1>1, LeadEffect, FailAnswers

LEMMA CheckEffect ==
  ASSUME TypeInv, NEW w \in Worker, Check(w)
  PROVE  (GoesOn(w) /\ UNCHANGED conv) \/ Answers(w)
<1>1. job[w].at = "check" /\ job[w] \in Job /\ held[TripOf(w)] \in Nat
  BY Working DEF Check, TypeInv, TypeOK
<1>2. CASE Refuse(w)
  BY <1>1, <1>2, RefuseEffect
<1>3. CASE \E i \in Existing(w) :
             /\ Step(w, [job[w] EXCEPT !.at = "readBack", !.id = i])
             /\ UNCHANGED conv
  <2>1. PICK i \in Existing(w) : /\ Step(w, [job[w] EXCEPT !.at = "readBack", !.id = i])
                                 /\ UNCHANGED conv
    BY <1>3
  <2>. DEFINE next == [job[w] EXCEPT !.at = "readBack", !.id = i]
  <2>2. i \in Id
    BY <1>1, ExistingIsOf
  <2>3. /\ next \in Job /\ next.at # "idle" /\ next.request = job[w].request
        /\ next.alone = job[w].alone /\ next.quiet = job[w].quiet
    BY <1>1, <2>2 DEF Job
  <2>. QED BY <2>1, <2>3 DEF GoesOn
<1>4. CASE /\ Step(w, [job[w] EXCEPT !.at = "allocate", !.holds = held[TripOf(w)]])
           /\ UNCHANGED conv
  <2>. DEFINE next == [job[w] EXCEPT !.at = "allocate", !.holds = held[TripOf(w)]]
  <2>1. /\ next \in Job /\ next.at # "idle" /\ next.request = job[w].request
        /\ next.alone = job[w].alone /\ next.quiet = job[w].quiet
    BY <1>1 DEF Job
  <2>. QED BY <1>4, <2>1 DEF GoesOn
<1>. QED BY <1>2, <1>3, <1>4 DEF Check

LEMMA AllocateEffect ==
  ASSUME TypeInv, NEW w \in Worker, Allocate(w)
  PROVE  GoesOn(w)
<1>1. job[w] \in Job /\ NextId(Written) \in Id
  BY Working DEF Allocate
<1>. DEFINE next == [job[w] EXCEPT !.at = "write", !.id = NextId(Written)]
<1>2. /\ next \in Job /\ next.at # "idle" /\ next.request = job[w].request
      /\ next.alone = job[w].alone /\ next.quiet = job[w].quiet
  BY <1>1 DEF Job
<1>. QED BY <1>2 DEF Allocate, GoesOn

LEMMA CommitGoesOn ==
  ASSUME TypeInv, NEW w \in Worker, Step(w, [job[w] EXCEPT !.at = "readBack"])
  PROVE  GoesOn(w)
<1>1. job[w] \in Job
  BY Working
<1>. DEFINE next == [job[w] EXCEPT !.at = "readBack"]
<1>2. /\ next \in Job /\ next.at # "idle" /\ next.request = job[w].request
      /\ next.alone = job[w].alone /\ next.quiet = job[w].quiet
  BY <1>1 DEF Job
<1>. QED BY <1>2 DEF GoesOn

LEMMA ReadBackEffect ==
  ASSUME TypeInv, NEW w \in Worker, ReadBack(w)
  PROVE  (GoesOn(w) /\ UNCHANGED conv) \/ Answers(w)
<1>1. job[w].at = "readBack"
  BY DEF ReadBack
<1>2. job[w].id \in Id /\ IsOf(booking[job[w].id], UserOf(w), TripOf(w))
  BY <1>1, Working DEF JobOK, UserOf, TripOf
<1>3. Answer(w, job[w].id) => Answers(w)
  BY <1>2 DEF Answers
<1>. QED BY <1>1, <1>3, RefuseEffect DEF ReadBack

LEMMA AdvanceEffect ==
  ASSUME TypeInv, NEW w \in Worker, Advance(w)
  PROVE  /\ job[w].at # "idle" /\ UNCHANGED sent
         /\ (GoesOn(w) /\ UNCHANGED conv) \/ Answers(w)
<1>1. job[w].at # "idle" /\ UNCHANGED sent
  BY DEF Advance, Validate, FindLead, InsertLead, Check, Allocate, Commit, ReadBack
<1>2. FindLead(w) \/ Allocate(w) => UNCHANGED conv
  BY DEF FindLead, Allocate
<1>3. Commit(w) => (GoesOn(w) /\ UNCHANGED conv) \/ Answers(w)
  BY CommitEffect, CommitGoesOn, FailAnswers
<1>. QED BY <1>1, <1>2, <1>3, ValidateEffect, FindLeadEffect, InsertLeadEffect,
            CheckEffect, AllocateEffect, ReadBackEffect DEF Advance

LEMMA NextGrows ==
  ASSUME TypeInv, [Next]_vars
  PROVE  Grows
<1>1. UNCHANGED booking => Grows
  BY DEF Grows, Same
<1>3. ASSUME NEW w \in Worker, Commit(w) PROVE Grows
  <2>1. job[w].id \in Id
    BY <1>3, Working DEF Commit, JobOK
  <2>2. \A i \in Id : booking[i] \in Row => booking'[i] = booking[i]
    BY <1>3, <2>1, RowAssumption DEF Commit, TypeInv, TypeOK
  <2>. QED BY <2>2 DEF Grows, Same
<1>4. ASSUME NEW i \in Id, NEW st \in Correction, SetStatus(i, st) PROVE Grows
  BY <1>4, SetStatusEffect DEF Grows, Same
<1>5. ASSUME NEW w \in Worker, Advance(w) PROVE Grows
  <2>1. (\/ Validate(w) \/ FindLead(w) \/ InsertLead(w)
         \/ Check(w) \/ Allocate(w) \/ ReadBack(w)) => UNCHANGED booking
    BY DEF Validate, FindLead, InsertLead, Check, Allocate, ReadBack, tables
  <2>. QED BY <1>1, <1>3, <1>5, <2>1 DEF Advance
<1>6. ASSUME NEW s \in Session, \/ \E t \in Trip : Confirm(s, t)
                               \/ GiveUp(s) \/ NewBooking(s)
      PROVE  UNCHANGED booking
  BY <1>6 DEF Confirm, GiveUp, NewBooking, tables
<1>7. ASSUME NEW w, NEW r, Take(w, r) PROVE UNCHANGED booking
  BY <1>7 DEF Take, tables
<1>8. ASSUME NEW t, NEW st, SetSales(t, st) PROVE UNCHANGED booking
  BY <1>8 DEF SetSales
<1>9. UNCHANGED vars => UNCHANGED booking
  BY DEF vars
<1>. QED BY <1>1, <1>4, <1>5, <1>6, <1>7, <1>8, <1>9 DEF Next

-----------------------------------------------------------------------------
(* What a customer was told.                                               *)

\* A request is of the current confirmation, or of one that was given up.
InFlight(r) == /\ r.try <= conv[r.session].try
               /\ r.try = conv[r.session].try => r.trip = conv[r.session].trip

PendingOK == /\ \A r \in sent : InFlight(r)
             /\ \A w \in Worker : job[w].at # "idle" => InFlight(job[w].request)

UntoldOK == \A s \in Session : conv[s].at # "completed" => conv[s].told = None

ToldInv == TypeInv /\ PendingOK /\ UntoldOK /\ ToldOfOwnBooking

\* What a customer was told stays true of rows that only grow.
LEMMA ToldStays ==
  ASSUME ToldInv, Grows, TypeOK', NEW s \in Session, conv'[s].told = conv[s].told,
         conv'[s].trip = conv[s].trip, conv'[s].told # None
  PROVE  /\ booking'[conv'[s].told] # None
         /\ booking'[conv'[s].told].traveler = TravelerOf[s]
         /\ booking'[conv'[s].told].trip = conv'[s].trip
<1>1. conv[s].told \in Id
  BY DEF ToldInv, TypeInv, TypeOK, Conversation
<1>2. booking[conv[s].told] \in Row
  BY <1>1, WrittenRows DEF ToldInv, TypeInv, ToldOfOwnBooking
<1>3. Same(booking[conv[s].told], booking'[conv[s].told])
  BY <1>1, <1>2 DEF Grows
<1>. QED BY <1>2, <1>3, RowAssumption DEF Same, ToldInv, ToldOfOwnBooking

LEMMA ConversationStays ==
  ASSUME ToldInv, Grows, TypeInv', UNCHANGED conv,
         \A r \in sent' : r \in sent,
         \A w \in Worker : job'[w].at # "idle" =>
            \/ job'[w].request \in sent
            \/ job[w].at # "idle" /\ job'[w].request = job[w].request
  PROVE  ToldInv'
<1>1. ToldOfOwnBooking'
  BY ToldStays DEF ToldOfOwnBooking, TypeInv
<1>2. PendingOK'
  BY DEF ToldInv, PendingOK, InFlight
<1>. QED BY <1>1, <1>2 DEF ToldInv, UntoldOK

LEMMA AnswerTells ==
  ASSUME ToldInv, TypeInv', Grows, NEW w \in Worker, job[w].at # "idle", Answers(w),
         UNCHANGED sent
  PROVE  ToldInv'
<1>. DEFINE r == job[w].request
            s == r.session
<1>1. PICK id \in Id \cup {None} :
         Answer(w, id) /\ (id # None => IsOf(booking[id], UserOf(w), TripOf(w)))
  BY DEF Answers
<1>2. r \in Request /\ s \in Session /\ InFlight(r) /\ conv[s] \in Conversation
  BY Working DEF ToldInv, TypeInv, TypeOK, PendingOK, Request
<1>3. job' = [job EXCEPT ![w] = Idle]
  BY <1>1 DEF Answer
<1>4. \A v \in Worker : job'[v].at # "idle" =>
         job[v].at # "idle" /\ job'[v].request = job[v].request
  BY <1>3 DEF Idle, ToldInv, TypeInv, TypeOK
<1>5. CASE ~Waits(r)
  <2>1. UNCHANGED conv
    BY <1>1, <1>5 DEF Answer
  <2>. QED BY <1>4, <2>1, ConversationStays
<1>6. CASE Waits(r)
  <2>1. /\ conv'[s].try = conv[s].try /\ conv'[s].trip = conv[s].trip
        /\ conv'[s].told = id
        /\ conv'[s].at = IF Succeeds(id) THEN "completed" ELSE "asked"
        /\ \A x \in Session : x # s => conv'[x] = conv[x]
    BY <1>1, <1>2, <1>6 DEF Answer, Conversation, ToldInv, TypeInv, TypeOK
  <2>2. UntoldOK'
    BY <2>1 DEF UntoldOK, ToldInv, Succeeds
  <2>3. PendingOK'
    <3>1. ASSUME NEW x \in Request, InFlight(x) PROVE InFlight(x)'
      BY <2>1, <3>1 DEF InFlight, Request
    <3>2. \A x \in sent' : x \in sent /\ x \in Request
      BY DEF ToldInv, TypeInv, TypeOK
    <3>3. \A v \in Worker : job[v].at # "idle" => job[v].request \in Request
      BY Working DEF ToldInv
    <3>. QED BY <1>4, <3>1, <3>2, <3>3 DEF PendingOK, ToldInv, InFlight
  <2>4. ToldOfOwnBooking'
    <3>. SUFFICES ASSUME NEW x \in Session, conv'[x].told # None
                 PROVE  /\ booking'[conv'[x].told] # None
                        /\ booking'[conv'[x].told].traveler = TravelerOf[x]
                        /\ booking'[conv'[x].told].trip = conv'[x].trip
      BY DEF ToldOfOwnBooking
    <3>1. CASE x # s
      BY <2>1, <3>1, ToldStays DEF TypeInv
    <3>2. CASE x = s
      <4>1. id \in Id /\ IsOf(booking[id], UserOf(w), TripOf(w))
        BY <1>1, <2>1, <3>2
      <4>2. Same(booking[id], booking'[id])
        BY <4>1 DEF IsOf, Grows
      <4>3. r.trip = conv[s].trip
        BY <1>2, <1>6 DEF Waits, InFlight
      <4>. QED BY <2>1, <3>2, <4>1, <4>2, <4>3, RowAssumption
               DEF Same, IsOf, UserOf, TripOf
    <3>. QED BY <3>1, <3>2
  <2>. QED BY <2>2, <2>3, <2>4 DEF ToldInv
<1>. QED BY <1>5, <1>6

LEMMA ConfirmTells ==
  ASSUME ToldInv, TypeInv', NEW s \in Session, NEW t \in Trip, Confirm(s, t)
  PROVE  ToldInv'
<1>1. conv[s] \in Conversation /\ conv[s].told = None /\ UNCHANGED << tables, job >>
  BY DEF Confirm, ToldInv, UntoldOK, TypeInv, TypeOK
<1>. DEFINE req == [session |-> s, trip |-> t, try |-> Confirmed(s, t).try]
<1>2. /\ Confirmed(s, t).try = conv[s].try + 1
      /\ Confirmed(s, t).trip = t /\ Confirmed(s, t).told = None
      /\ Confirmed(s, t) \in [at : {"asked", "sent", "completed"}, trip : Trip,
                               told : Id \cup {None}, try : {Confirmed(s, t).try}]
      /\ req.session = s /\ req.trip = t /\ req.try = conv[s].try + 1
  BY <1>1 DEF Conversation, Confirmed
<1>3. \/ conv' = [conv EXCEPT ![s] = Confirmed(s, t)] /\ UNCHANGED sent
      \/ /\ \E i \in Known(TravelerOf[s], t) :
              conv' = [conv EXCEPT ![s] = [Confirmed(s, t) EXCEPT !.at = "completed",
                                                                 !.told = i]]
         /\ UNCHANGED sent
      \/ /\ conv' = [conv EXCEPT ![s] = [Confirmed(s, t) EXCEPT !.at = "sent"]]
         /\ sent' = sent \cup {req}
  BY DEF Confirm
<1>. HIDE DEF req
<1>4. PICK c : /\ conv' = [conv EXCEPT ![s] = c]
               /\ c.try = conv[s].try + 1 /\ c.trip = t
               /\ c.at # "completed" => c.told = None
               /\ c.told # None => c.told \in Known(TravelerOf[s], t)
  <2>1. \A i :
          /\ [Confirmed(s, t) EXCEPT !.at = "completed", !.told = i].try = Confirmed(s, t).try
          /\ [Confirmed(s, t) EXCEPT !.at = "completed", !.told = i].trip = t
          /\ [Confirmed(s, t) EXCEPT !.at = "completed", !.told = i].at = "completed"
          /\ [Confirmed(s, t) EXCEPT !.at = "completed", !.told = i].told = i
    BY <1>2
  <2>2. /\ [Confirmed(s, t) EXCEPT !.at = "sent"].try = Confirmed(s, t).try
        /\ [Confirmed(s, t) EXCEPT !.at = "sent"].trip = t
        /\ [Confirmed(s, t) EXCEPT !.at = "sent"].told = None
    BY <1>2
  <2>. DEFINE Good(c) == /\ conv' = [conv EXCEPT ![s] = c]
                         /\ c.try = conv[s].try + 1 /\ c.trip = t
                         /\ c.at # "completed" => c.told = None
                         /\ c.told # None => c.told \in Known(TravelerOf[s], t)
  <2>3. CASE conv' = [conv EXCEPT ![s] = Confirmed(s, t)]
    <3>1. Good(Confirmed(s, t))
      BY <1>2, <2>3
    <3>. QED BY <3>1
  <2>4. CASE \E i \in Known(TravelerOf[s], t) :
               conv' = [conv EXCEPT ![s] = [Confirmed(s, t) EXCEPT !.at = "completed", !.told = i]]
    <3>1. PICK i \in Known(TravelerOf[s], t) :
            conv' = [conv EXCEPT ![s] = [Confirmed(s, t) EXCEPT !.at = "completed", !.told = i]]
      BY <2>4
    <3>2. Good([Confirmed(s, t) EXCEPT !.at = "completed", !.told = i])
      BY <1>2, <2>1, <3>1
    <3>. QED BY <3>2
  <2>5. CASE conv' = [conv EXCEPT ![s] = [Confirmed(s, t) EXCEPT !.at = "sent"]]
    <3>1. Good([Confirmed(s, t) EXCEPT !.at = "sent"])
      BY <1>2, <2>2, <2>5
    <3>. QED BY <3>1
  <2>. QED BY <1>3, <2>3, <2>4, <2>5
<1>5. s \in DOMAIN conv /\ DOMAIN conv = Session
  BY DEF ToldInv, TypeInv, TypeOK
<1>6. /\ conv'[s].try = conv[s].try + 1 /\ conv'[s].trip = t
      /\ conv'[s].at # "completed" => conv'[s].told = None
      /\ conv'[s].told # None => conv'[s].told \in Known(TravelerOf[s], t)
      /\ \A x \in Session : x # s => conv'[x] = conv[x]
  BY <1>1, <1>4, <1>5
<1>7. \A r \in sent' : \/ r \in sent
                       \/ r.session = s /\ r.trip = t /\ r.try = conv[s].try + 1
  BY <1>2, <1>3
<1>8. PendingOK'
  <2>1. ASSUME NEW r \in Request, InFlight(r) PROVE InFlight(r)'
    BY <1>1, <1>6, <2>1 DEF InFlight, Request, Conversation
  <2>2. \A r \in sent : r \in Request
    BY DEF ToldInv, TypeInv, TypeOK
  <2>3. \A r \in sent' : InFlight(r)'
    <3>1. ASSUME NEW r \in sent', r.session = s, r.trip = t, r.try = conv[s].try + 1
          PROVE  InFlight(r)'
      BY <1>1, <1>6, <3>1 DEF InFlight, Conversation
    <3>. QED BY <1>7, <2>1, <2>2, <3>1 DEF ToldInv, PendingOK
  <2>4. \A v \in Worker : job[v].at # "idle" => job[v].request \in Request
    BY Working DEF ToldInv
  <2>. QED BY <1>1, <2>1, <2>3, <2>4 DEF PendingOK, ToldInv, InFlight
<1>9. UntoldOK'
  BY <1>6 DEF UntoldOK, ToldInv
<1>10. ToldOfOwnBooking'
  <2>1. booking' = booking
    BY <1>1 DEF tables
  <2>. QED BY <1>6, <2>1 DEF ToldInv, ToldOfOwnBooking, Known, On, Written
<1>. QED BY <1>8, <1>9, <1>10 DEF ToldInv

LEMMA GiveUpTells ==
  ASSUME ToldInv, TypeInv', NEW s \in Session, GiveUp(s) \/ NewBooking(s)
  PROVE  ToldInv'
<1>1. conv[s] \in Conversation /\ UNCHANGED << tables, sent, job >>
  BY DEF GiveUp, NewBooking, ToldInv, TypeInv, TypeOK
<1>2. /\ conv'[s].try = conv[s].try /\ conv'[s].trip = conv[s].trip
      /\ conv'[s].told = None
      /\ \A x \in Session : x # s => conv'[x] = conv[x]
  <2>1. CASE GiveUp(s)
    BY <1>1, <2>1 DEF GiveUp, Conversation, ToldInv, TypeInv, TypeOK, UntoldOK
  <2>2. CASE NewBooking(s)
    <3>1. conv' = [conv EXCEPT ![s] = [[conv[s] EXCEPT !.at = "asked"] EXCEPT !.told = None]]
      BY <2>2 DEF NewBooking, ToldInv, TypeInv, TypeOK
    <3>. QED BY <1>1, <3>1 DEF Conversation, ToldInv, TypeInv, TypeOK
  <2>. QED BY <2>1, <2>2
<1>3. PendingOK'
  <2>1. ASSUME NEW r \in Request, InFlight(r) PROVE InFlight(r)'
    BY <1>2, <2>1 DEF InFlight, Request
  <2>2. \A r \in sent : r \in Request
    BY DEF ToldInv, TypeInv, TypeOK
  <2>3. \A v \in Worker : job[v].at # "idle" => job[v].request \in Request
    BY Working DEF ToldInv
  <2>. QED BY <1>1, <2>1, <2>2, <2>3 DEF PendingOK, ToldInv, InFlight
<1>4. UntoldOK' /\ ToldOfOwnBooking'
  BY <1>1, <1>2 DEF UntoldOK, ToldInv, ToldOfOwnBooking, tables
<1>. QED BY <1>3, <1>4 DEF ToldInv

LEMMA NextKeepsTold == ToldInv /\ [Next]_vars => ToldInv'
<1>. SUFFICES ASSUME ToldInv, [Next]_vars PROVE ToldInv'
  OBVIOUS
<1>1. TypeInv' /\ Grows
  BY NextKeepsTypes, NextGrows DEF ToldInv
<1>2. ASSUME NEW s \in Session, NEW t \in Trip, Confirm(s, t) PROVE ToldInv'
  BY <1>1, <1>2, ConfirmTells
<1>3. ASSUME NEW s \in Session, GiveUp(s) \/ NewBooking(s) PROVE ToldInv'
  BY <1>1, <1>3, GiveUpTells
<1>4. ASSUME NEW w \in Worker, NEW r \in sent, Take(w, r) PROVE ToldInv'
  <2>1. UNCHANGED conv /\ sent' \subseteq sent
    BY <1>4 DEF Take
  <2>2. ASSUME NEW v \in Worker, job'[v].at # "idle"
        PROVE  \/ job'[v].request \in sent
               \/ job[v].at # "idle" /\ job'[v].request = job[v].request
    <3>1. CASE v = w
      BY <1>4, <3>1 DEF Take, Idle
    <3>2. CASE v # w
      BY <1>4, <2>2, <3>2, Working DEF Take, Job, ToldInv
    <3>. QED BY <3>1, <3>2
  <2>. QED BY <1>1, <2>1, <2>2, ConversationStays
<1>5. ASSUME NEW w \in Worker, Advance(w) PROVE ToldInv'
  <2>1. CASE GoesOn(w) /\ UNCHANGED conv
    <3>1. UNCHANGED sent /\ job[w].at # "idle"
      BY <1>5, AdvanceEffect DEF ToldInv
    <3>2. \A v \in Worker : job'[v].at # "idle" =>
            job[v].at # "idle" /\ job'[v].request = job[v].request
      BY <2>1, <3>1 DEF GoesOn, Step
    <3>. QED BY <1>1, <2>1, <3>1, <3>2, ConversationStays
  <2>. QED BY <1>1, <1>5, <2>1, AdvanceEffect, AnswerTells DEF ToldInv
<1>6. ASSUME Noticed, UNCHANGED << conv, sent >> PROVE ToldInv'
  <2>1. \A v \in Worker : job'[v].at # "idle" =>
          job[v].at # "idle" /\ job'[v].request = job[v].request
    BY <1>6, Working DEF Noticed, Job, ToldInv
  <2>. QED BY <1>1, <1>6, <2>1, ConversationStays
<1>7. ASSUME NEW i, NEW st, SetStatus(i, st) PROVE ToldInv'
  BY <1>6, <1>7 DEF SetStatus
<1>8. ASSUME NEW t, NEW st, SetSales(t, st) PROVE ToldInv'
  BY <1>6, <1>8 DEF SetSales
<1>9. CASE UNCHANGED vars
  BY <1>1, <1>9, ConversationStays DEF vars
<1>. QED BY <1>2, <1>3, <1>4, <1>5, <1>7, <1>8, <1>9 DEF Next

LEMMA InitIsUntold == Init => ToldInv
<1>. SUFFICES ASSUME Init PROVE ToldInv
  OBVIOUS
<1>1. \A s \in Session : conv[s].told = None
  BY DEF Init
<1>2. PendingOK
  BY DEF Init, PendingOK, Idle
<1>. QED BY <1>1, <1>2, InitIsTyped DEF ToldInv, UntoldOK, ToldOfOwnBooking

\* Answers that come too late, requests that are given up, repeated attempts:
\* nobody is told of a booking that is not on file, of another traveler or of
\* another trip (_execute_booking_draft).
THEOREM ToldOfOwn == Spec => []ToldOfOwnBooking
<1>1. ToldInv => ToldOfOwnBooking
  BY DEF ToldInv
<1>. QED BY <1>1, InitIsUntold, NextKeepsTold, PTL DEF Spec
-----------------------------------------------------------------------------
(* What a request that met no other one writes.                            *)

KeyOf(w) == job[w].request.session

\* While it is alone no other worker is busy; past the capacity test, the trip
\* still holds what was read, and no draft of its key has appeared.
AloneOK(w) ==
  job[w].alone =>
    /\ \A v \in Worker : v # w => job[v].at = "idle"
    /\ job[w].at \in {"allocate", "write"} =>
         /\ Keyed(KeyOf(w), TripOf(w)) = {}
         /\ held[TripOf(w)] = job[w].holds /\ job[w].holds < Capacity[TripOf(w)]

\* Without the staff, the active statuses the bridge does not look for stay
\* ruled out by the validator.
QuietOK(w) ==
  job[w].alone /\ job[w].quiet =>
    /\ job[w].at \notin {"idle", "validate"} => On(UserOf(w), TripOf(w), {"Waiting"}) = {}
    /\ job[w].at \in {"allocate", "write"} => On(UserOf(w), TripOf(w), BridgeStatus) = {}

AloneInv == TypeInv /\ \A w \in Worker : AloneOK(w) /\ QuietOK(w)

\* What a step leaves of a request that is alone.
LEMMA GoesOnAlone ==
  ASSUME TypeInv, NEW w \in Worker, job[w].at # "idle", \A v \in Worker : AloneOK(v),
         NEW next \in Job, Step(w, next), next.alone = job[w].alone,
         AloneOK(w)', QuietOK(w)'
  PROVE  \A v \in Worker : AloneOK(v)' /\ QuietOK(v)'
<1>. SUFFICES ASSUME NEW v \in Worker, v # w PROVE AloneOK(v)' /\ QuietOK(v)'
  OBVIOUS
<1>1. job'[v] = job[v]
  BY DEF Step
<1>2. ~job[v].alone
  BY DEF AloneOK
<1>. QED BY <1>1, <1>2 DEF AloneOK, QuietOK

\* A step that leaves the bookings and the holds alone, other than to the two
\* steps behind the capacity test, keeps what is known.
LEMMA PlainAlone ==
  ASSUME TypeInv, NEW w \in Worker, job[w].at # "idle", \A v \in Worker : AloneOK(v),
         QuietOK(w), UNCHANGED booking,
         NEW next \in Job, Step(w, next), next.request = job[w].request,
         next.alone = job[w].alone, next.quiet = job[w].quiet,
         next.at \notin {"idle", "validate", "allocate", "write"},
         job[w].at # "validate" \/ On(UserOf(w), TripOf(w), {"Waiting"}) = {}
  PROVE  \A v \in Worker : AloneOK(v)' /\ QuietOK(v)'
<1>1. /\ job'[w] = next /\ \A v \in Worker : v # w => job'[v] = job[v]
      /\ UserOf(w)' = UserOf(w) /\ TripOf(w)' = TripOf(w)
  BY DEF Step, UserOf, TripOf
<1>2. On(UserOf(w), TripOf(w), {"Waiting"})' = On(UserOf(w), TripOf(w), {"Waiting"})
  BY <1>1 DEF On, Written
<1>3. AloneOK(w)'
  BY <1>1 DEF AloneOK
<1>4. QuietOK(w)'
  BY <1>1, <1>2 DEF QuietOK
<1>. QED BY <1>3, <1>4, GoesOnAlone

LEMMA AnswersAlone ==
  ASSUME TypeInv, NEW w \in Worker, job[w].at # "idle", \A v \in Worker : AloneOK(v),
         Answers(w)
  PROVE  \A v \in Worker : AloneOK(v)' /\ QuietOK(v)'
<1>1. Step(w, Idle)
  BY AnswerEffect DEF Answers
<1>2. \A v \in Worker : ~job'[v].alone
  BY <1>1 DEF Step, AloneOK, Idle
<1>. QED BY <1>2 DEF AloneOK, QuietOK

LEMMA RefuseAlone ==
  ASSUME TypeInv, NEW w \in Worker, job[w].at \notin {"idle", "validate"},
         \A v \in Worker : AloneOK(v), QuietOK(w), UNCHANGED booking, Refuse(w)
  PROVE  \A v \in Worker : AloneOK(v)' /\ QuietOK(v)'
<1>1. CASE Fail(w)
  BY <1>1, FailAnswers, AnswersAlone
<1>2. CASE ~Fail(w)
  <2>. DEFINE next == [job[w] EXCEPT !.at = "lead", !.again = TRUE]
  <2>1. Step(w, next)
    BY <1>2 DEF Refuse
  <2>2. job[w] \in Job
    BY Working
  <2>3. /\ next \in Job /\ next.at = "lead" /\ next.request = job[w].request
        /\ next.alone = job[w].alone /\ next.quiet = job[w].quiet
    BY <2>2 DEF Job
  <2>. HIDE DEF next
  <2>. QED BY <2>1, <2>3, PlainAlone
<1>. QED BY <1>1, <1>2

LEMMA ValidateAlone ==
  ASSUME AloneInv, NEW w \in Worker, Validate(w)
  PROVE  \A v \in Worker : AloneOK(v)' /\ QuietOK(v)'
<1>1. job[w].at = "validate" /\ UNCHANGED booking /\ job[w] \in Job
  BY Working DEF Validate, tables, AloneInv
<1>2. CASE Answers(w)
  BY <1>1, <1>2, AnswersAlone DEF AloneInv
<1>3. CASE ~Answers(w)
  <2>. DEFINE next == [job[w] EXCEPT !.at = "lead"]
  <2>1. \A i \in Known(UserOf(w), TripOf(w)) :
          i \in Id /\ IsOf(booking[i], UserOf(w), TripOf(w))
    BY WrittenRows DEF Known, On, Written, IsOf, TypeInv, AloneInv
  <2>2. ~Fail(w) /\ ~ \E i \in Known(UserOf(w), TripOf(w)) : Duplicate(w, i)
    BY <1>3, <2>1, FailAnswers DEF Answers, Duplicate
  <2>3. Known(UserOf(w), TripOf(w)) = {} /\ Step(w, next)
    BY <2>2 DEF Validate
  <2>4. On(UserOf(w), TripOf(w), {"Waiting"}) = {}
    BY <2>3 DEF Known, On, ActiveStatus
  <2>5. /\ next \in Job /\ next.at = "lead" /\ next.request = job[w].request
        /\ next.alone = job[w].alone /\ next.quiet = job[w].quiet
    BY <1>1 DEF Job
  <2>. HIDE DEF next
  <2>. QED BY <1>1, <2>3, <2>4, <2>5, PlainAlone DEF AloneInv
<1>. QED BY <1>2, <1>3

LEMMA LeadAlone ==
  ASSUME AloneInv, NEW w \in Worker, FindLead(w) \/ InsertLead(w)
  PROVE  \A v \in Worker : AloneOK(v)' /\ QuietOK(v)'
<1>1. /\ job[w].at \in {"lead", "newLead"} /\ UNCHANGED booking
      /\ job[w] \in Job
  BY Working DEF FindLead, InsertLead, tables, AloneInv
<1>2. CASE Fail(w)
  BY <1>1, <1>2, FailAnswers, AnswersAlone DEF AloneInv
<1>3. CASE ~Fail(w)
  <2>1. PICK at, i : Onward(w, at, i)
    BY <1>1, <1>3, LeadSteps
  <2>. DEFINE next == [job[w] EXCEPT !.at = at, !.lead = i]
  <2>2. /\ next \in Job /\ next.at \in {"check", "newLead"}
        /\ next.request = job[w].request
        /\ next.alone = job[w].alone /\ next.quiet = job[w].quiet
        /\ Step(w, next)
    BY <1>1, <2>1 DEF Onward, Job
  <2>. HIDE DEF next
  <2>. QED BY <1>1, <2>2, PlainAlone DEF AloneInv
<1>. QED BY <1>2, <1>3

LEMMA CheckAlone ==
  ASSUME AloneInv, NEW w \in Worker, Check(w)
  PROVE  \A v \in Worker : AloneOK(v)' /\ QuietOK(v)'
<1>1. /\ job[w].at = "check" /\ UNCHANGED << booking, held >> /\ job[w] \in Job
      /\ held[TripOf(w)] \in Nat
  BY Working DEF Check, tables, AloneInv, TypeInv, TypeOK
<1>2. CASE Refuse(w)
  BY <1>1, <1>2, RefuseAlone DEF AloneInv
<1>3. CASE \E i \in Existing(w) : Step(w, [job[w] EXCEPT !.at = "readBack", !.id = i])
  <2>1. PICK i \in Existing(w) : Step(w, [job[w] EXCEPT !.at = "readBack", !.id = i])
    BY <1>3
  <2>. DEFINE next == [job[w] EXCEPT !.at = "readBack", !.id = i]
  <2>2. i \in Id
    BY <1>1, ExistingIsOf DEF AloneInv
  <2>3. /\ next \in Job /\ next.at = "readBack" /\ next.request = job[w].request
        /\ next.alone = job[w].alone /\ next.quiet = job[w].quiet
    BY <1>1, <2>2 DEF Job
  <2>4. Step(w, next)
    BY <2>1
  <2>. HIDE DEF next
  <2>. QED BY <1>1, <2>3, <2>4, PlainAlone DEF AloneInv
<1>4. CASE /\ Existing(w) = {} /\ RoomLeft(TripOf(w))
           /\ Step(w, [job[w] EXCEPT !.at = "allocate", !.holds = held[TripOf(w)]])
  <2>. DEFINE next == [job[w] EXCEPT !.at = "allocate", !.holds = held[TripOf(w)]]
  <2>1. /\ next \in Job /\ next.at = "allocate" /\ next.request = job[w].request
        /\ next.alone = job[w].alone /\ next.quiet = job[w].quiet
        /\ next.holds = held[TripOf(w)]
    BY <1>1 DEF Job
  <2>2. Step(w, next)
    BY <1>4
  <2>. HIDE DEF next
  <2>3. /\ job'[w] = next /\ \A v \in Worker : v # w => job'[v] = job[v]
        /\ KeyOf(w)' = KeyOf(w) /\ UserOf(w)' = UserOf(w) /\ TripOf(w)' = TripOf(w)
    BY <2>1, <2>2 DEF Step, KeyOf, UserOf, TripOf
  <2>4. /\ Keyed(KeyOf(w), TripOf(w)) = {} /\ held[TripOf(w)] < Capacity[TripOf(w)]
        /\ On(UserOf(w), TripOf(w), BridgeStatus) = {}
    BY <1>4 DEF Existing, RoomLeft, KeyOf
  <2>5. Keyed(KeyOf(w), TripOf(w))' = Keyed(KeyOf(w), TripOf(w))
    BY <1>1, <2>3 DEF Keyed, Written
  <2>6. AloneOK(w)'
    BY <1>1, <2>1, <2>3, <2>4, <2>5 DEF AloneOK, AloneInv
  <2>7. QuietOK(w)'
    <3>1. booking' = booking /\ UserOf(w)' = UserOf(w) /\ TripOf(w)' = TripOf(w)
      BY <1>1, <2>3
    <3>2. \A ss : On(UserOf(w), TripOf(w), ss)' = On(UserOf(w), TripOf(w), ss)
      BY <3>1 DEF On, Written
    <3>3. QuietOK(w)
      BY DEF AloneInv
    <3>. QED BY <1>1, <2>1, <2>3, <2>4, <3>2, <3>3 DEF QuietOK
  <2>. QED BY <1>1, <2>1, <2>2, <2>6, <2>7, GoesOnAlone DEF AloneInv
<1>. QED BY <1>2, <1>3, <1>4 DEF Check

LEMMA AllocateAlone ==
  ASSUME AloneInv, NEW w \in Worker, Allocate(w)
  PROVE  \A v \in Worker : AloneOK(v)' /\ QuietOK(v)'
<1>1. /\ job[w].at = "allocate" /\ UNCHANGED << booking, held >> /\ job[w] \in Job
      /\ NextId(Written) \in Id
  BY Working DEF Allocate, tables, AloneInv
<1>. DEFINE next == [job[w] EXCEPT !.at = "write", !.id = NextId(Written)]
<1>2. /\ next \in Job /\ next.at = "write" /\ next.request = job[w].request
      /\ next.alone = job[w].alone /\ next.quiet = job[w].quiet
      /\ next.holds = job[w].holds
  BY <1>1 DEF Job
<1>3. Step(w, next)
  BY DEF Allocate
<1>. HIDE DEF next
<1>4. /\ job'[w] = next /\ \A v \in Worker : v # w => job'[v] = job[v]
      /\ KeyOf(w)' = KeyOf(w) /\ UserOf(w)' = UserOf(w) /\ TripOf(w)' = TripOf(w)
  BY <1>2, <1>3 DEF Step, KeyOf, UserOf, TripOf
<1>5. /\ AloneOK(w) /\ QuietOK(w)
      /\ Keyed(KeyOf(w), TripOf(w))' = Keyed(KeyOf(w), TripOf(w))
  BY <1>1, <1>4 DEF Keyed, Written, AloneInv
<1>6. AloneOK(w)'
  BY <1>1, <1>2, <1>4, <1>5 DEF AloneOK
<1>7. QuietOK(w)'
  BY <1>1, <1>2, <1>4, <1>5 DEF QuietOK, On, Written
<1>. QED BY <1>1, <1>2, <1>3, <1>6, <1>7, GoesOnAlone DEF AloneInv

LEMMA CommitAlone ==
  ASSUME AloneInv, NEW w \in Worker, Commit(w)
  PROVE  \A v \in Worker : AloneOK(v)' /\ QuietOK(v)'
<1>1. job[w].at = "write" /\ job[w] \in Job /\ job[w].id \in Id
  BY Working DEF Commit, AloneInv, JobOK
<1>2. CASE Fail(w)
  BY <1>1, <1>2, FailAnswers, AnswersAlone DEF AloneInv
<1>3. CASE ~Fail(w)
  <2>. DEFINE next == [job[w] EXCEPT !.at = "readBack"]
  <2>1. booking' = [booking EXCEPT ![job[w].id] = Draft(w)] /\ Step(w, next)
    BY <1>3, CommitEffect DEF AloneInv
  <2>2. /\ next \in Job /\ next.at = "readBack" /\ next.request = job[w].request
        /\ next.alone = job[w].alone /\ next.quiet = job[w].quiet
    BY <1>1 DEF Job
  <2>. HIDE DEF next
  <2>3. /\ job'[w] = next /\ \A v \in Worker : v # w => job'[v] = job[v]
        /\ UserOf(w)' = UserOf(w) /\ TripOf(w)' = TripOf(w)
    BY <2>1, <2>2 DEF Step, UserOf, TripOf
  <2>4. On(UserOf(w), TripOf(w), {"Waiting"})' \subseteq On(UserOf(w), TripOf(w), {"Waiting"})
    <3>1. \A i \in Id : booking'[i] = booking[i] \/ booking'[i] = Draft(w)
      BY <2>1 DEF AloneInv, TypeInv, TypeOK
    <3>2. Draft(w).status = "Draft"
      BY DEF Draft
    <3>. QED BY <2>3, <3>1, <3>2 DEF On, Written
  <2>5. AloneOK(w)'
    BY <1>1, <2>2, <2>3 DEF AloneOK, AloneInv
  <2>6. QuietOK(w)'
    BY <1>1, <2>2, <2>3, <2>4 DEF QuietOK, AloneInv
  <2>. QED BY <1>1, <2>1, <2>2, <2>5, <2>6, GoesOnAlone DEF AloneInv
<1>. QED BY <1>2, <1>3

\* A request begins alone when every other worker is idle, and ends the
\* solitude of all the others.
LEMMA TakeAlone ==
  ASSUME AloneInv, NEW w \in Worker, NEW r \in sent, Take(w, r)
  PROVE  \A v \in Worker : AloneOK(v)' /\ QuietOK(v)'
<1>1. ASSUME NEW v \in Worker, v # w PROVE ~job'[v].alone /\ job'[v].at = job[v].at
  <2>1. job'[v] = [job[v] EXCEPT !.alone = FALSE] /\ job[v] \in Job
    BY <1>1, Working DEF Take, AloneInv
  <2>. QED BY <2>1 DEF Job
<1>2. /\ job'[w].at = "validate"
      /\ job'[w].alone => \A x \in Worker : job[x].at = "idle"
  BY DEF Take, Idle
<1>3. \A v \in Worker : AloneOK(v)'
  BY <1>1, <1>2 DEF AloneOK
<1>4. \A v \in Worker : QuietOK(v)'
  BY <1>1, <1>2 DEF QuietOK
<1>. QED BY <1>3, <1>4

\* The staff works on: no draft gets another key, and nobody is quiet.
LEMMA NoticedAlone ==
  ASSUME AloneInv, Noticed, UNCHANGED held,
         \A k, t : Keyed(k, t)' \subseteq Keyed(k, t)
  PROVE  \A v \in Worker : AloneOK(v)' /\ QuietOK(v)'
<1>. SUFFICES ASSUME NEW w \in Worker PROVE AloneOK(w)' /\ QuietOK(w)'
  OBVIOUS
<1>1. \A v \in Worker :
         /\ job'[v].at = job[v].at /\ job'[v].request = job[v].request
         /\ job'[v].alone = job[v].alone /\ job'[v].holds = job[v].holds
         /\ job'[v].quiet = FALSE
  BY Working DEF Noticed, Job, AloneInv
<1>2. KeyOf(w)' = KeyOf(w) /\ TripOf(w)' = TripOf(w)
  BY <1>1 DEF KeyOf, TripOf
<1>3. Keyed(KeyOf(w), TripOf(w))' \subseteq Keyed(KeyOf(w), TripOf(w))
  BY <1>2
<1>4. AloneOK(w)'
  BY <1>1, <1>2, <1>3 DEF AloneOK, AloneInv
<1>. QED BY <1>1, <1>4 DEF QuietOK

LEMMA StillAlone ==
  ASSUME AloneInv, UNCHANGED << tables, job >>
  PROVE  \A v \in Worker : AloneOK(v)' /\ QuietOK(v)'
BY DEF AloneInv, AloneOK, QuietOK, Keyed, On, Written, KeyOf, UserOf, TripOf, tables

LEMMA NextKeepsAlone == AloneInv /\ [Next]_vars => AloneInv'
<1>. SUFFICES ASSUME AloneInv, [Next]_vars
             PROVE  \A v \in Worker : AloneOK(v)' /\ QuietOK(v)'
  BY NextKeepsTypes DEF AloneInv
<1>1. ASSUME NEW s \in Session, \/ \E t \in Trip : Confirm(s, t)
                               \/ GiveUp(s) \/ NewBooking(s)
      PROVE  UNCHANGED << tables, job >>
  BY <1>1 DEF Confirm, GiveUp, NewBooking
<1>2. ASSUME NEW w \in Worker, Advance(w)
      PROVE  \A v \in Worker : AloneOK(v)' /\ QuietOK(v)'
  <2>1. CASE ReadBack(w)
    <3>1. CASE Refuse(w)
      BY <2>1, <3>1, RefuseAlone DEF ReadBack, tables, AloneInv
    <3>2. CASE ~Refuse(w)
      <4>1. Answer(w, job[w].id) /\ job[w].at = "readBack"
        BY <2>1, <3>2 DEF ReadBack
      <4>2. job[w].id \in Id /\ IsOf(booking[job[w].id], UserOf(w), TripOf(w))
        BY <4>1, Working DEF JobOK, UserOf, TripOf, AloneInv
      <4>. QED BY <4>1, <4>2, AnswersAlone DEF Answers, AloneInv
    <3>. QED BY <3>1, <3>2
  <2>. QED BY <1>2, <2>1, ValidateAlone, LeadAlone, CheckAlone, AllocateAlone, CommitAlone
           DEF Advance
<1>3. ASSUME NEW i, NEW st \in Correction, SetStatus(i, st)
      PROVE  \A v \in Worker : AloneOK(v)' /\ QuietOK(v)'
  <2>1. Noticed /\ UNCHANGED held /\ TypeInv
    BY <1>3 DEF SetStatus, AloneInv
  <2>2. \A k \in Id : booking'[k] = booking[k] \/ Same(booking[k], booking'[k])
    BY <1>3, SetStatusEffect DEF AloneInv
  <2>3. \A k \in Id : booking'[k] # None => booking[k] # None
    BY <1>3 DEF SetStatus, AloneInv, TypeInv, TypeOK, Written
  <2>4. \A k, t : Keyed(k, t)' \subseteq Keyed(k, t)
    BY <2>2, <2>3 DEF Keyed, Written, Same
  <2>. QED BY <2>1, <2>4, NoticedAlone
<1>4. ASSUME NEW t, NEW st, SetSales(t, st)
      PROVE  \A v \in Worker : AloneOK(v)' /\ QuietOK(v)'
  <2>1. Noticed /\ UNCHANGED << held, booking >>
    BY <1>4 DEF SetSales
  <2>2. \A k, u : Keyed(k, u)' \subseteq Keyed(k, u)
    BY <2>1 DEF Keyed, Written
  <2>. QED BY <2>1, <2>2, NoticedAlone
<1>5. UNCHANGED vars => UNCHANGED << tables, job >>
  BY DEF vars, tables
<1>. QED BY <1>1, <1>2, <1>3, <1>4, <1>5, TakeAlone, StillAlone DEF Next

LEMMA InitIsAlone == Init => AloneInv
<1>. SUFFICES ASSUME Init PROVE AloneInv
  OBVIOUS
<1>1. job = [w \in Worker |-> Idle]
  BY DEF Init
<1>. QED BY <1>1, InitIsTyped DEF AloneInv, AloneOK, QuietOK, Idle

LEMMA Invariance == Spec => []AloneInv
BY InitIsAlone, NextKeepsAlone, PTL DEF Spec

\* The only step that writes.
LEMMA WritesCommit ==
  ASSUME AloneInv, [Next]_vars, NEW w \in Worker, Writes(w)
  PROVE  /\ held' = [held EXCEPT ![TripOf(w)] = HoldsAfter(w)]
         /\ AloneOK(w) /\ QuietOK(w) /\ job[w].at = "write"
<1>1. job[w].at = "write" /\ job'[w].at = "readBack"
  BY DEF Writes
<1>2. ASSUME NEW x \in Worker, Advance(x) PROVE Commit(w) /\ ~Fail(w)
  <2>1. GoesOn(x) \/ Answers(x)
    BY <1>2, AdvanceEffect DEF AloneInv
  <2>2. x = w
    <3>1. Answers(x) => Step(x, Idle)
      BY <1>2, AdvanceEffect, AnswerEffect DEF Answers, AloneInv
    <3>. QED BY <1>1, <2>1, <3>1 DEF GoesOn, Step
  <2>3. Commit(w)
    BY <1>1, <1>2, <2>2
       DEF Advance, Validate, FindLead, InsertLead, Check, Allocate, ReadBack
  <2>4. ~Fail(w)
    <3>1. Fail(w) => Step(w, Idle)
      BY <1>1, AnswerEffect DEF Fail, AloneInv
    <3>. QED BY <1>1, <3>1 DEF Step, Idle
  <2>. QED BY <2>3, <2>4
<1>3. ASSUME NEW s \in Session, \/ \E t \in Trip : Confirm(s, t)
                               \/ GiveUp(s) \/ NewBooking(s)
      PROVE  UNCHANGED job
  BY <1>3 DEF Confirm, GiveUp, NewBooking
<1>4. ASSUME NEW x \in Worker, NEW r \in sent, Take(x, r) PROVE FALSE
  <2>1. job[w] \in Job
    BY Working DEF AloneInv
  <2>2. job'[w].at = "validate" \/ job'[w].at = job[w].at
    BY <1>4, <2>1 DEF Take, Job, Idle
  <2>. QED BY <1>1, <2>2
<1>5. ~Noticed
  <2>1. job[w] \in Job
    BY Working DEF AloneInv
  <2>. QED BY <1>1, <2>1 DEF Noticed, Job
<1>6. Commit(w) /\ ~Fail(w)
  BY <1>1, <1>2, <1>3, <1>4, <1>5 DEF Next, SetStatus, SetSales, vars
<1>. QED BY <1>1, <1>6, CommitEffect DEF AloneInv

\* The test for room and the count of the holds are not one transaction with a
\* lock; a request that meets no other one still never takes a room the trip
\* does not have, and holds the one it writes (create_booking_draft).
THEOREM AloneHolds == Spec => AloneHoldsTheRoom
<1>1. AloneInv /\ [Next]_vars =>
        [\A w \in Worker : Writes(w) /\ job[w].alone =>
           /\ held'[TripOf(w)] = held[TripOf(w)] + 1
           /\ held'[TripOf(w)] <= Capacity[TripOf(w)]]_vars
  <2>. SUFFICES ASSUME AloneInv, [Next]_vars, NEW w \in Worker, Writes(w), job[w].alone
               PROVE  /\ held'[TripOf(w)] = held[TripOf(w)] + 1
                      /\ held'[TripOf(w)] <= Capacity[TripOf(w)]
    OBVIOUS
  <2>1. /\ held' = [held EXCEPT ![TripOf(w)] = HoldsAfter(w)]
        /\ AloneOK(w) /\ job[w].at = "write"
    BY WritesCommit
  <2>2. TripOf(w) \in Trip /\ held \in [Trip -> Nat] /\ Capacity[TripOf(w)] \in Nat
    BY <2>1, Working, CapacityAssumption DEF AloneInv, TypeInv, TypeOK
  <2>3. held[TripOf(w)] = job[w].holds /\ job[w].holds < Capacity[TripOf(w)]
    BY <2>1 DEF AloneOK
  <2>. QED BY <2>1, <2>2, <2>3 DEF HoldsAfter
<1>. QED BY <1>1, Invariance, PTL DEF Spec, AloneHoldsTheRoom

\* The key of a confirmation is only looked up; a repeated confirmation whose
\* first request has ended still finds its draft, whatever the staff made of it
\* (_build_idempotency_key, create_booking_draft).
THEOREM RepeatedWritesOnce == Spec => RepeatedConfirmationWritesOnce
<1>1. AloneInv /\ [Next]_vars =>
        [\A w \in Worker : Writes(w) /\ job[w].alone =>
           ~ \E i \in Written : /\ booking[i].session = job[w].request.session
                                /\ booking[i].trip = TripOf(w)]_vars
  BY WritesCommit DEF AloneOK, Keyed, KeyOf
<1>. QED BY <1>1, Invariance, PTL DEF Spec, RepeatedConfirmationWritesOnce

\* The bridge looks for three of the active statuses only; the validator, which
\* ran before it, covers the others as long as nothing else moves
\* (validate_booking_draft, create_booking_draft).
THEOREM AloneWritesOne == Spec => AloneWritesNoDuplicate
<1>1. AloneInv /\ [Next]_vars =>
        [\A w \in Worker : Writes(w) /\ job[w].alone /\ job[w].quiet =>
           ~ \E i \in Written : /\ booking[i].traveler = UserOf(w)
                                /\ booking[i].trip = TripOf(w)
                                /\ booking[i].status \in ActiveStatus]_vars
  <2>. SUFFICES ASSUME AloneInv, [Next]_vars, NEW w \in Worker, Writes(w),
                      job[w].alone, job[w].quiet,
                      NEW i \in Written, booking[i].traveler = UserOf(w),
                      booking[i].trip = TripOf(w), booking[i].status \in ActiveStatus
               PROVE  FALSE
    OBVIOUS
  <2>1. QuietOK(w) /\ job[w].at = "write"
    BY WritesCommit
  <2>2. /\ On(UserOf(w), TripOf(w), {"Waiting"}) = {}
        /\ On(UserOf(w), TripOf(w), BridgeStatus) = {}
    BY <2>1 DEF QuietOK
  <2>. QED BY <2>2 DEF On, ActiveStatus, BridgeStatus
<1>. QED BY <1>1, Invariance, PTL DEF Spec, AloneWritesNoDuplicate

-----------------------------------------------------------------------------
(* What the trips hold.                                                    *)

Drafts(t) == {i \in Written : booking[i].trip = t}

\* What a request read of the holds was not too much, and never becomes too
\* much: drafts are not deleted.
HeldInv ==
  /\ TypeInv
  /\ HeldByDrafts
  /\ \A w \in Worker : job[w].at \in {"allocate", "write"} =>
                         job[w].holds <= Cardinality(Drafts(TripOf(w)))

LEMMA DraftsAreFinite ==
  ASSUME NEW t
  PROVE  /\ IsFiniteSet(Drafts(t)) /\ Cardinality(Drafts(t)) \in Nat
         /\ IsFiniteSet(Drafts(t))' /\ Cardinality(Drafts(t))' \in Nat
<1>1. IsFiniteSet(Id)
  BY FS_Interval, BoundAssumption DEF Id
<1>2. Drafts(t) \subseteq Id /\ Drafts(t)' \subseteq Id
  BY DEF Drafts, Written
<1>. QED BY <1>1, <1>2, FS_Subset, FS_CardinalityType

LEMMA DraftsGrow ==
  ASSUME TypeInv, Grows, NEW t
  PROVE  Cardinality(Drafts(t)) <= Cardinality(Drafts(t))'
<1>1. Drafts(t) \subseteq Drafts(t)'
  BY WrittenRows, RowAssumption DEF Drafts, Written, Grows, Same, TypeInv
<1>. QED BY <1>1, DraftsAreFinite, FS_Subset

LEMMA HeldStays ==
  ASSUME HeldInv, TypeInv', Grows, UNCHANGED held,
         \A v \in Worker : job'[v].at \in {"allocate", "write"} =>
            \/ /\ job[v].at \in {"allocate", "write"}
               /\ job'[v].request = job[v].request /\ job'[v].holds = job[v].holds
            \/ job'[v].holds = held[job'[v].request.trip]
  PROVE  HeldInv'
<1>. DEFINE n(t) == Cardinality(Drafts(t))
<1>1. \A t : n(t) \in Nat /\ n(t)' \in Nat /\ n(t) <= n(t)'
  BY DraftsAreFinite, DraftsGrow DEF HeldInv
<1>2. \A t \in Trip : held[t] \in Nat /\ held[t] <= n(t)
  BY DEF HeldInv, HeldByDrafts, TypeInv, TypeOK, Drafts
<1>. HIDE DEF n
<1>3. \A t \in Trip : held'[t] <= n(t)'
  BY <1>1, <1>2
<1>4. ASSUME NEW v \in Worker, job'[v].at \in {"allocate", "write"}
      PROVE  job'[v].holds <= n(TripOf(v))'
  <2>1. job'[v] \in Job /\ job'[v].request \in Request
    BY <1>4 DEF TypeInv, TypeOK, JobsOK, JobOK
  <2>2. job'[v].holds \in Nat /\ TripOf(v)' \in Trip
    BY <2>1 DEF Job, Request, TripOf
  <2>3. CASE job'[v].holds = held[job'[v].request.trip]
    <3>1. held[TripOf(v)'] <= n(TripOf(v)') /\ n(TripOf(v)') <= n(TripOf(v))'
      BY <1>1, <1>2, <2>2 DEF n, TripOf
    <3>. QED BY <1>1, <1>2, <1>3, <2>2, <2>3 DEF TripOf
  <2>4. CASE /\ job[v].at \in {"allocate", "write"}
             /\ job'[v].request = job[v].request /\ job'[v].holds = job[v].holds
    <3>1. job[v].holds <= n(TripOf(v)) /\ TripOf(v)' = TripOf(v)
      BY <2>4 DEF HeldInv, n, TripOf
    <3>2. n(TripOf(v)) <= n(TripOf(v))'
      BY <1>1, <3>1 DEF n
    <3>. QED BY <1>1, <2>2, <2>4, <3>1, <3>2
  <2>. QED BY <1>4, <2>3, <2>4
<1>. QED BY <1>3, <1>4 DEF HeldInv, HeldByDrafts, n, Drafts

\* The draft is one more, and so is the number written to the holds.
LEMMA CommitHeld ==
  ASSUME HeldInv, TypeInv', Grows, NEW w \in Worker, Commit(w), ~Fail(w)
  PROVE  HeldInv'
<1>1. /\ job[w].at = "write" /\ booking[job[w].id] = None /\ job[w].id \in Id
      /\ booking' = [booking EXCEPT ![job[w].id] = Draft(w)]
      /\ held' = [held EXCEPT ![TripOf(w)] = job[w].holds + 1]
      /\ Step(w, [job[w] EXCEPT !.at = "readBack"])
  BY CommitEffect, Working DEF Commit, HeldInv, JobOK, HoldsAfter
<1>2. TripOf(w) \in Trip /\ job[w] \in Job /\ job[w].holds \in Nat
  BY <1>1, Working DEF HeldInv, Job
<1>3. Cardinality(Drafts(TripOf(w)))' = Cardinality(Drafts(TripOf(w))) + 1
  <2>. DEFINE t == TripOf(w)
              new == {i \in Id : booking'[i] # None /\ booking'[i].trip = t}
  <2>1. Draft(w) # None /\ Draft(w).trip = t
    <3>1. UserOf(w) \in Traveler /\ job[w].request.session \in Session
      BY <1>1, Working DEF HeldInv, Request
    <3>2. Draft(w) \in Row
      BY <1>2, <3>1 DEF Draft, Row, Status
    <3>. QED BY <3>2, RowAssumption DEF Draft
  <2>2. job[w].id \notin Drafts(t)
    BY <1>1 DEF Drafts, Written
  <2>3. new = Drafts(t) \cup {job[w].id}
    BY <1>1, <2>1 DEF Drafts, Written, HeldInv, TypeInv, TypeOK
  <2>4. Cardinality(new) = Cardinality(Drafts(t)) + 1
    BY <2>2, <2>3, DraftsAreFinite, FS_AddElement
  <2>5. TripOf(w)' = TripOf(w)
    BY <1>1, <1>2 DEF Step, TripOf, Job
  <2>6. Drafts(TripOf(w))' = new
    BY <2>5 DEF Drafts, Written
  <2>. QED BY <2>4, <2>6
<1>4. /\ job'[w].at = "readBack" /\ TripOf(w)' = TripOf(w)
      /\ \A v \in Worker : v # w => job'[v] = job[v]
  BY <1>1, <1>2 DEF Step, TripOf, Job
<1>. DEFINE n(t) == Cardinality(Drafts(t))
<1>5. \A t : n(t) \in Nat /\ n(t)' \in Nat /\ n(t) <= n(t)'
  BY DraftsAreFinite, DraftsGrow DEF HeldInv
<1>6. \A t \in Trip : held[t] \in Nat /\ held[t] <= n(t)
  BY DEF HeldInv, HeldByDrafts, TypeInv, TypeOK, Drafts
<1>7. job[w].holds <= n(TripOf(w))
  BY <1>1 DEF HeldInv
<1>8. n(TripOf(w)') = n(TripOf(w)) /\ n(TripOf(w))' = n(TripOf(w)) + 1
  BY <1>3, <1>4
<1>. HIDE DEF n
<1>9. ASSUME NEW t \in Trip PROVE held'[t] <= n(t)'
  <2>1. CASE t # TripOf(w)
    <3>1. held'[t] = held[t]
      BY <1>1, <2>1 DEF HeldInv, TypeInv, TypeOK
    <3>. QED BY <1>5, <1>6, <3>1
  <2>2. CASE t = TripOf(w)
    <3>1. held'[t] = job[w].holds + 1
      BY <1>1, <1>2, <2>2 DEF HeldInv, TypeInv, TypeOK
    <3>2. n(t)' = n(TripOf(w)) + 1
      BY <1>4, <1>8, <2>2 DEF n
    <3>. QED BY <1>2, <1>5, <1>7, <3>1, <3>2
  <2>. QED BY <2>1, <2>2
<1>10. ASSUME NEW v \in Worker, job'[v].at \in {"allocate", "write"}
       PROVE  job'[v].holds <= n(TripOf(v))'
  <2>1. /\ job'[v] = job[v] /\ TripOf(v)' = TripOf(v) /\ job[v] \in Job
        /\ job[v].holds \in Nat /\ job[v].holds <= n(TripOf(v))
    BY <1>4, <1>10, Working DEF HeldInv, TripOf, n, Job
  <2>2. n(TripOf(v)) <= n(TripOf(v))' /\ n(TripOf(v)) \in Nat /\ n(TripOf(v))' \in Nat
    BY <1>5, <2>1 DEF n
  <2>. QED BY <2>1, <2>2
<1>. QED BY <1>9, <1>10 DEF HeldInv, HeldByDrafts, n, Drafts

LEMMA NextKeepsHeld == HeldInv /\ [Next]_vars => HeldInv'
<1>. SUFFICES ASSUME HeldInv, [Next]_vars PROVE HeldInv'
  OBVIOUS
<1>1. TypeInv' /\ Grows
  BY NextKeepsTypes, NextGrows DEF HeldInv
<1>2. ASSUME NEW s \in Session, \/ \E t \in Trip : Confirm(s, t)
                               \/ GiveUp(s) \/ NewBooking(s)
      PROVE  UNCHANGED << held, job >>
  BY <1>2 DEF Confirm, GiveUp, NewBooking, tables
<1>3. ASSUME NEW w \in Worker, NEW r \in sent, Take(w, r) PROVE HeldInv'
  <2>1. ASSUME NEW v \in Worker, job'[v].at \in {"allocate", "write"}
        PROVE  /\ job[v].at \in {"allocate", "write"}
               /\ job'[v].request = job[v].request /\ job'[v].holds = job[v].holds
    <3>1. v # w
      BY <1>3, <2>1 DEF Take, Idle
    <3>2. job'[v] = [job[v] EXCEPT !.alone = FALSE] /\ job[v] \in Job
      BY <1>3, <3>1, Working DEF Take, HeldInv
    <3>. QED BY <2>1, <3>2 DEF Job
  <2>. QED BY <1>1, <1>3, <2>1, HeldStays DEF Take, tables
<1>4. ASSUME NEW w \in Worker, Advance(w) PROVE HeldInv'
  <2>1. CASE Commit(w) /\ ~Fail(w)
    BY <1>1, <2>1, CommitHeld
  <2>2. CASE ~(Commit(w) /\ ~Fail(w))
    <3>1. job[w] \in Job /\ job[w].at # "idle"
      BY <1>4, Working, AdvanceEffect DEF HeldInv
    <3>2. UNCHANGED held
      <4>1. CASE Commit(w)
        <5>1. Step(w, Idle)
          BY <2>2, <3>1, <4>1, AnswerEffect DEF Fail, HeldInv
        <5>2. ~Step(w, [job[w] EXCEPT !.at = "readBack"])
          BY <3>1, <5>1 DEF Step, Idle, Job
        <5>. QED BY <4>1, <5>2, CommitEffect DEF tables, HeldInv
      <4>2. CASE ~Commit(w)
        BY <1>4, <4>2
           DEF Advance, Validate, FindLead, InsertLead, Check, Allocate, ReadBack, tables
      <4>. QED BY <4>1, <4>2
    <3>3. \A v \in Worker : v # w => job'[v] = job[v]
      <4>1. Answers(w) => Step(w, Idle)
        BY <3>1, AnswerEffect DEF Answers, HeldInv
      <4>. QED BY <1>4, <4>1, AdvanceEffect DEF GoesOn, Step, HeldInv
    <3>4. ASSUME job'[w].at \in {"allocate", "write"}
          PROVE  \/ /\ job[w].at \in {"allocate", "write"}
                    /\ job'[w].request = job[w].request /\ job'[w].holds = job[w].holds
                 \/ job'[w].holds = held[job'[w].request.trip]
      <4>1. Step(w, Idle) => FALSE
        BY <3>4 DEF Step, Idle
      <4>2. ~Answers(w)
        BY <3>1, <4>1, AnswerEffect DEF Answers, HeldInv
      <4>3. ~Fail(w) /\ ~Refuse(w)
        <5>1. ~Fail(w)
          BY <4>2, FailAnswers
        <5>2. Refuse(w) => Step(w, [job[w] EXCEPT !.at = "lead", !.again = TRUE])
          BY <5>1 DEF Refuse
        <5>. QED BY <3>1, <3>4, <5>1, <5>2 DEF Step, Job
      <4>4. CASE Check(w)
        <5>1. \/ \E i : job'[w] = [job[w] EXCEPT !.at = "readBack", !.id = i]
              \/ job'[w] = [job[w] EXCEPT !.at = "allocate", !.holds = held[TripOf(w)]]
          BY <4>3, <4>4 DEF Check, Step
        <5>2. job'[w] = [job[w] EXCEPT !.at = "allocate", !.holds = held[TripOf(w)]]
          BY <3>1, <3>4, <5>1 DEF Job
        <5>. QED BY <3>1, <5>2 DEF Job, TripOf
      <4>5. CASE Allocate(w)
        BY <3>1, <4>5 DEF Allocate, Step, Job
      <4>6. CASE Validate(w)
        <5>1. Step(w, [job[w] EXCEPT !.at = "lead"])
          <6>1. \A i \in Known(UserOf(w), TripOf(w)) : ~Duplicate(w, i)
            BY <3>1, <4>1, AnswerEffect DEF Duplicate, Known, On, Written, HeldInv
          <6>. QED BY <4>3, <4>6, <6>1 DEF Validate
        <5>. QED BY <3>1, <3>4, <5>1 DEF Step, Job
      <4>7. CASE FindLead(w)
        BY <3>1, <3>4, <4>7 DEF FindLead, Step, Job
      <4>8. CASE InsertLead(w)
        BY <3>1, <3>4, <4>3, <4>8 DEF InsertLead, Step, Job
      <4>9. CASE ReadBack(w)
        <5>1. Answer(w, job[w].id) /\ job[w].id \in Id \cup {None}
          BY <3>1, <4>3, <4>9 DEF ReadBack, Job
        <5>. QED BY <3>1, <4>1, <5>1, AnswerEffect DEF HeldInv
      <4>10. CASE Commit(w)
        BY <2>2, <4>3, <4>10
      <4>. QED BY <1>4, <4>4, <4>5, <4>6, <4>7, <4>8, <4>9, <4>10 DEF Advance
    <3>. QED BY <1>1, <3>2, <3>3, <3>4, HeldStays
  <2>. QED BY <2>1, <2>2
<1>5. ASSUME Noticed, UNCHANGED held PROVE HeldInv'
  <2>1. \A v \in Worker : /\ job'[v].at = job[v].at /\ job'[v].request = job[v].request
                          /\ job'[v].holds = job[v].holds
    BY <1>5, Working DEF Noticed, Job, HeldInv
  <2>. QED BY <1>1, <1>5, <2>1, HeldStays
<1>6. UNCHANGED << held, job >> => HeldInv'
  BY <1>1, HeldStays
<1>. QED BY <1>2, <1>3, <1>4, <1>5, <1>6 DEF Next, SetStatus, SetSales, vars

\* The holds are written as the number that was read plus the rooms asked for,
\* so racing drafts can lose a room, but no race, failed insert or retry makes
\* the trip hold a room nobody drafted (create_booking_draft).
THEOREM HoldsAreDrafts == Spec => []HeldByDrafts
<1>1. Init => HeldInv
  <2>. SUFFICES ASSUME Init PROVE HeldInv
    OBVIOUS
  <2>1. \A t \in Trip : held[t] <= Cardinality(Drafts(t))
    BY DraftsAreFinite DEF Init
  <2>. QED BY <2>1, InitIsTyped DEF HeldInv, HeldByDrafts, Drafts, Init, Idle
<1>2. HeldInv => HeldByDrafts
  BY DEF HeldInv
<1>. QED BY <1>1, <1>2, NextKeepsHeld, PTL DEF Spec
=============================================================================
