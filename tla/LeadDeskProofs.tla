---------------------------- MODULE LeadDeskProofs ----------------------------
(***************************************************************************)
(* For any number of workers, leads, employees and requests: the types of  *)
(* LeadDesk, that the rotation never turns to the same employee twice in a *)
(* row while it has a choice, and what a request that meets no other may   *)
(* rely on: its lead gets one booking, and the sizes of the two agree.     *)
(***************************************************************************)
EXTENDS LeadDesk, FiniteSetTheorems, TLAPS

-----------------------------------------------------------------------------
(* What a request knows at each of its steps.                              *)

Jobs == [Worker -> Job \cup {Idle}]

BookingTable == [1..MaxBookings -> BookingRow \cup {None}]

Live(b, bk) == b # None => bk[b] \in BookingRow

JobOK(j, bk) ==
  /\ j.step \in {"insertLead", "rotate", "save", "number", "owner", "flush", "insert",
                 "resize"} => j.new \in LeadRow /\ Live(j.new.booking, bk)
  /\ j.step = "save" => j.was \in LeadRow /\ (j.auto => j.was.owner = None)
  /\ j.step = "rotate" => /\ j.auto
                          /\ (j.id = None /\ j.was # None) => j.was.owner = None
  /\ j.step \in {"owner", "flush", "insert", "link", "resize"} => j.id # None
  /\ j.step \in {"link", "resize"} => bk[j.id] \in BookingRow
  /\ j.step = "remove" => \A b \in j.links : bk[b] \in BookingRow

StepOK == \A w \in Worker : work[w] # Idle => JobOK(work[w], bookings)

LinksOK == \A l \in Lead : leads[l] # None => Live(leads[l].booking, bookings)

TypeInv == TypeOK /\ StepOK /\ LinksOK

\* A booking that is there stays there.
Grows == \A b \in 1..MaxBookings : bookings[b] \in BookingRow => bookings'[b] \in BookingRow

-----------------------------------------------------------------------------
(* The frame of a step: what a worker becomes, and the others.             *)

LEMMA NoneIsNoData ==
  /\ None \notin Sales /\ None \notin 1..MaxBookings /\ None \notin Worker
  /\ \A j \in Job : j # Idle
<1>1. None \notin Sales /\ None \notin 1..MaxBookings /\ None \notin Worker
  BY NoneAssumption, NSalesAssumption, BoundsAssumption DEF Sales
<1>2. Idle \notin Job
  <2>1. SUFFICES ASSUME Idle \in Job PROVE FALSE
    OBVIOUS
  <2>2. Idle.step \in {"insertLead", "save", "unlink", "remove", "find", "link", "number",
              "owner", "flush", "rotate", "insert", "measure", "resize"}
    BY <2>1 DEF Job
  <2>. QED BY <2>2 DEF Idle
<1>. QED BY <1>1, <1>2

\* What a request knows stays so while no booking disappears.
LEMMA JobGrows ==
  ASSUME TypeInv, Grows, NEW j \in Job, JobOK(j, bookings)
  PROVE  JobOK(j, bookings')
<1>1. \A b \in 1..MaxBookings \cup {None} : Live(b, bookings) => Live(b, bookings')
  BY DEF Live, Grows
<1>2. j.new \in LeadRow /\ Live(j.new.booking, bookings) => Live(j.new.booking, bookings')
  BY <1>1 DEF LeadRow
<1>3. j.step \in {"link", "resize"} => bookings'[j.id] \in BookingRow
  BY DEF JobOK, Job, Grows
<1>4. j.step = "remove" => \A b \in j.links : bookings'[b] \in BookingRow
  BY DEF JobOK, Job, Grows
<1>. QED BY <1>2, <1>3, <1>4 DEF JobOK

LEMMA BecomesKeeps ==
  ASSUME TypeInv, Grows, NEW w \in Worker, NEW j \in Job \cup {Idle}, Becomes(w, j),
         j # Idle => JobOK(j, bookings')
  PROVE  work' \in Jobs /\ StepOK'
<1>1. work' \in Jobs
  BY DEF TypeInv, TypeOK, Becomes, Jobs
<1>2. ASSUME NEW v \in Worker, work'[v] # Idle PROVE JobOK(work'[v], bookings')
  <2>1. CASE v = w
    BY <1>2, <2>1 DEF TypeInv, TypeOK, Becomes
  <2>2. CASE v # w
    <3>1. work'[v] = work[v] /\ work[v] \in Job
      BY <1>2, <2>2 DEF TypeInv, TypeOK, Becomes
    <3>. QED BY <3>1, <1>2, JobGrows DEF TypeInv, StepOK
  <2>. QED BY <2>1, <2>2
<1>. QED BY <1>1, <1>2 DEF StepOK

\* A request that begins, and those that see it.
LEMMA BeginKeeps ==
  ASSUME TypeInv, bookings' = bookings, NEW w \in Worker, NEW j \in Job, Begin(w, j),
         JobOK(j, bookings)
  PROVE  work' \in Jobs /\ StepOK' /\ events' \in 0..MaxEvents
<1>1. \A v \in Worker : work[v] # Idle =>
         /\ [work[v] EXCEPT !.shared = TRUE] \in Job
         /\ JobOK([work[v] EXCEPT !.shared = TRUE], bookings)
  <2>. SUFFICES ASSUME NEW v \in Worker, work[v] # Idle
               PROVE  /\ [work[v] EXCEPT !.shared = TRUE] \in Job
                      /\ JobOK([work[v] EXCEPT !.shared = TRUE], bookings)
    OBVIOUS
  <2>1. work[v] \in Job /\ JobOK(work[v], bookings)
    BY DEF TypeInv, TypeOK, StepOK
  <2>2. [work[v] EXCEPT !.shared = TRUE] \in Job
    BY <2>1 DEF Job
  <2>3. JobOK([work[v] EXCEPT !.shared = TRUE], bookings)
    BY <2>1 DEF Job, JobOK
  <2>. QED BY <2>2, <2>3
<1>2. work' \in Jobs
  BY <1>1 DEF Begin, Jobs
<1>3. StepOK'
  BY <1>1 DEF Begin, StepOK
<1>. QED BY <1>2, <1>3, BoundsAssumption DEF Begin, TypeInv, TypeOK

\* A step that leaves the tables alone.
LEMMA QuietKeeps ==
  ASSUME TypeInv, NEW w \in Worker, NEW j \in Job \cup {Idle}, Becomes(w, j),
         j # Idle => JobOK(j, bookings), lock' \in Worker \cup {None},
         UNCHANGED << leads, bookings, history, active, events >>
  PROVE  TypeInv'
<1>1. Grows
  BY DEF Grows
<1>2. work' \in Jobs /\ StepOK'
  BY <1>1, BecomesKeeps
<1>. QED BY <1>2 DEF TypeInv, TypeOK, LinksOK, Jobs

\* The lead and the step of a worker that is at work.
LEMMA Working ==
  ASSUME TypeInv, NEW w \in Worker, work[w] # Idle
  PROVE  work[w] \in Job /\ JobOK(work[w], bookings)
BY DEF TypeInv, TypeOK, StepOK

LEMMA UnlockedIsTyped ==
  ASSUME TypeInv, NEW w \in Worker
  PROVE  Unlocked(w) \in Worker \cup {None}
BY DEF TypeInv, TypeOK, Unlocked

\* A request that goes on to another step knows what that step asks for.
LEMMA GotoIsTyped ==
  ASSUME NEW j \in Job, NEW step \in {"find", "measure", "flush"},
         NEW bk, JobOK(j, bk),
         step = "flush" => j.new \in LeadRow /\ Live(j.new.booking, bk) /\ j.id # None
  PROVE  /\ [j EXCEPT !.step = step] \in Job
         /\ JobOK([j EXCEPT !.step = step], bk)
<1>1. [j EXCEPT !.step = step] \in Job
  BY DEF Job
<1>2. JobOK([j EXCEPT !.step = step], bk)
  BY DEF Job, JobOK
<1>. QED BY <1>1, <1>2

LEMMA ResizingEffect ==
  ASSUME TypeInv, NEW w \in Worker, work[w] # Idle, Resizing(w)
  PROVE  \E j \in Job \cup {Idle} :
           Becomes(w, j) /\ (j # Idle => JobOK(j, bookings))
<1>1. work[w] \in Job /\ JobOK(work[w], bookings)
  BY Working
<1>2. CASE Goto(w, "measure")
  BY <1>1, <1>2, GotoIsTyped DEF Goto
<1>3. CASE End(w)
  BY <1>3 DEF End
<1>4. Goto(w, "measure") \/ End(w)
  BY DEF Resizing
<1>. QED BY <1>2, <1>3, <1>4

-----------------------------------------------------------------------------
(* The rotation.                                                           *)

LEMMA NextSalesIsActive ==
  ASSUME TypeInv, NEW u \in NextSales
  PROVE  u \in active /\ u \in Sales
BY DEF NextSales, TypeInv, TypeOK

LEMMA RotateKeeps ==
  ASSUME TypeInv, NEW w \in Worker, Rotate(w)
  PROVE  TypeInv'
<1>1. work[w] \in Job /\ JobOK(work[w], bookings) /\ work[w].step = "rotate"
  BY Working DEF Rotate, At
<1>2. PICK u \in Sales \cup {None} :
        Becomes(w, [work[w] EXCEPT !.step = AfterRotation(w), !.user = u,
                                   !.choice = Cardinality(active) > 1])
  BY NextSalesIsActive DEF Rotate
<1>. DEFINE j == [work[w] EXCEPT !.step = AfterRotation(w), !.user = u,
                                 !.choice = Cardinality(active) > 1]
<1>3. j \in Job
  <2>1. AfterRotation(w) \in {"insert", "insertLead", "save"}
    BY DEF AfterRotation
  <2>2. (Cardinality(active) > 1) \in BOOLEAN
    OBVIOUS
  <2>. QED BY <1>1, <2>1, <2>2 DEF Job
<1>4. JobOK(j, bookings)
  BY <1>1 DEF JobOK, Job, AfterRotation
<1>5. lock' \in Worker \cup {None}
  BY DEF Rotate, TypeInv, TypeOK
<1>. HIDE DEF j
<1>. QED BY <1>2, <1>3, <1>4, <1>5, QuietKeeps DEF j, Rotate

-----------------------------------------------------------------------------
(* The requests that begin.                                                *)

LEMMA NewJobIsTyped ==
  ASSUME TypeInv, NEW l \in Lead, NEW step \in {"save", "rotate", "unlink"},
         NEW new \in LeadRow \cup {None},
         NEW then \in {"nothing", "book", "bookAndResize"}
  PROVE  NewJob(l, step, new, then) \in Job
<1>1. leads[l] \in LeadRow \cup {None}
  BY DEF TypeInv, TypeOK
<1>. QED BY <1>1 DEF NewJob, Job

LEMMA CreateByAgentKeeps ==
  ASSUME TypeInv, NEW w \in Worker, NEW l \in Lead, CreateByAgent(w, l)
  PROVE  TypeInv'
<1>1. PICK st \in Stage, sz \in Size :
        Begin(w, [NewJob(l, "rotate", [stage |-> st, size |-> sz, owner |-> None,
                                       booking |-> None], "book") EXCEPT !.auto = TRUE])
  BY DEF CreateByAgent
<1>. DEFINE row == [stage |-> st, size |-> sz, owner |-> None, booking |-> None]
            j == [NewJob(l, "rotate", row, "book") EXCEPT !.auto = TRUE]
<1>2. row \in LeadRow
  BY DEF LeadRow
<1>3. j \in Job
  <2>1. NewJob(l, "rotate", row, "book") \in Job
    BY <1>2, NewJobIsTyped
  <2>. QED BY <2>1 DEF Job
<1>4. JobOK(j, bookings)
  BY <1>2 DEF JobOK, NewJob, CreateByAgent, Live
<1>5. work' \in Jobs /\ StepOK' /\ events' \in 0..MaxEvents
  BY <1>1, <1>3, <1>4, BeginKeeps DEF CreateByAgent
<1>. QED BY <1>5 DEF CreateByAgent, TypeInv, TypeOK, LinksOK, Jobs

LEMMA CreateByHandKeeps ==
  ASSUME TypeInv, NEW w \in Worker, NEW l \in Lead, CreateByHand(w, l)
  PROVE  TypeInv'
<1>1. PICK st \in Stage, sz \in Size, u \in active \cup {None} :
        LET row == [stage |-> st, size |-> sz, owner |-> None, booking |-> None]
            job == NewJob(l, "save", [row EXCEPT !.owner = u], "nothing")
        IN /\ leads' = [leads EXCEPT ![l] = row]
           /\ Begin(w, [job EXCEPT !.was = row, !.auto = (u = None),
                                   !.step = IF u = None THEN "rotate" ELSE "save"])
  BY DEF CreateByHand
<1>. DEFINE row == [stage |-> st, size |-> sz, owner |-> None, booking |-> None]
            job == NewJob(l, "save", [row EXCEPT !.owner = u], "nothing")
            j == [job EXCEPT !.was = row, !.auto = (u = None),
                             !.step = IF u = None THEN "rotate" ELSE "save"]
<1>2. row \in LeadRow /\ [row EXCEPT !.owner = u] \in LeadRow
  BY DEF LeadRow, TypeInv, TypeOK
<1>3. j \in Job
  <2>1. job \in Job
    BY <1>2, NewJobIsTyped
  <2>. QED BY ZenonT(40), <1>2, <2>1 DEF Job
<1>4. JobOK(j, bookings)
  BY <1>2 DEF JobOK, NewJob, Live
<1>5. work' \in Jobs /\ StepOK' /\ events' \in 0..MaxEvents
  BY <1>1, <1>3, <1>4, BeginKeeps DEF CreateByHand
<1>6. leads' \in [Lead -> LeadRow \cup {None}] /\ LinksOK'
  <2>1. leads' = [leads EXCEPT ![l] = row] /\ bookings' = bookings
    BY <1>1 DEF CreateByHand
  <2>. QED BY <2>1, <1>2 DEF TypeInv, TypeOK, LinksOK, Live
<1>. QED BY <1>5, <1>6 DEF CreateByHand, TypeInv, TypeOK, Jobs

\* A lead that is read, with another stage, size or owner.
LEMMA ChangedRow ==
  ASSUME TypeInv, NEW l \in Lead, leads[l] # None,
         NEW st \in Stage, NEW sz \in Size, NEW u \in Sales \cup {None},
         NEW row, row = [leads[l] EXCEPT !.stage = st, !.size = sz, !.owner = u]
                  \/ row = [leads[l] EXCEPT !.stage = st],
         NEW then \in {"book", "bookAndResize"}
  PROVE  /\ NewJob(l, "save", row, then) \in Job
         /\ JobOK(NewJob(l, "save", row, then), bookings)
<1>1. leads[l] \in LeadRow /\ Live(leads[l].booking, bookings)
  BY DEF TypeInv, TypeOK, LinksOK
<1>2. row \in LeadRow /\ row.booking = leads[l].booking
  BY <1>1 DEF LeadRow
<1>3. NewJob(l, "save", row, then) \in Job
  BY <1>2, NewJobIsTyped
<1>4. JobOK(NewJob(l, "save", row, then), bookings)
  BY <1>1, <1>2 DEF JobOK, NewJob
<1>. QED BY <1>3, <1>4

LEMMA EditKeeps ==
  ASSUME TypeInv, NEW w \in Worker, NEW l \in Lead, Edit(w, l) \/ Move(w, l)
  PROVE  TypeInv'
<1>1. PICK j \in Job : JobOK(j, bookings) /\ Begin(w, j)
  <2>1. CASE Edit(w, l)
    <3>1. PICK st \in Stage, sz \in Size, u \in active \cup {None, leads[l].owner} :
            Begin(w, NewJob(l, "save", [leads[l] EXCEPT !.stage = st, !.size = sz,
                                                        !.owner = u], "bookAndResize"))
      BY <2>1 DEF Edit
    <3>2. leads[l] # None /\ u \in Sales \cup {None}
      BY <2>1 DEF Edit, TypeInv, TypeOK, LeadRow
    <3>. QED BY <3>1, <3>2, ChangedRow
  <2>2. CASE Move(w, l)
    <3>1. PICK st \in Stage :
            Begin(w, NewJob(l, "save", [leads[l] EXCEPT !.stage = st], "book"))
      BY <2>2 DEF Move
    <3>2. leads[l] # None /\ leads[l].size \in Size
      BY <2>2 DEF Move, TypeInv, TypeOK, LeadRow
    <3>. QED BY <3>1, <3>2, ChangedRow
  <2>. QED BY <2>1, <2>2
<1>2. UNCHANGED << leads, bookings, history, active, lock >>
  BY DEF Edit, Move
<1>3. work' \in Jobs /\ StepOK' /\ events' \in 0..MaxEvents
  BY <1>1, <1>2, BeginKeeps
<1>. QED BY <1>2, <1>3 DEF TypeInv, TypeOK, LinksOK, Jobs

LEMMA DeleteKeeps ==
  ASSUME TypeInv, NEW w \in Worker, NEW l \in Lead, Delete(w, l)
  PROVE  TypeInv'
<1>. DEFINE j == NewJob(l, "unlink", None, "nothing")
<1>1. j \in Job
  BY NewJobIsTyped
<1>2. JobOK(j, bookings)
  BY DEF JobOK, NewJob
<1>3. work' \in Jobs /\ StepOK' /\ events' \in 0..MaxEvents
  BY <1>1, <1>2, BeginKeeps DEF Delete
<1>. QED BY <1>3 DEF Delete, TypeInv, TypeOK, LinksOK, Jobs

-----------------------------------------------------------------------------
(* The steps on the lead.                                                  *)

LEMMA RefuseOwnerKeeps ==
  ASSUME TypeInv, NEW w \in Worker, RefuseOwner(w)
  PROVE  TypeInv'
<1>1. lock' \in Worker \cup {None} /\ Becomes(w, Idle)
  BY DEF RefuseOwner, End, TypeInv, TypeOK
<1>. QED BY <1>1, QuietKeeps DEF RefuseOwner

LEMMA InsertLeadKeeps ==
  ASSUME TypeInv, NEW w \in Worker, InsertLead(w)
  PROVE  TypeInv'
<1>. DEFINE j == work[w]
            row == [j.new EXCEPT !.owner = j.user]
<1>1. j \in Job /\ JobOK(j, bookings) /\ j.step = "insertLead"
  BY Working DEF InsertLead, At
<1>2. lock' \in Worker \cup {None}
  BY UnlockedIsTyped DEF InsertLead
<1>3. CASE leads[j.lead] # None
  <2>1. Becomes(w, Idle) /\ UNCHANGED << leads, history >>
    BY <1>3 DEF InsertLead, End
  <2>. QED BY <2>1, <1>2, QuietKeeps DEF InsertLead
<1>4. CASE leads[j.lead] = None
  <2>1. /\ leads' = [leads EXCEPT ![j.lead] = row]
        /\ history' = IF j.user = None THEN history ELSE Recorded(w, j.user)
        /\ Becomes(w, [j EXCEPT !.step = "find"])
        /\ bookings' = bookings
    BY <1>4 DEF InsertLead, Goto
  <2>2. row \in LeadRow /\ row.booking = j.new.booking /\ Live(row.booking, bookings)
    BY <1>1 DEF JobOK, Job, LeadRow
  <2>3. leads' \in [Lead -> LeadRow \cup {None}] /\ LinksOK'
    BY <2>1, <2>2, <1>1 DEF TypeInv, TypeOK, LinksOK, Job
  <2>4. [user |-> j.user, auto |-> j.auto, choice |-> j.choice] \in Entry
    BY <1>1 DEF Entry, Job
  <2>5. history' \in Seq(Entry)
    BY <2>1, <2>4 DEF Recorded, TypeInv, TypeOK
  <2>6. work' \in Jobs /\ StepOK'
    BY <1>1, <2>1, GotoIsTyped, BecomesKeeps DEF Grows
  <2>. QED BY <1>2, <2>1, <2>3, <2>5, <2>6 DEF InsertLead, TypeInv, TypeOK, Jobs
<1>. QED BY <1>3, <1>4

\* What a save comes to: the lead is gone, or written.
LEMMA SaveEffect ==
  ASSUME TypeInv, NEW w \in Worker, Save(w)
  PROVE  \/ End(w) /\ UNCHANGED << leads, history >>
         \/ \E row \in LeadRow, owner \in Sales \cup {None} :
              /\ leads[work[w].lead] # None
              /\ row.booking = leads[work[w].lead].booking
              /\ leads' = [leads EXCEPT ![work[w].lead] = row]
              /\ owner = IF work[w].auto THEN work[w].user ELSE work[w].new.owner
              /\ history' = IF owner # work[w].was.owner THEN Recorded(w, owner) ELSE history
              /\ Goto(w, "find") \/ End(w)
<1>. DEFINE j == work[w]
            now == leads[j.lead]
            owner == IF j.auto THEN j.user ELSE j.new.owner
            moved == owner # j.was.owner
            row == [stage   |-> IF j.new.stage = j.was.stage THEN now.stage ELSE j.new.stage,
                    size    |-> IF j.new.size = j.was.size THEN now.size ELSE j.new.size,
                    owner   |-> IF moved THEN owner ELSE now.owner,
                    booking |-> now.booking]
<1>1. j \in Job /\ JobOK(j, bookings) /\ j.step = "save"
  BY Working DEF Save, At
<1>2. CASE now = None
  BY <1>2 DEF Save
<1>3. CASE now # None
  <2>1. now \in LeadRow /\ j.new \in LeadRow
    BY <1>1, <1>3 DEF TypeInv, TypeOK, Job, JobOK
  <2>2. owner \in Sales \cup {None}
    BY <1>1, <2>1 DEF Job, LeadRow
  <2>3. row \in LeadRow /\ row.booking = now.booking
    BY <2>1, <2>2 DEF LeadRow
  <2>4. /\ leads' = [leads EXCEPT ![j.lead] = row]
        /\ history' = IF moved THEN Recorded(w, owner) ELSE history
        /\ Goto(w, "find") \/ End(w)
    BY <1>3 DEF Save
  <2>. HIDE DEF row, owner
  <2>. QED BY <1>3, <2>2, <2>3, <2>4 DEF owner
<1>. QED BY <1>2, <1>3

LEMMA SaveKeeps ==
  ASSUME TypeInv, NEW w \in Worker, Save(w)
  PROVE  TypeInv'
<1>. DEFINE j == work[w]
<1>1. j \in Job /\ JobOK(j, bookings)
  BY Working DEF Save, At
<1>2. lock' \in Worker \cup {None} /\ UNCHANGED << bookings, active, events >>
  BY UnlockedIsTyped DEF Save
<1>3. CASE End(w) /\ UNCHANGED << leads, history >>
  BY <1>2, <1>3, QuietKeeps DEF End
<1>4. CASE ~(End(w) /\ UNCHANGED << leads, history >>)
  <2>1. PICK row \in LeadRow, owner \in Sales \cup {None} :
          /\ leads[j.lead] # None
          /\ row.booking = leads[j.lead].booking
          /\ leads' = [leads EXCEPT ![j.lead] = row]
          /\ history' = IF owner # j.was.owner THEN Recorded(w, owner) ELSE history
          /\ Goto(w, "find") \/ End(w)
    BY <1>4, SaveEffect
  <2>2. leads' \in [Lead -> LeadRow \cup {None}] /\ LinksOK'
    BY <1>1, <1>2, <2>1 DEF TypeInv, TypeOK, LinksOK, Job
  <2>3. [user |-> owner, auto |-> j.auto, choice |-> j.choice] \in Entry
    BY <1>1 DEF Entry, Job
  <2>4. history' \in Seq(Entry)
    BY <2>1, <2>3 DEF Recorded, TypeInv, TypeOK
  <2>5. Grows
    BY <1>2 DEF Grows
  <2>6. CASE Goto(w, "find")
    <3>1. work' \in Jobs /\ StepOK'
      BY <1>1, <1>2, <2>5, <2>6, GotoIsTyped, BecomesKeeps DEF Goto
    <3>. QED BY <1>2, <2>2, <2>4, <3>1 DEF TypeInv, TypeOK, Jobs
  <2>7. CASE End(w)
    <3>1. work' \in Jobs /\ StepOK'
      BY <2>5, <2>7, BecomesKeeps DEF End
    <3>. QED BY <1>2, <2>2, <2>4, <3>1 DEF TypeInv, TypeOK, Jobs
  <2>. QED BY <2>1, <2>6, <2>7
<1>. QED BY <1>3, <1>4

LEMMA UnlinkKeeps ==
  ASSUME TypeInv, NEW w \in Worker, Unlink(w)
  PROVE  TypeInv'
<1>. DEFINE j == [work[w] EXCEPT !.step = "remove", !.links = OfLead(work[w].lead)]
<1>1. work[w] \in Job /\ JobOK(work[w], bookings)
  BY Working DEF Unlink, At
<1>2. \A b \in OfLead(work[w].lead) : b \in 1..MaxBookings /\ bookings[b] \in BookingRow
  BY DEF OfLead, TypeInv, TypeOK
<1>3. j \in Job
  BY <1>1, <1>2 DEF Job
<1>4. JobOK(j, bookings)
  BY <1>1, <1>2 DEF JobOK, Job
<1>5. Becomes(w, j) /\ lock' \in Worker \cup {None}
  BY DEF Unlink, TypeInv, TypeOK
<1>. HIDE DEF j
<1>. QED BY <1>3, <1>4, <1>5, QuietKeeps DEF Unlink

LEMMA RemoveKeeps ==
  ASSUME TypeInv, NEW w \in Worker, Remove(w)
  PROVE  TypeInv'
<1>1. work[w] \in Job /\ JobOK(work[w], bookings) /\ work[w].step = "remove"
  BY Working DEF Remove, At
<1>2. Becomes(w, Idle) /\ UNCHANGED << history, active, lock, events >>
  BY DEF Remove, End
<1>3. \A b \in work[w].links : [bookings[b] EXCEPT !.lead = None] \in BookingRow
  BY <1>1 DEF JobOK, BookingRow
<1>4. /\ leads' \in [Lead -> LeadRow \cup {None}]
      /\ bookings' \in BookingTable
      /\ Grows
      /\ \A l \in Lead : leads'[l] # None => leads'[l] = leads[l]
  <2>1. CASE UNCHANGED << leads, bookings >>
    BY <2>1 DEF TypeInv, TypeOK, Grows, BookingTable
  <2>2. CASE ~UNCHANGED << leads, bookings >>
    <3>1. /\ leads' = [leads EXCEPT ![work[w].lead] = None]
          /\ bookings' = [b \in DOMAIN bookings |->
                 IF b \in work[w].links THEN [bookings[b] EXCEPT !.lead = None]
                                        ELSE bookings[b]]
      BY <2>2 DEF Remove
    <3>2. DOMAIN bookings = 1..MaxBookings /\ bookings \in BookingTable
      BY DEF TypeInv, TypeOK, BookingTable
    <3>3. bookings' \in BookingTable /\ Grows
      BY <1>3, <3>1, <3>2 DEF BookingTable, Grows
    <3>4. /\ leads' \in [Lead -> LeadRow \cup {None}]
          /\ \A l \in Lead : leads'[l] # None => leads'[l] = leads[l]
      BY <3>1, <1>1 DEF TypeInv, TypeOK, Job
    <3>. QED BY <3>3, <3>4
  <2>. QED BY <2>1, <2>2
<1>5. work' \in Jobs /\ StepOK'
  BY <1>2, <1>4, BecomesKeeps
<1>6. LinksOK'
  BY <1>4 DEF TypeInv, TypeOK, LinksOK, Live, Grows, LeadRow
<1>. QED BY <1>2, <1>4, <1>5, <1>6 DEF TypeInv, TypeOK, Jobs, BookingTable

-----------------------------------------------------------------------------
(* The booking of a lead.                                                  *)

LEMMA ExistingIsLive ==
  ASSUME TypeInv, NEW l \in Lead, NEW b \in Newest(Existing(l))
  PROVE  b \in 1..MaxBookings /\ bookings[b] \in BookingRow
BY DEF Newest, Existing, OfLead, OfTraveler, TypeInv, TypeOK

LEMMA FindKeeps ==
  ASSUME TypeInv, NEW w \in Worker, Find(w)
  PROVE  TypeInv'
<1>. DEFINE l == work[w].lead
<1>1. work[w] \in Job /\ JobOK(work[w], bookings) /\ work[w] # Idle
  BY Working DEF Find, At
<1>2. PICK j \in Job \cup {Idle} : Becomes(w, j) /\ (j # Idle => JobOK(j, bookings))
  <2>1. CASE leads[l] = None
    BY <2>1 DEF Find, End
  <2>2. CASE Resizing(w)
    BY <1>1, <2>2, ResizingEffect
  <2>3. CASE leads[l] # None /\ ~Resizing(w) /\ Existing(l) = {}
    <3>1. Becomes(w, [work[w] EXCEPT !.step = "number", !.new = leads[l]])
      BY <2>3 DEF Find
    <3>2. leads[l] \in LeadRow /\ Live(leads[l].booking, bookings)
      BY <1>1, <2>3 DEF TypeInv, TypeOK, LinksOK, Job
    <3>3. [work[w] EXCEPT !.step = "number", !.new = leads[l]] \in Job
      BY <1>1, <3>2 DEF Job
    <3>4. JobOK([work[w] EXCEPT !.step = "number", !.new = leads[l]], bookings)
      BY <1>1, <3>2 DEF Job, JobOK
    <3>. QED BY <3>1, <3>3, <3>4
  <2>4. CASE leads[l] # None /\ ~Resizing(w) /\ Existing(l) # {}
    <3>1. PICK b \in Newest(Existing(l)) :
            Becomes(w, [work[w] EXCEPT !.step = "link", !.id = b])
      BY <2>4 DEF Find
    <3>2. b \in 1..MaxBookings /\ bookings[b] \in BookingRow
      BY <1>1, ExistingIsLive DEF Job
    <3>3. [work[w] EXCEPT !.step = "link", !.id = b] \in Job
      BY <1>1, <3>2 DEF Job
    <3>4. JobOK([work[w] EXCEPT !.step = "link", !.id = b], bookings)
      BY <1>1, <3>2, NoneIsNoData DEF Job, JobOK
    <3>. QED BY <3>1, <3>3, <3>4
  <2>. QED BY <2>1, <2>2, <2>3, <2>4
<1>3. lock' \in Worker \cup {None} /\ UNCHANGED << leads, bookings, history, active, events >>
  BY DEF Find, TypeInv, TypeOK
<1>. QED BY <1>2, <1>3, QuietKeeps

LEMMA LinkKeeps ==
  ASSUME TypeInv, NEW w \in Worker, Link(w)
  PROVE  TypeInv'
<1>1. /\ work[w] \in Job /\ JobOK(work[w], bookings) /\ work[w] # Idle
      /\ work[w].step = "link" /\ UNCHANGED << bookings, history, active, lock, events >>
  BY Working DEF Link, At
<1>2. Grows
  BY <1>1 DEF Grows
<1>3. PICK j \in Job \cup {Idle} : Becomes(w, j) /\ (j # Idle => JobOK(j, bookings))
  <2>1. CASE Resizing(w)
    BY <1>1, <2>1, ResizingEffect
  <2>. QED BY <2>1 DEF Link, End
<1>4. work' \in Jobs /\ StepOK'
  BY <1>1, <1>2, <1>3, BecomesKeeps
<1>5. leads' \in [Lead -> LeadRow \cup {None}] /\ LinksOK'
  <2>1. CASE leads[work[w].lead] = None
    BY <1>1, <2>1 DEF Link, TypeInv, TypeOK, LinksOK
  <2>2. CASE leads[work[w].lead] # None
    <3>. DEFINE row == [leads[work[w].lead] EXCEPT !.booking = work[w].id]
    <3>1. leads[work[w].lead] \in LeadRow /\ work[w].id \in 1..MaxBookings
      BY <1>1, <2>2 DEF TypeInv, TypeOK, Job, JobOK
    <3>2. row \in LeadRow /\ row.booking = work[w].id
      BY <3>1 DEF LeadRow
    <3>3. Live(row.booking, bookings')
      BY <1>1, <3>2 DEF JobOK, Live
    <3>4. leads' = [leads EXCEPT ![work[w].lead] = row]
      BY <2>2 DEF Link
    <3>. HIDE DEF row
    <3>. QED BY <1>1, <3>2, <3>3, <3>4 DEF TypeInv, TypeOK, LinksOK, Job
  <2>. QED BY <2>1, <2>2
<1>. QED BY <1>1, <1>4, <1>5 DEF TypeInv, TypeOK, Jobs

LEMMA NumberKeeps ==
  ASSUME TypeInv, NEW w \in Worker, Number(w)
  PROVE  TypeInv'
<1>1. work[w] \in Job /\ JobOK(work[w], bookings) /\ work[w].step = "number"
  BY Working DEF Number, At
<1>2. PICK b \in 1..MaxBookings : Becomes(w, [work[w] EXCEPT !.step = "owner", !.id = b])
  BY DEF Number, TypeInv, TypeOK
<1>. DEFINE j == [work[w] EXCEPT !.step = "owner", !.id = b]
<1>3. j \in Job
  BY <1>1 DEF Job
<1>4. JobOK(j, bookings)
  BY <1>1, NoneIsNoData DEF Job, JobOK
<1>5. lock' \in Worker \cup {None}
  BY DEF Number, TypeInv, TypeOK
<1>. HIDE DEF j
<1>. QED BY <1>2, <1>3, <1>4, <1>5, QuietKeeps DEF j, Number

LEMMA OwnerKeeps ==
  ASSUME TypeInv, NEW w \in Worker, Owner(w)
  PROVE  TypeInv'
<1>. DEFINE u == work[w].new.owner
<1>1. work[w] \in Job /\ JobOK(work[w], bookings) /\ work[w].step = "owner"
  BY Working DEF Owner, At
<1>2. PICK j \in Job \cup {Idle} : Becomes(w, j) /\ (j # Idle => JobOK(j, bookings))
  <2>1. CASE u = None
    <3>1. Goto(w, "flush")
      BY <2>1 DEF Owner
    <3>. QED BY <1>1, <3>1, GotoIsTyped DEF Goto, JobOK
  <2>2. CASE u # None /\ u \notin active
    BY <2>2 DEF Owner, End
  <2>3. CASE u # None /\ u \in active
    <3>. DEFINE j == [work[w] EXCEPT !.step = "insert", !.user = u, !.auto = FALSE,
                                     !.choice = FALSE]
    <3>1. Becomes(w, j)
      BY <2>3 DEF Owner
    <3>2. j \in Job
      BY <1>1, <2>3 DEF Job, TypeInv, TypeOK
    <3>3. JobOK(j, bookings)
      BY <1>1 DEF Job, JobOK
    <3>. QED BY <3>1, <3>2, <3>3
  <2>. QED BY <2>1, <2>2, <2>3
<1>3. lock' \in Worker \cup {None} /\ UNCHANGED << leads, bookings, history, active, events >>
  BY DEF Owner, TypeInv, TypeOK
<1>. QED BY <1>2, <1>3, QuietKeeps

LEMMA FlushKeeps ==
  ASSUME TypeInv, NEW w \in Worker, Flush(w)
  PROVE  TypeInv'
<1>1. work[w] \in Job /\ JobOK(work[w], bookings) /\ work[w].step = "flush"
  BY Working DEF Flush, At
<1>. DEFINE j == [work[w] EXCEPT !.step = "rotate", !.auto = TRUE]
<1>2. j \in Job
  BY <1>1 DEF Job
<1>3. JobOK(j, bookings)
  BY <1>1 DEF Job, JobOK
<1>4. Becomes(w, j) \/ Becomes(w, Idle)
  BY DEF Flush, End
<1>5. lock' \in Worker \cup {None} /\ UNCHANGED << leads, bookings, history, active, events >>
  BY DEF Flush, TypeInv, TypeOK
<1>. HIDE DEF j
<1>. QED BY <1>2, <1>3, <1>4, <1>5, QuietKeeps

LEMMA InsertKeeps ==
  ASSUME TypeInv, NEW w \in Worker, Insert(w)
  PROVE  TypeInv'
<1>. DEFINE j == work[w]
            row == [lead |-> j.lead, of |-> TravelerOf[j.lead], status |-> "Active",
                    size |-> j.new.size, owner |-> j.user]
            linked == [leads[j.lead] EXCEPT !.booking = j.id]
<1>1. /\ j \in Job /\ JobOK(j, bookings) /\ j # Idle
      /\ j.step = "insert" /\ UNCHANGED << active, events >>
  BY Working DEF Insert, At
<1>2. lock' \in Worker \cup {None}
  BY UnlockedIsTyped DEF Insert
<1>3. PICK k \in Job \cup {Idle} : Becomes(w, k) /\ (k # Idle => JobOK(k, bookings))
  <2>1. CASE Resizing(w)
    BY <1>1, <2>1, ResizingEffect
  <2>2. CASE End(w)
    BY <2>2 DEF End
  <2>3. Resizing(w) \/ End(w)
    BY DEF Insert
  <2>. QED BY <2>1, <2>2, <2>3
<1>4. CASE UNCHANGED << leads, bookings, history >>
  BY <1>1, <1>2, <1>3, <1>4, QuietKeeps
<1>5. CASE ~UNCHANGED << leads, bookings, history >>
  <2>1. /\ leads[j.lead] # None
        /\ bookings' = [bookings EXCEPT ![j.id] = row]
        /\ leads' = [leads EXCEPT ![j.lead] = linked]
        /\ history' = IF j.user = None THEN history ELSE Recorded(w, j.user)
    BY <1>5 DEF Insert
  <2>2. row \in BookingRow /\ j.id \in 1..MaxBookings
    <3>1. j.lead \in Lead /\ j.new.size \in Size /\ j.user \in Sales \cup {None}
      BY <1>1 DEF Job, JobOK, LeadRow
    <3>2. j.id \in 1..MaxBookings
      BY <1>1 DEF Job, JobOK
    <3>. QED BY <3>1, <3>2 DEF BookingRow, Status
  <2>3. linked \in LeadRow /\ linked.booking = j.id
    BY <1>1, <2>1, <2>2 DEF TypeInv, TypeOK, LeadRow, Job
  <2>. HIDE DEF row, linked
  <2>4. bookings' \in BookingTable /\ Grows /\ bookings'[j.id] \in BookingRow
    BY <2>1, <2>2 DEF TypeInv, TypeOK, BookingTable, Grows
  <2>5. leads' \in [Lead -> LeadRow \cup {None}]
    BY <1>1, <2>1, <2>3 DEF TypeInv, TypeOK, Job
  <2>6. LinksOK'
    <3>. SUFFICES ASSUME NEW l \in Lead, leads'[l] # None PROVE Live(leads'[l].booking, bookings')
      BY DEF LinksOK
    <3>1. CASE l = j.lead
      BY <1>1, <2>1, <2>3, <2>4, <3>1 DEF TypeInv, TypeOK, Live, Job
    <3>2. CASE l # j.lead
      <4>1. leads'[l] = leads[l] /\ leads[l] \in LeadRow
        BY <2>1, <3>2 DEF TypeInv, TypeOK
      <4>. QED BY <2>4, <4>1 DEF TypeInv, LinksOK, Live, Grows, LeadRow
    <3>. QED BY <3>1, <3>2
  <2>7. [user |-> j.user, auto |-> j.auto, choice |-> j.choice] \in Entry
    BY <1>1 DEF Entry, Job
  <2>8. history' \in Seq(Entry)
    BY <2>1, <2>7 DEF Recorded, TypeInv, TypeOK
  <2>9. work' \in Jobs /\ StepOK'
    BY <1>3, <2>4, JobGrows, BecomesKeeps
  <2>. QED BY <1>1, <1>2, <2>4, <2>5, <2>6, <2>8, <2>9 DEF TypeInv, TypeOK, Jobs, BookingTable
<1>. QED BY <1>4, <1>5

LEMMA BookingOfIsLive ==
  ASSUME TypeInv, NEW l \in Lead, leads[l] # None, NEW b \in Newest(BookingOf(l))
  PROVE  b \in 1..MaxBookings /\ bookings[b] \in BookingRow
<1>1. leads[l] \in LeadRow /\ Live(leads[l].booking, bookings)
  BY DEF TypeInv, TypeOK, LinksOK
<1>2. \A c \in OfLead(l) : c \in 1..MaxBookings /\ bookings[c] \in BookingRow
  BY DEF OfLead, TypeInv, TypeOK
<1>. QED BY <1>1, <1>2 DEF Newest, BookingOf, Live, LeadRow

LEMMA MeasureKeeps ==
  ASSUME TypeInv, NEW w \in Worker, Measure(w)
  PROVE  TypeInv'
<1>. DEFINE l == work[w].lead
<1>1. work[w] \in Job /\ JobOK(work[w], bookings) /\ work[w].step = "measure"
  BY Working DEF Measure, At
<1>2. PICK j \in Job \cup {Idle} : Becomes(w, j) /\ (j # Idle => JobOK(j, bookings))
  <2>1. CASE Becomes(w, Idle)
    BY <2>1
  <2>2. CASE ~Becomes(w, Idle)
    <3>1. leads[l] # None
      BY <2>2 DEF Measure, End
    <3>2. PICK b \in Newest(BookingOf(l)) :
            Becomes(w, [work[w] EXCEPT !.step = "resize", !.id = b, !.new = leads[l]])
      BY <2>2 DEF Measure, End
    <3>3. b \in 1..MaxBookings /\ bookings[b] \in BookingRow
      BY <1>1, <3>1, BookingOfIsLive DEF Job
    <3>4. leads[l] \in LeadRow /\ Live(leads[l].booking, bookings)
      BY <1>1, <3>1 DEF TypeInv, TypeOK, LinksOK, Job
    <3>. DEFINE j == [work[w] EXCEPT !.step = "resize", !.id = b, !.new = leads[l]]
    <3>5. j \in Job
      BY <1>1, <3>3, <3>4 DEF Job
    <3>6. JobOK(j, bookings)
      BY <1>1, <3>3, <3>4, NoneIsNoData DEF Job, JobOK
    <3>. QED BY <3>2, <3>5, <3>6
  <2>. QED BY <2>1, <2>2
<1>3. lock' \in Worker \cup {None} /\ UNCHANGED << leads, bookings, history, active, events >>
  BY DEF Measure, TypeInv, TypeOK
<1>. QED BY <1>2, <1>3, QuietKeeps

\* A booking that is changed.
LEMMA ChangedBooking ==
  ASSUME TypeInv, NEW b \in 1..MaxBookings, NEW row \in BookingRow,
         bookings' = [bookings EXCEPT ![b] = row], leads' = leads
  PROVE  bookings' \in BookingTable /\ Grows /\ LinksOK'
<1>1. bookings' \in BookingTable /\ Grows
  BY DEF TypeInv, TypeOK, BookingTable, Grows
<1>2. LinksOK'
  BY <1>1 DEF TypeInv, TypeOK, LinksOK, Live, Grows, LeadRow
<1>. QED BY <1>1, <1>2

LEMMA ResizeKeeps ==
  ASSUME TypeInv, NEW w \in Worker, Resize(w)
  PROVE  TypeInv'
<1>1. work[w] \in Job /\ JobOK(work[w], bookings) /\ work[w].step = "resize"
  BY Working DEF Resize, At
<1>2. /\ work[w].id \in 1..MaxBookings
      /\ [bookings[work[w].id] EXCEPT !.size = work[w].new.size] \in BookingRow
  BY <1>1 DEF JobOK, Job, BookingRow, LeadRow
<1>3. bookings' \in BookingTable /\ Grows /\ LinksOK'
  BY <1>2, ChangedBooking DEF Resize
<1>4. work' \in Jobs /\ StepOK'
  BY <1>3, BecomesKeeps DEF Resize, End
<1>. QED BY <1>3, <1>4 DEF Resize, TypeInv, TypeOK, Jobs, BookingTable

-----------------------------------------------------------------------------
(* The staff, the database, and the theorem.                               *)

LEMMA SetStatusKeeps ==
  ASSUME TypeInv, NEW b \in 1..MaxBookings, NEW st \in Status, SetStatus(b, st)
  PROVE  TypeInv'
<1>1. [bookings[b] EXCEPT !.status = st] \in BookingRow
  BY DEF SetStatus, TypeInv, TypeOK, BookingRow
<1>2. bookings' \in BookingTable /\ Grows /\ LinksOK'
  BY <1>1, ChangedBooking DEF SetStatus
<1>3. StepOK'
  BY <1>2, JobGrows DEF SetStatus, StepOK, TypeInv, TypeOK
<1>. QED BY <1>2, <1>3, BoundsAssumption DEF SetStatus, TypeInv, TypeOK, BookingTable

LEMMA ToggleKeeps ==
  ASSUME TypeInv, NEW u \in Sales, Toggle(u)
  PROVE  TypeInv'
BY BoundsAssumption DEF Toggle, TypeInv, TypeOK, StepOK, LinksOK

LEMMA AbortKeeps ==
  ASSUME TypeInv, NEW v \in Worker, NEW w \in Worker, Abort(v, w)
  PROVE  TypeInv'
<1>1. lock' \in Worker \cup {None} /\ UNCHANGED << leads, bookings, history, active, events >>
  BY DEF Abort, TypeInv, TypeOK
<1>2. Becomes(v, Idle) \/ Becomes(w, Idle)
  BY DEF Abort, End
<1>. QED BY <1>1, <1>2, QuietKeeps

LEMMA StutterKeeps ==
  ASSUME TypeInv, UNCHANGED vars
  PROVE  TypeInv'
BY DEF vars, TypeInv, TypeOK, StepOK, LinksOK

LEMMA InitIsTyped == Init => TypeInv
<1>. SUFFICES ASSUME Init PROVE TypeInv
  OBVIOUS
<1>1. leads \in [Lead -> LeadRow \cup {None}] /\ LinksOK
  BY DEF Init, LinksOK
<1>2. work \in [Worker -> Job \cup {Idle}] /\ StepOK
  BY DEF Init, StepOK
<1>. QED BY <1>1, <1>2, BoundsAssumption DEF Init, TypeInv, TypeOK

LEMMA NextKeepsTypes == TypeInv /\ [Next]_vars => TypeInv'
<1>. SUFFICES ASSUME TypeInv, [Next]_vars PROVE TypeInv'
  OBVIOUS
<1>1. ASSUME NEW w \in Worker, Continue(w) PROVE TypeInv'
  BY <1>1, RotateKeeps, InsertLeadKeeps, RefuseOwnerKeeps, SaveKeeps, UnlinkKeeps, RemoveKeeps, FindKeeps,
     LinkKeeps, NumberKeeps, OwnerKeeps, FlushKeeps, InsertKeeps, MeasureKeeps, ResizeKeeps
     DEF Continue
<1>2. ASSUME NEW w \in Worker, NEW l \in Lead, Start(w, l) PROVE TypeInv'
  BY <1>2, CreateByAgentKeeps, CreateByHandKeeps, EditKeeps, DeleteKeeps DEF Start
<1>3. ASSUME NEW v \in Worker, NEW w \in Worker, Abort(v, w) PROVE TypeInv'
  BY <1>3, AbortKeeps
<1>4. ASSUME NEW b \in 1..MaxBookings, NEW st \in Status, SetStatus(b, st) PROVE TypeInv'
  BY <1>4, SetStatusKeeps
<1>5. ASSUME NEW u \in Sales, Toggle(u) PROVE TypeInv'
  BY <1>5, ToggleKeeps
<1>. QED BY <1>1, <1>2, <1>3, <1>4, <1>5, StutterKeeps DEF Next

LEMMA TypesHold == Spec => []TypeInv
BY InitIsTyped, NextKeepsTypes, PTL DEF Spec

\* The tables, the rotation and the requests keep their types whatever the
\* workers do at the same time (leads.py, booking_automation.py, assignments.py).
THEOREM TypeCorrect == Spec => []TypeOK
<1>1. TypeInv => TypeOK
  BY DEF TypeInv
<1>. QED BY <1>1, TypesHold, PTL

-----------------------------------------------------------------------------
(* The rotation alternates.  The invariant: who was chosen by the rotation *)
(* and is not recorded yet was chosen under the lock, and is still not the *)
(* one who was recorded last.                                              *)

Choosing(j) == j # Idle /\ j.auto /\ j.step \in {"insertLead", "save", "insert"}

LastAuto == history # << >> /\ history[Len(history)].auto

Fresh(j) == (LastAuto /\ j.choice) => history[Len(history)].user # j.user

RotationOK ==
  \A w \in Worker :
    (Choosing(work[w]) /\ work[w].user # None) => lock = w /\ Fresh(work[w])

RotationInv == TypeInv /\ RotationOK /\ AutoAlternates

\* next_round_robin_sales_assignee: whoever it turns to is not the last one, if
\* there is another.
LEMMA NextIsAnother ==
  ASSUME TypeInv, history # << >>, Cardinality(active) > 1, NEW u \in NextSales
  PROVE  u # history[Len(history)].user
<1>. DEFINE x == history[Len(history)].user
            is == {i \in DOMAIN history : history[i].user \in active}
<1>1. history \in Seq(Entry) /\ active \subseteq Sales /\ u \in active
  BY NextSalesIsActive DEF TypeInv, TypeOK
<1>2. Len(history) \in Nat \ {0} /\ DOMAIN history = 1..Len(history)
  BY <1>1
<1>3. CASE x \notin active
  BY <1>1, <1>3
<1>4. CASE x \in active
  <2>1. Len(history) \in is /\ \A j \in is : j <= Len(history)
    BY <1>2, <1>4
  <2>2. (CHOOSE i \in is : \A j \in is : j <= i) = Len(history)
    <3>1. \A i \in is : (\A j \in is : j <= i) => i = Len(history)
      BY <1>2, <2>1
    <3>. QED BY <2>1, <3>1
  <2>3. LastAssigned = x
    BY <2>1, <2>2 DEF LastAssigned
  <2>4. \A v \in active : v \in Nat
    BY <1>1, NSalesAssumption DEF Sales
  <2>5. CASE {v \in active : v > x} # {}
    BY <1>4, <2>3, <2>4, <2>5 DEF NextSales
  <2>6. CASE {v \in active : v > x} = {}
    <3>1. SUFFICES ASSUME u = x PROVE FALSE
      OBVIOUS
    <3>2. \A v \in active : u <= v
      BY <2>3, <2>6 DEF NextSales
    <3>3. \A v \in active : v = u
      BY <2>4, <2>6, <1>1, <3>1, <3>2
    <3>4. active = {u}
      BY <1>1, <3>3
    <3>5. Cardinality({u}) = 1
      BY FS_Singleton, Zenon
    <3>. QED BY <3>4, <3>5
  <2>. QED BY <2>5, <2>6
<1>. QED BY <1>3, <1>4

LEMMA RotateAlternates ==
  ASSUME RotationInv, NEW w \in Worker, Rotate(w)
  PROVE  RotationOK' /\ AutoAlternates'
<1>1. history' = history /\ AutoAlternates'
  BY DEF Rotate, RotationInv, AutoAlternates
<1>2. work[w] \in Job /\ work \in Jobs /\ lock \in Worker \cup {None}
  BY Working DEF Rotate, At, RotationInv, TypeInv, TypeOK, Jobs
<1>3. PICK u \in IF active = {} THEN {None} ELSE NextSales :
        Becomes(w, [work[w] EXCEPT !.step = AfterRotation(w), !.user = u,
                                   !.choice = Cardinality(active) > 1])
  BY DEF Rotate
<1>. DEFINE j == [work[w] EXCEPT !.step = AfterRotation(w), !.user = u,
                                 !.choice = Cardinality(active) > 1]
<1>4. j.user = u /\ j.choice = (Cardinality(active) > 1)
  BY <1>2 DEF Job
<1>5. work'[w] = j /\ \A v \in Worker : v # w => work'[v] = work[v]
  BY <1>2, <1>3 DEF Becomes, Jobs
<1>. HIDE DEF j
<1>6. CASE active = {}
  BY <1>1, <1>4, <1>5, <1>6, <1>3 DEF Rotate, RotationInv, RotationOK, Fresh, LastAuto
<1>7. CASE active # {}
  <2>1. lock = None /\ lock' = w
    BY <1>7 DEF Rotate
  <2>2. \A v \in Worker : v # w => ~(Choosing(work[v]) /\ work[v].user # None)
    BY <2>1, NoneIsNoData DEF RotationInv, RotationOK
  <2>3. (LastAuto /\ j.choice) => history[Len(history)].user # j.user
    BY <1>3, <1>4, <1>7, NextIsAnother DEF LastAuto, RotationInv
  <2>. QED BY <1>1, <1>5, <2>1, <2>2, <2>3 DEF RotationOK, Fresh, LastAuto
<1>. QED BY <1>1, <1>6, <1>7

\* A step of a worker the rotation has no part in, or not any more.
LEMMA OthersStayFresh ==
  ASSUME RotationInv, NEW w \in Worker, NEW j, Becomes(w, j), ~Choosing(j),
         \A v \in Worker \ {w} : lock = v =>
            lock' = v /\ (history' = history \/ ~LastAuto')
  PROVE  RotationOK'
<1>. SUFFICES ASSUME NEW v \in Worker, Choosing(work[v])', work[v].user' # None
             PROVE  lock' = v /\ Fresh(work[v])'
  BY DEF RotationOK
<1>1. v # w /\ work'[v] = work[v]
  BY DEF Becomes, RotationInv, TypeInv, TypeOK
<1>2. lock = v /\ Fresh(work[v])
  BY <1>1 DEF RotationInv, RotationOK, Choosing
<1>3. lock' = v /\ (history' = history \/ ~LastAuto')
  BY <1>1, <1>2
<1>. QED BY <1>1, <1>2, <1>3 DEF Fresh, LastAuto

LEMMA BeginAlternates ==
  ASSUME RotationInv, NEW w \in Worker, NEW j, Begin(w, j), ~Choosing(j),
         UNCHANGED << history, lock >>
  PROVE  RotationOK' /\ AutoAlternates'
<1>1. AutoAlternates'
  BY DEF RotationInv, AutoAlternates
<1>2. RotationOK'
  <2>. SUFFICES ASSUME NEW v \in Worker, Choosing(work[v])', work[v].user' # None
               PROVE  lock' = v /\ Fresh(work[v])'
    BY DEF RotationOK
  <2>1. v # w /\ work[v] # Idle /\ work'[v] = [work[v] EXCEPT !.shared = TRUE]
    BY DEF Begin, Choosing
  <2>2. work[v] \in Job
    BY <2>1 DEF RotationInv, TypeInv, TypeOK
  <2>3. Choosing(work[v]) /\ work[v].user # None /\ work'[v].choice = work[v].choice
        /\ work'[v].user = work[v].user
    BY <2>1, <2>2 DEF Choosing, Job
  <2>4. lock = v /\ Fresh(work[v])
    BY <2>3 DEF RotationInv, RotationOK
  <2>. QED BY <2>3, <2>4 DEF Fresh, LastAuto
<1>. QED BY <1>1, <1>2

\* What the writers of the history do: a choice of the rotation is recorded as
\* it was made, and only if somebody was chosen.
LEMMA WriterEffect ==
  ASSUME TypeInv, NEW w \in Worker, InsertLead(w) \/ Save(w) \/ Insert(w)
  PROVE  /\ work[w] \in Job
         /\ work[w].step \in {"insertLead", "save", "insert"}
         /\ lock' = Unlocked(w)
         /\ \E j \in Job \cup {Idle} : Becomes(w, j) /\ ~Choosing(j)
         /\ \/ history' = history
            \/ \E user \in Sales \cup {None} :
                 /\ history' = Recorded(w, user)
                 /\ work[w].auto => user = work[w].user /\ user # None
<1>1. /\ work[w] \in Job /\ JobOK(work[w], bookings) /\ work[w] # Idle
      /\ work[w].step \in {"insertLead", "save", "insert"} /\ lock' = Unlocked(w)
  BY Working DEF InsertLead, Save, Insert, At
<1>2. \E j \in Job \cup {Idle} : Becomes(w, j) /\ ~Choosing(j)
  <2>1. End(w) \/ Goto(w, "find") \/ Resizing(w)
    <3>1. CASE InsertLead(w)
      BY <3>1 DEF InsertLead
    <3>2. CASE Save(w)
      BY <3>2, SaveEffect
    <3>3. CASE Insert(w)
      BY <3>3 DEF Insert
    <3>. QED BY <3>1, <3>2, <3>3
  <2>2. CASE End(w)
    BY <2>2 DEF End, Choosing
  <2>3. ASSUME NEW st \in {"find", "measure"}, Goto(w, st)
        PROVE  \E j \in Job \cup {Idle} : Becomes(w, j) /\ ~Choosing(j)
    <3>1. [work[w] EXCEPT !.step = st] \in Job
      BY <1>1, GotoIsTyped
    <3>2. [work[w] EXCEPT !.step = st].step = st
      BY <1>1 DEF Job
    <3>. QED BY <2>3, <3>1, <3>2 DEF Goto, Choosing
  <2>4. Resizing(w) => Goto(w, "measure") \/ End(w)
    BY DEF Resizing
  <2>. QED BY <2>1, <2>2, <2>3, <2>4
<1>3. \/ history' = history
      \/ \E user \in Sales \cup {None} :
           /\ history' = Recorded(w, user)
           /\ work[w].auto => user = work[w].user /\ user # None
  <2>1. CASE InsertLead(w) \/ Insert(w)
    <3>1. history' = history \/ (history' = Recorded(w, work[w].user) /\ work[w].user # None)
      BY <2>1 DEF InsertLead, Insert
    <3>2. work[w].user \in Sales \cup {None}
      BY <1>1 DEF Job
    <3>. QED BY <3>1, <3>2
  <2>2. CASE Save(w)
    <3>1. CASE UNCHANGED history
      BY <3>1
    <3>2. CASE ~UNCHANGED history
      <4>1. PICK owner \in Sales \cup {None} :
              /\ owner = IF work[w].auto THEN work[w].user ELSE work[w].new.owner
              /\ history' = IF owner # work[w].was.owner THEN Recorded(w, owner) ELSE history
        BY <2>2, <3>2, SaveEffect
      <4>2. work[w].auto => work[w].was.owner = None
        BY <1>1, <2>2 DEF JobOK, Save, At
      <4>. QED BY <3>2, <4>1, <4>2
    <3>. QED BY <3>1, <3>2
  <2>. QED BY <2>1, <2>2
<1>. QED BY <1>1, <1>2, <1>3

LEMMA WriterAlternates ==
  ASSUME RotationInv, NEW w \in Worker, InsertLead(w) \/ Save(w) \/ Insert(w)
  PROVE  RotationOK' /\ AutoAlternates'
<1>1. /\ TypeInv /\ history \in Seq(Entry) /\ work[w] \in Job
      /\ lock' = Unlocked(w) /\ work[w] # Idle
  BY WriterEffect, NoneIsNoData DEF RotationInv, TypeInv, TypeOK
<1>2. PICK j \in Job \cup {Idle} : Becomes(w, j) /\ ~Choosing(j)
  BY <1>1, WriterEffect
<1>3. \A v \in Worker \ {w} : lock = v => lock' = v
  BY <1>1 DEF Unlocked
<1>4. CASE history' = history
  <2>1. RotationOK'
    BY <1>2, <1>3, <1>4, OthersStayFresh
  <2>. QED BY <1>4, <2>1 DEF RotationInv, AutoAlternates
<1>5. CASE history' # history
  <2>1. PICK user \in Sales \cup {None} :
          /\ history' = Recorded(w, user)
          /\ work[w].auto => user = work[w].user /\ user # None
    BY <1>1, <1>5, WriterEffect
  <2>. DEFINE e == [user |-> user, auto |-> work[w].auto, choice |-> work[w].choice]
  <2>2. e \in Entry
    BY <1>1 DEF Entry, Job
  <2>3. /\ history' = Append(history, e) /\ Len(history') = Len(history) + 1
        /\ history'[Len(history')] = e
        /\ \A i \in 1..Len(history) : history'[i] = history[i]
    BY <1>1, <2>1, <2>2 DEF Recorded
  <2>4. work[w].auto => lock = w /\ Fresh(work[w])
    BY <1>1, <2>1, WriterEffect DEF RotationInv, RotationOK, Choosing
  <2>5. RotationOK'
    <3>1. \A v \in Worker \ {w} : lock = v => ~LastAuto'
      BY <2>3, <2>4 DEF LastAuto
    <3>. QED BY <1>2, <1>3, <3>1, OthersStayFresh
  <2>6. (LastAuto /\ e.auto /\ e.choice) => history[Len(history)].user # e.user
    BY <2>1, <2>4 DEF Fresh
  <2>. HIDE DEF e
  <2>7. AutoAlternates'
    <3>1. Len(history) \in Nat /\ Len(history') - 1 = Len(history)
      BY <1>1, <2>3
    <3>. SUFFICES ASSUME NEW i \in 1..(Len(history') - 1), history'[i].auto,
                         history'[i + 1].auto, history'[i + 1].choice
                 PROVE  history'[i].user # history'[i + 1].user
      BY DEF AutoAlternates
    <3>2. CASE i = Len(history)
      BY <2>3, <2>6, <3>1, <3>2 DEF LastAuto
    <3>3. CASE i # Len(history)
      <4>1. i \in 1..(Len(history) - 1) /\ i + 1 \in 1..Len(history)
        BY <3>1, <3>3
      <4>. QED BY <2>3, <4>1 DEF RotationInv, AutoAlternates
    <3>. QED BY <3>2, <3>3
  <2>. QED BY <2>5, <2>7
<1>. QED BY <1>4, <1>5

\* The other steps choose nobody.
NobodyChosen(w) == \E j : Becomes(w, j) /\ ~Choosing(j)

LEMMA StepsWithoutChoice ==
  ASSUME NEW w, work[w] \in Job,
         \/ End(w) \/ Resizing(w) \/ Unlink(w) \/ Number(w) \/ Flush(w) \/ Measure(w)
  PROVE  NobodyChosen(w)
<1>1. CASE End(w)
  BY <1>1 DEF End, Choosing, NobodyChosen
<1>2. CASE Goto(w, "measure")
  <2>1. [work[w] EXCEPT !.step = "measure"].step = "measure"
    BY DEF Job
  <2>. QED BY <1>2, <2>1 DEF Goto, Choosing, NobodyChosen
<1>3. CASE Unlink(w)
  <2>. DEFINE j == [work[w] EXCEPT !.step = "remove", !.links = OfLead(work[w].lead)]
  <2>1. Becomes(w, j)
    BY <1>3 DEF Unlink
  <2>2. j.step = "remove"
    BY DEF Job
  <2>. HIDE DEF j
  <2>. QED BY <2>1, <2>2 DEF Choosing, NobodyChosen
<1>4. CASE Number(w)
  <2>1. PICK b : Becomes(w, [work[w] EXCEPT !.step = "owner", !.id = b])
    BY <1>4 DEF Number
  <2>2. [work[w] EXCEPT !.step = "owner", !.id = b].step = "owner"
    BY DEF Job
  <2>. QED BY <2>1, <2>2 DEF Choosing, NobodyChosen
<1>5. CASE Flush(w) /\ ~End(w)
  <2>1. Becomes(w, [work[w] EXCEPT !.step = "rotate", !.auto = TRUE])
    BY <1>5 DEF Flush
  <2>2. [work[w] EXCEPT !.step = "rotate", !.auto = TRUE].step = "rotate"
    BY DEF Job
  <2>. QED BY <2>1, <2>2 DEF Choosing, NobodyChosen
<1>6. CASE Measure(w) /\ ~End(w)
  <2>1. PICK b : Becomes(w, [work[w] EXCEPT !.step = "resize", !.id = b,
                                            !.new = leads[work[w].lead]])
    BY <1>6 DEF Measure
  <2>. DEFINE j == [work[w] EXCEPT !.step = "resize", !.id = b,
                                   !.new = leads[work[w].lead]]
  <2>2. j.step = "resize"
    BY DEF Job
  <2>. HIDE DEF j
  <2>. QED BY <2>1, <2>2 DEF Choosing, NobodyChosen, j
<1>7. Resizing(w) => Goto(w, "measure") \/ End(w)
  BY DEF Resizing
<1>. QED BY <1>1, <1>2, <1>3, <1>4, <1>5, <1>6, <1>7

LEMMA FindAndOwnerWithoutChoice ==
  ASSUME NEW w, work[w] \in Job, Find(w) \/ Owner(w)
  PROVE  NobodyChosen(w)
<1>1. CASE End(w) \/ Resizing(w)
  BY <1>1, StepsWithoutChoice
<1>2. CASE Find(w) /\ ~End(w) /\ ~Resizing(w)
  <2>. DEFINE l == work[w].lead
  <2>1. CASE Existing(l) = {}
    <3>1. Becomes(w, [work[w] EXCEPT !.step = "number", !.new = leads[l]])
      BY <1>2, <2>1 DEF Find
    <3>2. [work[w] EXCEPT !.step = "number", !.new = leads[l]].step = "number"
      BY DEF Job
    <3>. QED BY <3>1, <3>2 DEF Choosing, NobodyChosen
  <2>2. CASE Existing(l) # {}
    <3>1. PICK b : Becomes(w, [work[w] EXCEPT !.step = "link", !.id = b])
      BY <1>2, <2>2 DEF Find
    <3>2. [work[w] EXCEPT !.step = "link", !.id = b].step = "link"
      BY DEF Job
    <3>. QED BY <3>1, <3>2 DEF Choosing, NobodyChosen
  <2>. QED BY <2>1, <2>2
<1>3. CASE Owner(w) /\ ~End(w)
  <2>. DEFINE u == work[w].new.owner
              j == [work[w] EXCEPT !.step = "insert", !.user = u, !.auto = FALSE,
                                   !.choice = FALSE]
              k == [work[w] EXCEPT !.step = "flush"]
  <2>1. Becomes(w, j) \/ Becomes(w, k)
    BY <1>3 DEF Owner, Goto
  <2>2. ~j.auto /\ k.step = "flush"
    BY DEF Job
  <2>. HIDE DEF j, k
  <2>. QED BY <2>1, <2>2 DEF Choosing, NobodyChosen
<1>. QED BY <1>1, <1>2, <1>3

LEMMA QuietAlternates ==
  ASSUME RotationInv, NEW w \in Worker,
         \/ Unlink(w) \/ Remove(w) \/ Find(w) \/ Link(w) \/ Number(w)
         \/ Owner(w) \/ Flush(w) \/ Measure(w) \/ Resize(w) \/ RefuseOwner(w)
  PROVE  RotationOK' /\ AutoAlternates'
<1>1. UNCHANGED << history, lock >> /\ work[w] \in Job
  BY Working DEF Unlink, Remove, Find, Link, Number, Owner, Flush, Measure, Resize,
     RefuseOwner, At, RotationInv
<1>2. AutoAlternates'
  BY <1>1 DEF RotationInv, AutoAlternates
<1>3. NobodyChosen(w)
  <2>1. Remove(w) \/ Resize(w) \/ Link(w) \/ RefuseOwner(w) => End(w) \/ Resizing(w)
    BY DEF Remove, Resize, Link, RefuseOwner
  <2>. QED BY <1>1, <2>1, StepsWithoutChoice, FindAndOwnerWithoutChoice
<1>. QED BY <1>1, <1>2, <1>3, OthersStayFresh DEF NobodyChosen

LEMMA StartAlternates ==
  ASSUME RotationInv, NEW w \in Worker, NEW l \in Lead, Start(w, l)
  PROVE  RotationOK' /\ AutoAlternates'
<1>1. UNCHANGED << history, lock >>
  BY DEF Start, CreateByAgent, CreateByHand, Edit, Move, Delete
<1>2. ASSUME NEW row, NEW then
      PROVE  /\ ~Choosing([NewJob(l, "rotate", row, then) EXCEPT !.auto = TRUE])
             /\ ~Choosing(NewJob(l, "save", row, then))
             /\ ~Choosing(NewJob(l, "unlink", row, then))
  BY DEF Choosing, NewJob
<1>3. \E j : Begin(w, j) /\ ~Choosing(j)
  <2>1. CASE CreateByAgent(w, l)
    BY <1>2, <2>1 DEF CreateByAgent
  <2>2. CASE CreateByHand(w, l)
    <3>1. PICK st \in Stage, sz \in Size, u \in active \cup {None} :
            LET row == [stage |-> st, size |-> sz, owner |-> None, booking |-> None]
                job == NewJob(l, "save", [row EXCEPT !.owner = u], "nothing")
            IN /\ leads' = [leads EXCEPT ![l] = row]
               /\ Begin(w, [job EXCEPT !.was = row, !.auto = (u = None),
                                       !.step = IF u = None THEN "rotate" ELSE "save"])
      BY <2>2 DEF CreateByHand
    <3>. DEFINE row == [stage |-> st, size |-> sz, owner |-> None, booking |-> None]
                job == NewJob(l, "save", [row EXCEPT !.owner = u], "nothing")
                j == [job EXCEPT !.was = row, !.auto = (u = None),
                                 !.step = IF u = None THEN "rotate" ELSE "save"]
    <3>2. Begin(w, j)
      BY <3>1
    <3>3. j.auto = (u = None) /\ j.step = IF u = None THEN "rotate" ELSE "save"
      BY DEF NewJob
    <3>. HIDE DEF j
    <3>. QED BY <3>2, <3>3 DEF Choosing
  <2>3. CASE Edit(w, l)
    BY <1>2, <2>3 DEF Edit
  <2>4. CASE Move(w, l)
    BY <1>2, <2>4 DEF Move
  <2>5. CASE Delete(w, l)
    BY <1>2, <2>5 DEF Delete
  <2>. QED BY <2>1, <2>2, <2>3, <2>4, <2>5 DEF Start
<1>. QED BY <1>1, <1>3, BeginAlternates

LEMMA AbortAlternates ==
  ASSUME RotationInv, NEW v \in Worker, NEW w \in Worker, Abort(v, w)
  PROVE  RotationOK' /\ AutoAlternates'
<1>1. AutoAlternates' /\ history' = history /\ lock = v
  BY DEF Abort, Deadlocked, RotationInv, AutoAlternates
<1>2. CASE End(v)
  BY <1>1, <1>2, OthersStayFresh DEF End, Choosing
<1>3. CASE End(w) /\ UNCHANGED lock
  BY <1>1, <1>3, OthersStayFresh DEF End, Choosing
<1>. QED BY <1>1, <1>2, <1>3 DEF Abort

LEMMA NextKeepsRotation == RotationInv /\ [Next]_vars => RotationInv'
<1>. SUFFICES ASSUME RotationInv, [Next]_vars PROVE RotationInv'
  OBVIOUS
<1>1. TypeInv'
  BY NextKeepsTypes DEF RotationInv
<1>2. RotationOK' /\ AutoAlternates'
  <2>1. ASSUME NEW w \in Worker, Continue(w) PROVE RotationOK' /\ AutoAlternates'
    BY <2>1, RotateAlternates, WriterAlternates, QuietAlternates DEF Continue
  <2>2. ASSUME NEW b, NEW st, SetStatus(b, st) PROVE RotationOK' /\ AutoAlternates'
    BY <2>2 DEF SetStatus, RotationInv, RotationOK, AutoAlternates, Fresh, LastAuto
  <2>3. ASSUME NEW u, Toggle(u) PROVE RotationOK' /\ AutoAlternates'
    BY <2>3 DEF Toggle, RotationInv, RotationOK, AutoAlternates, Fresh, LastAuto
  <2>4. CASE UNCHANGED vars
    BY <2>4 DEF vars, RotationInv, RotationOK, AutoAlternates, Fresh, LastAuto
  <2>. QED BY <2>1, <2>2, <2>3, <2>4, StartAlternates, AbortAlternates DEF Next
<1>. QED BY <1>1, <1>2 DEF RotationInv

LEMMA InitRotates == Init => RotationInv
<1>. SUFFICES ASSUME Init PROVE RotationInv
  OBVIOUS
<1>1. RotationOK
  BY DEF Init, RotationOK, Choosing
<1>2. AutoAlternates
  BY DEF Init, AutoAlternates
<1>. QED BY <1>1, <1>2, InitIsTyped DEF RotationInv

\* Whatever workers assign at the same time, by hand or by the rotation, and
\* whoever is deactivated, the rotation never turns to the same employee twice in
\* a row while it has a choice (next_round_robin_sales_assignee).
THEOREM RotationAlternates == Spec => []AutoAlternates
<1>1. RotationInv => AutoAlternates
  BY DEF RotationInv
<1>. QED BY <1>1, InitRotates, NextKeepsRotation, PTL DEF Spec

-----------------------------------------------------------------------------
(* A request that meets no other one.  While it runs alone, the lead has   *)
(* no booking from the moment none is found until one is inserted, the     *)
(* number stays free, the lead stays, and what is measured is still so     *)
(* when the booking is resized.                                            *)

Making(j) ==
  \/ j.step \in {"number", "owner", "flush", "insert"}
  \/ j.step = "rotate" /\ j.id # None

Bookless(l, bk) == \A b \in 1..MaxBookings : bk[b] # None => bk[b].lead # l

SoloFacts(j, ld, bk) ==
  /\ Making(j) => Bookless(j.lead, bk)
  /\ Making(j) /\ j.step # "number" => bk[j.id] = None
  /\ j.then = "bookAndResize" =>
       /\ ld[j.lead] \in LeadRow
       /\ j.step \notin {"insertLead", "unlink", "remove"}
       /\ j.step = "rotate" => j.id # None
  /\ j.step = "resize" =>
       /\ j.new = ld[j.lead]
       /\ ld[j.lead].booking # None => j.id = ld[j.lead].booking

SoloInv ==
  \A w \in Worker : work[w] # Idle /\ ~work[w].shared =>
    /\ \A v \in Worker \ {w} : work[v] = Idle
    /\ SoloFacts(work[w], leads, bookings)

\* What a step of w makes of its request.
Follows(w, j) ==
  j # Idle => /\ j.shared = work[w].shared
              /\ ~work[w].shared => SoloFacts(j, leads', bookings')

LEMMA FollowsIsSolo ==
  ASSUME TypeInv, SoloInv, NEW w \in Worker, work[w] # Idle, NEW j, Becomes(w, j),
         Follows(w, j)
  PROVE  SoloInv'
<1>1. work'[w] = j /\ \A v \in Worker \ {w} : work'[v] = work[v]
  BY DEF TypeInv, TypeOK, Becomes
<1>2. ASSUME NEW u \in Worker, work'[u] # Idle, ~work'[u].shared
      PROVE  /\ \A v \in Worker \ {u} : work'[v] = Idle
             /\ SoloFacts(work'[u], leads', bookings')
  <2>1. CASE u = w
    BY <1>1, <1>2, <2>1 DEF SoloInv, Follows
  <2>2. CASE u # w
    BY <1>1, <1>2, <2>2 DEF SoloInv
  <2>. QED BY <2>1, <2>2
<1>. QED BY <1>2 DEF SoloInv

LEMMA ResizingFollows ==
  ASSUME TypeInv, NEW w \in Worker, work[w] # Idle, Resizing(w),
         work[w].then = "bookAndResize" => leads'[work[w].lead] \in LeadRow
  PROVE  \E j : Becomes(w, j) /\ Follows(w, j)
<1>1. work[w] \in Job
  BY Working
<1>2. CASE Goto(w, "measure")
  BY <1>1, <1>2 DEF Goto, Follows, SoloFacts, Making, Job
<1>3. CASE End(w)
  BY <1>3 DEF End, Follows
<1>. QED BY <1>2, <1>3 DEF Resizing

LEMMA EndFollows ==
  ASSUME NEW w \in Worker, End(w)
  PROVE  \E j : Becomes(w, j) /\ Follows(w, j)
BY DEF End, Follows

LEMMA LeadStepsFollow ==
  ASSUME TypeInv, SoloInv, NEW w \in Worker,
         \/ Rotate(w) \/ InsertLead(w) \/ RefuseOwner(w) \/ Save(w)
         \/ Unlink(w) \/ Remove(w)
  PROVE  work[w] # Idle /\ \E j : Becomes(w, j) /\ Follows(w, j)
<1>1. work[w] # Idle
  BY DEF Rotate, InsertLead, RefuseOwner, Save, Unlink, Remove, At
<1>2. work[w] \in Job /\ JobOK(work[w], bookings)
  BY <1>1, Working
<1>3. ~work[w].shared => SoloFacts(work[w], leads, bookings)
  BY <1>1 DEF SoloInv
<1>4. CASE Rotate(w)
  <2>1. PICK u : Becomes(w, [work[w] EXCEPT !.step = AfterRotation(w), !.user = u,
                                            !.choice = Cardinality(active) > 1])
    BY <1>4 DEF Rotate
  <2>. DEFINE j == [work[w] EXCEPT !.step = AfterRotation(w), !.user = u,
                                   !.choice = Cardinality(active) > 1]
  <2>2. /\ j.shared = work[w].shared /\ j.lead = work[w].lead /\ j.id = work[w].id
        /\ j.then = work[w].then /\ j.step = AfterRotation(w)
    BY <1>2 DEF Job
  <2>3. work[w].step = "rotate" /\ UNCHANGED << leads, bookings >>
    BY <1>4 DEF Rotate, At
  <2>. HIDE DEF j
  <2>4. Follows(w, j)
    BY <1>3, <2>2, <2>3 DEF Follows, SoloFacts, Making, AfterRotation
  <2>. QED BY <1>1, <2>1, <2>4 DEF j
<1>5. CASE InsertLead(w)
  <2>1. CASE Goto(w, "find")
    BY <1>1, <1>2, <1>3, <1>5, <2>1
       DEF Goto, InsertLead, At, Follows, SoloFacts, Making, Job
  <2>. QED BY <1>1, <1>5, <2>1, EndFollows DEF InsertLead
<1>9. CASE RefuseOwner(w)
  BY <1>1, <1>9, EndFollows DEF RefuseOwner
<1>6. CASE Save(w)
  <2>1. CASE Goto(w, "find")
    <3>1. work[w].then = "bookAndResize" /\ ~work[w].shared =>
            leads'[work[w].lead] \in LeadRow
      BY <1>2, <1>3, <1>6, SaveEffect DEF SoloFacts, TypeInv, TypeOK, Job
    <3>. QED BY <1>1, <1>2, <2>1, <3>1 DEF Goto, Follows, SoloFacts, Making, Job
  <2>. QED BY <1>1, <1>6, <2>1, EndFollows DEF Save
<1>7. CASE Unlink(w)
  <2>. DEFINE j == [work[w] EXCEPT !.step = "remove", !.links = OfLead(work[w].lead)]
  <2>1. /\ j.shared = work[w].shared /\ j.then = work[w].then /\ j.step = "remove"
        /\ Becomes(w, j) /\ work[w].step = "unlink"
    BY <1>2, <1>7 DEF Unlink, At, Job
  <2>. HIDE DEF j
  <2>. QED BY <1>1, <1>3, <2>1 DEF Follows, SoloFacts, Making
<1>8. CASE Remove(w)
  BY <1>1, <1>8, EndFollows DEF Remove
<1>. QED BY <1>4, <1>5, <1>6, <1>7, <1>8, <1>9

LEMMA BookingStepsFollow ==
  ASSUME TypeInv, SoloInv, NEW w \in Worker,
         Find(w) \/ Link(w) \/ Number(w) \/ Owner(w) \/ Flush(w)
  PROVE  work[w] # Idle /\ \E j : Becomes(w, j) /\ Follows(w, j)
<1>1. work[w] # Idle
  BY DEF Find, Link, Number, Owner, Flush, At
<1>2. work[w] \in Job /\ JobOK(work[w], bookings)
  BY <1>1, Working
<1>3. ~work[w].shared => SoloFacts(work[w], leads, bookings)
  BY <1>1 DEF SoloInv
<1>. DEFINE Kept(j) == /\ j.shared = work[w].shared /\ j.lead = work[w].lead
                       /\ j.then = work[w].then
<1>4. CASE Find(w)
  <2>. DEFINE l == work[w].lead
  <2>1. UNCHANGED << leads, bookings >> /\ work[w].step = "find" /\ l \in Lead
    BY <1>2, <1>4 DEF Find, At, Job
  <2>2. CASE End(w)
    BY <1>1, <2>2, EndFollows
  <2>3. CASE Resizing(w)
    <3>1. work[w].then = "bookAndResize" /\ ~work[w].shared => leads'[l] \in LeadRow
      BY <1>3, <2>1 DEF SoloFacts
    <3>2. CASE Goto(w, "measure")
      BY <1>1, <1>2, <3>1, <3>2 DEF Goto, Follows, SoloFacts, Making, Job
    <3>. QED BY <1>1, <2>3, <3>2, EndFollows DEF Resizing
  <2>4. CASE Existing(l) = {} /\ Becomes(w, [work[w] EXCEPT !.step = "number",
                                                            !.new = leads[l]])
    <3>. DEFINE j == [work[w] EXCEPT !.step = "number", !.new = leads[l]]
    <3>1. Kept(j) /\ j.step = "number"
      BY <1>2 DEF Job
    <3>2. Bookless(l, bookings)
      BY <2>4 DEF Existing, OfLead, Bookless, TypeInv, TypeOK
    <3>. HIDE DEF j
    <3>3. Follows(w, j)
      BY <1>3, <2>1, <3>1, <3>2 DEF Follows, SoloFacts, Making
    <3>. QED BY <1>1, <2>4, <3>3 DEF j
  <2>5. ASSUME NEW b, Becomes(w, [work[w] EXCEPT !.step = "link", !.id = b])
        PROVE  \E j : Becomes(w, j) /\ Follows(w, j)
    <3>. DEFINE j == [work[w] EXCEPT !.step = "link", !.id = b]
    <3>1. Kept(j) /\ j.step = "link"
      BY <1>2 DEF Job
    <3>. HIDE DEF j
    <3>2. Follows(w, j)
      BY <1>3, <2>1, <3>1 DEF Follows, SoloFacts, Making
    <3>. QED BY <2>5, <3>2 DEF j
  <2>. QED BY <1>1, <1>4, <2>2, <2>3, <2>4, <2>5 DEF Find
<1>5. CASE Link(w)
  <2>1. CASE leads[work[w].lead] = None
    BY <1>1, <1>5, <2>1, EndFollows DEF Link
  <2>2. CASE leads[work[w].lead] # None
    <3>1. Resizing(w)
      BY <1>5, <2>2 DEF Link
    <3>2. leads[work[w].lead] \in LeadRow /\ work[w].lead \in Lead
          /\ work[w].id \in 1..MaxBookings
      BY <1>2, <1>5, <2>2 DEF TypeInv, TypeOK, Job, JobOK, Link, At
    <3>3. [leads[work[w].lead] EXCEPT !.booking = work[w].id] \in LeadRow
      BY <3>2 DEF LeadRow
    <3>4. leads'[work[w].lead] \in LeadRow
      BY <1>5, <2>2, <3>2, <3>3 DEF Link, TypeInv, TypeOK
    <3>. QED BY <1>1, <3>1, <3>4, ResizingFollows
  <2>. QED BY <2>1, <2>2
<1>6. CASE Number(w)
  <2>1. PICK b \in DOMAIN bookings :
          bookings[b] = None /\ Becomes(w, [work[w] EXCEPT !.step = "owner", !.id = b])
    BY <1>6 DEF Number
  <2>. DEFINE j == [work[w] EXCEPT !.step = "owner", !.id = b]
  <2>2. Kept(j) /\ j.step = "owner" /\ j.id = b
    BY <1>2 DEF Job
  <2>3. UNCHANGED << leads, bookings >> /\ work[w].step = "number"
    BY <1>6 DEF Number, At
  <2>. HIDE DEF j
  <2>4. Follows(w, j)
    BY <1>3, <2>1, <2>2, <2>3 DEF Follows, SoloFacts, Making
  <2>. QED BY <1>1, <2>1, <2>4 DEF j
<1>7. ASSUME NEW j, Kept(j), Becomes(w, j), j.id = work[w].id, work[w].id # None,
             j.step \in {"flush", "insert", "rotate"},
             work[w].step \in {"owner", "flush"}, UNCHANGED << leads, bookings >>
      PROVE  \E k : Becomes(w, k) /\ Follows(w, k)
  <2>1. Follows(w, j)
    BY <1>3, <1>7 DEF Follows, SoloFacts, Making
  <2>. QED BY <1>7, <2>1
<1>8. CASE Owner(w)
  <2>. DEFINE u == work[w].new.owner
              j == [work[w] EXCEPT !.step = "flush"]
              k == [work[w] EXCEPT !.step = "insert", !.user = u, !.auto = FALSE,
                                   !.choice = FALSE]
  <2>1. /\ Kept(j) /\ j.id = work[w].id /\ j.step = "flush"
        /\ Kept(k) /\ k.id = work[w].id /\ k.step = "insert"
    BY <1>2 DEF Job
  <2>2. Becomes(w, j) \/ Becomes(w, k) \/ End(w)
    BY <1>8 DEF Owner, Goto
  <2>3. work[w].step = "owner" /\ work[w].id # None /\ UNCHANGED << leads, bookings >>
    BY <1>2, <1>8 DEF Owner, At, JobOK
  <2>. HIDE DEF j, k
  <2>. QED BY <1>1, <1>7, <2>1, <2>2, <2>3, EndFollows
<1>9. CASE Flush(w)
  <2>. DEFINE j == [work[w] EXCEPT !.step = "rotate", !.auto = TRUE]
  <2>1. Kept(j) /\ j.id = work[w].id /\ j.step = "rotate"
    BY <1>2 DEF Job
  <2>2. Becomes(w, j) \/ End(w)
    BY <1>9 DEF Flush
  <2>3. work[w].step = "flush" /\ work[w].id # None /\ UNCHANGED << leads, bookings >>
    BY <1>2, <1>9 DEF Flush, At, JobOK
  <2>. HIDE DEF j
  <2>. QED BY <1>1, <1>7, <2>1, <2>2, <2>3, EndFollows
<1>. QED BY <1>4, <1>5, <1>6, <1>8, <1>9

LEMMA LastStepsFollow ==
  ASSUME TypeInv, SoloInv, NEW w \in Worker, Insert(w) \/ Measure(w) \/ Resize(w)
  PROVE  work[w] # Idle /\ \E j : Becomes(w, j) /\ Follows(w, j)
<1>1. work[w] # Idle
  BY DEF Insert, Measure, Resize, At
<1>2. work[w] \in Job /\ JobOK(work[w], bookings)
  BY <1>1, Working
<1>3. ~work[w].shared => SoloFacts(work[w], leads, bookings)
  BY <1>1 DEF SoloInv
<1>4. CASE Insert(w)
  <2>. DEFINE l == work[w].lead
  <2>1. l \in Lead /\ work[w].id \in 1..MaxBookings
    BY <1>2, <1>4 DEF Insert, At, Job, JobOK
  <2>2. leads[l] \in LeadRow => leads'[l] \in LeadRow
    <3>1. leads[l] \in LeadRow => [leads[l] EXCEPT !.booking = work[w].id] \in LeadRow
      BY <2>1 DEF LeadRow
    <3>. QED BY <1>4, <2>1, <3>1 DEF Insert, TypeInv, TypeOK
  <2>3. CASE Resizing(w)
    <3>1. CASE Goto(w, "measure")
      BY <1>1, <1>2, <1>3, <2>2, <3>1 DEF Goto, Follows, SoloFacts, Making, Job
    <3>. QED BY <1>1, <2>3, <3>1, EndFollows DEF Resizing
  <2>. QED BY <1>1, <1>4, <2>3, EndFollows DEF Insert
<1>5. CASE Measure(w)
  <2>. DEFINE l == work[w].lead
  <2>1. CASE End(w)
    BY <1>1, <2>1, EndFollows
  <2>2. CASE ~End(w)
    <3>1. PICK b \in Newest(BookingOf(l)) :
            Becomes(w, [work[w] EXCEPT !.step = "resize", !.id = b, !.new = leads[l]])
      BY <1>5, <2>2 DEF Measure
    <3>. DEFINE j == [work[w] EXCEPT !.step = "resize", !.id = b, !.new = leads[l]]
    <3>2. /\ j.shared = work[w].shared /\ j.lead = l /\ j.then = work[w].then
          /\ j.step = "resize" /\ j.id = b /\ j.new = leads[l]
      BY <1>2 DEF Job
    <3>3. leads[l].booking # None => b = leads[l].booking
      BY <3>1 DEF Newest, BookingOf
    <3>4. UNCHANGED << leads, bookings >>
      BY <1>5 DEF Measure
    <3>. HIDE DEF j
    <3>5. Follows(w, j)
      BY <1>3, <3>2, <3>3, <3>4 DEF Follows, SoloFacts, Making
    <3>. QED BY <1>1, <3>1, <3>5 DEF j
  <2>. QED BY <2>1, <2>2
<1>6. CASE Resize(w)
  BY <1>1, <1>6, EndFollows DEF Resize
<1>. QED BY <1>4, <1>5, <1>6

LEMMA StartIsSolo ==
  ASSUME TypeInv, SoloInv, NEW w \in Worker, NEW l \in Lead, Start(w, l)
  PROVE  SoloInv'
<1>. DEFINE Apt(j) ==
       /\ ~Making(j) /\ j.step \in {"rotate", "save", "unlink"}
       /\ j.then = "bookAndResize" => leads'[j.lead] \in LeadRow /\ j.step = "save"
       /\ ~j.shared => \A v \in Worker : work[v] = Idle
<1>1. ASSUME NEW j, Begin(w, j), Apt(j) PROVE SoloInv'
  <2>1. SUFFICES ASSUME NEW u \in Worker, work'[u] # Idle, ~work'[u].shared
                 PROVE  /\ \A v \in Worker \ {u} : work'[v] = Idle
                        /\ SoloFacts(work'[u], leads', bookings')
    BY DEF SoloInv
  <2>2. ASSUME NEW v \in Worker, v # w, work[v] # Idle PROVE work'[v].shared
    BY <1>1, <2>2, Working DEF Begin, Job
  <2>3. u = w /\ work'[w] = j
    BY <1>1, <2>1, <2>2 DEF Begin
  <2>4. \A v \in Worker \ {u} : work'[v] = Idle
    BY <1>1, <2>1, <2>3 DEF Begin
  <2>5. SoloFacts(j, leads', bookings')
    BY <1>1 DEF SoloFacts, Making
  <2>. QED BY <2>3, <2>4, <2>5
<1>. DEFINE Plain(j, step, then) ==
       /\ j.lead = l /\ j.step = step /\ j.then = then /\ j.id = None
       /\ j.shared = \E v \in Worker : work[v] # Idle
<1>2. \A step, row, then : Plain(NewJob(l, step, row, then), step, then)
  BY DEF NewJob
<1>3. CASE CreateByAgent(w, l)
  <2>1. PICK row : Begin(w, [NewJob(l, "rotate", row, "book") EXCEPT !.auto = TRUE])
    BY <1>3 DEF CreateByAgent
  <2>. DEFINE j == [NewJob(l, "rotate", row, "book") EXCEPT !.auto = TRUE]
  <2>2. Plain(j, "rotate", "book")
    BY DEF NewJob
  <2>. HIDE DEF j
  <2>3. Apt(j)
    BY <2>2 DEF Making
  <2>. QED BY <1>1, <2>1, <2>3 DEF j
<1>4. CASE CreateByHand(w, l)
  <2>1. PICK st \in Stage, sz \in Size, u \in active \cup {None} :
          LET row == [stage |-> st, size |-> sz, owner |-> None, booking |-> None]
              job == NewJob(l, "save", [row EXCEPT !.owner = u], "nothing")
          IN /\ leads' = [leads EXCEPT ![l] = row]
             /\ Begin(w, [job EXCEPT !.was = row, !.auto = (u = None),
                                     !.step = IF u = None THEN "rotate" ELSE "save"])
    BY <1>4 DEF CreateByHand
  <2>. DEFINE row == [stage |-> st, size |-> sz, owner |-> None, booking |-> None]
              job == NewJob(l, "save", [row EXCEPT !.owner = u], "nothing")
              at == IF u = None THEN "rotate" ELSE "save"
              j == [job EXCEPT !.was = row, !.auto = (u = None), !.step = at]
  <2>2. Plain(j, at, "nothing")
    <3>1. Plain(job, "save", "nothing") /\ DOMAIN job = DOMAIN j
      BY DEF NewJob
    <3>2. /\ j.lead = job.lead /\ j.then = job.then /\ j.id = job.id
          /\ j.shared = job.shared /\ j.step = at
      BY DEF NewJob
    <3>. QED BY <3>1, <3>2
  <2>3. Begin(w, j)
    BY <2>1
  <2>. HIDE DEF j, job
  <2>4. Apt(j)
    BY <2>2 DEF Making
  <2>. QED BY <1>1, <2>3, <2>4
<1>5. ASSUME NEW step \in {"save", "unlink"}, NEW row,
             NEW then \in {"book", "bookAndResize", "nothing"},
             leads' = leads, leads[l] # None, then = "bookAndResize" => step = "save",
             Begin(w, NewJob(l, step, row, then))
      PROVE  SoloInv'
  <2>. DEFINE j == NewJob(l, step, row, then)
  <2>1. Plain(j, step, then)
    BY DEF NewJob
  <2>2. leads'[l] \in LeadRow
    BY <1>5 DEF TypeInv, TypeOK
  <2>. HIDE DEF j
  <2>3. Apt(j)
    BY <1>5, <2>1, <2>2 DEF Making
  <2>. QED BY <1>1, <1>5, <2>3 DEF j
<1>6. CASE Edit(w, l)
  BY <1>5, <1>6 DEF Edit
<1>7. CASE Move(w, l)
  BY <1>5, <1>7 DEF Move
<1>8. CASE Delete(w, l)
  BY <1>5, <1>8 DEF Delete
<1>. QED BY <1>3, <1>4, <1>6, <1>7, <1>8 DEF Start

LEMMA StaffIsSolo ==
  ASSUME TypeInv, SoloInv, NEW b \in 1..MaxBookings, NEW s \in Status, SetStatus(b, s)
  PROVE  SoloInv'
<1>1. /\ bookings[b] \in BookingRow /\ UNCHANGED << leads, work >>
      /\ bookings' = [bookings EXCEPT ![b] = [bookings[b] EXCEPT !.status = s]]
  BY DEF SetStatus, TypeInv, TypeOK
<1>2. [bookings[b] EXCEPT !.status = s].lead = bookings[b].lead
  BY <1>1 DEF BookingRow
<1>3. \A c \in 1..MaxBookings :
        /\ c # b => bookings'[c] = bookings[c]
        /\ c = b => bookings[c] # None /\ bookings'[c].lead = bookings[c].lead
  BY <1>1, <1>2, RowAssumption DEF TypeInv, TypeOK
<1>4. \A l : Bookless(l, bookings) => Bookless(l, bookings')
  BY <1>3 DEF Bookless
<1>5. ASSUME NEW j \in Job, SoloFacts(j, leads, bookings), JobOK(j, bookings)
      PROVE  SoloFacts(j, leads', bookings')
  <2>1. Making(j) /\ j.step # "number" => j.id \in 1..MaxBookings
    BY <1>5 DEF Making, Job, JobOK
  <2>2. Making(j) /\ j.step # "number" => bookings'[j.id] = None
    BY <1>3, <1>5, <2>1 DEF SoloFacts
  <2>. QED BY <1>1, <1>4, <1>5, <2>2 DEF SoloFacts
<1>. QED BY <1>1, <1>5, Working DEF SoloInv

LEMMA NextIsSolo == TypeInv /\ SoloInv /\ [Next]_vars => SoloInv'
<1>. SUFFICES ASSUME TypeInv, SoloInv, [Next]_vars PROVE SoloInv'
  OBVIOUS
<1>1. ASSUME NEW w \in Worker, Continue(w) PROVE SoloInv'
  <2>1. work[w] # Idle /\ \E j : Becomes(w, j) /\ Follows(w, j)
    BY <1>1, LeadStepsFollow, BookingStepsFollow, LastStepsFollow DEF Continue
  <2>. QED BY <2>1, FollowsIsSolo
<1>2. ASSUME NEW v \in Worker, NEW w \in Worker, Abort(v, w) PROVE SoloInv'
  <2>1. work[v] # Idle /\ work[w] # Idle /\ (End(v) \/ End(w))
    BY <1>2 DEF Abort, Deadlocked, At
  <2>. QED BY <2>1, FollowsIsSolo, EndFollows
<1>3. ASSUME NEW u \in Sales, Toggle(u) PROVE SoloInv'
  BY <1>3 DEF Toggle, SoloInv
<1>4. CASE UNCHANGED vars
  BY <1>4 DEF vars, SoloInv
<1>. QED BY <1>1, <1>2, <1>3, <1>4, StartIsSolo, StaffIsSolo DEF Next

LEMMA SoloHolds == Spec => [](TypeInv /\ SoloInv)
<1>1. Init => SoloInv
  BY DEF Init, SoloInv
<1>. QED BY <1>1, NextIsSolo, TypesHold, PTL DEF Spec

\* A step that an unshared request sees is its own, or the staff's, or one that
\* begins.
LEMMA OnlyOwnSteps ==
  ASSUME TypeInv, SoloInv, [Next]_vars, NEW w \in Worker, work[w] # Idle, ~work[w].shared
  PROVE  \/ Continue(w)
         \/ \E v \in Worker \ {w}, l \in Lead : Start(v, l)
         \/ \E b \in 1..MaxBookings, s \in Status : SetStatus(b, s)
         \/ \E u \in Sales : Toggle(u)
         \/ UNCHANGED vars
<1>1. \A v \in Worker \ {w} : work[v] = Idle
  BY DEF SoloInv
<1>2. ASSUME NEW v \in Worker, Continue(v) PROVE v = w
  <2>1. work[v] # Idle
    BY <1>2 DEF Continue, Rotate, InsertLead, RefuseOwner, Save, Unlink, Remove, Find, Link,
       Number, Owner, Flush, Insert, Measure, Resize, At
  <2>. QED BY <1>1, <2>1
<1>3. ASSUME NEW v \in Worker, NEW l \in Lead, Start(v, l) PROVE v # w
  BY <1>3 DEF Start, CreateByAgent, CreateByHand, Edit, Move, Delete, Begin
<1>4. ASSUME NEW u \in Worker, NEW v \in Worker, Abort(u, v) PROVE FALSE
  <2>1. work[u] # Idle /\ work[v] # Idle /\ work[u].step # work[v].step
    BY <1>4 DEF Abort, Deadlocked, At
  <2>. QED BY <1>1, <2>1
<1>. QED BY <1>2, <1>3, <1>4 DEF Next

\* A lead that comes back to Booking Draft keeps the booking it got the first
\* time, whatever became of it: a request that meets no other one inserts a
\* booking for a lead that has none, for any number of leads, bookings and
\* changes by the staff (auto_create_booking_from_lead).
THEOREM OneBookingPerLead == Spec => AloneCreatesOneBooking
<1>1. TypeInv /\ SoloInv /\ [Next]_vars =>
        [\A w \in Worker, l \in Lead :
           (/\ At(w, "insert") /\ work'[w] # work[w]
            /\ work[w].lead = l /\ ~work[w].shared)
             => Cardinality(OfLead(l)') <= 1]_vars
  <2>1. SUFFICES ASSUME TypeInv, SoloInv, [Next]_vars, NEW w \in Worker, NEW l \in Lead,
                        At(w, "insert"), work[w].lead = l, ~work[w].shared
                 PROVE  Cardinality(OfLead(l)') <= 1
    OBVIOUS
  <2>2. work[w] # Idle /\ work[w].step = "insert" /\ Bookless(l, bookings)
    BY <2>1 DEF At, SoloInv, SoloFacts, Making
  <2>3. DOMAIN bookings' = 1..MaxBookings
    BY <2>1, NextKeepsTypes DEF TypeInv, TypeOK
  <2>4. \E c : OfLead(l)' \subseteq {c}
    <3>1. CASE bookings' = bookings
      BY <2>2, <2>3, <3>1 DEF OfLead, Bookless
    <3>2. CASE Continue(w)
      <4>1. Insert(w)
        BY <2>2, <3>2 DEF Continue, Rotate, InsertLead, RefuseOwner, Save, Unlink, Remove, Find, Link,
           Number, Owner, Flush, Measure, Resize, At
      <4>2. \A b \in 1..MaxBookings : b # work[w].id => bookings'[b] = bookings[b]
        BY <2>1, <4>1 DEF Insert, TypeInv, TypeOK
      <4>. QED BY <2>2, <2>3, <4>2 DEF OfLead, Bookless
    <3>3. ASSUME NEW b \in 1..MaxBookings, NEW s \in Status, SetStatus(b, s)
          PROVE  \E c : OfLead(l)' \subseteq {c}
      <4>1. \A c \in 1..MaxBookings : c # b => bookings'[c] = bookings[c]
        BY <2>1, <3>3 DEF SetStatus, TypeInv, TypeOK
      <4>. QED BY <2>2, <2>3, <4>1 DEF OfLead, Bookless
    <3>4. CASE ~Continue(w) /\ \A b \in 1..MaxBookings, s \in Status : ~SetStatus(b, s)
      <4>1. bookings' = bookings
        BY <2>1, <2>2, <3>4, OnlyOwnSteps
           DEF Start, CreateByAgent, CreateByHand, Edit, Move, Delete, Toggle, vars
      <4>. QED BY <3>1, <4>1
    <3>. QED BY <3>2, <3>3, <3>4
  <2>5. PICK c : OfLead(l)' \subseteq {c}
    BY <2>4
  <2>6. OfLead(l)' = {} \/ OfLead(l)' = {c}
    BY <2>5
  <2>7. Cardinality({}) = 0 /\ Cardinality({c}) = 1
    BY FS_EmptySet, FS_Singleton
  <2>. QED BY <2>6, <2>7
<1>. QED BY <1>1, SoloHolds, PTL DEF Spec, AloneCreatesOneBooking

\* The steps at which an edit that meets no other request can end.
LEMMA EditsEndMeasured ==
  ASSUME TypeInv, SoloInv, NEW w \in Worker, Continue(w), work[w] # Idle,
         ~work[w].shared, work[w].then = "bookAndResize", work'[w] = Idle, ~At(w, "owner")
  PROVE  Measure(w) \/ Resize(w)
<1>1. work[w] \in Job /\ JobOK(work[w], bookings) /\ work \in Jobs
  BY Working DEF TypeInv, TypeOK, Jobs
<1>2. SoloFacts(work[w], leads, bookings)
  BY DEF SoloInv
<1>3. leads[work[w].lead] # None
  BY <1>2, RowAssumption DEF SoloFacts
<1>4. ASSUME NEW j, Becomes(w, j), j.step # "idle" PROVE FALSE
  BY <1>1, <1>4 DEF Becomes, Jobs, Idle
<1>5. ASSUME NEW step, Goto(w, step), step # "idle" PROVE FALSE
  <2>1. [work[w] EXCEPT !.step = step].step = step
    BY <1>1 DEF Job
  <2>. QED BY <1>4, <1>5, <2>1 DEF Goto
<1>6. ~Resizing(w)
  BY <1>5 DEF Resizing
<1>7. ~Rotate(w)
  <2>1. SUFFICES ASSUME Rotate(w) PROVE FALSE
    OBVIOUS
  <2>. DEFINE j(u) == [work[w] EXCEPT !.step = AfterRotation(w), !.user = u,
                                      !.choice = Cardinality(active) > 1]
  <2>2. PICK u : Becomes(w, j(u))
    BY <2>1 DEF Rotate
  <2>3. j(u).step = AfterRotation(w)
    BY <1>1 DEF Job
  <2>4. j(u).step # "idle"
    BY <2>3 DEF AfterRotation
  <2>. HIDE DEF j
  <2>. QED BY <1>4, <2>2, <2>4
<1>8. ~(InsertLead(w) \/ RefuseOwner(w) \/ Unlink(w) \/ Remove(w))
  BY <1>2 DEF SoloFacts, InsertLead, RefuseOwner, Unlink, Remove, At
<1>9. ~Save(w)
  BY <1>3, <1>5 DEF Save
<1>10. ~Find(w)
  <2>1. SUFFICES ASSUME Find(w) PROVE FALSE
    OBVIOUS
  <2>. DEFINE j == [work[w] EXCEPT !.step = "number", !.new = leads[work[w].lead]]
              k(b) == [work[w] EXCEPT !.step = "link", !.id = b]
  <2>2. Becomes(w, j) \/ \E b : Becomes(w, k(b))
    BY <1>3, <1>6, <2>1 DEF Find
  <2>3. j.step = "number" /\ \A b : k(b).step = "link"
    BY <1>1 DEF Job
  <2>. HIDE DEF j, k
  <2>. QED BY <1>4, <2>2, <2>3
<1>11. ~Link(w)
  BY <1>3, <1>6 DEF Link
<1>12. ~Number(w)
  <2>1. \A b : [work[w] EXCEPT !.step = "owner", !.id = b].step = "owner"
    BY <1>1 DEF Job
  <2>. QED BY <1>4, <2>1 DEF Number
<1>13. ~Flush(w)
  <2>1. [work[w] EXCEPT !.step = "rotate", !.auto = TRUE].step = "rotate"
    BY <1>1 DEF Job
  <2>2. Flush(w) => bookings[work[w].id] = None
    BY <1>2 DEF SoloFacts, Making, Flush, At
  <2>. QED BY <1>3, <1>4, <2>1, <2>2 DEF Flush
<1>14. ~Insert(w)
  <2>1. Insert(w) => bookings[work[w].id] = None
    BY <1>2 DEF SoloFacts, Making, Insert, At
  <2>. QED BY <1>3, <1>6, <2>1 DEF Insert
<1>. QED
  BY <1>7, <1>8, <1>9, <1>10, <1>11, <1>12, <1>13, <1>14 DEF Continue, Owner

\* An edit of the group size that meets no other request leaves the lead and its
\* open booking with the same size, however the staff moved the booking before,
\* if it did not have to make another booking and failed
\* (sync_lead_group_size_to_booking).
THEOREM SizesAreKept == Spec => AloneKeepsSizes
<1>1. TypeInv /\ SoloInv /\ [Next]_vars =>
        [\A w \in Worker :
           (/\ work[w] # Idle /\ work'[w] = Idle /\ ~At(w, "owner")
            /\ work[w].then = "bookAndResize" /\ ~work[w].shared
            /\ leads[work[w].lead].size # work[w].was.size
            /\ leads[work[w].lead].booking # None)
             => LET b == leads[work[w].lead].booking IN
                bookings[b].status # "Closed"
                  => bookings'[b].size = leads[work[w].lead].size]_vars
  <2>. DEFINE l(w) == work[w].lead
              b(w) == leads[l(w)].booking
  <2>1. SUFFICES ASSUME TypeInv, SoloInv, [Next]_vars, NEW w \in Worker,
                        work[w] # Idle, work'[w] = Idle, ~At(w, "owner"),
                        work[w].then = "bookAndResize", ~work[w].shared,
                        leads[l(w)].size # work[w].was.size, b(w) # None,
                        bookings[b(w)].status # "Closed"
                 PROVE  bookings'[b(w)].size = leads[l(w)].size
    OBVIOUS
  <2>2. work[w] \in Job /\ JobOK(work[w], bookings) /\ work \in Jobs
    BY <2>1, Working DEF TypeInv, TypeOK, Jobs
  <2>3. SoloFacts(work[w], leads, bookings)
    BY <2>1 DEF SoloInv
  <2>4. leads[l(w)] \in LeadRow /\ leads[l(w)] # None /\ b(w) \in 1..MaxBookings
    BY <2>1, <2>3, RowAssumption DEF SoloFacts, LeadRow
  <2>5. Continue(w)
    <3>1. ASSUME NEW v \in Worker \ {w}, NEW k \in Lead, Start(v, k) PROVE FALSE
      <4>1. work'[w] = [work[w] EXCEPT !.shared = TRUE]
        BY <2>1, <3>1 DEF Start, CreateByAgent, CreateByHand, Edit, Move, Delete, Begin
      <4>2. [work[w] EXCEPT !.shared = TRUE].step # "idle"
        BY <2>2 DEF Job
      <4>. QED BY <2>1, <4>1, <4>2 DEF Idle
    <3>. QED BY <2>1, <3>1, OnlyOwnSteps DEF SetStatus, Toggle, vars
  <2>6. CASE Measure(w)
    <3>1. BookingOf(l(w)) = {b(w)} /\ Newest(BookingOf(l(w))) = {b(w)}
      BY <2>1, <2>4 DEF BookingOf, Newest
    <3>2. bookings' = bookings
      BY <2>6 DEF Measure
    <3>. DEFINE j == [work[w] EXCEPT !.step = "resize", !.id = b(w), !.new = leads[l(w)]]
    <3>3. ~Becomes(w, j)
      <4>1. j.step = "resize"
        BY <2>2 DEF Job
      <4>. HIDE DEF j
      <4>. QED BY <2>1, <2>2, <4>1 DEF Becomes, Jobs, Idle
    <3>4. bookings[b(w)].size = leads[l(w)].size \/ bookings[b(w)].status = "Closed"
      BY <2>1, <2>4, <2>6, <3>1, <3>3 DEF Measure
    <3>. QED BY <2>1, <3>2, <3>4
  <2>7. CASE Resize(w)
    <3>1. /\ work[w].id = b(w) /\ work[w].new = leads[l(w)]
          /\ bookings[b(w)] \in BookingRow
      BY <2>1, <2>2, <2>3, <2>7 DEF SoloFacts, JobOK, Resize, At
    <3>. QED BY <2>1, <2>4, <2>7, <3>1 DEF Resize, BookingRow, TypeInv, TypeOK
  <2>. QED BY <2>1, <2>5, <2>6, <2>7, EditsEndMeasured
<1>. QED BY <1>1, SoloHolds, PTL DEF Spec, AloneKeepsSizes
=============================================================================
