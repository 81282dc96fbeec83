----------------------- MODULE InstagramWebhookProofs -----------------------
(***************************************************************************)
(* What the webhook guarantees for any number of deliveries, events,       *)
(* senders and sessions: an event that is recorded reaches the agent once, *)
(* and the turns it answers are kept although a new session is saved       *)
(* outside its lease.                                                      *)
(***************************************************************************)
EXTENDS InstagramWebhook, SessionStoreProofs

-----------------------------------------------------------------------------
(* Effects on the deliveries. *)

\* Only r's delivery changes.
OnlyDelivery(r) == \A q \in Request \ {r} : delivery'[q] = delivery[q]

LEMMA GoesEffect ==
  ASSUME delivery \in [Request -> Delivery], NEW r \in Request,
         NEW from, NEW to, Goes(r, from, to)
  PROVE  /\ OnlyDelivery(r)
         /\ delivery[r].at = from /\ delivery'[r].at = to
         /\ delivery'[r].session = delivery[r].session
         /\ delivery'[r].held = delivery[r].held
         /\ delivery'[r].packed = delivery[r].packed
BY DEF Goes, Delivery, OnlyDelivery

LEMMA GoesTyped ==
  ASSUME delivery \in [Request -> Delivery], NEW r \in Request, NEW from,
         NEW to \in {"unseen", "marked", "unknown", "ready", "handling",
                     "answered", "duplicate", "failed"},
         Goes(r, from, to)
  PROVE  delivery' \in [Request -> Delivery]
<1>1. delivery[r] \in Delivery
  OBVIOUS
<1>2. PICK x : x = [delivery[r] EXCEPT !.at = to]
  OBVIOUS
<1>3. x \in Delivery
  BY <1>1, <1>2 DEF Delivery
<1>. QED BY <1>2, <1>3 DEF Goes

LEMMA RememberTyped ==
  ASSUME WebTypeOK, NEW s \in Session, NEW o \in Object,
         NEW content \in SUBSET Request, Remember(s, o, content)
  PROVE  /\ memory' \in [Session -> Object \cup {None}]
         /\ object' \in [Object -> SUBSET Request]
BY DEF WebTypeOK, Remember

-----------------------------------------------------------------------------
(* The links between deliveries, turns and sessions. *)

\* A delivery and its turn are about the same session, which exists; a session
\* that has a sender exists.
Linked ==
  /\ \A r \in Request :
       /\ delivery[r].session # None => row[delivery[r].session] # None
       /\ delivery[r].at \in {"creating", "ready", "handling"}
            => delivery[r].session # None
       /\ turn[r].at # "new" => /\ delivery[r].session = turn[r].session
                                /\ delivery[r].at \in {"handling"} \cup Ended
  /\ \A s \in Session : sender[s] # None => row[s] # None

\* While it has no sender yet, only the delivery that creates it has a session.
Private ==
  \A r \in Request : delivery[r].at = "creating" =>
    /\ sender[delivery[r].session] = None
    /\ \A q \in Request \ {r} : delivery[q].session # delivery[r].session

\* The runtime has an agent state in memory for every session it works on.
Remembered ==
  \A r \in Request :
    /\ turn[r].at \in {"loaded", "worked"} => memory[turn[r].session] \in Object
    /\ delivery[r].at = "creating" => memory[delivery[r].session] \in Object

\* The steps that run a turn of SessionStore, and leave its delivery where it is.
TurnStep(r) ==
  \/ Lease(r) \/ LoadState(r) \/ FetchState(r) \/ WorkOn(r) \/ Pack(r) \/ Save(r)
  \/ LeaseExpires(r)

\* The steps that only move the delivery on.
PlainStep(r) ==
  \/ Look(r) \/ Insert(r) \/ RecordFails(r) \/ FindNone(r) \/ SessionFails(r)
  \/ Answer(r)

LEMMA TurnStepEffect ==
  ASSUME WebTypeOK, NEW r \in Request, TurnStep(r)
  PROVE  /\ Serve(r) \/ Expire(r) \/ UNCHANGED vars
         /\ \A q \in Request : /\ delivery'[q].at = delivery[q].at
                               /\ delivery'[q].session = delivery[q].session
         /\ UNCHANGED sender
<1>1. Serve(r) \/ Expire(r) \/ UNCHANGED vars
  BY DEF TurnStep, Lease, LoadState, FetchState, WorkOn, Pack, Save, LeaseExpires,
         Serve, vars
<1>2. UNCHANGED sender
  BY DEF TurnStep, Lease, LoadState, FetchState, WorkOn, Pack, Save, LeaseExpires,
         durable
<1>3. delivery \in [Request -> Delivery]
  BY DEF WebTypeOK
<1>4. \A q \in Request : /\ delivery'[q].at = delivery[q].at
                        /\ delivery'[q].session = delivery[q].session
  <2>1. CASE FetchState(r) \/ Pack(r)
    BY <1>3, <2>1 DEF FetchState, Pack, Delivery
  <2>2. CASE UNCHANGED delivery
    BY <2>2
  <2>. QED BY <2>1, <2>2
           DEF TurnStep, Lease, LoadState, WorkOn, Save, LeaseExpires
<1>. QED BY <1>1, <1>2, <1>4

LEMMA RecordFailsEffect ==
  ASSUME delivery \in [Request -> Delivery], NEW r \in Request, RecordFails(r)
  PROVE  /\ OnlyDelivery(r) /\ delivery' \in [Request -> Delivery]
         /\ delivery[r].at \in {"sent", "unseen"} /\ delivery'[r].at = "marked"
         /\ delivery'[r].lost
         /\ delivery'[r].session = delivery[r].session
<1>1. PICK x : x = [delivery[r] EXCEPT !.at = "marked", !.lost = TRUE]
  OBVIOUS
<1>2. delivery[r] \in Delivery
  OBVIOUS
<1>3. /\ x \in Delivery /\ x.at = "marked" /\ x.lost
      /\ x.session = delivery[r].session
  BY <1>1, <1>2 DEF Delivery
<1>4. delivery' = [delivery EXCEPT ![r] = x]
  BY <1>1 DEF RecordFails
<1>5. delivery[r].at \in {"sent", "unseen"}
  BY DEF RecordFails
<1>. QED BY <1>3, <1>4, <1>5 DEF OnlyDelivery

LEMMA PlainStepEffect ==
  ASSUME WebTypeOK, Linked, NEW r \in Request, PlainStep(r)
  PROVE  /\ UNCHANGED << row, turn, sender >>
         /\ OnlyDelivery(r) /\ delivery' \in [Request -> Delivery]
         /\ delivery'[r].session = delivery[r].session
         /\ delivery'[r].at \in {"unseen", "marked", "unknown"} \cup Ended
         /\ turn[r].at # "new" => delivery'[r].at \in Ended
<1>1. UNCHANGED << row, turn, sender >>
  BY DEF PlainStep, Look, Insert, RecordFails, FindNone, SessionFails, Answer,
         durable
<1>2. delivery \in [Request -> Delivery]
  BY DEF WebTypeOK
<1>3. CASE RecordFails(r)
  <2>1. turn[r].at = "new"
    BY <1>2, <1>3, RecordFailsEffect DEF Linked, Ended
  <2>. QED BY <1>1, <1>2, <1>3, <2>1, RecordFailsEffect
<1>4. CASE ~RecordFails(r)
  <2>1. PICK from \in {"sent", "unseen", "marked", "unknown", "creating",
                       "handling"},
             to \in {"unseen", "marked", "unknown", "answered", "duplicate",
                     "failed"} :
          /\ Goes(r, from, to)
          /\ from = "handling" => to \in {"answered", "failed"}
    <3>1. CASE Look(r)
      BY <3>1 DEF Look
    <3>2. CASE Insert(r)
      BY <3>2 DEF Insert
    <3>3. CASE FindNone(r)
      BY <3>3 DEF FindNone
    <3>4. CASE SessionFails(r)
      BY <3>4 DEF SessionFails
    <3>5. CASE Answer(r)
      BY <3>5 DEF Answer
    <3>. QED BY <1>4, <3>1, <3>2, <3>3, <3>4, <3>5 DEF PlainStep
  <2>2. delivery' \in [Request -> Delivery]
    BY <1>2, <2>1, GoesTyped
  <2>3. turn[r].at # "new" => from = "handling"
    BY <1>2, <2>1, GoesEffect DEF Linked, Ended
  <2>. QED BY <1>1, <1>2, <2>1, <2>2, <2>3, GoesEffect DEF Ended
<1>. QED BY <1>3, <1>4

LEMMA FindEffect ==
  ASSUME WebTypeOK, NEW r \in Request, Find(r)
  PROVE  /\ UNCHANGED << row, turn, sender >>
         /\ OnlyDelivery(r) /\ delivery' \in [Request -> Delivery]
         /\ delivery[r].at = "marked" /\ delivery'[r].at = "ready"
         /\ delivery'[r].session \in Session
         /\ sender[delivery'[r].session] # None
<1>1. PICK s \in SessionsOf(SenderOf[EventOf[r]]) :
        /\ delivery[r].at = "marked"
        /\ delivery' = [delivery EXCEPT ![r].at = "ready", ![r].session = s]
        /\ UNCHANGED << row, turn, durable >>
  BY DEF Find
<1>2. s \in Session /\ sender[s] # None
  <2>1. SenderOf[EventOf[r]] \in Sender
    BY EventOfAssumption, SenderOfAssumption
  <2>. QED BY <1>1, <2>1, SenderAssumption DEF SessionsOf
<1>3. delivery \in [Request -> Delivery]
  BY DEF WebTypeOK
<1>4. PICK x : x = [delivery[r] EXCEPT !.at = "ready", !.session = s]
  OBVIOUS
<1>5. x \in Delivery /\ x.at = "ready" /\ x.session = s
  <2>1. delivery[r] \in Delivery
    BY <1>3
  <2>. QED BY <1>2, <1>4, <2>1 DEF Delivery
<1>6. delivery' = [delivery EXCEPT ![r] = x]
  BY <1>1, <1>4
<1>. QED BY ZenonT(40), <1>1, <1>2, <1>3, <1>5, <1>6 DEF OnlyDelivery, durable

LEMMA CreateEffect ==
  ASSUME WebTypeOK, NEW r \in Request, NEW s \in Session, CreateFor(r, s)
  PROVE  /\ CreateSession(s) /\ UNCHANGED << turn, sender >>
         /\ OnlyRow(s) /\ row[s] = None /\ row'[s] # None
         /\ OnlyDelivery(r) /\ delivery' \in [Request -> Delivery]
         /\ delivery[r].at = "unknown" /\ delivery'[r].at = "creating"
         /\ delivery'[r].session = s
<1>1. row \in [Session -> Row \cup {None}] /\ NewRow \in Row
  BY DEF WebTypeOK, TypeOK, NewRow, Row
<1>2. CreateSession(s) /\ OnlyRow(s) /\ row[s] = None /\ row'[s] # None
  BY <1>1, NoneAssumption DEF CreateFor, CreateSession, OnlyRow
<1>3. delivery \in [Request -> Delivery]
  BY DEF WebTypeOK
<1>4. PICK x : x = [delivery[r] EXCEPT !.at = "creating", !.session = s]
  OBVIOUS
<1>5. x \in Delivery /\ x.at = "creating" /\ x.session = s
  <2>1. delivery[r] \in Delivery
    BY <1>3
  <2>. QED BY <1>4, <2>1 DEF Delivery
<1>6. delivery' = [delivery EXCEPT ![r] = x] /\ delivery[r].at = "unknown"
  BY <1>4 DEF CreateFor
<1>7. UNCHANGED << turn, sender >>
  BY DEF CreateFor, CreateSession, durable
<1>. QED BY <1>2, <1>3, <1>5, <1>6, <1>7 DEF OnlyDelivery

LEMMA ClaimEffect ==
  ASSUME WebTypeOK, Linked, NEW r \in Request, Claim(r)
  PROVE  LET s == delivery[r].session
         IN /\ UNCHANGED turn
            /\ s \in Session /\ OnlyRow(s)
            /\ row[s] \in Row /\ row'[s] \in Row
            /\ row' \in [Session -> Row \cup {None}]
            /\ row'[s].owner = row[s].owner /\ row'[s].turns = {}
            /\ sender'[s] # None
            /\ sender' \in [Session -> Sender \cup {None}]
            /\ \A t \in Session \ {s} : sender'[t] = sender[t]
            /\ OnlyDelivery(r) /\ delivery' \in [Request -> Delivery]
            /\ delivery[r].at = "creating" /\ delivery'[r].at = "ready"
            /\ delivery'[r].session = s
<1>1. delivery \in [Request -> Delivery] /\ Goes(r, "creating", "ready")
  BY DEF WebTypeOK, Claim
<1>2. /\ OnlyDelivery(r) /\ delivery' \in [Request -> Delivery]
      /\ delivery[r].at = "creating" /\ delivery'[r].at = "ready"
      /\ delivery'[r].session = delivery[r].session
  BY <1>1, GoesEffect, GoesTyped
<1>3. PICK s : s = delivery[r].session
  OBVIOUS
<1>4. s \in Session /\ row[s] \in Row
  BY <1>1, <1>2, <1>3 DEF WebTypeOK, TypeOK, Linked, Delivery
<1>5. PICK y : y = [row[s] EXCEPT !.version = row[s].version + 1, !.turns = {}]
  OBVIOUS
<1>6. y \in Row /\ y.owner = row[s].owner /\ y.turns = {}
  <2>1. row[s].version + 1 \in Nat
    BY <1>4 DEF Row
  <2>. QED BY <1>4, <1>5, <2>1 DEF Row
<1>7. row' = [row EXCEPT ![s] = y]
  BY <1>3, <1>5 DEF Claim
<1>8. /\ row' \in [Session -> Row \cup {None}] /\ row'[s] = y
      /\ \A t \in Session \ {s} : row'[t] = row[t]
  BY <1>4, <1>6, <1>7 DEF WebTypeOK, TypeOK
<1>9. SenderOf[EventOf[r]] \in Sender
  BY EventOfAssumption, SenderOfAssumption
<1>10. sender' = [sender EXCEPT ![s] = SenderOf[EventOf[r]]]
  BY <1>3 DEF Claim
<1>11. /\ sender' \in [Session -> Sender \cup {None}]
       /\ sender'[s] # None
       /\ \A t \in Session \ {s} : sender'[t] = sender[t]
  BY <1>4, <1>9, <1>10, SenderAssumption DEF WebTypeOK
<1>12. UNCHANGED turn
  BY DEF Claim
<1>. QED BY <1>2, <1>3, <1>4, <1>6, <1>8, <1>11, <1>12 DEF OnlyRow

LEMMA BeginEffect ==
  ASSUME WebTypeOK, Linked, NEW r \in Request, Begin(r)
  PROVE  LET s == delivery[r].session
         IN /\ s \in Session /\ Arrive(r, s)
            /\ UNCHANGED << row, sender >>
            /\ \A q \in Request \ {r} : turn'[q] = turn[q]
            /\ turn[r].at = "new" /\ turn'[r].at = "polling"
            /\ turn'[r].session = s
            /\ OnlyDelivery(r) /\ delivery' \in [Request -> Delivery]
            /\ delivery[r].at = "ready" /\ delivery'[r].at = "handling"
            /\ delivery'[r].session = s
<1>1. delivery \in [Request -> Delivery] /\ Goes(r, "ready", "handling")
  BY DEF WebTypeOK, Begin
<1>2. /\ OnlyDelivery(r) /\ delivery' \in [Request -> Delivery]
      /\ delivery[r].at = "ready" /\ delivery'[r].at = "handling"
      /\ delivery'[r].session = delivery[r].session
  BY <1>1, GoesEffect, GoesTyped
<1>3. delivery[r].session \in Session
  BY <1>1, <1>2 DEF Linked, Delivery
<1>4. Arrive(r, delivery[r].session) /\ UNCHANGED << row, sender >>
  BY DEF Begin, Arrive, durable
<1>5. /\ \A q \in Request \ {r} : turn'[q] = turn[q]
      /\ turn[r].at = "new" /\ turn'[r].at = "polling"
      /\ turn'[r].session = delivery[r].session
  BY <1>4 DEF WebTypeOK, TypeOK, Arrive, Turn
<1>. QED BY <1>2, <1>3, <1>4, <1>5

LEMMA RestartEffect ==
  ASSUME WebTypeOK, Restart
  PROVE  /\ UNCHANGED << row, sender >>
         /\ delivery' \in [Request -> Delivery] /\ turn' \in [Request -> Turn]
         /\ \A q \in Request :
              /\ delivery'[q].session = delivery[q].session
              /\ delivery'[q].at = IF delivery[q].at \in Ended \cup {"sent"}
                                   THEN delivery[q].at ELSE "crashed"
              /\ turn'[q].session = turn[q].session
              /\ turn'[q].lease = turn[q].lease /\ turn'[q].turns = turn[q].turns
              /\ turn'[q].at = IF turn[q].at \in Running \cup {"polling"}
                               THEN "crashed" ELSE turn[q].at
<1>1. UNCHANGED << row, sender >>
  BY DEF Restart, durable
<1>2. ASSUME NEW q \in Request
      PROVE  LET x == IF delivery[q].at \notin Ended \cup {"sent"}
                      THEN [delivery[q] EXCEPT !.at = "crashed"] ELSE delivery[q]
             IN /\ x \in Delivery /\ x.session = delivery[q].session
                /\ x.at = IF delivery[q].at \in Ended \cup {"sent"}
                          THEN delivery[q].at ELSE "crashed"
  BY DEF WebTypeOK, Delivery, Ended
<1>3. ASSUME NEW q \in Request
      PROVE  LET x == IF turn[q].at \in Running \cup {"polling"}
                      THEN [turn[q] EXCEPT !.at = "crashed"] ELSE turn[q]
             IN /\ x \in Turn /\ x.session = turn[q].session
                /\ x.lease = turn[q].lease /\ x.turns = turn[q].turns
                /\ x.at = IF turn[q].at \in Running \cup {"polling"}
                          THEN "crashed" ELSE turn[q].at
  BY SMTT(30) DEF WebTypeOK, TypeOK, Turn
<1>. QED BY <1>1, <1>2, <1>3 DEF Restart

LEMMA WebCases ==
  ASSUME WebNext
  PROVE  \/ Restart
         \/ \E r \in Request : \/ PlainStep(r) \/ TurnStep(r) \/ Find(r) \/ Claim(r)
                              \/ Begin(r) \/ \E s \in Session : CreateFor(r, s)
BY DEF WebNext, Handle, PlainStep, TurnStep

\* Seen from the store, a step is one of its own, a first save or a restart.
LEMMA StoreStep ==
  ASSUME WebTypeOK, Linked, [WebNext]_webVars
  PROVE  [Next]_vars \/ Restart \/ \E r \in Request : Claim(r)
<1>1. CASE UNCHANGED webVars
  BY <1>1 DEF webVars, vars
<1>2. ASSUME NEW r \in Request, PlainStep(r) \/ Find(r)
      PROVE  UNCHANGED vars
  BY <1>2, PlainStepEffect, FindEffect DEF vars
<1>3. ASSUME NEW r \in Request, TurnStep(r) \/ Begin(r)
      PROVE  [Next]_vars
  BY <1>3, TurnStepEffect, BeginEffect DEF Next
<1>4. ASSUME NEW r \in Request, NEW s \in Session, CreateFor(r, s)
      PROVE  Next
  BY <1>4, CreateEffect DEF Next
<1>. QED BY <1>1, <1>2, <1>3, <1>4, WebCases

-----------------------------------------------------------------------------
(* Types. *)

LEMMA WebTypeInit == WebInit => WebTypeOK
BY TypeInit, NoneAssumption DEF WebInit, WebTypeOK, Delivery

LEMMA StoreTypeStep ==
  ASSUME WebTypeOK, Linked, [WebNext]_webVars
  PROVE  TypeOK'
<1>1. TypeOK
  BY DEF WebTypeOK
<1>2. CASE [Next]_vars
  BY <1>1, <1>2, TypeStep
<1>3. CASE Restart
  BY <1>1, <1>3, RestartEffect DEF TypeOK, Running
<1>4. ASSUME NEW r \in Request, Claim(r)
      PROVE  TypeOK'
  <2>1. \A s \in Session : row[s] # None => row'[s] # None
    BY <1>4, ClaimEffect, NoneAssumption DEF OnlyRow
  <2>. QED BY <1>1, <1>4, <2>1, ClaimEffect DEF TypeOK
<1>. QED BY <1>2, <1>3, <1>4, StoreStep

LEMMA DeliveryTypeStep ==
  ASSUME WebTypeOK, Linked, Remembered, [WebNext]_webVars
  PROVE  delivery' \in [Request -> Delivery] /\ sender' \in [Session -> Sender \cup {None}]
<1>0. delivery \in [Request -> Delivery] /\ sender \in [Session -> Sender \cup {None}]
  BY DEF WebTypeOK
<1>1. CASE UNCHANGED webVars
  BY <1>0, <1>1 DEF webVars, durable
<1>2. CASE Restart
  BY <1>0, <1>2, RestartEffect
<1>3. ASSUME NEW r \in Request,
             PlainStep(r) \/ Find(r) \/ Claim(r) \/ Begin(r)
               \/ \E s \in Session : CreateFor(r, s)
      PROVE  delivery' \in [Request -> Delivery]
               /\ sender' \in [Session -> Sender \cup {None}]
  BY <1>0, <1>3, PlainStepEffect, FindEffect, ClaimEffect, BeginEffect, CreateEffect
<1>4. ASSUME NEW r \in Request, TurnStep(r)
      PROVE  delivery' \in [Request -> Delivery]
               /\ sender' \in [Session -> Sender \cup {None}]
  <2>1. sender' \in [Session -> Sender \cup {None}]
    BY <1>0, <1>4, TurnStepEffect
  <2>2. ASSUME FetchState(r)
        PROVE  delivery' \in [Request -> Delivery]
    <3>1. turn[r].session \in Session
      BY <2>2, InTurnHasRow DEF FetchState, WebTypeOK
    <3>2. memory[turn[r].session] \in Object \cup {None}
      BY <3>1 DEF WebTypeOK
    <3>3. [delivery[r] EXCEPT !.held = memory[turn[r].session]] \in Delivery
      BY <1>0, <3>2 DEF Delivery
    <3>. QED BY <1>0, <2>2, <3>3 DEF FetchState
  <2>3. ASSUME Pack(r)
        PROVE  delivery' \in [Request -> Delivery]
    <3>1. PICK m : m = object[memory[turn[r].session]]
      OBVIOUS
    <3>2. turn[r].session \in Session /\ memory[turn[r].session] \in Object
      BY <2>3, InTurnHasRow DEF Pack, CheckVersion, WebTypeOK, Remembered
    <3>3. m \in SUBSET Request
      BY <3>1, <3>2 DEF WebTypeOK
    <3>4. [delivery[r] EXCEPT !.packed = m] \in Delivery
      BY <1>0, <3>3 DEF Delivery
    <3>. QED BY <1>0, <2>3, <3>1, <3>4 DEF Pack
  <2>4. CASE UNCHANGED delivery
    BY <1>0, <2>1, <2>4
  <2>5. FetchState(r) \/ Pack(r) \/ UNCHANGED delivery
    BY <1>4 DEF TurnStep, Lease, LoadState, WorkOn, Save, LeaseExpires
  <2>. QED BY <2>1, <2>2, <2>3, <2>4, <2>5
<1>. QED BY <1>1, <1>2, <1>3, <1>4, WebCases

LEMMA MemoryTypeStep ==
  ASSUME WebTypeOK, Linked, [WebNext]_webVars
  PROVE  /\ memory' \in [Session -> Object \cup {None}]
         /\ object' \in [Object -> SUBSET Request]
<1>0. /\ memory \in [Session -> Object \cup {None}]
      /\ object \in [Object -> SUBSET Request]
      /\ notes \in [Session -> SUBSET Request]
  BY DEF WebTypeOK
<1>1. CASE UNCHANGED shared
  BY <1>0, <1>1 DEF shared
<1>2. CASE Restart
  BY <1>0, <1>2 DEF Restart
<1>3. ASSUME NEW r \in Request, Find(r)
      PROVE  /\ memory' \in [Session -> Object \cup {None}]
             /\ object' \in [Object -> SUBSET Request]
  <2>1. PICK s \in SessionsOf(SenderOf[EventOf[r]]) :
          Remember(s, << r, "found" >>, notes[s])
    BY <1>3 DEF Find
  <2>2. s \in Session /\ << r, "found" >> \in Object /\ notes[s] \in SUBSET Request
    BY <1>0, <2>1 DEF SessionsOf, Object
  <2>. QED BY <2>1, <2>2, RememberTyped
<1>4. ASSUME NEW r \in Request, NEW s \in Session, CreateFor(r, s)
      PROVE  /\ memory' \in [Session -> Object \cup {None}]
             /\ object' \in [Object -> SUBSET Request]
  <2>1. << r, "created" >> \in Object /\ {} \in SUBSET Request
    BY DEF Object
  <2>. QED BY <1>4, <2>1, RememberTyped DEF CreateFor
<1>5. ASSUME NEW r \in Request, LoadState(r)
      PROVE  /\ memory' \in [Session -> Object \cup {None}]
             /\ object' \in [Object -> SUBSET Request]
  <2>1. turn[r].session \in Session
    BY <1>5, InTurnHasRow DEF LoadState, Load, WebTypeOK
  <2>2. << r, "loaded" >> \in Object /\ notes[turn[r].session] \in SUBSET Request
    BY <1>0, <2>1 DEF Object
  <2>. QED BY <1>5, <2>1, <2>2, RememberTyped DEF LoadState
<1>6. ASSUME NEW r \in Request, WorkOn(r)
      PROVE  /\ memory' \in [Session -> Object \cup {None}]
             /\ object' \in [Object -> SUBSET Request]
  BY <1>0, <1>6 DEF WorkOn
<1>7. ASSUME NEW r \in Request,
             PlainStep(r) \/ Claim(r) \/ Begin(r) \/ Lease(r) \/ FetchState(r)
               \/ Pack(r) \/ Save(r) \/ LeaseExpires(r)
      PROVE  UNCHANGED shared
  BY <1>7 DEF PlainStep, Look, Insert, RecordFails, FindNone, SessionFails,
              Answer, Claim, Begin, Lease, FetchState, Pack, Save, LeaseExpires,
              shared
<1>8. CASE UNCHANGED webVars
  BY <1>1, <1>8 DEF webVars
<1>. QED BY <1>1, <1>2, <1>3, <1>4, <1>5, <1>6, <1>7, <1>8, WebCases DEF TurnStep

LEMMA DurableTypeStep ==
  ASSUME WebTypeOK, Linked, Remembered, [WebNext]_webVars
  PROVE  recorded' \subseteq Event /\ notes' \in [Session -> SUBSET Request]
<1>0. /\ recorded \subseteq Event /\ notes \in [Session -> SUBSET Request]
      /\ object \in [Object -> SUBSET Request]
      /\ delivery \in [Request -> Delivery]
  BY DEF WebTypeOK
<1>1. CASE UNCHANGED << recorded, notes >>
  BY <1>0, <1>1
<1>2. ASSUME NEW r \in Request, Insert(r)
      PROVE  recorded' \subseteq Event /\ notes' \in [Session -> SUBSET Request]
  <2>1. EventOf[r] \in Event
    BY EventOfAssumption
  <2>. QED BY <1>0, <1>2, <2>1 DEF Insert
<1>3. ASSUME NEW r \in Request, Claim(r)
      PROVE  recorded' \subseteq Event /\ notes' \in [Session -> SUBSET Request]
  <2>1. PICK s \in Session : s = delivery[r].session
    BY <1>3, ClaimEffect
  <2>2. object[memory[s]] \in SUBSET Request
    BY <1>0, <1>3, <2>1, ClaimEffect DEF Remembered
  <2>. QED BY <1>0, <1>3, <2>1, <2>2 DEF Claim
<1>4. ASSUME NEW r \in Request, Save(r)
      PROVE  recorded' \subseteq Event /\ notes' \in [Session -> SUBSET Request]
  <2>1. turn[r].session \in Session
    BY <1>4, InTurnHasRow DEF Save, Write, Moves, WebTypeOK
  <2>2. delivery[r].packed \in SUBSET Request
    BY <1>0 DEF Delivery
  <2>. QED BY <1>0, <1>4, <2>1, <2>2 DEF Save
<1>5. ASSUME NEW r \in Request,
             (PlainStep(r) /\ ~Insert(r)) \/ Find(r) \/ Begin(r)
               \/ (TurnStep(r) /\ ~Save(r)) \/ \E s \in Session : CreateFor(r, s)
      PROVE  UNCHANGED << recorded, notes >>
  BY <1>5 DEF PlainStep, Look, RecordFails, FindNone, SessionFails, Answer, Find,
              Begin, TurnStep, Lease, LoadState, FetchState, WorkOn, Pack,
              LeaseExpires, CreateFor, durable
<1>6. CASE Restart \/ UNCHANGED webVars
  BY <1>1, <1>6 DEF Restart, webVars, durable
<1>. QED BY <1>1, <1>2, <1>3, <1>4, <1>5, <1>6, WebCases

LEMMA WebTypeStep ==
  ASSUME WebTypeOK, Linked, Remembered, [WebNext]_webVars
  PROVE  WebTypeOK'
BY StoreTypeStep, DeliveryTypeStep, MemoryTypeStep, DurableTypeStep DEF WebTypeOK

-----------------------------------------------------------------------------
(* The links are kept. *)

LEMMA LinkedInit == WebInit => Linked /\ Private /\ Remembered
BY DEF WebInit, Init, NewTurn, Linked, Private, Remembered

LEMMA LinkedStep ==
  ASSUME WebTypeOK, Linked, [WebNext]_webVars
  PROVE  Linked'
<1>0. TypeOK /\ delivery \in [Request -> Delivery]
  BY DEF WebTypeOK
<1>1. CASE UNCHANGED webVars
  BY <1>1 DEF webVars, durable, Linked
<1>2. CASE Restart
  BY <1>2, RestartEffect DEF Linked, Ended, Running
<1>3. ASSUME NEW r \in Request, PlainStep(r)
      PROVE  Linked'
  BY <1>3, PlainStepEffect DEF Linked, OnlyDelivery, Ended
<1>4. ASSUME NEW r \in Request, TurnStep(r)
      PROVE  Linked'
  <2>1. /\ \A s \in Session : row[s] # None <=> row'[s] # None
        /\ \A q \in Request : /\ turn'[q].session = turn[q].session
                              /\ turn'[q].at = "new" <=> turn[q].at = "new"
    <3>1. Serve(r) \/ Expire(r) \/ UNCHANGED vars
      BY <1>4, TurnStepEffect
    <3>. QED BY <1>0, <3>1, StepEffect DEF vars
  <2>2. \A q \in Request : delivery[q].session \in Session \cup {None}
    BY <1>0 DEF Delivery
  <2>. QED BY <1>4, <2>1, <2>2, TurnStepEffect DEF Linked
<1>5. ASSUME NEW r \in Request, Find(r)
      PROVE  Linked'
  <2>1. turn[r].at = "new"
    BY <1>5, FindEffect DEF Linked, Ended
  <2>. QED BY <1>5, <2>1, FindEffect, NoneAssumption DEF Linked, OnlyDelivery
<1>6. ASSUME NEW r \in Request, NEW s \in Session, CreateFor(r, s)
      PROVE  Linked'
  <2>1. turn[r].at = "new"
    BY <1>6, CreateEffect DEF Linked, Ended
  <2>2. \A t \in Session : row[t] # None => row'[t] # None
    BY <1>6, CreateEffect DEF OnlyRow
  <2>3. \A q \in Request : delivery[q].session \in Session \cup {None}
    BY <1>0 DEF Delivery
  <2>. QED BY <1>6, <2>1, <2>2, <2>3, CreateEffect, NoneAssumption
           DEF Linked, OnlyDelivery
<1>7. ASSUME NEW r \in Request, Claim(r)
      PROVE  Linked'
  <2>1. turn[r].at = "new"
    BY <1>7, ClaimEffect DEF Linked, Ended
  <2>2. \A t \in Session : row[t] # None => row'[t] # None
    BY <1>7, ClaimEffect, NoneAssumption DEF OnlyRow
  <2>3. \A q \in Request : delivery[q].session \in Session \cup {None}
    BY <1>0 DEF Delivery
  <2>4. \A t \in Session : sender'[t] # None => row'[t] # None
    BY <1>7, <2>2, ClaimEffect, NoneAssumption DEF Linked
  <2>. QED BY <1>7, <2>1, <2>2, <2>3, <2>4, ClaimEffect, NoneAssumption
           DEF Linked, OnlyDelivery
<1>8. ASSUME NEW r \in Request, Begin(r)
      PROVE  Linked'
  BY <1>8, BeginEffect, NoneAssumption DEF Linked, OnlyDelivery
<1>. QED BY <1>1, <1>2, <1>3, <1>4, <1>5, <1>6, <1>7, <1>8, WebCases

LEMMA PrivateStep ==
  ASSUME WebTypeOK, Linked, Private, [WebNext]_webVars
  PROVE  Private'
<1>0. delivery \in [Request -> Delivery]
  BY DEF WebTypeOK
<1>. SUFFICES ASSUME NEW p \in Request, delivery'[p].at = "creating"
              PROVE  /\ sender'[delivery'[p].session] = None
                     /\ \A q \in Request \ {p} :
                          delivery'[q].session # delivery'[p].session
  BY DEF Private
<1>. USE DEF Private, OnlyDelivery
<1>1. CASE UNCHANGED webVars
  BY <1>1 DEF webVars, durable
<1>2. CASE Restart
  BY <1>2, RestartEffect DEF Ended
<1>3. ASSUME NEW r \in Request, PlainStep(r)
      PROVE  /\ sender'[delivery'[p].session] = None
             /\ \A q \in Request \ {p} :
                  delivery'[q].session # delivery'[p].session
  BY <1>3, PlainStepEffect DEF Ended
<1>4. ASSUME NEW r \in Request, TurnStep(r)
      PROVE  /\ sender'[delivery'[p].session] = None
             /\ \A q \in Request \ {p} :
                  delivery'[q].session # delivery'[p].session
  BY <1>4, TurnStepEffect
<1>5. ASSUME NEW r \in Request, Find(r)
      PROVE  /\ sender'[delivery'[p].session] = None
             /\ \A q \in Request \ {p} :
                  delivery'[q].session # delivery'[p].session
  BY <1>5, FindEffect
<1>6. ASSUME NEW r \in Request, NEW s \in Session, CreateFor(r, s)
      PROVE  /\ sender'[delivery'[p].session] = None
             /\ \A q \in Request \ {p} :
                  delivery'[q].session # delivery'[p].session
  <2>1. \A q \in Request : delivery[q].session # s
    BY <1>6, CreateEffect, NoneAssumption DEF Linked
  <2>2. sender[s] = None
    BY <1>6, CreateEffect DEF Linked
  <2>. QED BY <1>6, <2>1, <2>2, CreateEffect
<1>7. ASSUME NEW r \in Request, Claim(r)
      PROVE  /\ sender'[delivery'[p].session] = None
             /\ \A q \in Request \ {p} :
                  delivery'[q].session # delivery'[p].session
  <2>1. p # r /\ delivery[p].at = "creating"
    BY <1>7, ClaimEffect
  <2>2. delivery[p].session \in Session
    BY <1>0, <2>1 DEF Linked, Delivery
  <2>. QED BY <1>7, <2>1, <2>2, ClaimEffect
<1>8. ASSUME NEW r \in Request, Begin(r)
      PROVE  /\ sender'[delivery'[p].session] = None
             /\ \A q \in Request \ {p} :
                  delivery'[q].session # delivery'[p].session
  BY <1>8, BeginEffect
<1>. QED BY <1>1, <1>2, <1>3, <1>4, <1>5, <1>6, <1>7, <1>8, WebCases

\* Only a restart forgets.
LEMMA MemoryStays ==
  ASSUME WebTypeOK, Linked, [WebNext]_webVars, ~Restart
  PROVE  \A s \in Session : memory[s] \in Object => memory'[s] \in Object
<1>0. memory \in [Session -> Object \cup {None}]
  BY DEF WebTypeOK
<1>1. ASSUME NEW r \in Request, Find(r) \/ LoadState(r) \/ \E s \in Session : CreateFor(r, s)
      PROVE  \E s : \E o \in Object : \E c : Remember(s, o, c)
  BY <1>1 DEF Find, LoadState, CreateFor, Object
<1>2. ASSUME NEW s, NEW o \in Object, NEW c, Remember(s, o, c)
      PROVE  \A t \in Session : memory[t] \in Object => memory'[t] \in Object
  BY <1>0, <1>2 DEF Remember
<1>3. ASSUME NEW r \in Request,
             PlainStep(r) \/ Claim(r) \/ Begin(r) \/ (TurnStep(r) /\ ~LoadState(r))
      PROVE  UNCHANGED memory
  BY <1>3 DEF PlainStep, Look, Insert, RecordFails, FindNone, SessionFails,
              Answer, Claim, Begin, TurnStep, Lease, FetchState, WorkOn, Pack,
              Save, LeaseExpires, shared
<1>4. CASE UNCHANGED webVars
  BY <1>4 DEF webVars, shared
<1>. QED BY <1>1, <1>2, <1>3, <1>4, WebCases

LEMMA RememberedStep ==
  ASSUME WebTypeOK, Linked, Remembered, [WebNext]_webVars
  PROVE  Remembered'
<1>0. /\ TypeOK /\ delivery \in [Request -> Delivery]
      /\ memory \in [Session -> Object \cup {None}]
  BY DEF WebTypeOK
<1>. USE DEF Remembered
<1>1. CASE Restart
  BY <1>1, RestartEffect DEF Running, Ended
<1>. SUFFICES ASSUME ~Restart, NEW p \in Request
              PROVE  /\ turn'[p].at \in {"loaded", "worked"}
                          => memory'[turn'[p].session] \in Object
                     /\ delivery'[p].at = "creating"
                          => memory'[delivery'[p].session] \in Object
  BY <1>1
<1>a. /\ (turn'[p] = turn[p] /\ turn[p].at \in {"loaded", "worked"})
           => memory'[turn'[p].session] \in Object
      /\ ( /\ delivery'[p].at = delivery[p].at
           /\ delivery'[p].session = delivery[p].session
           /\ delivery[p].at = "creating" )
           => memory'[delivery'[p].session] \in Object
  <2>1. turn[p].at \in {"loaded", "worked"} => turn[p].session \in Session
    BY <1>0 DEF TypeOK
  <2>2. delivery[p].at = "creating" => delivery[p].session \in Session
    BY <1>0 DEF Linked, Delivery
  <2>. QED BY <2>1, <2>2, MemoryStays
<1>2. CASE UNCHANGED webVars
  BY <1>2, <1>a DEF webVars
<1>3. ASSUME NEW r \in Request, PlainStep(r)
      PROVE  Remembered'
  BY <1>3, MemoryStays, PlainStepEffect, <1>0 DEF OnlyDelivery, Ended, Linked, Delivery, TypeOK
<1>4. ASSUME NEW r \in Request, TurnStep(r)
      PROVE  turn'[p].at \in {"loaded", "worked"} => memory'[turn'[p].session] \in Object
  <2>1. CASE LoadState(r)
    <3>1. turn[r].session \in Session /\ OnlyTurn(r)
      BY <1>0, <2>1, InTurnHasRow, LoadEffect DEF LoadState, Load
    <3>2. memory'[turn[r].session] = << r, "loaded" >>
      BY <1>0, <2>1, <3>1 DEF LoadState, Remember
    <3>3. << r, "loaded" >> \in Object
      BY DEF Object
    <3>. QED BY <1>a, <3>1, <3>2, <3>3 DEF OnlyTurn
  <2>2. CASE WorkOn(r)
    <3>1. OnlyTurn(r) /\ turn[r].at = "loaded"
      BY <1>0, <2>2, WorkEffect DEF WorkOn
    <3>2. turn[r].session \in Session
      BY <1>0, <3>1, InTurnHasRow
    <3>. QED BY <1>a, <3>1, <3>2, MemoryStays DEF OnlyTurn
  <2>3. CASE Pack(r) \/ Save(r)
    BY <1>0, <1>a, <2>3, MoveEffect, WriteEffect
       DEF Pack, Save, OnlyTurn, CheckVersion, Moves, TypeOK, Turn
  <2>4. CASE FetchState(r)
    BY <1>a, <2>4 DEF FetchState
  <2>5. CASE LeaseExpires(r)
    BY <1>0, <1>a, <2>5, ExpireEffect, MemoryStays DEF LeaseExpires, OnlyTurn, TypeOK
  <2>6. CASE Lease(r)
    <3>1. OnlyTurn(r) /\ turn'[r].at \notin {"loaded", "worked"}
      BY <1>0, <2>6, AcquireEffect, ReleaseEffect, MoveEffect
         DEF Lease, Outcome, GiveUp, WorkFails, ReleaseFails, Moves, TypeOK, Turn
    <3>. QED BY <1>a, <3>1 DEF OnlyTurn
  <2>. QED BY <1>4, <2>1, <2>2, <2>3, <2>4, <2>5, <2>6 DEF TurnStep
<1>5. ASSUME NEW r \in Request, TurnStep(r)
      PROVE  delivery'[p].at = "creating" => memory'[delivery'[p].session] \in Object
  BY <1>5, <1>a, TurnStepEffect
<1>6. ASSUME NEW r \in Request, Find(r) \/ Claim(r)
      PROVE  /\ turn'[p].at \in {"loaded", "worked"}
                  => memory'[turn'[p].session] \in Object
             /\ delivery'[p].at = "creating"
                  => memory'[delivery'[p].session] \in Object
  BY <1>6, <1>a, FindEffect, ClaimEffect DEF OnlyDelivery
<1>7. ASSUME NEW r \in Request, NEW s \in Session, CreateFor(r, s)
      PROVE  /\ turn'[p].at \in {"loaded", "worked"}
                  => memory'[turn'[p].session] \in Object
             /\ delivery'[p].at = "creating"
                  => memory'[delivery'[p].session] \in Object
  <2>1. memory'[s] \in Object
    BY <1>0, <1>7 DEF CreateFor, Remember, Object
  <2>. QED BY <1>7, <1>a, <2>1, CreateEffect DEF OnlyDelivery
<1>8. ASSUME NEW r \in Request, Begin(r)
      PROVE  /\ turn'[p].at \in {"loaded", "worked"}
                  => memory'[turn'[p].session] \in Object
             /\ delivery'[p].at = "creating"
                  => memory'[delivery'[p].session] \in Object
  BY <1>8, <1>a, BeginEffect DEF OnlyDelivery
<1>. QED BY <1>2, <1>3, <1>4, <1>5, <1>6, <1>7, <1>8, WebCases

-----------------------------------------------------------------------------
(* Answered turns are kept. *)

WebInv ==
  /\ WebTypeOK
  /\ Linked
  /\ Private
  /\ Remembered

\* Nobody has a turn on a session that is being created.
LEMMA NoTurnThere ==
  ASSUME WebInv, NEW r \in Request, delivery[r].at = "creating",
         NEW q \in Request, turn[q].at # "new"
  PROVE  turn[q].session # delivery[r].session
<1>1. q # r
  BY DEF WebInv, Linked, Ended
<1>. QED BY <1>1 DEF WebInv, Linked, Private

\* The second save of a new session overwrites no turn.
LEMMA ClaimKeeps ==
  ASSUME WebInv, KeptInv, NEW r \in Request, Claim(r)
  PROVE  LiveLeaseIsOwner' /\ RunningIsLeased' /\ CopyIsFresh' /\ WorkIsThere'
<1>1. PICK s \in Session : s = delivery[r].session
  BY ClaimEffect DEF WebInv
<1>2. UNCHANGED turn /\ OnlyRow(s) /\ row'[s].owner = row[s].owner
  BY <1>1, ClaimEffect DEF WebInv
<1>3. \A q \in Request : turn[q].at # "new" => turn[q].session # s
  BY <1>1, NoTurnThere, ClaimEffect DEF WebInv
<1>4. \A q \in Request : turn[q].at # "new" => turn[q].session \in Session
  BY DEF WebInv, WebTypeOK, TypeOK
<1>5. LiveLeaseIsOwner' /\ RunningIsLeased'
  BY <1>2 DEF KeptInv, LiveLeaseIsOwner, InTurn, RunningIsLeased, OnlyRow
<1>6. CopyIsFresh' /\ WorkIsThere'
  BY <1>2, <1>3, <1>4 DEF KeptInv, CopyIsFresh, WorkIsThere, OnlyRow
<1>. QED BY <1>5, <1>6

\* A restart only ends turns.
LEMMA RestartKeeps ==
  ASSUME WebInv, KeptInv, Restart
  PROVE  LiveLeaseIsOwner' /\ RunningIsLeased' /\ CopyIsFresh' /\ WorkIsThere'
BY RestartEffect
   DEF WebInv, KeptInv, LiveLeaseIsOwner, InTurn, RunningIsLeased, CopyIsFresh,
       WorkIsThere, Running

LEMMA WebKeptStep ==
  ASSUME WebInv, KeptInv, [WebNext]_webVars, ~LeaseCanLapse
  PROVE  WebInv' /\ KeptInv'
<1>1. WebInv'
  BY WebTypeStep, LinkedStep, PrivateStep, RememberedStep DEF WebInv
<1>2. TypeOK'
  BY <1>1 DEF WebInv, WebTypeOK
<1>3. CASE [Next]_vars
  BY <1>1, <1>2, <1>3, LeaseStep, LeasedStep, FreshStep, WorkStep DEF KeptInv
<1>4. CASE Restart
  BY <1>1, <1>2, <1>4, RestartKeeps DEF KeptInv
<1>5. ASSUME NEW r \in Request, Claim(r)
      PROVE  WebInv' /\ KeptInv'
  BY <1>1, <1>2, <1>5, ClaimKeeps DEF KeptInv
<1>. QED BY <1>3, <1>4, <1>5, StoreStep DEF WebInv

LEMMA WebInvInit == WebInit => WebInv /\ KeptInv
BY WebTypeInit, LinkedInit, KeptInit DEF WebInit, WebInv

\* The webhook and the store keep their types, through restarts as well; the
\* dict of agent states has an entry whenever a turn needs one.
THEOREM WebTypeCorrect == WebSpec => []WebTypeOK
<1>1. WebInit => WebInv
  BY WebInvInit
<1>2. WebInv /\ [WebNext]_webVars => WebInv'
  BY WebTypeStep, LinkedStep, PrivateStep, RememberedStep DEF WebInv
<1>3. WebInv => WebTypeOK
  BY DEF WebInv
<1>. QED BY <1>1, <1>2, <1>3, PTL DEF WebSpec

\* Although the session of a new sender is saved twice without its lease, no
\* answered turn is lost as long as no turn outlives its lease: only the second
\* save makes the session findable.
THEOREM WebTurnsAreKept ==
  ~LeaseCanLapse => (WebSpec => []AnsweredTurnsAreKept)
<1>. SUFFICES ASSUME ~LeaseCanLapse PROVE WebSpec => []AnsweredTurnsAreKept
  OBVIOUS
<1>1. WebInit => WebInv /\ KeptInv
  BY WebInvInit
<1>2. WebInv /\ KeptInv /\ [WebNext]_webVars => WebInv' /\ KeptInv'
  BY WebKeptStep
<1>3. KeptInv => AnsweredTurnsAreKept
  BY DEF KeptInv, WorkIsThere, AnsweredTurnsAreKept
<1>. QED BY <1>1, <1>2, <1>3, PTL DEF WebSpec

-----------------------------------------------------------------------------
(* An event is handled once. *)

\* A delivery that could not record its event remains one.
LEMMA LostStays ==
  ASSUME WebTypeOK, NEW q \in Request, delivery[q].lost, [WebNext]_webVars
  PROVE  delivery'[q].lost
<1>1. delivery \in [Request -> Delivery] /\ delivery[q] \in Delivery
  BY DEF WebTypeOK
<1>2. CASE UNCHANGED delivery
  BY <1>2
<1>3. ASSUME NEW r \in Request, NEW from, NEW to, Goes(r, from, to)
      PROVE  delivery'[q].lost
  BY <1>1, <1>3 DEF Goes, Delivery
<1>4. ASSUME NEW r \in Request, PlainStep(r)
      PROVE  delivery'[q].lost
  <2>1. CASE RecordFails(r)
    BY <1>1, <2>1, RecordFailsEffect DEF OnlyDelivery
  <2>. QED BY <1>3, <1>4, <2>1
           DEF PlainStep, Look, Insert, FindNone, SessionFails, Answer
<1>5. ASSUME NEW r \in Request, TurnStep(r)
      PROVE  delivery'[q].lost
  <2>1. CASE FetchState(r) \/ Pack(r)
    BY <1>1, <2>1 DEF FetchState, Pack, Delivery
  <2>. QED BY <1>2, <1>5, <2>1
           DEF TurnStep, Lease, LoadState, WorkOn, Save, LeaseExpires
<1>6. ASSUME NEW r \in Request, Find(r) \/ \E s \in Session : CreateFor(r, s)
      PROVE  delivery'[q].lost
  BY <1>1, <1>6 DEF Find, CreateFor, Delivery
<1>7. ASSUME NEW r \in Request, Claim(r) \/ Begin(r)
      PROVE  delivery'[q].lost
  BY <1>3, <1>7 DEF Claim, Begin
<1>8. CASE Restart
  BY <1>1, <1>8 DEF Restart, Delivery
<1>. QED BY <1>2, <1>4, <1>5, <1>6, <1>7, <1>8, WebCases DEF webVars

\* A delivery that was told its event is new.
Taken(r) ==
  \/ turn[r].at # "new"
  \/ delivery[r].at \in {"marked", "unknown", "creating", "ready", "handling",
                         "answered", "failed"}

\* It was told so because it recorded the event.
Took(r) == Taken(r) /\ ~delivery[r].lost

\* Its event is recorded, and no other delivery recorded it.
TakenOnce ==
  \A p \in Request : Took(p) =>
    /\ EventOf[p] \in recorded
    /\ \A q \in Request : Took(q) /\ EventOf[q] = EventOf[p] => p = q

LEMMA TakenStep ==
  ASSUME WebInv, TakenOnce, [WebNext]_webVars
  PROVE  TakenOnce'
<1>0. WebTypeOK /\ Linked /\ TypeOK /\ delivery \in [Request -> Delivery]
  BY DEF WebInv, WebTypeOK
<1>a. \A q \in Request : delivery[q].lost => delivery'[q].lost
  BY <1>0, LostStays
<1>1. CASE UNCHANGED webVars
  BY <1>1 DEF webVars, durable, TakenOnce, Took, Taken
<1>2. ASSUME NEW r \in Request, Insert(r), EventOf[r] \notin recorded
      PROVE  TakenOnce'
  <2>1. \A q \in Request \ {r} : Took(q)' => Took(q)
    BY <1>0, <1>2, <1>a, GoesEffect DEF Insert, Took, Taken, OnlyDelivery
  <2>2. recorded' = recorded \cup {EventOf[r]}
    BY <1>2 DEF Insert
  <2>. QED BY <1>2, <2>1, <2>2 DEF TakenOnce
<1>3. ASSUME UNCHANGED recorded, \A q \in Request : Took(q)' => Took(q)
      PROVE  TakenOnce'
  BY <1>3 DEF TakenOnce
<1>4. ASSUME NEW r \in Request, Insert(r), EventOf[r] \in recorded
      PROVE  UNCHANGED recorded /\ \A q \in Request : Took(q)' => Took(q)
  BY <1>0, <1>4, <1>a, GoesEffect DEF Insert, Took, Taken, OnlyDelivery
<1>5. ASSUME NEW r \in Request, PlainStep(r), ~Insert(r)
      PROVE  UNCHANGED recorded /\ \A q \in Request : Took(q)' => Took(q)
  <2>1. ASSUME Look(r)
        PROVE  UNCHANGED recorded /\ \A q \in Request : Took(q)' => Took(q)
    BY <1>0, <1>a, <2>1, GoesEffect DEF Look, Took, Taken, OnlyDelivery, durable
  <2>2. ASSUME FindNone(r)
        PROVE  UNCHANGED recorded /\ \A q \in Request : Took(q)' => Took(q)
    BY <1>0, <1>a, <2>2, GoesEffect
       DEF FindNone, Took, Taken, OnlyDelivery, durable
  <2>3. ASSUME Answer(r)
        PROVE  UNCHANGED recorded /\ \A q \in Request : Took(q)' => Took(q)
    BY <1>0, <1>a, <2>3, GoesEffect DEF Answer, Took, Taken, OnlyDelivery, durable
  <2>4. ASSUME RecordFails(r)
        PROVE  UNCHANGED recorded /\ \A q \in Request : Took(q)' => Took(q)
    BY <1>0, <1>a, <2>4, RecordFailsEffect
       DEF RecordFails, Took, Taken, OnlyDelivery, durable
  <2>5. ASSUME SessionFails(r)
        PROVE  UNCHANGED recorded /\ \A q \in Request : Took(q)' => Took(q)
    BY <1>0, <1>a, <2>5, GoesEffect
       DEF SessionFails, Took, Taken, OnlyDelivery, durable
  <2>. QED BY <1>5, <2>1, <2>2, <2>3, <2>4, <2>5 DEF PlainStep
<1>6. ASSUME NEW r \in Request, TurnStep(r)
      PROVE  UNCHANGED recorded /\ \A q \in Request : Took(q)' => Took(q)
  <2>1. UNCHANGED recorded
    BY <1>6 DEF TurnStep, Lease, LoadState, FetchState, WorkOn, Pack, Save,
                LeaseExpires, durable
  <2>2. \A q \in Request : turn'[q].at = "new" <=> turn[q].at = "new"
    <3>1. Serve(r) \/ Expire(r) \/ UNCHANGED vars
      BY <1>0, <1>6, TurnStepEffect
    <3>. QED BY <1>0, <3>1, StepEffect DEF vars
  <2>. QED BY <1>0, <1>6, <1>a, <2>1, <2>2, TurnStepEffect DEF Took, Taken
<1>7. ASSUME NEW r \in Request,
             Find(r) \/ Claim(r) \/ Begin(r) \/ \E s \in Session : CreateFor(r, s)
      PROVE  UNCHANGED recorded /\ \A q \in Request : Took(q)' => Took(q)
  <2>1. UNCHANGED recorded
    BY <1>7 DEF Find, Claim, Begin, CreateFor, durable
  <2>. QED BY <1>0, <1>7, <1>a, <2>1, FindEffect, ClaimEffect, BeginEffect,
              CreateEffect DEF Took, Taken, OnlyDelivery
<1>8. CASE Restart
  <2>1. UNCHANGED recorded
    BY <1>8 DEF Restart, durable
  <2>2. \A q \in Request : Took(q)' => Took(q)
    BY <1>0, <1>8, <1>a, RestartEffect DEF Took, Taken, Running
  <2>. QED BY <1>3, <2>1, <2>2
<1>. QED BY <1>1, <1>2, <1>3, <1>4, <1>5, <1>6, <1>7, <1>8, WebCases

\* An event reaches the agent once, however many deliveries of it race, and
\* whatever a restart interrupts, not counting those that could not record it.
THEOREM WebHandlesOnce == WebSpec => []HandledOnce
<1>1. WebInit => WebInv /\ TakenOnce
  BY WebInvInit DEF WebInit, Init, NewTurn, TakenOnce, Took, Taken
<1>2. WebInv /\ [WebNext]_webVars => WebInv'
  BY WebTypeStep, LinkedStep, PrivateStep, RememberedStep DEF WebInv
<1>3. WebInv /\ TakenOnce /\ [WebNext]_webVars => TakenOnce'
  BY TakenStep
<1>4. TakenOnce => HandledOnce
  BY DEF TakenOnce, Took, Taken, HandledOnce
<1>. QED BY <1>1, <1>2, <1>3, <1>4, PTL DEF WebSpec

=============================================================================
