-------------------------- MODULE InstagramWebhook --------------------------
(***************************************************************************)
(* The Instagram channel of the agent (ai_agent_app/server.py,             *)
(* webhook_received): every event of a delivery is recorded as an          *)
(* interaction under the unique key (channel, message_key); the delivery   *)
(* that records it finds or creates the session of its sender and runs one *)
(* turn of SessionStore on it.  Whatever goes wrong, the answer to Meta is *)
(* 200.                                                                    *)
(*                                                                         *)
(* A Request is here one event of one delivery: Meta may deliver an event  *)
(* more than once, and Previous orders the events of one delivery, which   *)
(* are handled one after the other.                                        *)
(*                                                                         *)
(* The runtime keeps the AgentState of each session in a dict that all its *)
(* requests share.  An entry is an object: `memory' says which object the  *)
(* entry refers to, and a turn goes on writing to the one it fetched.      *)
(***************************************************************************)
EXTENDS SessionStore

CONSTANTS
  Event,        \* message keys
  Sender,       \* Instagram scoped sender ids
  EventOf,      \* the event a request carries
  SenderOf,     \* the sender of an event
  Previous,     \* the request before it in its delivery, or None
  Failing       \* requests for which a call to the store can fail

ASSUME EventOfAssumption  == EventOf \in [Request -> Event]
ASSUME SenderOfAssumption == SenderOf \in [Event -> Sender]
ASSUME PreviousAssumption == Previous \in [Request -> Request \cup {None}]
ASSUME FailingAssumption  == Failing \subseteq Request
ASSUME SenderAssumption   == None \notin Sender

VARIABLES
  recorded,   \* the message keys of the interactions
  sender,     \* ai_agent_sessions.instagram_sender_id
  notes,      \* ai_agent_sessions.agent_state: the turns it reflects
  memory,     \* _state_by_session: an object for each session
  object,     \* the content of every AgentState object
  delivery    \* delivery[r]: how far r is

durable == << recorded, sender, notes >>
shared  == << memory, object >>
webVars == << row, turn, durable, shared, delivery >>

-----------------------------------------------------------------------------

\* The AgentState objects, by the request that made them and where.
Object == Request \X {"found", "created", "loaded"}

Delivery == [ at      : {"sent", "unseen", "marked", "unknown", "creating",
                         "ready", "handling", "answered", "duplicate",
                         "failed", "crashed"},
              lost    : BOOLEAN,               \* its event could not be recorded
              session : Session \cup {None},
              held    : Object \cup {None},    \* the object its turn writes to
              packed  : SUBSET Request ]       \* what its save will store

ASSUME ObjectAssumption == None \notin Object

WebInit ==
  /\ Init
  /\ recorded = {}
  /\ sender = [s \in Session |-> None]
  /\ notes = [s \in Session |-> {}]
  /\ memory = [s \in Session |-> None]
  /\ object = [o \in Object |-> {}]
  /\ delivery = [r \in Request |-> [ at |-> "sent", lost |-> FALSE,
                                     session |-> None, held |-> None,
                                     packed |-> {} ]]

Goes(r, from, to) ==
  /\ delivery[r].at = from
  /\ delivery' = [delivery EXCEPT ![r].at = to]

\* The dict entry of s becomes the object o, holding what was loaded.
Remember(s, o, content) ==
  /\ memory' = [memory EXCEPT ![s] = o]
  /\ object' = [object EXCEPT ![o] = content]

Ended == {"answered", "duplicate", "failed", "crashed"}

-----------------------------------------------------------------------------
(* record_inbound_channel_event *)

\* An exception leaves the loop over the events of the delivery.
Reached(r) ==
  Previous[r] # None => delivery[Previous[r]].at \in {"answered", "duplicate"}

Look(r) ==
  /\ Reached(r)
  /\ Goes(r, "sent", IF EventOf[r] \in recorded THEN "duplicate" ELSE "unseen")
  /\ UNCHANGED << row, turn, durable, shared >>

\* Mutant of Insert: no unique index, the look decides.
InsertAlways(r) ==
  /\ Goes(r, "unseen", "marked")
  /\ recorded' = recorded \cup {EventOf[r]}
  /\ UNCHANGED << row, turn, sender, notes, shared >>

\* Mutant of Insert: stores a key of the delivery, not the message key.
InsertOwnKey(r) ==
  /\ Goes(r, "unseen", IF EventOf[r] \in recorded THEN "duplicate" ELSE "marked")
  /\ recorded' = recorded \cup {r}
  /\ UNCHANGED << row, turn, sender, notes, shared >>

\* The unique index decides; the loser finds the row and is a duplicate.
Insert(r) ==
  /\ Goes(r, "unseen", IF EventOf[r] \in recorded THEN "duplicate" ELSE "marked")
  /\ recorded' = recorded \cup {EventOf[r]}
  /\ UNCHANGED << row, turn, sender, notes, shared >>

\* The webhook takes an event it could not record for a new one.
RecordFails(r) ==
  /\ r \in Failing
  /\ Reached(r)
  /\ delivery[r].at \in {"sent", "unseen"}
  /\ delivery' = [delivery EXCEPT ![r].at = "marked", ![r].lost = TRUE]
  /\ UNCHANGED << row, turn, durable, shared >>

-----------------------------------------------------------------------------
(* get_or_create_session_for_instagram *)

SessionsOf(x) == {s \in Session : sender[s] = x}

\* A session that is found is loaded, and replaces the entry in memory.
Find(r) ==
  \E s \in SessionsOf(SenderOf[EventOf[r]]) :
    /\ delivery[r].at = "marked"
    /\ delivery' = [delivery EXCEPT ![r].at = "ready", ![r].session = s]
    /\ Remember(s, << r, "found" >>, notes[s])
    /\ UNCHANGED << row, turn, durable >>

FindNone(r) ==
  /\ SessionsOf(SenderOf[EventOf[r]]) = {}
  /\ Goes(r, "marked", "unknown")
  /\ UNCHANGED << row, turn, durable, shared >>

\* Mutant of CreateFor: the first insert already carries the sender.
CreateFindable(r, s) ==
  /\ delivery[r].at = "unknown"
  /\ CreateSession(s)
  /\ delivery' = [delivery EXCEPT ![r].at = "creating", ![r].session = s]
  /\ Remember(s, << r, "created" >>, {})
  /\ sender' = [sender EXCEPT ![s] = SenderOf[EventOf[r]]]
  /\ UNCHANGED << recorded, notes >>

\* create_session saves the new session; it has no sender yet.
CreateFor(r, s) ==
  /\ delivery[r].at = "unknown"
  /\ CreateSession(s)
  /\ delivery' = [delivery EXCEPT ![r].at = "creating", ![r].session = s]
  /\ Remember(s, << r, "created" >>, {})
  /\ UNCHANGED durable

\* The second save, with the sender: no lease and no expected version.
Claim(r) ==
  LET s == delivery[r].session
  IN /\ Goes(r, "creating", "ready")
     /\ row' = [row EXCEPT ![s].version = @ + 1, ![s].turns = {}]
     /\ sender' = [sender EXCEPT ![s] = SenderOf[EventOf[r]]]
     /\ notes' = [notes EXCEPT ![s] = object[memory[s]]]
     /\ UNCHANGED << turn, recorded, shared >>

\* The session store fails before the turn begins.
SessionFails(r) ==
  /\ r \in Failing
  /\ \E at \in {"marked", "unknown", "creating"} : Goes(r, at, "failed")
  /\ UNCHANGED << row, turn, durable, shared >>

-----------------------------------------------------------------------------
(* handle_message_by_id, as a turn of SessionStore *)

Begin(r) ==
  /\ Goes(r, "ready", "handling")
  /\ Arrive(r, delivery[r].session)
  /\ UNCHANGED << durable, shared >>

\* Steps of the turn that touch neither the agent state nor the delivery.
Lease(r) ==
  /\ Acquire(r) \/ GiveUp(r) \/ WorkFails(r) \/ Release(r) \/ ReleaseFails(r)
  /\ UNCHANGED << durable, shared, delivery >>

LoadState(r) ==
  /\ Load(r)
  /\ Remember(turn[r].session, << r, "loaded" >>, notes[turn[r].session])
  /\ UNCHANGED << durable, delivery >>

\* The turn fetches the object it records its tasks in, before it calls the
\* model; turns answered without the model never do.
FetchState(r) ==
  /\ turn[r].at = "loaded"
  /\ delivery[r].held = None
  /\ delivery' = [delivery EXCEPT ![r].held = memory[turn[r].session]]
  /\ UNCHANGED << row, turn, durable, shared >>

WorkOn(r) ==
  /\ Work(r)
  /\ object' = [o \in Object |->
       IF o = delivery[r].held THEN object[o] \cup {r} ELSE object[o]]
  /\ UNCHANGED << durable, memory, delivery >>

\* _persist_session saves whatever object is in the dict by now.
Pack(r) ==
  /\ CheckVersion(r)
  /\ delivery' = [delivery EXCEPT ![r].packed = object[memory[turn[r].session]]]
  /\ UNCHANGED << durable, shared >>

Save(r) ==
  /\ Write(r)
  /\ notes' = [notes EXCEPT ![turn[r].session] = delivery[r].packed]
  /\ UNCHANGED << recorded, sender, shared, delivery >>

\* The reply, or the exception that is answered with 200 as well.
Answer(r) ==
  /\ turn[r].at \in {"done", "busy", "failed"}
  /\ Goes(r, "handling", IF turn[r].at = "done" THEN "answered" ELSE "failed")
  /\ UNCHANGED << row, turn, durable, shared >>

-----------------------------------------------------------------------------

LeaseExpires(r) == Expire(r) /\ UNCHANGED << durable, shared, delivery >>

\* The one worker of the agent dies with every request it is serving.
Restart ==
  /\ \E r \in Request : delivery[r].at \notin Ended \cup {"sent"}
  /\ turn' = [r \in Request |->
       IF turn[r].at \in Running \cup {"polling"}
       THEN [turn[r] EXCEPT !.at = "crashed"] ELSE turn[r]]
  /\ delivery' = [r \in Request |->
       IF delivery[r].at \notin Ended \cup {"sent"}
       THEN [delivery[r] EXCEPT !.at = "crashed"] ELSE delivery[r]]
  /\ memory' = [s \in Session |-> None]
  /\ UNCHANGED << row, durable, object >>

Handle(r) ==
  \/ Look(r) \/ Insert(r) \/ RecordFails(r)
  \/ Find(r) \/ FindNone(r) \/ Claim(r) \/ SessionFails(r)
  \/ \E s \in Session : CreateFor(r, s)
  \/ Begin(r) \/ Lease(r) \/ LoadState(r) \/ FetchState(r) \/ WorkOn(r)
  \/ Pack(r) \/ Save(r) \/ Answer(r)

WebNext == Restart \/ \E r \in Request : Handle(r) \/ LeaseExpires(r)

WebSpec == WebInit /\ [][WebNext]_webVars

-----------------------------------------------------------------------------
(* Properties. *)

WebTypeOK ==
  /\ TypeOK
  /\ recorded \subseteq Event
  /\ sender \in [Session -> Sender \cup {None}]
  /\ notes \in [Session -> SUBSET Request]
  /\ memory \in [Session -> Object \cup {None}]
  /\ object \in [Object -> SUBSET Request]
  /\ delivery \in [Request -> Delivery]

\* An event reaches the agent once, however often and however concurrently it
\* is delivered, and whatever crashes in between, not counting deliveries that
\* could not record it.
HandledOnce ==
  \A p, q \in Request :
    /\ EventOf[p] = EventOf[q]
    /\ ~delivery[p].lost /\ ~delivery[q].lost
    /\ turn[p].at # "new" /\ turn[q].at # "new"
    => p = q

-----------------------------------------------------------------------------
\* Statements the code does not keep.

\* When every delivery of a recorded event has ended, one of them was handled.
MarkedIsHandled ==
  \A e \in recorded :
    (\A r \in Request : EventOf[r] = e => delivery[r].at \in Ended)
      => \E r \in Request : EventOf[r] = e /\ delivery[r].at = "answered"

\* What an answered turn recorded in the agent state is in the saved state.
AgentStateIsKept ==
  \A r \in Request :
    turn[r].at = "done" /\ delivery[r].held # None
      => r \in notes[turn[r].session]

=============================================================================
