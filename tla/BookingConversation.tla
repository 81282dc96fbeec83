------------------------ MODULE BookingConversation ------------------------
(***************************************************************************)
(* One conversation of the booking agent: what the runtime                 *)
(* (tool_calling_runtime.py, handle_message) does with each message of the *)
(* customer, and the step the policy (workflow_policy.py, evaluate) asks   *)
(* for next.  A message is offered to one handler after another; the first *)
(* that takes it answers.  The last of them, the workflow, records what    *)
(* the message says, finds the next step, and is the only one that writes  *)
(* a booking draft: when every detail is given and booking_confirmed is    *)
(* set.                                                                    *)
(*                                                                         *)
(* Turns of one session are serialised (module SessionStore), so a message *)
(* is one step here; what happens to the tables meanwhile is module        *)
(* AgentBookings.  A message is its class, not its words; the rooms, the   *)
(* head counts and the nationalities of a group are one value, its party.  *)
(***************************************************************************)
EXTENDS Naturals

CONSTANTS
  Trip,
  TypeOf,   \* "local" or "international"; only the latter have flights
  Party,
  Said,     \* the messages of the customer
  Offer,    \* what the CRM has of a trip for a party
  None

ASSUME TripAssumption  == TypeOf \in [Trip -> {"local", "international"}]
ASSUME OfferAssumption == Offer \in [Trip -> [Party ->
                            {"available", "otherRooms", "soldOut", "unpriced"}]]

\* What the recognisers make of a message: a reply, a way back, a wish, a detail
\* of the booking, an upload that fails, or nothing.
Reply   == {"yes", "no", "thanks"}
WayBack == {"cancel", "startOver", "back"}
Wish    == {"human", "book", "trips", "private", "name", "details"}
Detail  == {"phone", "pick", "switch", "retype", "rooms", "flight", "revise", "answer"}
Message == Reply \cup WayBack \cup Wish \cup Detail \cup {"stuck", "other"}

ASSUME SaidAssumption  == Said \subseteq Message
ASSUME NoneAssumption  == /\ None \notin Trip /\ None \notin Party
                          /\ \A r \in SUBSET Trip : r # None
                          /\ None \notin {"local", "international"}

VARIABLES
  session,   \* the SessionState
  crm,       \* what the CRM knows of the customer's number
  minor,     \* whether the birthday makes the customer a minor
  visible,   \* whether the agent's last message was a confirmation summary
  shown,     \* history: the trip of the last summary
  written    \* history: drafts and private requests since the last new booking

vars == << session, crm, minor, visible, shown, written >>

-----------------------------------------------------------------------------

Type == {"local", "international"}

Collecting == {"identity_required", "traveler_not_found", "guardian_required",
               "trip_type_required", "private_details_required",
               "trip_selection_required", "no_trips_available",
               "room_type_required", "flight_option_required",
               "awaiting_passport_upload", "currency_required"}
HandoffStep == {"duplicate_traveler_detected", "human_handoff_required",
                "capacity_handoff_required"}
Stage == Collecting \cup HandoffStep \cup
         {"trip_search_ready", "booking_ready", "booking_confirmation_required",
          "private_request_ready", "private_request_escalated",
          "post_booking_support", "new_booking_intent", "waiting",
          "public_trip_details"}

SessionState ==
  [ stage     : Stage,
    lookup    : {"none", "found", "not_found", "restricted", "duplicate"},
    known     : BOOLEAN,    \* traveler_id, never cleared
    phone     : BOOLEAN,
    profile   : BOOLEAN,    \* name, nationality and birthday given
    guardian  : {"none", "given", "saved"},
    type      : Type \cup {None},
    results   : (SUBSET Trip) \cup {None},   \* the last search
    trip      : Trip \cup {None},
    party     : Party \cup {None},
    flight    : {"Chosen", "NotApplicable", None},   \* with or without flights
    passport  : BOOLEAN,
    currency  : BOOLEAN,
    requested : BOOLEAN,    \* booking_confirmation_requested
    confirmed : BOOLEAN,    \* booking_confirmed
    completed : BOOLEAN,    \* booking_completed
    booked    : BOOLEAN,    \* booking_result
    booking   : BOOLEAN,    \* final_result.booking_id
    handoff   : BOOLEAN,    \* final_result.handoff_id
    handed    : BOOLEAN,    \* handoff_state says that a person has taken over
    private   : BOOLEAN,    \* private_trip_active
    reselect  : BOOLEAN,    \* awaiting_trip_reselection
    wish      : BOOLEAN,    \* the details of the private trip are given
    request   : BOOLEAN ]   \* private_trip_request_id

Start ==
  [ stage |-> "identity_required", lookup |-> "none", known |-> FALSE,
    phone |-> FALSE, profile |-> FALSE, guardian |-> "none", type |-> None,
    results |-> None, trip |-> None, party |-> None, flight |-> None,
    passport |-> FALSE, currency |-> FALSE, requested |-> FALSE,
    confirmed |-> FALSE, completed |-> FALSE, booked |-> FALSE,
    booking |-> FALSE, handoff |-> FALSE, handed |-> FALSE, private |-> FALSE,
    reselect |-> FALSE, wish |-> FALSE, request |-> FALSE ]

Init ==
  /\ session = Start
  /\ crm \in {"active", "absent", "restricted", "duplicate"}
  /\ minor \in BOOLEAN
  /\ visible = FALSE
  /\ shown = None
  /\ written = 0

-----------------------------------------------------------------------------
\* The policy: the next step of a session.

\* The record of the selected trip is looked for in the last search.
Seen(s) == s.results # None /\ s.trip # None /\ s.trip \in s.results

TypeKnown(s) == IF Seen(s) THEN TypeOf[s.trip] ELSE s.type

HasFlights(s) == ~Seen(s) \/ TypeOf[s.trip] = "international"

\* Nothing is sold out and everything has a price on a trip that is not seen.
OfferOf(s) == IF Seen(s) THEN Offer[s.trip][s.party] ELSE "available"

IsMinor(s) == minor /\ (s.profile \/ s.lookup \in {"found", "restricted"})

PrivateStep(s) ==
  CASE s.type = None -> "trip_type_required"
    [] s.type # None /\ ~s.wish -> "private_details_required"
    [] s.type # None /\ s.wish /\ ~s.request -> "private_request_ready"
    [] OTHER -> "human_handoff_required"

TripStep(s) ==
  CASE s.results = None -> "trip_search_ready"
    [] s.results = {}   -> "no_trips_available"
    [] OTHER            -> "trip_selection_required"

BookingStep(s) ==
  CASE s.party = None \/ OfferOf(s) = "otherRooms" -> "room_type_required"
    [] s.party # None /\ OfferOf(s) = "soldOut" -> "capacity_handoff_required"
    [] OTHER ->
         CASE HasFlights(s) /\ s.flight = None -> "flight_option_required"
           [] OTHER ->
                IF TypeKnown(s) = "international" /\ ~s.passport
                  THEN "awaiting_passport_upload"
                ELSE IF OfferOf(s) = "unpriced" THEN "human_handoff_required"
                ELSE IF ~s.currency THEN "currency_required"
                ELSE "booking_ready"

PostIdentity(s) ==
  IF IsMinor(s) /\ s.guardian = "none" THEN "guardian_required"
  ELSE IF s.private THEN PrivateStep(s)
  ELSE IF TypeKnown(s) = None THEN "trip_type_required"
  ELSE IF s.trip = None THEN TripStep(s)
  ELSE BookingStep(s)

NewTravelerStep(s) ==
  IF ~s.profile THEN "traveler_not_found"
  ELSE IF IsMinor(s) /\ s.guardian = "none" THEN "guardian_required"
  ELSE "save_new_traveler_lead"

\* A traveler the session has known once passes for verified, whatever the
\* last lookup said (_build_context).
NewTraveler(s) == s.lookup = "not_found" /\ ~s.known

Step(s) ==
  CASE s.lookup = "duplicate"  -> "duplicate_traveler_detected"
    [] s.lookup = "restricted" -> "human_handoff_required"
    [] s.lookup = "none"       -> "identity_required"
    [] NewTraveler(s)          -> NewTravelerStep(s)
    [] OTHER -> PostIdentity(s)

\* Mutant: the step is stored as it is.
AtStep(s, step) == [s EXCEPT !.stage = step]

\* The stage of a step: a profile that is complete keeps its stage until the
\* lead is saved.
At(s, step) ==
  [s EXCEPT !.stage = IF step = "save_new_traveler_lead" THEN "traveler_not_found"
                      ELSE step]

-----------------------------------------------------------------------------
\* What the handlers do to a session.

NotAsked(s) == [s EXCEPT !.requested = FALSE, !.confirmed = FALSE]

\* Mutant: another trip keeps the answer the last one got.
ClearDetails(s) ==
  [s EXCEPT !.party = None, !.flight = None, !.currency = FALSE, !.passport = FALSE]

\* _clear_booking_dependent_state
ClearDependent(s) ==
  [NotAsked(s) EXCEPT !.party = None, !.flight = None, !.currency = FALSE,
                      !.passport = FALSE]

Select(s, t) ==
  LET fresh == IF s.trip \in {None, t} THEN s ELSE ClearDependent(s)
  IN [fresh EXCEPT !.trip = t, !.type = TypeOf[t],
                   !.flight = IF TypeOf[t] = "local" THEN "NotApplicable" ELSE @]

\* _apply_trip_configuration_defaults
Defaults(s) ==
  IF Seen(s) /\ ~HasFlights(s)
    THEN [s EXCEPT !.flight = "NotApplicable", !.passport = FALSE]
    ELSE s

\* _apply_trip_type_change
ChangeType(s, y) ==
  IF s.type = y THEN s
  ELSE [ClearDependent(s) EXCEPT !.type = y, !.trip = None, !.results = None,
                                 !.wish = IF s.private THEN FALSE ELSE @]

\* _start_new_booking_after_completion: the search, the passport, the handoff
\* and the details of a private trip stay.
NewBooking(s) ==
  [NotAsked(s) EXCEPT !.booked = FALSE, !.completed = FALSE, !.booking = FALSE,
                      !.private = FALSE, !.request = FALSE, !.type = None,
                      !.trip = None, !.party = None, !.flight = None,
                      !.currency = FALSE, !.stage = "new_booking_intent"]

\* The handoff is on file: a new case replaces the final result and completes
\* the session, a reused one only fills a result without a handoff.
NewCase(s) ==
  [s EXCEPT !.handed = TRUE, !.handoff = TRUE, !.booking = FALSE, !.completed = TRUE]

OpenCase(s) ==
  [s EXCEPT !.handed = TRUE, !.handoff = TRUE, !.booking = s.handoff /\ s.booking]

HandedOff(s, stage) ==
  {[h EXCEPT !.stage = stage] : h \in {NewCase(s), OpenCase(s)}}

\* _store_identity_result
Identified(s) ==
  CASE crm = "active"     -> [s EXCEPT !.lookup = "found", !.known = TRUE]
    [] crm = "restricted" -> [s EXCEPT !.lookup = "restricted", !.known = TRUE]
    [] crm = "duplicate"  -> [s EXCEPT !.lookup = "duplicate"]
    [] OTHER              -> [s EXCEPT !.lookup = "not_found"]

\* _preview_has_verified_traveler
Verified(s) == s.lookup \in {"found", "restricted"}

LookUp(s) == IF ~s.phone \/ Verified(s) THEN s ELSE Identified(s)

\* _traveler_still_exists_before_write finds that the traveler is gone.
Gone(s) == s.lookup = "found" /\ s.phone /\ crm = "absent"

\* record_guardian_consent: the record is read back, and found or not.
ConsentSent(s) == {s, [s EXCEPT !.guardian = "saved"]}

\* _persist_guardian_consent
Consent(s) == IF s.guardian = "none" \/ ~s.known THEN {s} ELSE ConsentSent(s)

\* search_available_trips: what the query leaves of the trips of the type.
Available(type) == SUBSET {t \in Trip : TypeOf[t] = type}

Searches(s) == {[s EXCEPT !.results = r] : r \in Available(TypeKnown(s))}

Say(s) == session' = s /\ visible' = FALSE /\ UNCHANGED << shown, written >>

Summarise(s) ==
  /\ session' = s
  /\ visible' = TRUE
  /\ shown' = s.trip
  /\ UNCHANGED written

Ask(s) == Summarise([s EXCEPT !.requested = TRUE, !.confirmed = FALSE,
                              !.stage = "booking_confirmation_required"])

-----------------------------------------------------------------------------
\* Which handler takes a message.

\* Mutant: only what is on file ends the booking.
CompletedOnFile(s) == s.completed \/ s.booked \/ s.booking \/ s.handoff

\* _has_completed_booking_context
Completed(s) ==
  \/ s.completed \/ s.booked \/ s.booking \/ s.handoff
  \/ s.stage \in {"post_booking_support", "private_request_escalated"}

PostBooking(s, m) ==
  /\ Completed(s)
  /\ m # "human"
  /\ \/ m \in {"yes", "no", "thanks", "book", "trips", "private", "startOver", "retype"}
     \/ s.stage \in {"post_booking_support", "new_booking_intent",
                     "private_request_escalated"}

Revision(s, m) ==
  m = "revise" /\ (s.party # None \/ s.flight # None \/ s.currency)

PassportProblem(s, m) ==
  /\ m = "stuck"
  /\ ~s.passport
  /\ TypeKnown(s) = "international"
  /\ s.stage \in {"awaiting_passport_upload", "currency_required", "waiting",
                  "booking_confirmation_required", "booking_ready"}

Awaited(s) == s.stage = "booking_confirmation_required" \/ s.requested \/ visible

FlightStage == {"flight_option_required", "awaiting_passport_upload", "waiting",
                "booking_confirmation_required", "booking_ready"}
BackStage   == {"flight_option_required", "awaiting_passport_upload",
                "room_type_required", "booking_ready"}

Navigation(s, m) ==
  \/ m \in {"startOver", "cancel"}
  \/ m = "flight" /\ s.stage \in FlightStage
  \/ m = "back" /\ s.stage \in BackStage

ActiveHandoff(s) == s.handed \/ s.handoff

Early(s, m) == PostBooking(s, m) \/ Revision(s, m) \/ PassportProblem(s, m)

\* A message no earlier handler takes, and that is no answer to a summary.
Free(s, m) == ~Early(s, m) /\ (Awaited(s) => m = "yes")

\* The session once a "yes" has been taken for the confirmation; going back
\* takes a confirmation away even where there is nothing to go back to.
Heard(s, m) ==
  IF Awaited(s) /\ m = "yes"
    THEN [s EXCEPT !.confirmed = TRUE, !.requested = FALSE, !.stage = "booking_ready"]
    ELSE IF m = "back" THEN NotAsked(s) ELSE s

Acknowledges(s, m) == ActiveHandoff(s) /\ m \in {"yes", "thanks", "human"}

Discovery(s, m) ==
  ~s.private /\ s.trip = None /\ (m = "trips" \/ s.stage = "trip_type_required")

Greeting(s, m) ==
  ~s.phone /\ s.stage = "identity_required" /\ m \in {"yes", "book"}

-----------------------------------------------------------------------------
\* After a booking or a handoff: a "yes" counts as an explicit new booking.

StartNewBooking(m) ==
  /\ PostBooking(session, m)
  /\ m \in {"yes", "trips", "startOver", "retype"}
  /\ session' = NewBooking(session)
  /\ visible' = FALSE
  /\ written' = 0
  /\ UNCHANGED << crm, minor, shown >>

Support(m) ==
  /\ PostBooking(session, m)
  /\ m \notin {"yes", "trips", "startOver", "retype"}
  /\ IF /\ session.stage \in {"new_booking_intent", "private_request_escalated"}
        /\ m \notin {"book", "private"}
       THEN Say(session)
       ELSE Say([session EXCEPT !.stage = "post_booking_support", !.completed = TRUE])
  /\ UNCHANGED << crm, minor >>

-----------------------------------------------------------------------------
\* Corrections, the passport, and the answer to a summary.

\* Mutant: a correction leaves the question about the old details open.
RevisionsUnasked(s) ==
  (IF s.party = None THEN {}
   ELSE {[s EXCEPT !.party = p] : p \in (Party \cup {None}) \ {s.party}})
  \cup (IF s.flight = None THEN {}
        ELSE {[s EXCEPT !.flight = "Chosen", !.passport = FALSE]})
  \cup (IF s.currency THEN {s} ELSE {})

\* _handle_revision_intent: one detail that was given before.
Revisions(s) ==
  (IF s.party = None THEN {}
   ELSE {[NotAsked(s) EXCEPT !.party = p] : p \in (Party \cup {None}) \ {s.party}})
  \cup (IF s.flight = None THEN {}
        ELSE {[NotAsked(s) EXCEPT !.flight = "Chosen", !.passport = FALSE]})
  \cup (IF s.currency THEN {NotAsked(s)} ELSE {})

Revise(m) ==
  /\ ~PostBooking(session, m)
  /\ Revision(session, m)
  /\ \E r \in Revisions(session) :
       LET s == Defaults(r) IN
       \/ Step(s) \in HandoffStep /\ \E h \in HandedOff(s, Step(s)) : Say(h)
       \/ Step(s) = "booking_ready" /\ Ask(s)
       \/ Step(s) # "booking_ready" /\ Say(At(s, Step(s)))
  /\ UNCHANGED << crm, minor >>

CannotUpload(m) ==
  /\ ~PostBooking(session, m)
  /\ PassportProblem(session, m)
  /\ \/ ActiveHandoff(session) /\ Say(session)
     \/ /\ ~ActiveHandoff(session)
        /\ \E h \in HandedOff(NotAsked(session), "human_handoff_required") : Say(h)
     \/ /\ ~ActiveHandoff(session)
        /\ Say([session EXCEPT !.handed = FALSE, !.stage = "awaiting_passport_upload"])
  /\ UNCHANGED << crm, minor >>

\* A "no" stops the booking; whatever is neither yes nor no is asked again.
AnswerSummary(m) ==
  /\ ~Early(session, m)
  /\ Awaited(session)
  /\ m # "yes"
  /\ IF m \in {"no", "cancel"}
       THEN Say([NotAsked(session) EXCEPT !.stage = "waiting"])
       ELSE Say([session EXCEPT !.stage = "booking_confirmation_required"])
  /\ UNCHANGED << crm, minor >>

-----------------------------------------------------------------------------
\* Navigation, and a person.

StartOver(m) ==
  /\ m = "startOver"
  /\ Say([ClearDependent(session) EXCEPT
            !.type = None, !.trip = None, !.results = None, !.booked = FALSE,
            !.stage = IF Verified(session)
                        THEN "trip_type_required" ELSE "identity_required"])
  /\ UNCHANGED << crm, minor >>

Cancel(m) ==
  /\ m = "cancel"
  /\ Say([NotAsked(session) EXCEPT !.handed = FALSE, !.stage = "waiting"])
  /\ UNCHANGED << crm, minor >>

ChangeFlight(m) ==
  /\ m = "flight"
  /\ session.stage \in FlightStage
  /\ LET s == [NotAsked(session) EXCEPT !.flight = "Chosen", !.passport = FALSE]
     IN IF Step(s) = "booking_ready" THEN Ask(s) ELSE Say(At(s, Step(s)))
  /\ UNCHANGED << crm, minor >>

GoBack(m) ==
  /\ m = "back"
  /\ session.stage \in BackStage
  /\ LET s == NotAsked(session) IN
     CASE session.stage \in {"awaiting_passport_upload", "booking_ready"} ->
            IF HasFlights(s)
              THEN Say([s EXCEPT !.passport = FALSE, !.flight = None,
                                 !.stage = "flight_option_required"])
              ELSE Say([s EXCEPT !.passport = FALSE, !.stage = "room_type_required"])
       [] session.stage = "flight_option_required" ->
            Say([s EXCEPT !.flight = None, !.stage = "room_type_required"])
       [] OTHER -> Say([s EXCEPT !.party = None])
  /\ UNCHANGED << crm, minor >>

Acknowledge(m) ==
  /\ Acknowledges(session, m)
  /\ Say(Heard(session, m))
  /\ UNCHANGED << crm, minor >>

\* The next question, the search run when it is due; a complete booking gives
\* the summary, without asking for it to be confirmed.
Prompt(s) ==
  \E r \in IF Step(s) = "trip_search_ready" THEN Searches(s) ELSE {s} :
    IF Step(r) = "booking_ready" THEN Summarise(At(r, Step(r)))
                                 ELSE Say(At(r, Step(r)))

\* _execute_manual_handoff
AskForPerson(m) ==
  /\ m = "human"
  /\ ~Acknowledges(session, m)
  /\ LET s == IF Gone(session) THEN [session EXCEPT !.lookup = "not_found"]
              ELSE IF session.known THEN session
              ELSE IF crm \in {"active", "restricted"} THEN LookUp(session)
              ELSE session
     IN \/ \E h \in HandedOff(s, "human_handoff_required") : Say(h)
        \/ Prompt([s EXCEPT !.handed = FALSE])
  /\ UNCHANGED << crm, minor >>

\* The verified trips of a type may be seen before the customer is known.
Discover(m) ==
  /\ m # "human"
  /\ ~Acknowledges(session, m)
  /\ Discovery(session, m)
  /\ LET Next0(s) == IF s.lookup = "none" THEN PostIdentity(s) ELSE Step(s)
         Typed    == IF /\ session.stage = "trip_type_required"
                        /\ session.type = None
                        /\ m \in {"answer", "retype"}
                       THEN {[session EXCEPT !.type = y] : y \in Type}
                       ELSE {session}
     IN \E s \in Typed :
          \E r \in IF s.type = None THEN {s} ELSE Searches(s) : Say(At(r, Next0(r)))
  /\ UNCHANGED << crm, minor >>

-----------------------------------------------------------------------------
\* The workflow.

\* _apply_required_step_capture: the answer to the question of the stage.
ProfileGiven(s)  == [s EXCEPT !.profile = TRUE]
WishGiven(s)     == [s EXCEPT !.wish = TRUE, !.currency = TRUE]
TypeGiven(s)     == {[s EXCEPT !.type = y] : y \in Type}
RoomsGiven(s)    == {[s EXCEPT !.party = p] : p \in Party}
FlightGiven(s)   == [s EXCEPT !.flight = "Chosen"]
CurrencyGiven(s) == [s EXCEPT !.currency = TRUE]
GuardianGiven(s) == Consent([s EXCEPT !.guardian = "given"])

Answers(s) ==
  CASE s.stage = "traveler_not_found"                         -> {ProfileGiven(s)}
    [] s.stage = "guardian_required" /\ s.guardian = "none"   -> GuardianGiven(s)
    [] s.stage = "private_details_required"                   -> {WishGiven(s)}
    [] s.stage = "trip_type_required"                         -> TypeGiven(s)
    [] s.stage = "room_type_required" /\ s.party = None       -> RoomsGiven(s)
    [] s.stage = "flight_option_required" /\ s.flight = None  -> {FlightGiven(s)}
    [] s.stage = "currency_required"                          -> {CurrencyGiven(s)}
    [] OTHER                                                  -> {s}

\* _apply_trip_selection_from_text; a "yes" picks the only trip of the list.
Picks(s, m) ==
  IF s.trip = None /\ s.results \notin {None, {}} /\
     (m = "pick" \/ (m = "yes" /\ \A t, u \in s.results : t = u))
    THEN {Select(s, t) : t \in s.results}
    ELSE {s}

\* Any trip of the CRM can be switched to.
Switches(s) == IF s.trip = None THEN {s} ELSE {Select(s, t) : t \in Trip \ {s.trip}}

\* The flight is named, which fills it or revises it.
FlightSaid(s) ==
  (IF s.flight = "NotApplicable" THEN {} ELSE {FlightGiven(s)})
  \cup (IF s.flight = None THEN {}
        ELSE {[NotAsked(FlightGiven(s)) EXCEPT !.passport = FALSE]})

\* _run_trip_reference_lookup_if_ready: the trips a name fits, for a verified
\* traveler without a trip; one alone is selected.
Found(s, m) ==
  IF m # "name" \/ s.trip # None \/ s.private \/ ~Verified(s) THEN {s}
  ELSE {s} \cup {[s EXCEPT !.results = r] : r \in SUBSET Trip \ {{}}}
           \cup {Select([s EXCEPT !.results = {t}], t) : t \in Trip}

\* _merge_room_requirements: the question of the summary stays open.
RoomsAdded(s) == RoomsGiven(s)

\* Other head counts take the question back, and may ask for other rooms.
RoomsSaid(s) ==
  RoomsAdded(s) \cup RoomsGiven(NotAsked(s)) \cup {[NotAsked(s) EXCEPT !.party = None]}

\* What a message that is no answer says: _merge_hints, the selection and the
\* switch of a trip.
Says(s, m) ==
  CASE m = "answer"  -> Answers(s)
    [] m = "private" -> {[s EXCEPT !.private = TRUE]}
    [] m = "phone"   -> {[s EXCEPT !.phone = TRUE]}
    [] m = "rooms"   -> RoomsSaid(s)
    [] m = "retype"  -> {ChangeType(s, y) : y \in Type}
    [] m = "flight"  -> FlightSaid(s)
    [] m = "switch"  -> Switches(s)
    [] m = "name"    -> {s} \cup Picks(s, "pick")
    [] OTHER -> Picks(s, m)

\* A name is waited for once.
Attentive(s) == [s EXCEPT !.reselect = FALSE]

\* The sessions a message leads to before the next step is looked for.
Reached(m) ==
  LET heard  == Says(Attentive(Heard(session, m)), m)
      said   == UNION {Found(LookUp(Defaults(s)), m) : s \in heard}
      search == {s \in said : Step(s) = "trip_search_ready"}
  IN (said \ search) \cup UNION {Searches(s) : s \in search}

InWorkflow(m) ==
  /\ m # "human"
  /\ ~Acknowledges(session, m)
  /\ ~Discovery(session, m)
  /\ ~Greeting(session, m)

\* Other trips are shown; the selection stays, and a name may replace it next.
Browses(m) == m = "trips" /\ session.trip # None /\ ~session.private

Browse(m) ==
  /\ Browses(m)
  /\ \E r \in Searches(Defaults(session)) : Say([r EXCEPT !.reselect = TRUE])
  /\ UNCHANGED << crm, minor >>

\* _handle_pending_trip_reselection_answer: the name is one other trip's.
Reselect(m) ==
  /\ m \in {"name", "switch"}
  /\ session.reselect
  /\ session.trip # None
  /\ \E t \in Trip \ {session.trip} : Prompt(Select(Attentive(session), t))
  /\ UNCHANGED << crm, minor >>

\* An answer about the profile is no reference to a trip.
Onboarding == session.stage = "traveler_not_found"

\* _handle_trip_details_request_if_ready: of the selected trip, of the only one
\* listed, or of one named before, which may be any by now.
Details(m) ==
  /\ m = "details"
  /\ ~Onboarding
  /\ \E s \in {Attentive(session)} \cup
              {Select(Attentive(session), t) : t \in IF session.trip = None THEN Trip ELSE {}} :
       /\ s.trip # None
       /\ Say(At(s, IF Step(s) \in Collecting THEN Step(s) ELSE "public_trip_details"))
  /\ UNCHANGED << crm, minor >>

\* _handle_public_trip_reference_if_present: a trip can be named before the
\* customer is known, a booking cannot.
NameTrip(m) ==
  /\ m = "name"
  /\ session.trip = None /\ ~session.private /\ ~Onboarding
  /\ LET s == Attentive(session) IN
     \/ \E t \in Trip :
          Say([Select([s EXCEPT !.results = {t}], t) EXCEPT !.stage = "public_trip_details"])
     \/ \E t, u \in Trip :
          t # u /\ Say([s EXCEPT !.results = {t, u}, !.stage = "trip_selection_required"])
     \/ Say([s EXCEPT !.stage = "trip_selection_required"])
  /\ UNCHANGED << crm, minor >>

BooksUnknown(m) ==
  /\ m = "book"
  /\ session.trip = None /\ ~session.private /\ ~Onboarding /\ ~Verified(session)

AskNumber(m) ==
  /\ BooksUnknown(m)
  /\ Say(At(Attentive(session), "identity_required"))
  /\ UNCHANGED << crm, minor >>

Collect(s) ==
  /\ Step(s) \in Collecting
  /\ Say(At(s, Step(s)))
  /\ UNCHANGED << crm, minor >>

\* _execute_policy_handoff: persisted, or not.
SendToReview(s) ==
  /\ Step(s) \in HandoffStep
  /\ \E h \in HandedOff(s, Step(s)) \cup {At(s, Step(s))} : Say(h)
  /\ UNCHANGED << crm, minor >>

\* The request is on file, and its result replaces the final one.
Requested(s) ==
  [s EXCEPT !.request = TRUE, !.handed = TRUE, !.booking = FALSE, !.handoff = FALSE,
            !.stage = "private_request_escalated"]

\* _execute_private_trip_request: the request, then the handoff, which may
\* fail or be an old one.
RequestPrivateTrip(s) ==
  /\ Step(s) = "private_request_ready"
  /\ \/ Say(At(s, Step(s)))
     \/ /\ session' \in {Requested(s), [Requested(s) EXCEPT !.handoff = TRUE,
                                                           !.completed = TRUE]}
        /\ visible' = FALSE
        /\ written' = written + 1
        /\ UNCHANGED shown
  /\ UNCHANGED << crm, minor >>

\* _ensure_traveler_record: the traveler is found or created.
TravelerSaved(s) == [s EXCEPT !.lookup = "found", !.known = TRUE]

\* The result of the lead may replace the final one.
LeadSaved(s) == {TravelerSaved(s),
                 [TravelerSaved(s) EXCEPT !.booking = FALSE, !.handoff = FALSE]}

\* _execute_new_traveler_lead, and for a private trip the traveler alone.  The
\* traveler may be on file although the lead is not.
SaveTraveler(s) ==
  /\ Step(s) = "save_new_traveler_lead"
  /\ \/ Say(At(s, Step(s))) /\ UNCHANGED crm
     \/ /\ ~s.private
        /\ Say([TravelerSaved(s) EXCEPT !.stage = "traveler_not_found"])
        /\ crm' = "active"
     \/ /\ \E r \in IF s.private THEN {TravelerSaved(s)} ELSE LeadSaved(s) :
             \E c \in Consent(r) : Prompt(c)
        /\ crm' = "active"
  /\ UNCHANGED minor

AskToConfirm(s) ==
  /\ ~s.confirmed
  /\ Ask(s)
  /\ UNCHANGED << crm, minor >>

-----------------------------------------------------------------------------
\* The draft: _execute_booking_draft.

\* Mutant: only the final result tells that there is a booking.
ResultOnFile(s) == s.booking

\* A session with a booking or a completed one writes no draft; the turn goes
\* to the model.
OnFile(s) == s.completed \/ s.booked \/ s.booking

\* Mutant: the consent is not looked at again before the write.
ConsentForgotten(s) == FALSE

\* The consent of the guardian is not on file, although it was given.
ConsentMissing(s) == s.guardian = "given"

LeaveToModel(s) ==
  /\ OnFile(s)
  /\ Say(At(s, Step(s)))
  /\ UNCHANGED << crm, minor >>

\* The traveler is gone: the number is asked for again.
MissTraveler(s) ==
  /\ ~OnFile(s)
  /\ Gone(s)
  /\ Say([s EXCEPT !.lookup = "not_found", !.phone = FALSE,
                    !.stage = "identity_required"])
  /\ UNCHANGED << crm, minor >>

\* The consent is sent once more, and the draft waits for it.
AwaitConsent(s) ==
  /\ ~OnFile(s) /\ ~Gone(s)
  /\ \E c \in Consent(s) : ConsentMissing(c) /\ Say(At(c, "booking_ready"))
  /\ UNCHANGED << crm, minor >>

\* The draft is written, or an active booking answers for it.
WriteDraft(s) ==
  /\ ~OnFile(s) /\ ~Gone(s)
  /\ \E c \in Consent(s) :
       LET told == [c EXCEPT !.completed = TRUE, !.booking = TRUE, !.requested = FALSE,
                             !.stage = "post_booking_support"]
       IN /\ ~ConsentMissing(c)
          /\ \/ /\ crm = "active"
                /\ session' = [told EXCEPT !.booked = TRUE, !.handoff = FALSE,
                                           !.handed = FALSE]
                /\ written' = written + 1
             \/ session' = told /\ UNCHANGED written
  /\ visible' = FALSE
  /\ UNCHANGED << crm, minor, shown >>

\* The write failed: the confirmation is asked for again.
FailDraft(s) ==
  /\ ~OnFile(s) /\ ~Gone(s)
  /\ \E c \in Consent(s) :
       /\ ~ConsentMissing(c)
       /\ Say([c EXCEPT !.confirmed = FALSE, !.requested = TRUE,
                         !.stage = "booking_confirmation_required"])
  /\ UNCHANGED << crm, minor >>

\* A confirmed booking that has every detail.
Write(s) ==
  /\ s.confirmed
  /\ \/ LeaveToModel(s) \/ MissTraveler(s) \/ AwaitConsent(s)
     \/ WriteDraft(s) \/ FailDraft(s)

Advance(m) ==
  /\ ~Browses(m)
  /\ ~BooksUnknown(m)
  /\ \E s \in Reached(m) :
       \/ Collect(s) \/ SendToReview(s) \/ RequestPrivateTrip(s) \/ SaveTraveler(s)
       \/ Step(s) = "booking_ready" /\ (AskToConfirm(s) \/ Write(s))

-----------------------------------------------------------------------------

\* handle_passport_attachment
UploadPassport ==
  /\ TypeKnown(session) = "international"
  /\ session.stage \in {"awaiting_passport_upload", "currency_required", "waiting",
                        "booking_confirmation_required", "booking_ready"}
  /\ session' = [session EXCEPT !.passport = TRUE]
  /\ UNCHANGED << crm, minor, visible, shown, written >>

\* The staff deletes the traveler.
DeleteTraveler ==
  /\ crm = "active"
  /\ crm' = "absent"
  /\ UNCHANGED << session, minor, visible, shown, written >>

\* The staff enters a traveler with the number.
CreateTraveler ==
  /\ crm = "absent"
  /\ crm' = "active"
  /\ UNCHANGED << session, minor, visible, shown, written >>

\* handle_message: the first handler that takes the message.
Turn(m) ==
  \/ StartNewBooking(m) \/ Support(m)
  \/ Revise(m) \/ CannotUpload(m) \/ AnswerSummary(m)
  \/ Free(session, m) /\ (StartOver(m) \/ Cancel(m) \/ ChangeFlight(m) \/ GoBack(m))
  \/ /\ Free(session, m)
     /\ ~Navigation(session, m)
     /\ \/ Acknowledge(m) \/ AskForPerson(m) \/ Discover(m)
        \/ InWorkflow(m) /\ (Reselect(m) \/ Details(m) \/ NameTrip(m) \/ AskNumber(m)
                              \/ Browse(m) \/ Advance(m))

Next == (\E m \in Said : Turn(m)) \/ UploadPassport \/ DeleteTraveler \/ CreateTraveler

Spec == Init /\ [][Next]_vars

-----------------------------------------------------------------------------
\* Properties.

\* Types of the session and of what surrounds it.
TypeOK ==
  /\ session \in SessionState
  /\ crm \in {"active", "absent", "restricted", "duplicate"}
  /\ minor \in BOOLEAN
  /\ visible \in BOOLEAN
  /\ shown \in Trip \cup {None}
  /\ written \in Nat

\* While a "yes" is asked for (booking_confirmation_requested), everything the
\* policy needs for the draft is still there and no earlier "yes" counts: no
\* message, upload or failed write takes a detail away under the open question.
AskedIsReady ==
  session.requested => Step(session) = "booking_ready" /\ ~session.confirmed

Drafted == ~session.booked /\ session'.booked

\* A draft is of the trip the customer last saw a summary of, although a
\* confirmation may outlive failures, corrections and other messages.
DraftsAreOfShownTrip == [][Drafted => session'.trip = shown]_vars

\* No draft for a minor without the consent of a guardian on file, whichever
\* of the two ways the consent was to be saved failed before.
MinorsHaveConsent ==
  [][Drafted /\ minor => session'.guardian = "saved"]_vars

\* One draft or private request between two explicit new bookings, whatever
\* replaced the result that names the first one (a handoff does).
OneRecordPerRequest == written <= 1

\* While a private request is open the agent knows that a person has taken
\* over, although the handoff that follows the request may have failed.
PrivateRequestsAreHandedOver == session.request => session.handed

-----------------------------------------------------------------------------
\* Statements the code does not keep.

\* "Ask the traveler to confirm the verified booking draft details before any
\* write action" (handle_message): a draft is the answer to a "yes".
DraftsAnswerAYes ==
  [][Drafted => Awaited(session)]_vars

\* A trip without a price for the party, or without rooms, is sent to a person
\* and not summarised (test_agent_conversation_reliability.py).
SummariesCanBeSold ==
  session.requested => Offer[session.trip][session.party] = "available"

=============================================================================
