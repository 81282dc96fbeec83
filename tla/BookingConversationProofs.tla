---------------------- MODULE BookingConversationProofs ----------------------
(***************************************************************************)
(* For any trips, parties, offers and messages: the types of               *)
(* BookingConversation, that a confirmation is only asked for while the    *)
(* booking has every detail, and what is on file: one draft or private     *)
(* request until the next booking, a person once a request is open, a      *)
(* guardian's consent before the draft of a minor, and the trip that the   *)
(* customer was shown.                                                     *)
(***************************************************************************)
EXTENDS BookingConversation, TLAPS

\* The sessions that ask for a confirmation only if q.
State(q) == {s \in SessionState : s.requested => q}

-----------------------------------------------------------------------------
(* What the policy and the handlers make of a session.                     *)

LEMMA StateTypes ==
  /\ \A q : State(q) \subseteq SessionState
  /\ State(FALSE) \subseteq State(TRUE) /\ State(TRUE) = SessionState
BY DEF State

LEMMA Update ==
  ASSUME NEW q \in BOOLEAN, NEW s \in State(q)
  PROVE  /\ \A x \in Stage : [s EXCEPT !.stage = x] \in State(q)
         /\ \A x \in {"none", "found", "not_found", "restricted", "duplicate"} : [s EXCEPT !.lookup = x] \in State(q)
         /\ \A x \in BOOLEAN : [s EXCEPT !.known = x] \in State(q)
         /\ \A x \in BOOLEAN : [s EXCEPT !.phone = x] \in State(q)
         /\ \A x \in BOOLEAN : [s EXCEPT !.profile = x] \in State(q)
         /\ \A x \in {"none", "given", "saved"} : [s EXCEPT !.guardian = x] \in State(q)
         /\ \A x \in Type \cup {None} : [s EXCEPT !.type = x] \in State(q)
         /\ \A x \in (SUBSET Trip) \cup {None} : [s EXCEPT !.results = x] \in State(q)
         /\ \A x \in Trip \cup {None} : [s EXCEPT !.trip = x] \in State(q)
         /\ \A x \in Party \cup {None} : [s EXCEPT !.party = x] \in State(q)
         /\ \A x \in {"Chosen", "NotApplicable", None} : [s EXCEPT !.flight = x] \in State(q)
         /\ \A x \in BOOLEAN : [s EXCEPT !.passport = x] \in State(q)
         /\ \A x \in BOOLEAN : [s EXCEPT !.currency = x] \in State(q)
         /\ \A x \in BOOLEAN : [s EXCEPT !.confirmed = x] \in State(q)
         /\ \A x \in BOOLEAN : [s EXCEPT !.completed = x] \in State(q)
         /\ \A x \in BOOLEAN : [s EXCEPT !.booked = x] \in State(q)
         /\ \A x \in BOOLEAN : [s EXCEPT !.booking = x] \in State(q)
         /\ \A x \in BOOLEAN : [s EXCEPT !.handoff = x] \in State(q)
         /\ \A x \in BOOLEAN : [s EXCEPT !.handed = x] \in State(q)
         /\ \A x \in BOOLEAN : [s EXCEPT !.private = x] \in State(q)
         /\ \A x \in BOOLEAN : [s EXCEPT !.reselect = x] \in State(q)
         /\ \A x \in BOOLEAN : [s EXCEPT !.wish = x] \in State(q)
         /\ \A x \in BOOLEAN : [s EXCEPT !.request = x] \in State(q)
         /\ [s EXCEPT !.requested = FALSE] \in State(q)
<1>1. \A x \in Stage : [s EXCEPT !.stage = x] \in State(q)
  BY DEF State, SessionState
<1>2. \A x \in {"none", "found", "not_found", "restricted", "duplicate"} : [s EXCEPT !.lookup = x] \in State(q)
  BY DEF State, SessionState
<1>3. \A x \in BOOLEAN : [s EXCEPT !.known = x] \in State(q)
  BY DEF State, SessionState
<1>4. \A x \in BOOLEAN : [s EXCEPT !.phone = x] \in State(q)
  BY DEF State, SessionState
<1>5. \A x \in BOOLEAN : [s EXCEPT !.profile = x] \in State(q)
  BY DEF State, SessionState
<1>6. \A x \in {"none", "given", "saved"} : [s EXCEPT !.guardian = x] \in State(q)
  BY DEF State, SessionState
<1>7. \A x \in Type \cup {None} : [s EXCEPT !.type = x] \in State(q)
  BY DEF State, SessionState
<1>8. \A x \in (SUBSET Trip) \cup {None} : [s EXCEPT !.results = x] \in State(q)
  BY DEF State, SessionState
<1>9. \A x \in Trip \cup {None} : [s EXCEPT !.trip = x] \in State(q)
  BY DEF State, SessionState
<1>10. \A x \in Party \cup {None} : [s EXCEPT !.party = x] \in State(q)
  BY DEF State, SessionState
<1>11. \A x \in {"Chosen", "NotApplicable", None} : [s EXCEPT !.flight = x] \in State(q)
  BY DEF State, SessionState
<1>12. \A x \in BOOLEAN : [s EXCEPT !.passport = x] \in State(q)
  BY DEF State, SessionState
<1>13. \A x \in BOOLEAN : [s EXCEPT !.currency = x] \in State(q)
  BY DEF State, SessionState
<1>14. \A x \in BOOLEAN : [s EXCEPT !.confirmed = x] \in State(q)
  BY DEF State, SessionState
<1>15. \A x \in BOOLEAN : [s EXCEPT !.completed = x] \in State(q)
  BY DEF State, SessionState
<1>16. \A x \in BOOLEAN : [s EXCEPT !.booked = x] \in State(q)
  BY DEF State, SessionState
<1>17. \A x \in BOOLEAN : [s EXCEPT !.booking = x] \in State(q)
  BY DEF State, SessionState
<1>18. \A x \in BOOLEAN : [s EXCEPT !.handoff = x] \in State(q)
  BY DEF State, SessionState
<1>19. \A x \in BOOLEAN : [s EXCEPT !.handed = x] \in State(q)
  BY DEF State, SessionState
<1>20. \A x \in BOOLEAN : [s EXCEPT !.private = x] \in State(q)
  BY DEF State, SessionState
<1>21. \A x \in BOOLEAN : [s EXCEPT !.reselect = x] \in State(q)
  BY DEF State, SessionState
<1>22. \A x \in BOOLEAN : [s EXCEPT !.wish = x] \in State(q)
  BY DEF State, SessionState
<1>23. \A x \in BOOLEAN : [s EXCEPT !.request = x] \in State(q)
  BY DEF State, SessionState
<1>24. [s EXCEPT !.requested = FALSE] \in State(q)
  BY ZenonT(40) DEF State, SessionState
<1>. QED BY <1>1, <1>2, <1>3, <1>4, <1>5, <1>6, <1>7, <1>8, <1>9, <1>10, <1>11, <1>12, <1>13, <1>14, <1>15, <1>16, <1>17, <1>18, <1>19, <1>20, <1>21, <1>22, <1>23, <1>24

LEMMA PostIdentityIsStage ==
  ASSUME NEW s
  PROVE  PostIdentity(s) \in Stage
<1>1. PrivateStep(s) \in Stage
  BY DEF PrivateStep, Stage, Collecting, HandoffStep
<1>2. TripStep(s) \in Stage
  BY DEF TripStep, Stage, Collecting, HandoffStep
<1>3. BookingStep(s) \in Stage
  BY DEF BookingStep, Stage, Collecting, HandoffStep
<1>. QED BY <1>1, <1>2, <1>3 DEF PostIdentity, Stage, Collecting, HandoffStep

LEMMA StepIsStage ==
  ASSUME NEW s
  PROVE  Step(s) \in Stage \cup {"save_new_traveler_lead"}
<1>1. NewTravelerStep(s) \in Stage \cup {"save_new_traveler_lead"}
  BY DEF NewTravelerStep, Stage, Collecting, HandoffStep
<1>. QED BY <1>1, PostIdentityIsStage DEF Step, Stage, Collecting, HandoffStep

LEMMA AtKeeps ==
  ASSUME NEW q \in BOOLEAN, NEW s \in State(q), NEW step \in Stage \cup {"save_new_traveler_lead"}
  PROVE  At(s, step) \in State(q)
<1>1. "traveler_not_found" \in Stage
  BY DEF Stage, Collecting
<1>. QED BY <1>1 DEF At, State, SessionState

LEMMA Fields ==
  ASSUME NEW q \in BOOLEAN, NEW s \in State(q)
  PROVE  /\ s.flight \in {"Chosen", "NotApplicable", None}
         /\ s.wish \in BOOLEAN /\ s.handoff \in BOOLEAN /\ s.booking \in BOOLEAN
         /\ s.guardian \in {"none", "given", "saved"}
         /\ s.requested \in BOOLEAN /\ s.trip \in Trip \cup {None}
BY DEF State, SessionState

LEMMA Unasked ==
  ASSUME NEW s \in SessionState
  PROVE  [s EXCEPT !.requested = FALSE] \in State(FALSE)
BY ZenonT(40) DEF State, SessionState

LEMMA NotAskedKeeps ==
  ASSUME NEW s \in SessionState
  PROVE  NotAsked(s) \in State(FALSE)
BY Unasked, Update DEF NotAsked

LEMMA ClearDependentKeeps ==
  ASSUME NEW s \in SessionState
  PROVE  ClearDependent(s) \in State(FALSE)
BY NotAskedKeeps, Update DEF ClearDependent

LEMMA SelectKeeps ==
  ASSUME NEW q \in BOOLEAN, NEW s \in State(q), NEW t \in Trip
  PROVE  Select(s, t) \in State(q)
<1>. DEFINE fresh == IF s.trip \in {None, t} THEN s ELSE ClearDependent(s)
            typed == [fresh EXCEPT !.trip = t, !.type = TypeOf[t]]
<1>1. fresh \in State(q)
  BY ClearDependentKeeps DEF State
<1>2. TypeOf[t] \in Type
  BY TripAssumption DEF Type
<1>. HIDE DEF fresh
<1>3. typed \in State(q)
  BY <1>1, <1>2, Update
<1>. HIDE DEF typed
<1>4. typed.flight \in {"Chosen", "NotApplicable", None}
  BY <1>3, Fields
<1>5. [typed EXCEPT !.flight = IF TypeOf[t] = "local" THEN "NotApplicable" ELSE typed.flight]
        \in State(q)
  BY <1>3, <1>4, Update
<1>. QED BY <1>5 DEF Select, fresh, typed

LEMMA DefaultsKeep ==
  ASSUME NEW q \in BOOLEAN, NEW s \in State(q)
  PROVE  Defaults(s) \in State(q)
BY Update DEF Defaults

LEMMA ChangeTypeKeeps ==
  ASSUME NEW q \in BOOLEAN, NEW s \in State(q), NEW y \in Type
  PROVE  ChangeType(s, y) \in State(q)
<1>. DEFINE c == [ClearDependent(s) EXCEPT !.type = y, !.trip = None, !.results = None]
<1>1. c \in State(q)
  BY ClearDependentKeeps, Update DEF State
<1>. HIDE DEF c
<1>2. [c EXCEPT !.wish = IF s.private THEN FALSE ELSE c.wish] \in State(q)
  BY <1>1, Update, Fields
<1>. QED BY <1>2 DEF ChangeType, c

LEMMA NewBookingKeeps ==
  ASSUME NEW s \in SessionState
  PROVE  NewBooking(s) \in State(FALSE)
<1>1. "new_booking_intent" \in Stage
  BY DEF Stage
<1>. QED BY <1>1, NotAskedKeeps, Update DEF NewBooking

LEMMA HandedOffKeeps ==
  ASSUME NEW q \in BOOLEAN, NEW s \in State(q), NEW stage \in Stage,
         NEW h \in HandedOff(s, stage)
  PROVE  h \in State(q)
<1>1. NewCase(s) \in State(q)
  BY Update DEF NewCase
<1>2. OpenCase(s) \in State(q)
  <2>. DEFINE b == s.handoff /\ s.booking
  <2>1. b \in BOOLEAN
    OBVIOUS
  <2>. HIDE DEF b
  <2>2. [s EXCEPT !.handed = TRUE, !.handoff = TRUE, !.booking = b] \in State(q)
    BY <2>1, Update
  <2>. QED BY <2>2 DEF OpenCase, b
<1>3. PICK g \in {NewCase(s), OpenCase(s)} : h = [g EXCEPT !.stage = stage]
  BY DEF HandedOff
<1>4. g \in State(q)
  BY <1>1, <1>2
<1>. QED BY <1>3, <1>4, Update

LEMMA LookUpKeeps ==
  ASSUME NEW q \in BOOLEAN, NEW s \in State(q)
  PROVE  LookUp(s) \in State(q)
BY Update DEF LookUp, Identified

LEMMA ConsentKeeps ==
  ASSUME NEW q \in BOOLEAN, NEW s \in State(q)
  PROVE  Consent(s) \subseteq State(q)
<1>1. [s EXCEPT !.guardian = "saved"] \in State(q)
  BY Update
<1>. QED BY <1>1 DEF Consent, ConsentSent

LEMMA SearchesKeep ==
  ASSUME NEW q \in BOOLEAN, NEW s \in State(q)
  PROVE  Searches(s) \subseteq State(q)
<1>1. \A r \in Available(TypeKnown(s)) : r \in (SUBSET Trip) \cup {None}
  BY DEF Available
<1>2. \A r \in Available(TypeKnown(s)) : [s EXCEPT !.results = r] \in State(q)
  BY <1>1, Update
<1>. QED BY <1>2 DEF Searches

LEMMA HeardKeeps ==
  ASSUME NEW s \in SessionState, NEW m
  PROVE  Heard(s, m) \in SessionState
<1>1. "booking_ready" \in Stage /\ s \in State(TRUE)
  BY DEF Stage, State
<1>2. [s EXCEPT !.confirmed = TRUE, !.requested = FALSE, !.stage = "booking_ready"]
         \in State(TRUE)
  BY <1>1, Update
<1>. QED BY <1>2, NotAskedKeeps DEF Heard, State

\* A message that is free takes the question back, or there is none.
LEMMA FreeIsUnasked ==
  ASSUME NEW s \in SessionState, NEW m, Free(s, m)
  PROVE  Heard(s, m) \in State(FALSE) /\ (m # "yes" => s \in State(FALSE))
<1>1. CASE Awaited(s)
  <2>1. m = "yes"
    BY <1>1 DEF Free
  <2>2. "booking_ready" \in Stage /\ s \in State(TRUE)
    BY DEF Stage, State
  <2>3. [[s EXCEPT !.confirmed = TRUE] EXCEPT !.requested = FALSE] \in State(FALSE)
    <3>1. [s EXCEPT !.confirmed = TRUE] \in SessionState
      BY <2>2, Update DEF State
    <3>. QED BY <3>1, Unasked
  <2>. QED BY <1>1, <2>1, <2>2, <2>3, Update DEF Heard
<1>2. CASE ~Awaited(s)
  <2>1. s \in State(FALSE)
    BY <1>2 DEF Awaited, State
  <2>. QED BY <1>2, <2>1, NotAskedKeeps DEF Heard
<1>. QED BY <1>1, <1>2

-----------------------------------------------------------------------------
(* What a message says, and the next step.                                 *)

LEMMA AnswersKeep ==
  ASSUME NEW q \in BOOLEAN, NEW s \in State(q)
  PROVE  Answers(s) \subseteq State(q)
<1>1. \A y \in Type : [s EXCEPT !.type = y] \in State(q)
  BY Update
<1>2. TypeGiven(s) \subseteq State(q)
  BY <1>1 DEF TypeGiven
<1>3. \A p \in Party : [s EXCEPT !.party = p] \in State(q)
  BY Update
<1>4. RoomsGiven(s) \subseteq State(q)
  BY <1>3 DEF RoomsGiven
<1>5. [s EXCEPT !.guardian = "given"] \in State(q)
  BY Update
<1>6. GuardianGiven(s) \subseteq State(q)
  BY <1>5, ConsentKeeps DEF GuardianGiven
<1>7. ProfileGiven(s) \in State(q) /\ FlightGiven(s) \in State(q) /\ CurrencyGiven(s) \in State(q)
  BY Update DEF ProfileGiven, FlightGiven, CurrencyGiven
<1>8. WishGiven(s) \in State(q)
  BY Update DEF WishGiven
<1>. QED BY <1>2, <1>4, <1>6, <1>7, <1>8 DEF Answers

LEMMA PicksKeep ==
  ASSUME NEW q \in BOOLEAN, NEW s \in State(q), NEW m
  PROVE  Picks(s, m) \subseteq State(q)
<1>1. s.results \notin {None, {}} => s.results \subseteq Trip
  BY DEF State, SessionState
<1>2. \A t \in Trip : Select(s, t) \in State(q)
  BY SelectKeeps
<1>. QED BY <1>1, <1>2 DEF Picks

LEMMA SaysKeep ==
  ASSUME NEW s \in State(FALSE), NEW m
  PROVE  Says(s, m) \subseteq State(FALSE)
<1>1. s \in SessionState
  BY DEF State
<1>2. RoomsSaid(s) \subseteq State(FALSE)
  <2>1. \A r \in State(FALSE), p \in Party : [r EXCEPT !.party = p] \in State(FALSE)
    BY Update
  <2>2. \A r \in State(FALSE) : RoomsGiven(r) \subseteq State(FALSE)
    BY <2>1 DEF RoomsGiven
  <2>3. [NotAsked(s) EXCEPT !.party = None] \in State(FALSE)
    BY <1>1, NotAskedKeeps, Update
  <2>. QED BY <1>1, <2>2, <2>3, NotAskedKeeps DEF RoomsSaid, RoomsAdded
<1>3. {ChangeType(s, y) : y \in Type} \subseteq State(FALSE)
  <2>1. \A y \in Type : ChangeType(s, y) \in State(FALSE)
    BY ChangeTypeKeeps
  <2>. QED BY <2>1
<1>4. FlightSaid(s) \subseteq State(FALSE)
  <2>1. FlightGiven(s) \in State(FALSE)
    BY Update DEF FlightGiven
  <2>2. NotAsked(FlightGiven(s)) \in State(FALSE)
    BY <2>1, NotAskedKeeps DEF State
  <2>3. [NotAsked(FlightGiven(s)) EXCEPT !.passport = FALSE] \in State(FALSE)
    BY <2>2, Update
  <2>. QED BY <2>1, <2>3 DEF FlightSaid
<1>5. Switches(s) \subseteq State(FALSE)
  <2>1. \A t \in Trip : Select(s, t) \in State(FALSE)
    BY SelectKeeps
  <2>. QED BY <2>1 DEF Switches
<1>6. [s EXCEPT !.private = TRUE] \in State(FALSE) /\ [s EXCEPT !.phone = TRUE] \in State(FALSE)
  BY Update
<1>7. Answers(s) \subseteq State(FALSE) /\ \A n : Picks(s, n) \subseteq State(FALSE)
  BY AnswersKeep, PicksKeep
<1>. QED BY <1>2, <1>3, <1>4, <1>5, <1>6, <1>7 DEF Says

LEMMA FoundKeeps ==
  ASSUME NEW q \in BOOLEAN, NEW s \in State(q), NEW m
  PROVE  Found(s, m) \subseteq State(q)
<1>1. \A r \in SUBSET Trip : [s EXCEPT !.results = r] \in State(q)
  BY Update
<1>2. ASSUME NEW t \in Trip PROVE Select([s EXCEPT !.results = {t}], t) \in State(q)
  BY <1>1, SelectKeeps
<1>. QED BY <1>1, <1>2 DEF Found

LEMMA AttentiveKeeps ==
  ASSUME NEW q \in BOOLEAN, NEW s \in State(q)
  PROVE  Attentive(s) \in State(q)
BY Update DEF Attentive

LEMMA ReachedUnasked ==
  ASSUME session \in SessionState, NEW m, Free(session, m), NEW r \in Reached(m)
  PROVE  r \in State(FALSE)
<1>. DEFINE heard  == Says(Attentive(Heard(session, m)), m)
            said   == UNION {Found(LookUp(Defaults(s)), m) : s \in heard}
            search == {s \in said : Step(s) = "trip_search_ready"}
<1>1. heard \subseteq State(FALSE)
  BY FreeIsUnasked, AttentiveKeeps, SaysKeep
<1>. HIDE DEF heard
<1>2. \A s \in State(FALSE) : Found(LookUp(Defaults(s)), m) \subseteq State(FALSE)
  <2>1. \A s \in State(FALSE) : LookUp(Defaults(s)) \in State(FALSE)
    BY DefaultsKeep, LookUpKeeps
  <2>. QED BY <2>1, FoundKeeps
<1>3. said \subseteq State(FALSE)
  BY <1>1, <1>2
<1>. HIDE DEF said
<1>4. \A s \in search : Searches(s) \subseteq State(FALSE)
  BY <1>3, SearchesKeep
<1>5. r \in said \/ \E s \in search : r \in Searches(s)
  BY DEF Reached, heard, said
<1>. QED BY <1>3, <1>4, <1>5

-----------------------------------------------------------------------------
(* What a handler leaves behind.                                           *)

\* The policy reads nothing else of a session.
SameBooking(s, r) ==
  /\ r.lookup = s.lookup /\ r.known = s.known /\ r.profile = s.profile
  /\ r.guardian = "none" <=> s.guardian = "none"
  /\ r.private = s.private /\ r.type = s.type /\ r.wish = s.wish /\ r.request = s.request
  /\ r.results = s.results /\ r.trip = s.trip /\ r.party = s.party
  /\ r.flight = s.flight /\ r.passport = s.passport /\ r.currency = s.currency

LEMMA StepReads ==
  ASSUME NEW s, NEW r, SameBooking(s, r)
  PROVE  Step(r) = Step(s)
<1>1. Seen(r) = Seen(s) /\ TypeKnown(r) = TypeKnown(s)
  BY DEF SameBooking, Seen, TypeKnown
<1>2. HasFlights(r) = HasFlights(s) /\ OfferOf(r) = OfferOf(s)
  BY <1>1 DEF SameBooking, HasFlights, OfferOf
<1>3. IsMinor(r) = IsMinor(s)
  BY DEF SameBooking, IsMinor
<1>4. PrivateStep(r) = PrivateStep(s)
  BY DEF SameBooking, PrivateStep
<1>5. TripStep(r) = TripStep(s)
  BY DEF SameBooking, TripStep
<1>6. BookingStep(r) = BookingStep(s)
  BY <1>1, <1>2 DEF SameBooking, BookingStep
<1>7. PostIdentity(r) = PostIdentity(s)
  BY <1>1, <1>3, <1>4, <1>5, <1>6 DEF SameBooking, PostIdentity
<1>8. NewTraveler(r) = NewTraveler(s) /\ NewTravelerStep(r) = NewTravelerStep(s)
  BY <1>3 DEF SameBooking, NewTraveler, NewTravelerStep
<1>. QED BY <1>7, <1>8 DEF SameBooking, Step

LEMMA StepNext ==
  ASSUME UNCHANGED minor
  PROVE  Step(session)' = Step(session')
<1>1. IsMinor(session)' = IsMinor(session')
  BY DEF IsMinor
<1>2. PostIdentity(session)' = PostIdentity(session')
  BY <1>1 DEF PostIdentity
<1>3. NewTravelerStep(session)' = NewTravelerStep(session')
  BY <1>1 DEF NewTravelerStep
<1>. QED BY <1>2, <1>3 DEF Step

\* A session that asks only for what is ready.
Sound(s) == s \in SessionState /\ (s.requested => Step(s) = "booking_ready" /\ ~s.confirmed)

Surrounded == /\ crm \in {"active", "absent", "restricted", "duplicate"}
              /\ minor \in BOOLEAN /\ visible \in BOOLEAN
              /\ shown \in Trip \cup {None} /\ written \in Nat

AskedInv == TypeOK /\ AskedIsReady

LEMMA Frame ==
  ASSUME UNCHANGED minor, Sound(session'), Surrounded'
  PROVE  AskedInv'
<1>1. TypeOK'
  BY DEF TypeOK, Sound, Surrounded
<1>2. AskedIsReady'
  BY StepNext DEF AskedIsReady, Sound
<1>. QED BY <1>1, <1>2 DEF AskedInv

LEMMA UnaskedIsSound ==
  ASSUME NEW s \in State(FALSE)
  PROVE  Sound(s)
BY DEF State, Sound

LEMMA SameIsSound ==
  ASSUME NEW s, Sound(s), NEW r \in SessionState, SameBooking(s, r),
         r.requested = s.requested, r.confirmed = s.confirmed
  PROVE  Sound(r)
BY StepReads DEF Sound

\* A field the policy does not read.
Twin(s, r) == SameBooking(s, r) /\ r.requested = s.requested /\ r.confirmed = s.confirmed

LEMMA Unread ==
  ASSUME NEW s \in SessionState
  PROVE  /\ \A x : /\ Twin(s, [s EXCEPT !.stage = x]) /\ Twin(s, [s EXCEPT !.completed = x])
                 /\ Twin(s, [s EXCEPT !.handed = x])
         /\ SameBooking(s, [s EXCEPT !.requested = TRUE])
         /\ [s EXCEPT !.requested = TRUE] \in SessionState
         /\ [s EXCEPT !.requested = TRUE].requested
         /\ SameBooking(s, [s EXCEPT !.confirmed = FALSE])
         /\ ~[s EXCEPT !.confirmed = FALSE].confirmed
         /\ [s EXCEPT !.confirmed = FALSE].requested = s.requested
<1>1. \A x : Twin(s, [s EXCEPT !.stage = x])
  BY DEF SessionState, SameBooking, Twin
<1>2. \A x : Twin(s, [s EXCEPT !.completed = x]) /\ Twin(s, [s EXCEPT !.handed = x])
  BY DEF SessionState, SameBooking, Twin
<1>3. /\ SameBooking(s, [s EXCEPT !.requested = TRUE])
      /\ [s EXCEPT !.requested = TRUE].requested
  BY DEF SessionState, SameBooking
<1>4. [s EXCEPT !.requested = TRUE] \in SessionState
  BY DEF SessionState
<1>5. /\ SameBooking(s, [s EXCEPT !.confirmed = FALSE])
      /\ ~[s EXCEPT !.confirmed = FALSE].confirmed
      /\ [s EXCEPT !.confirmed = FALSE].requested = s.requested
  BY DEF SessionState, SameBooking
<1>. QED BY <1>1, <1>2, <1>3, <1>4, <1>5

LEMMA AskKeeps ==
  ASSUME AskedInv, UNCHANGED << crm, minor >>, NEW s \in SessionState,
         Step(s) = "booking_ready", Ask(s)
  PROVE  AskedInv'
<1>. DEFINE r == [s EXCEPT !.requested = TRUE, !.confirmed = FALSE,
                           !.stage = "booking_confirmation_required"]
<1>1. "booking_confirmation_required" \in Stage
  BY DEF Stage
<1>2. r \in SessionState /\ r.requested /\ ~r.confirmed /\ SameBooking(s, r) /\ r.trip = s.trip
  <2>. DEFINE a == [s EXCEPT !.requested = TRUE]
              b == [a EXCEPT !.confirmed = FALSE]
  <2>1. a \in SessionState /\ SameBooking(s, a) /\ a.requested
    BY Unread
  <2>. HIDE DEF a
  <2>2. b \in SessionState /\ SameBooking(a, b) /\ b.requested /\ ~b.confirmed
    <3>1. b \in State(TRUE)
      BY <2>1, StateTypes, Update
    <3>. QED BY <2>1, <3>1, Unread DEF State
  <2>. HIDE DEF b
  <2>3. r = [b EXCEPT !.stage = "booking_confirmation_required"]
    BY DEF a, b
  <2>4. r \in State(TRUE) /\ Twin(b, r)
    BY <1>1, <2>2, <2>3, StateTypes, Update, Unread
  <2>. HIDE DEF r
  <2>. QED BY <2>1, <2>2, <2>4 DEF Twin, SameBooking, State
<1>3. session' = r /\ visible' = TRUE /\ shown' = r.trip /\ UNCHANGED written
  BY DEF Ask, Summarise
<1>. HIDE DEF r
<1>4. Sound(session')
  BY <1>2, <1>3, StepReads DEF Sound
<1>5. Surrounded'
  BY <1>2, <1>3 DEF Surrounded, AskedInv, TypeOK, SessionState
<1>. QED BY <1>4, <1>5, Frame

LEMMA SayKeeps ==
  ASSUME AskedInv, UNCHANGED minor, crm' \in {"active", "absent", "restricted", "duplicate"},
         NEW s, Sound(s), Say(s)
  PROVE  AskedInv'
BY Frame DEF Say, Surrounded, AskedInv, TypeOK

LEMMA PromptKeeps ==
  ASSUME AskedInv, UNCHANGED minor, crm' \in {"active", "absent", "restricted", "duplicate"},
         NEW s \in State(FALSE), Prompt(s)
  PROVE  AskedInv'
<1>1. PICK r \in State(FALSE) : \/ Summarise(At(r, Step(r)))
                               \/ Say(At(r, Step(r)))
  BY SearchesKeep DEF Prompt
<1>2. At(r, Step(r)) \in State(FALSE)
  BY StepIsStage, AtKeeps
<1>3. At(r, Step(r)).trip \in Trip \cup {None}
  BY <1>2, Fields
<1>. QED BY <1>1, <1>2, <1>3, UnaskedIsSound, SayKeeps, Frame
         DEF Summarise, Surrounded, AskedInv, TypeOK

-----------------------------------------------------------------------------
(* One lemma per handler.                                                  *)

LEMMA SessionSound ==
  ASSUME AskedInv
  PROVE  /\ session \in SessionState /\ Sound(session) /\ session \in State(TRUE)
         /\ crm \in {"active", "absent", "restricted", "duplicate"}
BY StateTypes DEF AskedInv, TypeOK, AskedIsReady, Sound

LEMMA TwinIsSound ==
  ASSUME NEW s, Sound(s), NEW r \in SessionState, Twin(s, r)
  PROVE  Sound(r)
BY SameIsSound DEF Twin

\* The flag, the stage and the mark of the handoff change; the question stays.
LEMMA MarkedIsSound ==
  ASSUME AskedInv, NEW stage \in Stage
  PROVE  /\ Sound([session EXCEPT !.stage = stage])
         /\ Sound([session EXCEPT !.stage = stage, !.completed = TRUE])
         /\ Sound([session EXCEPT !.handed = FALSE, !.stage = stage])
<1>1. [session EXCEPT !.stage = stage] \in SessionState /\ Sound([session EXCEPT !.stage = stage])
  <2>1. [session EXCEPT !.stage = stage] \in SessionState
    BY SessionSound, StateTypes, Update
  <2>. QED BY <2>1, SessionSound, Unread, TwinIsSound
<1>2. Sound([session EXCEPT !.stage = stage, !.completed = TRUE])
  <2>. DEFINE r == [session EXCEPT !.stage = stage]
  <2>1. r \in SessionState /\ Sound(r)
    BY <1>1
  <2>. HIDE DEF r
  <2>2. [r EXCEPT !.completed = TRUE] \in SessionState
    BY <2>1, StateTypes, Update
  <2>3. Sound([r EXCEPT !.completed = TRUE])
    BY <2>1, <2>2, Unread, TwinIsSound
  <2>. QED BY <2>3 DEF r
<1>3. Sound([session EXCEPT !.handed = FALSE, !.stage = stage])
  <2>. DEFINE r == [session EXCEPT !.handed = FALSE]
  <2>1. r \in SessionState
    BY SessionSound, StateTypes, Update
  <2>2. Sound(r)
    BY <2>1, SessionSound, Unread, TwinIsSound
  <2>. HIDE DEF r
  <2>3. [r EXCEPT !.stage = stage] \in SessionState
    BY <2>1, StateTypes, Update
  <2>4. Sound([r EXCEPT !.stage = stage])
    BY <2>1, <2>2, <2>3, Unread, TwinIsSound
  <2>. QED BY <2>4 DEF r
<1>. QED BY <1>1, <1>2, <1>3

LEMMA StartNewBookingKeeps ==
  ASSUME AskedInv, NEW m, StartNewBooking(m)
  PROVE  AskedInv'
<1>1. Sound(session')
  BY NewBookingKeeps, SessionSound, UnaskedIsSound DEF StartNewBooking
<1>. QED BY <1>1, Frame DEF StartNewBooking, Surrounded, AskedInv, TypeOK

LEMMA SupportKeeps ==
  ASSUME AskedInv, NEW m, Support(m)
  PROVE  AskedInv'
<1>1. "post_booking_support" \in Stage
  BY DEF Stage
<1>. QED BY <1>1, MarkedIsSound, SessionSound, SayKeeps DEF Support

LEMMA HandoffIsStage == HandoffStep \subseteq Stage /\ "human_handoff_required" \in Stage
BY DEF Stage, HandoffStep

LEMMA ReviseKeeps ==
  ASSUME AskedInv, NEW m, Revise(m)
  PROVE  AskedInv'
<1>1. PICK r \in Revisions(session) :
        LET s == Defaults(r) IN
        \/ Step(s) \in HandoffStep /\ \E h \in HandedOff(s, Step(s)) : Say(h)
        \/ Step(s) = "booking_ready" /\ Ask(s)
        \/ Step(s) # "booking_ready" /\ Say(At(s, Step(s)))
  BY DEF Revise
<1>2. UNCHANGED << crm, minor >>
  BY DEF Revise
<1>3. r \in State(FALSE)
  <2>1. NotAsked(session) \in State(FALSE)
    BY SessionSound, NotAskedKeeps
  <2>2. \A p \in Party \cup {None} : [NotAsked(session) EXCEPT !.party = p] \in State(FALSE)
    BY <2>1, Update
  <2>3. [NotAsked(session) EXCEPT !.flight = "Chosen", !.passport = FALSE] \in State(FALSE)
    BY <2>1, Update
  <2>. QED BY <2>1, <2>2, <2>3 DEF Revisions
<1>. DEFINE s == Defaults(r)
<1>4. s \in State(FALSE) /\ s \in SessionState
  BY <1>3, DefaultsKeep, StateTypes
<1>5. \/ Step(s) \in HandoffStep /\ \E h \in HandedOff(s, Step(s)) : Say(h)
      \/ Step(s) = "booking_ready" /\ Ask(s)
      \/ Say(At(s, Step(s)))
  BY <1>1
<1>. HIDE DEF s
<1>6. CASE Step(s) \in HandoffStep /\ \E h \in HandedOff(s, Step(s)) : Say(h)
  BY <1>2, <1>4, <1>6, HandoffIsStage, HandedOffKeeps, UnaskedIsSound, SayKeeps, SessionSound
<1>7. CASE Step(s) = "booking_ready" /\ Ask(s)
  BY <1>2, <1>4, <1>7, AskKeeps
<1>8. CASE Say(At(s, Step(s)))
  BY <1>2, <1>4, <1>8, StepIsStage, AtKeeps, UnaskedIsSound, SayKeeps, SessionSound
<1>. QED BY <1>5, <1>6, <1>7, <1>8

LEMMA CannotUploadKeeps ==
  ASSUME AskedInv, NEW m, CannotUpload(m)
  PROVE  AskedInv'
<1>1. UNCHANGED << crm, minor >> /\ "awaiting_passport_upload" \in Stage
  BY DEF CannotUpload, Stage, Collecting
<1>2. \A h \in HandedOff(NotAsked(session), "human_handoff_required") : Sound(h)
  BY SessionSound, NotAskedKeeps, HandoffIsStage, HandedOffKeeps, UnaskedIsSound
<1>. QED BY <1>1, <1>2, MarkedIsSound, SessionSound, SayKeeps DEF CannotUpload

LEMMA AnswerSummaryKeeps ==
  ASSUME AskedInv, NEW m, AnswerSummary(m)
  PROVE  AskedInv'
<1>1. UNCHANGED << crm, minor >>
  BY DEF AnswerSummary
<1>2. "waiting" \in Stage /\ "booking_confirmation_required" \in Stage
  BY DEF Stage
<1>3. Sound([NotAsked(session) EXCEPT !.stage = "waiting"])
  BY <1>2, SessionSound, NotAskedKeeps, Update, UnaskedIsSound
<1>. QED BY <1>1, <1>2, <1>3, MarkedIsSound, SessionSound, SayKeeps DEF AnswerSummary

LEMMA NavigationKeeps ==
  ASSUME AskedInv, NEW m, StartOver(m) \/ Cancel(m) \/ GoBack(m)
  PROVE  AskedInv'
<1>. DEFINE n == NotAsked(session)
<1>1. n \in State(FALSE) /\ session \in SessionState
  BY SessionSound, NotAskedKeeps
<1>2. /\ "trip_type_required" \in Stage /\ "identity_required" \in Stage
      /\ "waiting" \in Stage /\ "flight_option_required" \in Stage
      /\ "room_type_required" \in Stage
  BY DEF Stage, Collecting
<1>3. UNCHANGED << crm, minor >>
  BY DEF StartOver, Cancel, GoBack
<1>4. CASE StartOver(m)
  <2>. DEFINE g == IF Verified(session) THEN "trip_type_required" ELSE "identity_required"
              c == ClearDependent(session)
  <2>1. g \in Stage /\ c \in State(FALSE)
    BY <1>1, <1>2, ClearDependentKeeps
  <2>2. Say([c EXCEPT !.type = None, !.trip = None, !.results = None, !.booked = FALSE,
                      !.stage = g])
    BY <1>4 DEF StartOver
  <2>. HIDE DEF g, c
  <2>3. [c EXCEPT !.type = None, !.trip = None, !.results = None, !.booked = FALSE,
                  !.stage = g] \in State(FALSE)
    BY <2>1, Update
  <2>. QED BY <1>3, <2>2, <2>3, UnaskedIsSound, SayKeeps, SessionSound
<1>5. CASE Cancel(m)
  <2>1. Say([n EXCEPT !.handed = FALSE, !.stage = "waiting"])
    BY <1>5 DEF Cancel
  <2>. HIDE DEF n
  <2>2. [n EXCEPT !.handed = FALSE, !.stage = "waiting"] \in State(FALSE)
    BY <1>1, <1>2, Update
  <2>. QED BY <1>3, <2>1, <2>2, UnaskedIsSound, SayKeeps, SessionSound
<1>6. CASE GoBack(m)
  <2>1. \/ Say([n EXCEPT !.passport = FALSE, !.flight = None,
                         !.stage = "flight_option_required"])
        \/ Say([n EXCEPT !.passport = FALSE, !.stage = "room_type_required"])
        \/ Say([n EXCEPT !.flight = None, !.stage = "room_type_required"])
        \/ Say([n EXCEPT !.party = None])
    BY <1>6 DEF GoBack
  <2>. HIDE DEF n
  <2>2. /\ [n EXCEPT !.passport = FALSE, !.flight = None,
                     !.stage = "flight_option_required"] \in State(FALSE)
        /\ [n EXCEPT !.passport = FALSE, !.stage = "room_type_required"] \in State(FALSE)
        /\ [n EXCEPT !.flight = None, !.stage = "room_type_required"] \in State(FALSE)
        /\ [n EXCEPT !.party = None] \in State(FALSE)
    BY <1>1, <1>2, Update
  <2>. QED BY <1>3, <2>1, <2>2, UnaskedIsSound, SayKeeps, SessionSound
<1>. QED BY <1>4, <1>5, <1>6

LEMMA ChangeFlightKeeps ==
  ASSUME AskedInv, NEW m, ChangeFlight(m)
  PROVE  AskedInv'
<1>. DEFINE s == [NotAsked(session) EXCEPT !.flight = "Chosen", !.passport = FALSE]
<1>1. s \in State(FALSE) /\ s \in SessionState
  BY SessionSound, NotAskedKeeps, Update, StateTypes
<1>2. UNCHANGED << crm, minor >>
  BY DEF ChangeFlight
<1>3. (Step(s) = "booking_ready" /\ Ask(s)) \/ Say(At(s, Step(s)))
  BY DEF ChangeFlight
<1>. HIDE DEF s
<1>4. At(s, Step(s)) \in State(FALSE)
  BY <1>1, StepIsStage, AtKeeps
<1>. QED BY <1>1, <1>2, <1>3, <1>4, AskKeeps, UnaskedIsSound, SayKeeps, SessionSound

LEMMA AskForPersonKeeps ==
  ASSUME AskedInv, NEW m, Free(session, m), AskForPerson(m)
  PROVE  AskedInv'
<1>1. session \in State(FALSE) /\ UNCHANGED << crm, minor >>
  <2>1. m # "yes" /\ UNCHANGED << crm, minor >>
    BY DEF AskForPerson
  <2>. QED BY <2>1, SessionSound, FreeIsUnasked
<1>. DEFINE s == IF Gone(session) THEN [session EXCEPT !.lookup = "not_found"]
                 ELSE IF session.known THEN session
                 ELSE IF crm \in {"active", "restricted"} THEN LookUp(session)
                 ELSE session
<1>2. s \in State(FALSE)
  BY <1>1, LookUpKeeps, Update
<1>3. \/ \E h \in HandedOff(s, "human_handoff_required") : Say(h)
      \/ Prompt([s EXCEPT !.handed = FALSE])
  BY DEF AskForPerson
<1>. HIDE DEF s
<1>4. \A h \in HandedOff(s, "human_handoff_required") : Sound(h)
  BY <1>2, HandoffIsStage, HandedOffKeeps, UnaskedIsSound
<1>5. [s EXCEPT !.handed = FALSE] \in State(FALSE)
  BY <1>2, Update
<1>. QED BY <1>1, <1>3, <1>4, <1>5, SayKeeps, PromptKeeps, SessionSound

\* What is ready has a trip, and is no private one.
LEMMA ReadyHasTrip ==
  ASSUME NEW s, Step(s) = "booking_ready"
  PROVE  ~s.private /\ s.trip # None
<1>1. NewTravelerStep(s) # "booking_ready"
  BY DEF NewTravelerStep
<1>2. PostIdentity(s) = "booking_ready"
  BY <1>1 DEF Step
<1>3. PrivateStep(s) # "booking_ready" /\ TripStep(s) # "booking_ready"
  BY DEF PrivateStep, TripStep
<1>. QED BY <1>2, <1>3 DEF PostIdentity

LEMMA DiscoverKeeps ==
  ASSUME AskedInv, NEW m, Discover(m)
  PROVE  AskedInv'
<1>1. UNCHANGED << crm, minor >> /\ Discovery(session, m)
  BY DEF Discover
<1>2. session \in State(FALSE)
  BY <1>1, SessionSound, ReadyHasTrip DEF Discovery, Sound, State
<1>. DEFINE next(r) == IF r.lookup = "none" THEN PostIdentity(r) ELSE Step(r)
<1>3. \A y \in Type : [session EXCEPT !.type = y] \in State(FALSE)
  BY <1>2, Update
<1>4. PICK s \in State(FALSE), r \in State(FALSE) : Say(At(r, next(r)))
  <2>1. \A s \in State(FALSE) : Searches(s) \subseteq State(FALSE)
    BY SearchesKeep
  <2>. QED BY <1>2, <1>3, <2>1 DEF Discover
<1>5. next(r) \in Stage \cup {"save_new_traveler_lead"}
  <2>1. PostIdentity(r) \in Stage
    BY PostIdentityIsStage
  <2>. QED BY <2>1, StepIsStage
<1>. HIDE DEF next
<1>. QED BY <1>1, <1>4, <1>5, AtKeeps, UnaskedIsSound, SayKeeps, SessionSound

LEMMA TripKeeps ==
  ASSUME AskedInv, NEW m, Free(session, m),
         Reselect(m) \/ Details(m) \/ NameTrip(m) \/ AskNumber(m) \/ Browse(m)
  PROVE  AskedInv'
<1>1. m # "yes" /\ UNCHANGED << crm, minor >>
  BY DEF Reselect, Details, NameTrip, AskNumber, BooksUnknown, Browse, Browses
<1>2. session \in State(FALSE)
  BY <1>1, SessionSound, FreeIsUnasked
<1>. DEFINE a == Attentive(session)
<1>3. a \in State(FALSE)
  BY <1>2, AttentiveKeeps
<1>. HIDE DEF a
<1>4. \A t \in Trip : Select(a, t) \in State(FALSE)
  BY <1>3, SelectKeeps
<1>5. CASE Reselect(m)
  <2>1. PICK t \in Trip : Prompt(Select(a, t))
    BY <1>5 DEF Reselect, a
  <2>. QED BY <1>1, <1>4, <2>1, PromptKeeps, SessionSound
<1>6. CASE Details(m)
  <2>1. PICK s \in State(FALSE) :
          Say(At(s, IF Step(s) \in Collecting THEN Step(s) ELSE "public_trip_details"))
    BY <1>3, <1>4, <1>6 DEF Details, a
  <2>2. (IF Step(s) \in Collecting THEN Step(s) ELSE "public_trip_details")
          \in Stage \cup {"save_new_traveler_lead"}
    BY DEF Stage
  <2>. QED BY <1>1, <2>1, <2>2, AtKeeps, UnaskedIsSound, SayKeeps, SessionSound
<1>7. CASE NameTrip(m)
  <2>1. "public_trip_details" \in Stage /\ "trip_selection_required" \in Stage
    BY DEF Stage, Collecting
  <2>2. \/ \E t \in Trip :
             Say([Select([a EXCEPT !.results = {t}], t) EXCEPT !.stage = "public_trip_details"])
        \/ \E t, u \in Trip :
             Say([a EXCEPT !.results = {t, u}, !.stage = "trip_selection_required"])
        \/ Say([a EXCEPT !.stage = "trip_selection_required"])
    BY <1>7 DEF NameTrip, a
  <2>3. ASSUME NEW t \in Trip
        PROVE  [Select([a EXCEPT !.results = {t}], t) EXCEPT !.stage = "public_trip_details"]
                 \in State(FALSE)
    <3>1. [a EXCEPT !.results = {t}] \in State(FALSE)
      BY ZenonT(40), <1>3, Update
    <3>. QED BY <2>1, <3>1, SelectKeeps, Update
  <2>4. ASSUME NEW t \in Trip, NEW u \in Trip
        PROVE  [a EXCEPT !.results = {t, u}, !.stage = "trip_selection_required"]
                 \in State(FALSE)
    <3>1. {t, u} \in (SUBSET Trip) \cup {None}
      OBVIOUS
    <3>. QED BY <1>3, <2>1, <3>1, Update
  <2>5. [a EXCEPT !.stage = "trip_selection_required"] \in State(FALSE)
    BY <1>3, <2>1, Update
  <2>. QED BY <1>1, <2>2, <2>3, <2>4, <2>5, UnaskedIsSound, SayKeeps, SessionSound
<1>8. CASE AskNumber(m)
  <2>1. Say(At(a, "identity_required")) /\ "identity_required" \in Stage
    BY <1>8 DEF AskNumber, a, Stage, Collecting
  <2>. QED BY <1>1, <1>3, <2>1, AtKeeps, UnaskedIsSound, SayKeeps, SessionSound
<1>9. CASE Browse(m)
  <2>1. PICK r \in State(FALSE) : Say([r EXCEPT !.reselect = TRUE])
    BY <1>2, <1>9, DefaultsKeep, SearchesKeep DEF Browse
  <2>. QED BY <1>1, <2>1, Update, UnaskedIsSound, SayKeeps, SessionSound
<1>. QED BY <1>5, <1>6, <1>7, <1>8, <1>9

LEMMA SaveTravelerKeeps ==
  ASSUME AskedInv, NEW s \in State(FALSE), SaveTraveler(s)
  PROVE  AskedInv'
<1>1. UNCHANGED minor /\ crm' \in {"active", "absent", "restricted", "duplicate"}
  BY SessionSound DEF SaveTraveler
<1>2. TravelerSaved(s) \in State(FALSE)
  BY Update DEF TravelerSaved
<1>3. "traveler_not_found" \in Stage
  BY DEF Stage, Collecting
<1>4. [TravelerSaved(s) EXCEPT !.stage = "traveler_not_found"] \in State(FALSE)
  BY <1>2, <1>3, Update
<1>5. LeadSaved(s) \subseteq State(FALSE)
  <2>1. [TravelerSaved(s) EXCEPT !.booking = FALSE, !.handoff = FALSE] \in State(FALSE)
    BY <1>2, Update
  <2>. QED BY <1>2, <2>1 DEF LeadSaved
<1>6. \A r \in State(FALSE) : Consent(r) \subseteq State(FALSE)
  BY ConsentKeeps
<1>7. \/ Say(At(s, Step(s)))
      \/ Say([TravelerSaved(s) EXCEPT !.stage = "traveler_not_found"])
      \/ \E c \in State(FALSE) : Prompt(c)
  BY <1>2, <1>5, <1>6 DEF SaveTraveler
<1>8. At(s, Step(s)) \in State(FALSE)
  BY StepIsStage, AtKeeps
<1>. QED BY <1>1, <1>4, <1>7, <1>8, UnaskedIsSound, SayKeeps, PromptKeeps

LEMMA RequestKeeps ==
  ASSUME AskedInv, NEW s \in State(FALSE), RequestPrivateTrip(s)
  PROVE  AskedInv'
<1>1. UNCHANGED << crm, minor >>
  BY DEF RequestPrivateTrip
<1>2. At(s, Step(s)) \in State(FALSE)
  BY StepIsStage, AtKeeps
<1>3. "private_request_escalated" \in Stage
  BY DEF Stage
<1>4. Requested(s) \in State(FALSE)
  BY <1>3, Update DEF Requested
<1>5. [Requested(s) EXCEPT !.handoff = TRUE, !.completed = TRUE] \in State(FALSE)
  BY <1>4, Update
<1>6. CASE Say(At(s, Step(s)))
  BY <1>1, <1>2, <1>6, UnaskedIsSound, SayKeeps, SessionSound
<1>7. CASE ~Say(At(s, Step(s)))
  <2>1. /\ session' \in {Requested(s), [Requested(s) EXCEPT !.handoff = TRUE,
                                                            !.completed = TRUE]}
        /\ visible' = FALSE /\ written' = written + 1 /\ UNCHANGED shown
    BY <1>7 DEF RequestPrivateTrip
  <2>2. Sound(session')
    BY <1>4, <1>5, <2>1, UnaskedIsSound
  <2>3. written' \in Nat
    BY <2>1 DEF AskedInv, TypeOK
  <2>4. Surrounded'
    BY <1>1, <2>1, <2>3 DEF Surrounded, AskedInv, TypeOK
  <2>. QED BY <1>1, <2>2, <2>4, Frame
<1>. QED BY <1>6, <1>7

LEMMA ConsentIsRead ==
  ASSUME NEW s \in SessionState, NEW c \in Consent(s)
  PROVE  c \in SessionState /\ SameBooking(s, c)
<1>1. c \in SessionState
  BY StateTypes, ConsentKeeps
<1>2. s.guardian # "none" => SameBooking(s, [s EXCEPT !.guardian = "saved"])
  BY DEF SessionState, SameBooking
<1>. QED BY <1>1, <1>2 DEF Consent, ConsentSent, SameBooking

\* The write failed, and every detail is still there.
LEMMA FailDraftKeeps ==
  ASSUME AskedInv, NEW s \in State(FALSE), Step(s) = "booking_ready", FailDraft(s)
  PROVE  AskedInv'
<1>1. UNCHANGED << crm, minor >> /\ "booking_confirmation_required" \in Stage
  BY DEF FailDraft, Stage
<1>2. PICK c \in Consent(s) :
        Say([c EXCEPT !.confirmed = FALSE, !.requested = TRUE,
                      !.stage = "booking_confirmation_required"])
  BY DEF FailDraft
<1>3. c \in SessionState /\ Step(c) = "booking_ready"
  BY ConsentIsRead, StepReads, StateTypes
<1>. DEFINE a == [c EXCEPT !.confirmed = FALSE]
            b == [a EXCEPT !.requested = TRUE]
            r == [b EXCEPT !.stage = "booking_confirmation_required"]
<1>4. a \in SessionState /\ SameBooking(c, a) /\ ~a.confirmed
  BY <1>3, StateTypes, Update, Unread
<1>5. Say(r)
  BY <1>2
<1>. HIDE DEF a
<1>6. b \in SessionState /\ SameBooking(a, b) /\ ~b.confirmed
  <2>1. b.confirmed = a.confirmed
    BY <1>4 DEF SessionState
  <2>. QED BY <1>4, <2>1, Unread
<1>. HIDE DEF b
<1>7. r \in SessionState /\ Twin(b, r)
  BY <1>1, <1>6, StateTypes, Update, Unread
<1>. HIDE DEF r
<1>8. Sound(r)
  BY <1>3, <1>4, <1>6, <1>7, StepReads DEF Sound, Twin
<1>. QED BY <1>1, <1>5, <1>8, SayKeeps, SessionSound

LEMMA WriteKeeps ==
  ASSUME AskedInv, NEW s \in State(FALSE), Step(s) = "booking_ready", Write(s)
  PROVE  AskedInv'
<1>1. "booking_ready" \in Stage /\ "identity_required" \in Stage
      /\ "post_booking_support" \in Stage
  BY DEF Stage, Collecting
<1>2. Consent(s) \subseteq State(FALSE)
  BY ConsentKeeps
<1>3. CASE LeaveToModel(s)
  BY <1>3, StepIsStage, AtKeeps, UnaskedIsSound, SayKeeps, SessionSound DEF LeaveToModel
<1>4. CASE MissTraveler(s)
  <2>1. [s EXCEPT !.lookup = "not_found", !.phone = FALSE, !.stage = "identity_required"]
          \in State(FALSE)
    BY <1>1, Update
  <2>. QED BY <1>4, <2>1, UnaskedIsSound, SayKeeps, SessionSound DEF MissTraveler
<1>5. CASE AwaitConsent(s)
  <2>1. PICK c \in State(FALSE) : Say(At(c, "booking_ready"))
    BY <1>2, <1>5 DEF AwaitConsent
  <2>2. UNCHANGED << crm, minor >>
    BY <1>5 DEF AwaitConsent
  <2>. QED BY <1>1, <2>1, <2>2, AtKeeps, UnaskedIsSound, SayKeeps, SessionSound
<1>6. CASE WriteDraft(s)
  <2>. DEFINE told(c) == [c EXCEPT !.completed = TRUE, !.booking = TRUE, !.requested = FALSE,
                                   !.stage = "post_booking_support"]
  <2>1. \A c \in State(FALSE) : told(c) \in State(FALSE)
    BY <1>1, Update
  <2>2. PICK t \in State(FALSE) :
          /\ session' \in {t, [t EXCEPT !.booked = TRUE, !.handoff = FALSE, !.handed = FALSE]}
          /\ written' \in {written, written + 1}
    BY <1>2, <1>6, <2>1 DEF WriteDraft
  <2>. HIDE DEF told
  <2>3. [t EXCEPT !.booked = TRUE, !.handoff = FALSE, !.handed = FALSE] \in State(FALSE)
    BY Update
  <2>4. Sound(session')
    BY <2>2, <2>3, UnaskedIsSound
  <2>5. written' \in Nat
    BY <2>2 DEF AskedInv, TypeOK
  <2>6. UNCHANGED << crm, minor, shown >> /\ visible' = FALSE
    BY <1>6 DEF WriteDraft
  <2>7. Surrounded'
    BY <2>5, <2>6 DEF Surrounded, AskedInv, TypeOK
  <2>. QED BY <2>4, <2>6, <2>7, Frame
<1>7. CASE FailDraft(s)
  BY <1>7, FailDraftKeeps
<1>. QED BY <1>3, <1>4, <1>5, <1>6, <1>7 DEF Write

LEMMA AdvanceKeeps ==
  ASSUME AskedInv, NEW m, Free(session, m), Advance(m)
  PROVE  AskedInv'
<1>1. PICK s \in Reached(m) :
        \/ Collect(s) \/ SendToReview(s) \/ RequestPrivateTrip(s) \/ SaveTraveler(s)
        \/ Step(s) = "booking_ready" /\ (AskToConfirm(s) \/ Write(s))
  BY DEF Advance
<1>2. s \in State(FALSE) /\ s \in SessionState
  BY SessionSound, ReachedUnasked, StateTypes
<1>3. At(s, Step(s)) \in State(FALSE)
  BY <1>2, StepIsStage, AtKeeps
<1>4. CASE Collect(s)
  BY <1>3, <1>4, UnaskedIsSound, SayKeeps, SessionSound DEF Collect
<1>5. CASE SendToReview(s)
  <2>1. \A h \in HandedOff(s, Step(s)) \cup {At(s, Step(s))} : Sound(h)
    BY <1>2, <1>3, <1>5, HandoffIsStage, HandedOffKeeps, UnaskedIsSound DEF SendToReview
  <2>. QED BY <1>5, <2>1, SayKeeps, SessionSound DEF SendToReview
<1>6. CASE Step(s) = "booking_ready" /\ AskToConfirm(s)
  BY <1>2, <1>6, AskKeeps DEF AskToConfirm
<1>. QED BY <1>1, <1>2, <1>4, <1>5, <1>6, RequestKeeps, SaveTravelerKeeps, WriteKeeps

\* A passport only brings the step nearer.
LEMMA UploadKeeps ==
  ASSUME AskedInv, UploadPassport
  PROVE  AskedInv'
<1>. DEFINE r == [session EXCEPT !.passport = TRUE]
<1>1. /\ r \in SessionState /\ r.requested = session.requested
      /\ r.confirmed = session.confirmed /\ r.passport
      /\ r.lookup = session.lookup /\ r.known = session.known /\ r.profile = session.profile
      /\ r.guardian = session.guardian /\ r.private = session.private
      /\ r.type = session.type /\ r.wish = session.wish /\ r.request = session.request
      /\ r.results = session.results /\ r.trip = session.trip /\ r.party = session.party
      /\ r.flight = session.flight /\ r.currency = session.currency
  BY SessionSound DEF SessionState
<1>. HIDE DEF r
<1>2. Step(session) = "booking_ready" => Step(r) = "booking_ready"
  <2>1. Seen(r) = Seen(session) /\ TypeKnown(r) = TypeKnown(session)
    BY <1>1 DEF Seen, TypeKnown
  <2>2. HasFlights(r) = HasFlights(session) /\ OfferOf(r) = OfferOf(session)
    BY <1>1, <2>1 DEF HasFlights, OfferOf
  <2>3. IsMinor(r) = IsMinor(session)
    BY <1>1 DEF IsMinor
  <2>4. PrivateStep(r) = PrivateStep(session) /\ TripStep(r) = TripStep(session)
    BY <1>1 DEF PrivateStep, TripStep
  <2>5. BookingStep(session) = "booking_ready" => BookingStep(r) = "booking_ready"
    BY <1>1, <2>1, <2>2 DEF BookingStep
  <2>6. PostIdentity(session) = "booking_ready" => PostIdentity(r) = "booking_ready"
    BY <1>1, <2>1, <2>3, <2>4, <2>5 DEF PostIdentity
  <2>7. NewTraveler(r) = NewTraveler(session) /\ NewTravelerStep(session) # "booking_ready"
    BY <1>1 DEF NewTraveler, NewTravelerStep
  <2>. QED BY <1>1, <2>6, <2>7 DEF Step
<1>3. Sound(r)
  BY <1>1, <1>2, SessionSound DEF Sound
<1>. QED BY <1>3, Frame DEF UploadPassport, r, Surrounded, AskedInv, TypeOK

LEMMA NextKeepsAsked == AskedInv /\ [Next]_vars => AskedInv'
<1>. SUFFICES ASSUME AskedInv, [Next]_vars PROVE AskedInv'
  OBVIOUS
<1>1. ASSUME NEW m, Turn(m) PROVE AskedInv'
  <2>1. CASE Free(session, m) /\ Acknowledge(m)
    BY <2>1, SessionSound, FreeIsUnasked, UnaskedIsSound, SayKeeps DEF Acknowledge
  <2>. QED BY <1>1, <2>1, StartNewBookingKeeps, SupportKeeps, ReviseKeeps, CannotUploadKeeps,
              AnswerSummaryKeeps, NavigationKeeps, ChangeFlightKeeps, AskForPersonKeeps,
              DiscoverKeeps, TripKeeps, AdvanceKeeps
           DEF Turn
<1>2. CASE DeleteTraveler \/ CreateTraveler
  BY <1>2, SessionSound, Frame
     DEF DeleteTraveler, CreateTraveler, Surrounded, AskedInv, TypeOK
<1>3. CASE UNCHANGED vars
  BY <1>3, SessionSound, Frame DEF vars, Surrounded, AskedInv, TypeOK
<1>. QED BY <1>1, <1>2, <1>3, UploadKeeps DEF Next

LEMMA InitIsUnasked == Init => AskedInv
<1>. SUFFICES ASSUME Init PROVE AskedInv
  OBVIOUS
<1>1. "identity_required" \in Stage
  BY DEF Stage, Collecting
<1>2. Start \in SessionState /\ ~Start.requested
  BY <1>1 DEF Start, SessionState
<1>. QED BY <1>2 DEF Init, AskedInv, TypeOK, AskedIsReady

\* The types of the session and of what surrounds it.
THEOREM TypeCorrect == Spec => []TypeOK
<1>1. AskedInv => TypeOK
  BY DEF AskedInv
<1>. QED BY <1>1, InitIsUnasked, NextKeepsAsked, PTL DEF Spec

\* Whatever the customer says while a confirmation is asked for, and however
\* often a write fails, what a "yes" would write has every detail the policy
\* wants, for any trips, offers and parties (evaluate, _execute_booking_draft).
THEOREM AskedIsComplete == Spec => []AskedIsReady
<1>1. AskedInv => AskedIsReady
  BY DEF AskedInv
<1>. QED BY <1>1, InitIsUnasked, NextKeepsAsked, PTL DEF Spec
-----------------------------------------------------------------------------
(* What is on file: one draft or private request until the next booking, a *)
(* person once a private request is open, and a guardian's consent before  *)
(* the draft of a minor.  Every handler but three keeps the record it      *)
(* starts from (the sessions near it); a new booking empties it, the       *)
(* private request and the draft fill it.                                  *)

\* The number was given up before a guardian was named.
Lost(s) == s.lookup # "none" /\ ~s.phone /\ s.guardian = "none"

\* A traveler of the CRM whose number is known was looked up.
Looked(s) == s.phone /\ crm = "active" => s.lookup \in {"found", "restricted"}

\* The sessions with the record of o, looked up if k.
Near(o, k) ==
  {s \in SessionState : /\ s.booked = o.booked /\ s.request = o.request
                        /\ s.private = o.private
                        /\ Lost(s) => Lost(o)
                        /\ k => Looked(s)}

Fine(s) == (s.booked => ~s.private) /\ (Lost(s) => ~minor)

Count(s, n) == n \in {0, 1} /\ (n = 1 => s.booked \/ s.request)

\* An open request holds the conversation: whatever is said goes to the
\* support that follows it, or to the person.
FiledIsKept ==
  session.request =>
    /\ session.handed /\ ~session.requested /\ ~visible
    /\ session.stage \in {"private_request_escalated", "post_booking_support"}

RecordInv == Fine(session) /\ Count(session, written) /\ FiledIsKept

Outcome == RecordInv' /\ (Drafted /\ minor => session'.guardian = "saved")

LEMMA NearUpdate ==
  ASSUME NEW o, NEW k \in BOOLEAN, NEW s \in Near(o, k)
  PROVE  /\ \A x \in Stage : [s EXCEPT !.stage = x] \in Near(o, k)
         /\ \A x \in BOOLEAN : [s EXCEPT !.known = x] \in Near(o, k)
         /\ \A x \in BOOLEAN : [s EXCEPT !.profile = x] \in Near(o, k)
         /\ \A x \in {"given", "saved"} : [s EXCEPT !.guardian = x] \in Near(o, k)
         /\ \A x \in Type \cup {None} : [s EXCEPT !.type = x] \in Near(o, k)
         /\ \A x \in (SUBSET Trip) \cup {None} : [s EXCEPT !.results = x] \in Near(o, k)
         /\ \A x \in Trip \cup {None} : [s EXCEPT !.trip = x] \in Near(o, k)
         /\ \A x \in Party \cup {None} : [s EXCEPT !.party = x] \in Near(o, k)
         /\ \A x \in {"Chosen", "NotApplicable", None} : [s EXCEPT !.flight = x] \in Near(o, k)
         /\ \A x \in BOOLEAN : [s EXCEPT !.passport = x] \in Near(o, k)
         /\ \A x \in BOOLEAN : [s EXCEPT !.currency = x] \in Near(o, k)
         /\ \A x \in BOOLEAN : [s EXCEPT !.requested = x] \in Near(o, k)
         /\ \A x \in BOOLEAN : [s EXCEPT !.confirmed = x] \in Near(o, k)
         /\ \A x \in BOOLEAN : [s EXCEPT !.completed = x] \in Near(o, k)
         /\ \A x \in BOOLEAN : [s EXCEPT !.booking = x] \in Near(o, k)
         /\ \A x \in BOOLEAN : [s EXCEPT !.handoff = x] \in Near(o, k)
         /\ \A x \in BOOLEAN : [s EXCEPT !.handed = x] \in Near(o, k)
         /\ \A x \in BOOLEAN : [s EXCEPT !.reselect = x] \in Near(o, k)
         /\ \A x \in BOOLEAN : [s EXCEPT !.wish = x] \in Near(o, k)
<1>1. \A x \in Stage : [s EXCEPT !.stage = x] \in Near(o, k)
  BY DEF Near, Lost, Looked, SessionState
<1>2. \A x \in BOOLEAN : [s EXCEPT !.known = x] \in Near(o, k)
  BY DEF Near, Lost, Looked, SessionState
<1>3. \A x \in BOOLEAN : [s EXCEPT !.profile = x] \in Near(o, k)
  BY DEF Near, Lost, Looked, SessionState
<1>4. \A x \in {"given", "saved"} : [s EXCEPT !.guardian = x] \in Near(o, k)
  BY DEF Near, Lost, Looked, SessionState
<1>5. \A x \in Type \cup {None} : [s EXCEPT !.type = x] \in Near(o, k)
  BY DEF Near, Lost, Looked, SessionState
<1>6. \A x \in (SUBSET Trip) \cup {None} : [s EXCEPT !.results = x] \in Near(o, k)
  BY DEF Near, Lost, Looked, SessionState
<1>7. \A x \in Trip \cup {None} : [s EXCEPT !.trip = x] \in Near(o, k)
  BY DEF Near, Lost, Looked, SessionState
<1>8. \A x \in Party \cup {None} : [s EXCEPT !.party = x] \in Near(o, k)
  BY DEF Near, Lost, Looked, SessionState
<1>9. \A x \in {"Chosen", "NotApplicable", None} : [s EXCEPT !.flight = x] \in Near(o, k)
  BY DEF Near, Lost, Looked, SessionState
<1>10. \A x \in BOOLEAN : [s EXCEPT !.passport = x] \in Near(o, k)
  BY DEF Near, Lost, Looked, SessionState
<1>11. \A x \in BOOLEAN : [s EXCEPT !.currency = x] \in Near(o, k)
  BY DEF Near, Lost, Looked, SessionState
<1>12. \A x \in BOOLEAN : [s EXCEPT !.requested = x] \in Near(o, k)
  BY DEF Near, Lost, Looked, SessionState
<1>13. \A x \in BOOLEAN : [s EXCEPT !.confirmed = x] \in Near(o, k)
  BY DEF Near, Lost, Looked, SessionState
<1>14. \A x \in BOOLEAN : [s EXCEPT !.completed = x] \in Near(o, k)
  BY DEF Near, Lost, Looked, SessionState
<1>15. \A x \in BOOLEAN : [s EXCEPT !.booking = x] \in Near(o, k)
  BY DEF Near, Lost, Looked, SessionState
<1>16. \A x \in BOOLEAN : [s EXCEPT !.handoff = x] \in Near(o, k)
  BY DEF Near, Lost, Looked, SessionState
<1>17. \A x \in BOOLEAN : [s EXCEPT !.handed = x] \in Near(o, k)
  BY DEF Near, Lost, Looked, SessionState
<1>18. \A x \in BOOLEAN : [s EXCEPT !.reselect = x] \in Near(o, k)
  BY DEF Near, Lost, Looked, SessionState
<1>19. \A x \in BOOLEAN : [s EXCEPT !.wish = x] \in Near(o, k)
  BY DEF Near, Lost, Looked, SessionState
<1>. QED BY <1>1, <1>2, <1>3, <1>4, <1>5, <1>6, <1>7, <1>8, <1>9, <1>10, <1>11, <1>12, <1>13, <1>14, <1>15, <1>16, <1>17, <1>18, <1>19
LEMMA NearTypes ==
  ASSUME NEW o, NEW k \in BOOLEAN
  PROVE  Near(o, k) \subseteq SessionState /\ Near(o, k) \subseteq Near(o, FALSE)
BY DEF Near

LEMMA NearSelf ==
  ASSUME NEW o \in SessionState
  PROVE  o \in Near(o, FALSE)
BY DEF Near

LEMMA NearNotAsked ==
  ASSUME NEW o, NEW k \in BOOLEAN, NEW s \in Near(o, k)
  PROVE  NotAsked(s) \in Near(o, k)
BY NearUpdate DEF NotAsked

LEMMA NearClear ==
  ASSUME NEW o, NEW k \in BOOLEAN, NEW s \in Near(o, k)
  PROVE  ClearDependent(s) \in Near(o, k)
BY NearNotAsked, NearUpdate DEF ClearDependent

LEMMA NearFields ==
  ASSUME NEW o, NEW k \in BOOLEAN, NEW s \in Near(o, k)
  PROVE  /\ s.flight \in {"Chosen", "NotApplicable", None} /\ s.wish \in BOOLEAN
         /\ s.lookup \in {"none", "found", "not_found", "restricted", "duplicate"}
         /\ s.phone \in BOOLEAN /\ s.guardian \in {"none", "given", "saved"}
         /\ s.results \in (SUBSET Trip) \cup {None}
         /\ s.private = o.private /\ s.booked = o.booked /\ s.request = o.request
BY DEF Near, SessionState

LEMMA NearSelect ==
  ASSUME NEW o, NEW k \in BOOLEAN, NEW s \in Near(o, k), NEW t \in Trip
  PROVE  Select(s, t) \in Near(o, k)
<1>. DEFINE fresh == IF s.trip \in {None, t} THEN s ELSE ClearDependent(s)
            typed == [fresh EXCEPT !.trip = t, !.type = TypeOf[t]]
<1>1. fresh \in Near(o, k)
  BY NearClear
<1>2. TypeOf[t] \in Type
  BY TripAssumption DEF Type
<1>. HIDE DEF fresh
<1>3. typed \in Near(o, k)
  BY <1>1, <1>2, NearUpdate
<1>. HIDE DEF typed
<1>4. typed.flight \in {"Chosen", "NotApplicable", None}
  BY <1>3, NearFields
<1>5. [typed EXCEPT !.flight = IF TypeOf[t] = "local" THEN "NotApplicable" ELSE typed.flight]
        \in Near(o, k)
  BY <1>3, <1>4, NearUpdate
<1>. QED BY <1>5 DEF Select, fresh, typed

LEMMA NearDefaults ==
  ASSUME NEW o, NEW k \in BOOLEAN, NEW s \in Near(o, k)
  PROVE  Defaults(s) \in Near(o, k)
BY NearUpdate DEF Defaults

LEMMA NearChangeType ==
  ASSUME NEW o, NEW k \in BOOLEAN, NEW s \in Near(o, k), NEW y \in Type
  PROVE  ChangeType(s, y) \in Near(o, k)
<1>. DEFINE c == [ClearDependent(s) EXCEPT !.type = y, !.trip = None, !.results = None]
<1>1. c \in Near(o, k)
  BY NearClear, NearUpdate
<1>. HIDE DEF c
<1>2. [c EXCEPT !.wish = IF s.private THEN FALSE ELSE c.wish] \in Near(o, k)
  <2>. DEFINE w == IF s.private THEN FALSE ELSE c.wish
  <2>1. w \in BOOLEAN
    BY <1>1, NearFields
  <2>. HIDE DEF w
  <2>2. [c EXCEPT !.wish = w] \in Near(o, k)
    BY <1>1, <2>1, NearUpdate
  <2>. QED BY <2>2 DEF w
<1>. QED BY <1>2 DEF ChangeType, c

LEMMA NearHandedOff ==
  ASSUME NEW o, NEW k \in BOOLEAN, NEW s \in Near(o, k), NEW stage \in Stage,
         NEW h \in HandedOff(s, stage)
  PROVE  h \in Near(o, k)
<1>1. NewCase(s) \in Near(o, k)
  BY NearUpdate DEF NewCase
<1>2. OpenCase(s) \in Near(o, k)
  <2>. DEFINE b == s.handoff /\ s.booking
  <2>1. b \in BOOLEAN
    OBVIOUS
  <2>. HIDE DEF b
  <2>2. [s EXCEPT !.handed = TRUE, !.handoff = TRUE, !.booking = b] \in Near(o, k)
    BY <2>1, NearUpdate
  <2>. QED BY <2>2 DEF OpenCase, b
<1>3. PICK g \in {NewCase(s), OpenCase(s)} : h = [g EXCEPT !.stage = stage]
  BY DEF HandedOff
<1>4. g \in Near(o, k)
  BY <1>1, <1>2
<1>. QED BY <1>3, <1>4, NearUpdate

LEMMA NearAt ==
  ASSUME NEW o, NEW k \in BOOLEAN, NEW s \in Near(o, k),
         NEW step \in Stage \cup {"save_new_traveler_lead"}
  PROVE  At(s, step) \in Near(o, k)
<1>. DEFINE g == IF step = "save_new_traveler_lead" THEN "traveler_not_found" ELSE step
<1>1. g \in Stage
  BY DEF Stage, Collecting
<1>2. [s EXCEPT !.stage = g] \in Near(o, k)
  <2>. HIDE DEF g
  <2>. QED BY <1>1, NearUpdate
<1>. QED BY <1>2 DEF At

\* A number that is given is looked up unless the traveler is verified.
LEMMA NearLookUp ==
  ASSUME NEW o, NEW s \in Near(o, FALSE)
  PROVE  LookUp(s) \in Near(o, TRUE)
<1>1. CASE ~s.phone \/ Verified(s)
  BY <1>1 DEF LookUp, Verified, Near, Looked
<1>2. CASE s.phone /\ ~Verified(s)
  <2>1. ASSUME NEW x \in {"found", "not_found", "restricted", "duplicate"},
               crm = "active" => x = "found"
        PROVE  [s EXCEPT !.lookup = x] \in Near(o, TRUE)
    BY <1>2, <2>1 DEF Near, Lost, Looked, SessionState
  <2>2. /\ crm = "active" => [s EXCEPT !.lookup = "found"] \in Near(o, TRUE)
        /\ crm # "active" => [s EXCEPT !.lookup = "restricted"] \in Near(o, TRUE)
        /\ crm # "active" => [s EXCEPT !.lookup = "duplicate"] \in Near(o, TRUE)
        /\ crm # "active" => [s EXCEPT !.lookup = "not_found"] \in Near(o, TRUE)
    BY <2>1
  <2>. QED BY <1>2, <2>2, NearUpdate DEF LookUp, Identified
<1>. QED BY <1>1, <1>2

LEMMA NearConsent ==
  ASSUME NEW o, NEW k \in BOOLEAN, NEW s \in Near(o, k)
  PROVE  Consent(s) \subseteq Near(o, k)
<1>1. [s EXCEPT !.guardian = "saved"] \in Near(o, k)
  BY NearUpdate
<1>. QED BY <1>1 DEF Consent, ConsentSent

LEMMA NearSearches ==
  ASSUME NEW o, NEW k \in BOOLEAN, NEW s \in Near(o, k)
  PROVE  Searches(s) \subseteq Near(o, k)
<1>1. \A r \in Available(TypeKnown(s)) : r \in (SUBSET Trip) \cup {None}
  BY DEF Available
<1>2. \A r \in Available(TypeKnown(s)) : [s EXCEPT !.results = r] \in Near(o, k)
  BY <1>1, NearUpdate
<1>. QED BY <1>2 DEF Searches

LEMMA NearHeard ==
  ASSUME NEW o, NEW k \in BOOLEAN, NEW s \in Near(o, k), NEW m
  PROVE  Heard(s, m) \in Near(o, k)
<1>1. "booking_ready" \in Stage
  BY DEF Stage
<1>2. [s EXCEPT !.confirmed = TRUE, !.requested = FALSE, !.stage = "booking_ready"]
         \in Near(o, k)
  BY <1>1, NearUpdate
<1>. QED BY <1>2, NearNotAsked DEF Heard

LEMMA NearAnswers ==
  ASSUME NEW o, NEW k \in BOOLEAN, NEW s \in Near(o, k)
  PROVE  Answers(s) \subseteq Near(o, k)
<1>1. \A y \in Type : [s EXCEPT !.type = y] \in Near(o, k)
  BY NearUpdate
<1>2. TypeGiven(s) \subseteq Near(o, k)
  BY <1>1 DEF TypeGiven
<1>3. \A p \in Party : [s EXCEPT !.party = p] \in Near(o, k)
  BY NearUpdate
<1>4. RoomsGiven(s) \subseteq Near(o, k)
  BY <1>3 DEF RoomsGiven
<1>5. [s EXCEPT !.guardian = "given"] \in Near(o, k)
  BY NearUpdate
<1>6. GuardianGiven(s) \subseteq Near(o, k)
  BY <1>5, NearConsent DEF GuardianGiven
<1>7. ProfileGiven(s) \in Near(o, k) /\ FlightGiven(s) \in Near(o, k)
      /\ CurrencyGiven(s) \in Near(o, k)
  BY NearUpdate DEF ProfileGiven, FlightGiven, CurrencyGiven
<1>8. WishGiven(s) \in Near(o, k)
  BY NearUpdate DEF WishGiven
<1>. QED BY <1>2, <1>4, <1>6, <1>7, <1>8 DEF Answers

LEMMA NearPicks ==
  ASSUME NEW o, NEW k \in BOOLEAN, NEW s \in Near(o, k), NEW m
  PROVE  Picks(s, m) \subseteq Near(o, k)
<1>1. s.results \notin {None, {}} => s.results \subseteq Trip
  BY NearFields
<1>2. \A t \in Trip : Select(s, t) \in Near(o, k)
  BY NearSelect
<1>. QED BY <1>1, <1>2 DEF Picks

LEMMA NearFound ==
  ASSUME NEW o, NEW k \in BOOLEAN, NEW s \in Near(o, k), NEW m
  PROVE  Found(s, m) \subseteq Near(o, k)
<1>1. \A r \in SUBSET Trip : [s EXCEPT !.results = r] \in Near(o, k)
  BY NearUpdate
<1>2. ASSUME NEW t \in Trip PROVE Select([s EXCEPT !.results = {t}], t) \in Near(o, k)
  BY <1>1, NearSelect
<1>. QED BY <1>1, <1>2 DEF Found

LEMMA NearAttentive ==
  ASSUME NEW o, NEW k \in BOOLEAN, NEW s \in Near(o, k)
  PROVE  Attentive(s) \in Near(o, k)
BY NearUpdate DEF Attentive

\* The record a message starts from: the wish for a private trip is part of it.
From(m) == IF m = "private" THEN [session EXCEPT !.private = TRUE] ELSE session

LEMMA NearSays ==
  ASSUME session \in SessionState, NEW s \in Near(session, FALSE), NEW m
  PROVE  Says(s, m) \subseteq Near(From(m), FALSE)
<1>1. CASE m = "private"
  <2>1. [s EXCEPT !.private = TRUE] \in Near([session EXCEPT !.private = TRUE], FALSE)
    <3>. DEFINE f == [s EXCEPT !.private = TRUE]
                o == [session EXCEPT !.private = TRUE]
    <3>1. s \in SessionState
      BY NearTypes
    <3>2. f \in SessionState
      BY <3>1, Update, StateTypes
    <3>3. /\ f.private = TRUE /\ f.booked = s.booked /\ f.request = s.request
          /\ f.lookup = s.lookup /\ f.phone = s.phone /\ f.guardian = s.guardian
      BY <3>1 DEF SessionState
    <3>4. /\ o.private = TRUE /\ o.booked = session.booked /\ o.request = session.request
          /\ o.lookup = session.lookup /\ o.phone = session.phone
          /\ o.guardian = session.guardian
      BY DEF SessionState
    <3>. HIDE DEF f, o
    <3>5. f \in Near(o, FALSE)
      BY <3>2, <3>3, <3>4 DEF Near, Lost
    <3>. QED BY <3>5 DEF f, o
  <2>. QED BY <1>1, <2>1 DEF Says, From
<1>2. CASE m # "private"
  <2>1. RoomsSaid(s) \subseteq Near(session, FALSE)
    <3>1. \A r \in Near(session, FALSE), p \in Party : [r EXCEPT !.party = p] \in Near(session, FALSE)
      BY NearUpdate
    <3>2. \A r \in Near(session, FALSE) : RoomsGiven(r) \subseteq Near(session, FALSE)
      BY <3>1 DEF RoomsGiven
    <3>3. [NotAsked(s) EXCEPT !.party = None] \in Near(session, FALSE)
      BY NearNotAsked, NearUpdate
    <3>. QED BY <3>2, <3>3, NearNotAsked DEF RoomsSaid, RoomsAdded
  <2>2. {ChangeType(s, y) : y \in Type} \subseteq Near(session, FALSE)
    <3>1. \A y \in Type : ChangeType(s, y) \in Near(session, FALSE)
      BY NearChangeType
    <3>. QED BY <3>1
  <2>3. FlightSaid(s) \subseteq Near(session, FALSE)
    <3>1. FlightGiven(s) \in Near(session, FALSE)
      BY NearUpdate DEF FlightGiven
    <3>2. [NotAsked(FlightGiven(s)) EXCEPT !.passport = FALSE] \in Near(session, FALSE)
      BY <3>1, NearNotAsked, NearUpdate
    <3>. QED BY <3>1, <3>2 DEF FlightSaid
  <2>4. Switches(s) \subseteq Near(session, FALSE)
    <3>1. \A t \in Trip : Select(s, t) \in Near(session, FALSE)
      BY NearSelect
    <3>. QED BY <3>1 DEF Switches
  <2>5. [s EXCEPT !.phone = TRUE] \in Near(session, FALSE)
    <3>. DEFINE f == [s EXCEPT !.phone = TRUE]
    <3>1. s \in SessionState
      BY NearTypes
    <3>2. f \in SessionState
      BY <3>1, Update, StateTypes
    <3>3. f.phone /\ f.booked = s.booked /\ f.request = s.request /\ f.private = s.private
      BY <3>1 DEF SessionState
    <3>. HIDE DEF f
    <3>4. f \in Near(session, FALSE)
      BY <3>2, <3>3 DEF Near, Lost
    <3>. QED BY <3>4 DEF f
  <2>6. Answers(s) \subseteq Near(session, FALSE)
        /\ \A n : Picks(s, n) \subseteq Near(session, FALSE)
    BY NearAnswers, NearPicks
  <2>. QED BY <1>2, <2>1, <2>2, <2>3, <2>4, <2>5, <2>6 DEF Says, From
<1>. QED BY <1>1, <1>2

LEMMA NearReached ==
  ASSUME session \in SessionState, NEW m, NEW r \in Reached(m)
  PROVE  r \in Near(From(m), TRUE)
<1>. DEFINE heard  == Says(Attentive(Heard(session, m)), m)
            said   == UNION {Found(LookUp(Defaults(s)), m) : s \in heard}
            search == {s \in said : Step(s) = "trip_search_ready"}
            near   == Near(From(m), TRUE)
<1>1. heard \subseteq Near(From(m), FALSE)
  BY NearSelf, NearHeard, NearAttentive, NearSays
<1>. HIDE DEF heard
<1>2. \A s \in Near(From(m), FALSE) : Found(LookUp(Defaults(s)), m) \subseteq near
  <2>1. \A s \in Near(From(m), FALSE) : LookUp(Defaults(s)) \in near
    BY NearDefaults, NearLookUp
  <2>. QED BY <2>1, NearFound
<1>3. said \subseteq near
  BY <1>1, <1>2
<1>. HIDE DEF said
<1>4. \A s \in search : Searches(s) \subseteq near
  BY <1>3, NearSearches
<1>5. r \in said \/ \E s \in search : r \in Searches(s)
  BY DEF Reached, heard, said
<1>. QED BY <1>3, <1>4, <1>5

-----------------------------------------------------------------------------
(* What the handlers leave on file.                                        *)

\* What a handler may start from: no request is open.
Base(o) ==
  /\ o \in SessionState /\ Fine(o) /\ Count(o, written)
  /\ o.booked = session.booked /\ ~o.request

LEMMA NearOutcome ==
  ASSUME NEW o, Base(o), session' \in Near(o, FALSE), UNCHANGED << minor, written >>
  PROVE  Outcome
<1>1. Fine(session)'
  BY DEF Base, Fine, Near, Lost
<1>2. Count(session, written)'
  BY DEF Base, Count, Near
<1>3. FiledIsKept'
  BY DEF Base, FiledIsKept, Near
<1>4. ~Drafted
  BY DEF Base, Drafted, Near
<1>. QED BY <1>1, <1>2, <1>3, <1>4 DEF Outcome, RecordInv

LEMMA NearSaid ==
  ASSUME NEW o, Base(o), NEW s \in Near(o, FALSE), Say(s) \/ Summarise(s), UNCHANGED minor
  PROVE  Outcome
BY NearOutcome DEF Say, Summarise

LEMMA NearAsked ==
  ASSUME NEW o, Base(o), NEW s \in Near(o, FALSE), Ask(s), UNCHANGED minor
  PROVE  Outcome
<1>1. "booking_confirmation_required" \in Stage
  BY DEF Stage
<1>2. [s EXCEPT !.requested = TRUE, !.confirmed = FALSE,
                !.stage = "booking_confirmation_required"] \in Near(o, FALSE)
  BY <1>1, NearUpdate
<1>. QED BY <1>2, NearSaid DEF Ask

LEMMA NearPrompt ==
  ASSUME NEW o, Base(o), NEW s \in Near(o, FALSE), Prompt(s), UNCHANGED minor
  PROVE  Outcome
<1>1. PICK r \in Near(o, FALSE) : Summarise(At(r, Step(r))) \/ Say(At(r, Step(r)))
  BY NearSearches DEF Prompt
<1>2. At(r, Step(r)) \in Near(o, FALSE)
  BY StepIsStage, NearAt
<1>. QED BY <1>1, <1>2, NearSaid

\* While a request is open, no other handler takes a message.
LEMMA FiledTakesAll ==
  ASSUME TypeOK, RecordInv, session.request, NEW m, Turn(m)
  PROVE  StartNewBooking(m) \/ Support(m) \/ (Acknowledge(m) /\ session' = session)
<1>1. /\ session.stage \in {"private_request_escalated", "post_booking_support"}
      /\ session.handed /\ ~Awaited(session)
  BY DEF RecordInv, FiledIsKept, Awaited
<1>2. CASE m # "human"
  <2>1. PostBooking(session, m)
    BY <1>1, <1>2 DEF PostBooking, Completed
  <2>2. Early(session, m) /\ ~Free(session, m)
    BY <2>1 DEF Early, Free
  <2>. QED BY <2>1, <2>2 DEF Turn, Revise, CannotUpload, AnswerSummary
<1>3. CASE m = "human"
  <2>1. Acknowledges(session, m)
    BY <1>1, <1>3 DEF Acknowledges, ActiveHandoff
  <2>2. ~Revise(m) /\ ~CannotUpload(m) /\ ~AnswerSummary(m)
    BY <1>1, <1>3 DEF Revise, Revision, CannotUpload, PassportProblem, AnswerSummary
  <2>3. ~StartOver(m) /\ ~Cancel(m) /\ ~ChangeFlight(m) /\ ~GoBack(m)
    BY <1>3 DEF StartOver, Cancel, ChangeFlight, GoBack
  <2>4. ~AskForPerson(m) /\ ~Discover(m) /\ ~InWorkflow(m)
    BY <1>3, <2>1 DEF AskForPerson, Discover, InWorkflow
  <2>5. Acknowledge(m) => session' = session
    BY <1>1, <1>3 DEF Acknowledge, Heard, Say
  <2>. QED BY <2>2, <2>3, <2>4, <2>5 DEF Turn
<1>. QED BY <1>2, <1>3

\* With a booking on file, a new wish is one for the support.
LEMMA FromIsBase ==
  ASSUME TypeOK, RecordInv, ~session.request, NEW m, Free(session, m)
  PROVE  Base(From(m)) /\ Base(session) /\ session \in SessionState
         /\ (m = "startOver" => ~session.booked)
<1>1. session \in SessionState /\ Base(session)
  BY DEF TypeOK, RecordInv, Base
<1>2. m \in {"private", "startOver"} => ~session.booked
  BY DEF Free, Early, PostBooking, Completed
<1>3. CASE m = "private"
  <2>. DEFINE f == [session EXCEPT !.private = TRUE]
  <2>1. /\ f \in SessionState /\ f.booked = session.booked /\ f.request = session.request
        /\ f.lookup = session.lookup /\ f.phone = session.phone
        /\ f.guardian = session.guardian
    BY <1>1 DEF SessionState
  <2>. HIDE DEF f
  <2>2. Base(f)
    BY <1>1, <1>2, <1>3, <2>1 DEF Base, Fine, Count, Lost
  <2>. QED BY <1>1, <1>2, <1>3, <2>2 DEF From, f
<1>4. CASE m # "private"
  BY <1>1, <1>2, <1>4 DEF From
<1>. QED BY <1>3, <1>4

LEMMA NewBookingOutcome ==
  ASSUME TypeOK, RecordInv, NEW m, StartNewBooking(m)
  PROVE  Outcome
<1>1. session \in SessionState /\ UNCHANGED minor /\ written' = 0
      /\ session' = NewBooking(session)
  BY DEF TypeOK, StartNewBooking
<1>. DEFINE r == [NotAsked(session) EXCEPT !.booked = FALSE, !.completed = FALSE,
                    !.booking = FALSE, !.private = FALSE, !.request = FALSE]
            q == [r EXCEPT !.type = None, !.trip = None, !.party = None, !.flight = None,
                           !.currency = FALSE, !.stage = "new_booking_intent"]
<1>2. NotAsked(session) \in Near(session, FALSE)
  BY <1>1, NearSelf, NearNotAsked
<1>3. /\ r \in SessionState /\ ~r.booked /\ ~r.private /\ ~r.request
      /\ Lost(r) => Lost(session)
  <2>. DEFINE n == NotAsked(session)
  <2>1. n \in SessionState /\ (Lost(n) => Lost(session))
    BY <1>2 DEF Near
  <2>. HIDE DEF n
  <2>. DEFINE e == [n EXCEPT !.booked = FALSE, !.completed = FALSE,
                    !.booking = FALSE, !.private = FALSE, !.request = FALSE]
  <2>2. e \in SessionState
    BY <2>1, Update, StateTypes
  <2>3. /\ ~e.booked /\ ~e.private /\ ~e.request
        /\ e.lookup = n.lookup /\ e.phone = n.phone /\ e.guardian = n.guardian
    BY <2>1 DEF SessionState
  <2>4. r = e
    BY DEF n
  <2>. HIDE DEF e, r
  <2>. QED BY <2>1, <2>2, <2>3, <2>4 DEF Lost
<1>. HIDE DEF r
<1>4. "new_booking_intent" \in Stage /\ r \in Near(r, FALSE)
  BY <1>3, NearSelf DEF Stage
<1>5. q \in Near(r, FALSE)
  BY <1>4, NearUpdate
<1>6. session' = q
  BY <1>1 DEF NewBooking, r
<1>. HIDE DEF q
<1>7. ~session'.booked /\ ~session'.request /\ (Lost(session)' => Lost(session))
  BY <1>3, <1>5, <1>6 DEF Near, Lost
<1>. QED BY <1>1, <1>7 DEF Outcome, RecordInv, Fine, Count, FiledIsKept, Drafted

\* The support keeps an open request where it is.
LEMMA SupportOutcome ==
  ASSUME TypeOK, RecordInv, NEW m, Support(m)
  PROVE  Outcome
<1>1. session \in SessionState /\ session \in Near(session, FALSE)
      /\ "post_booking_support" \in Stage
  BY NearSelf DEF TypeOK, Stage
<1>. DEFINE r == [session EXCEPT !.stage = "post_booking_support", !.completed = TRUE]
<1>2. /\ r \in Near(session, FALSE) /\ r.stage = "post_booking_support"
      /\ r.handed = session.handed /\ r.requested = session.requested
  <2>1. r \in Near(session, FALSE)
    BY <1>1, NearUpdate
  <2>. QED BY <1>1, <2>1 DEF SessionState
<1>3. Say(session) \/ Say(r)
  BY DEF Support
<1>4. UNCHANGED << minor, written >> /\ ~visible'
  BY <1>3 DEF Support, Say
<1>. HIDE DEF r
<1>5. /\ session' \in Near(session, FALSE)
      /\ session'.handed = session.handed /\ session'.requested = session.requested
      /\ session'.stage \in {session.stage, "post_booking_support"}
  BY <1>1, <1>2, <1>3 DEF Say
<1>6. Fine(session)' /\ Count(session, written)' /\ ~Drafted
  BY <1>4, <1>5 DEF RecordInv, Fine, Count, Drafted, Near, Lost
<1>7. FiledIsKept'
  BY <1>4, <1>5 DEF RecordInv, FiledIsKept, Near
<1>. QED BY <1>6, <1>7 DEF Outcome, RecordInv

LEMMA ReviseOutcome ==
  ASSUME Base(session), NEW m, Revise(m)
  PROVE  Outcome
<1>. DEFINE near == Near(session, FALSE)
<1>1. NotAsked(session) \in near
  BY NearSelf, NearNotAsked DEF Base
<1>2. PICK r \in Revisions(session) :
        LET s == Defaults(r) IN
        \/ Step(s) \in HandoffStep /\ \E h \in HandedOff(s, Step(s)) : Say(h)
        \/ Step(s) = "booking_ready" /\ Ask(s)
        \/ Step(s) # "booking_ready" /\ Say(At(s, Step(s)))
  BY DEF Revise
<1>3. r \in near
  <2>1. \A p \in Party \cup {None} : [NotAsked(session) EXCEPT !.party = p] \in near
    BY <1>1, NearUpdate
  <2>2. [NotAsked(session) EXCEPT !.flight = "Chosen", !.passport = FALSE] \in near
    BY <1>1, NearUpdate
  <2>. QED BY <1>1, <2>1, <2>2 DEF Revisions
<1>. DEFINE s == Defaults(r)
<1>4. s \in near
  BY <1>3, NearDefaults
<1>5. \/ Step(s) \in HandoffStep /\ \E h \in HandedOff(s, Step(s)) : Say(h)
      \/ Ask(s) \/ Say(At(s, Step(s)))
  BY <1>2
<1>6. UNCHANGED minor
  BY DEF Revise
<1>. HIDE DEF s
<1>7. CASE Step(s) \in HandoffStep /\ \E h \in HandedOff(s, Step(s)) : Say(h)
  BY <1>4, <1>6, <1>7, HandoffIsStage, NearHandedOff, NearSaid
<1>8. CASE Ask(s)
  BY <1>4, <1>6, <1>8, NearAsked
<1>9. CASE Say(At(s, Step(s)))
  BY <1>4, <1>6, <1>9, StepIsStage, NearAt, NearSaid
<1>. QED BY <1>5, <1>7, <1>8, <1>9

LEMMA SummaryOutcome ==
  ASSUME Base(session), NEW m, CannotUpload(m) \/ AnswerSummary(m)
  PROVE  Outcome
<1>. DEFINE near == Near(session, FALSE)
<1>1. session \in near /\ NotAsked(session) \in near
  BY NearSelf, NearNotAsked DEF Base
<1>2. "awaiting_passport_upload" \in Stage /\ "waiting" \in Stage
      /\ "booking_confirmation_required" \in Stage
  BY DEF Stage, Collecting
<1>3. UNCHANGED minor
  BY DEF CannotUpload, AnswerSummary
<1>4. \A h \in HandedOff(NotAsked(session), "human_handoff_required") : h \in near
  BY <1>1, HandoffIsStage, NearHandedOff
<1>5. [session EXCEPT !.handed = FALSE, !.stage = "awaiting_passport_upload"] \in near
  BY <1>1, <1>2, NearUpdate
<1>6. [NotAsked(session) EXCEPT !.stage = "waiting"] \in near
      /\ [session EXCEPT !.stage = "booking_confirmation_required"] \in near
  BY <1>1, <1>2, NearUpdate
<1>7. \E s \in near : Say(s)
  BY <1>1, <1>4, <1>5, <1>6 DEF CannotUpload, AnswerSummary
<1>. QED BY <1>3, <1>7, NearSaid

LEMMA NavigationOutcome ==
  ASSUME Base(session), NEW m, m = "startOver" => ~session.booked,
         StartOver(m) \/ Cancel(m) \/ ChangeFlight(m) \/ GoBack(m)
  PROVE  Outcome
<1>. DEFINE n == NotAsked(session)
            near == Near(session, FALSE)
<1>1. n \in near /\ session \in near /\ session \in SessionState
  BY NearSelf, NearNotAsked DEF Base
<1>2. /\ "trip_type_required" \in Stage /\ "identity_required" \in Stage
      /\ "waiting" \in Stage /\ "flight_option_required" \in Stage
      /\ "room_type_required" \in Stage
  BY DEF Stage, Collecting
<1>3. UNCHANGED minor
  BY DEF StartOver, Cancel, ChangeFlight, GoBack
<1>4. CASE StartOver(m)
  <2>. DEFINE g == IF Verified(session) THEN "trip_type_required" ELSE "identity_required"
              c == [ClearDependent(session) EXCEPT !.type = None, !.trip = None,
                                                   !.results = None]
              b == [c EXCEPT !.booked = FALSE]
  <2>1. g \in Stage /\ c \in near
    BY <1>1, <1>2, NearClear, NearUpdate
  <2>2. Say([b EXCEPT !.stage = g])
    BY <1>4 DEF StartOver
  <2>3. ~session.booked
    BY <1>4 DEF StartOver
  <2>. HIDE DEF g, c
  <2>4. b \in near
    <3>1. c \in SessionState /\ ~c.booked
      BY <2>1, <2>3 DEF Near
    <3>2. b \in SessionState
      BY <3>1, Update, StateTypes
    <3>3. /\ b.booked = c.booked /\ b.request = c.request /\ b.private = c.private
          /\ b.lookup = c.lookup /\ b.phone = c.phone /\ b.guardian = c.guardian
      BY <3>1 DEF SessionState
    <3>. HIDE DEF b
    <3>. QED BY <2>1, <3>2, <3>3 DEF Near, Lost
  <2>. HIDE DEF b
  <2>5. [b EXCEPT !.stage = g] \in near
    BY <2>1, <2>4, NearUpdate
  <2>. QED BY <1>3, <2>2, <2>5, NearSaid
<1>. HIDE DEF n
<1>5. CASE Cancel(m)
  <2>1. Say([n EXCEPT !.handed = FALSE, !.stage = "waiting"])
    BY <1>5 DEF Cancel, n
  <2>2. [n EXCEPT !.handed = FALSE, !.stage = "waiting"] \in near
    BY <1>1, <1>2, NearUpdate
  <2>. QED BY <1>3, <2>1, <2>2, NearSaid
<1>6. CASE ChangeFlight(m)
  <2>. DEFINE s == [n EXCEPT !.flight = "Chosen", !.passport = FALSE]
  <2>1. s \in near
    BY <1>1, NearUpdate
  <2>2. Ask(s) \/ Say(At(s, Step(s)))
    BY <1>6 DEF ChangeFlight, n
  <2>. HIDE DEF s
  <2>. QED BY <1>3, <2>1, <2>2, StepIsStage, NearAt, NearAsked, NearSaid
<1>7. CASE GoBack(m)
  <2>1. \/ Say([n EXCEPT !.passport = FALSE, !.flight = None,
                         !.stage = "flight_option_required"])
        \/ Say([n EXCEPT !.passport = FALSE, !.stage = "room_type_required"])
        \/ Say([n EXCEPT !.flight = None, !.stage = "room_type_required"])
        \/ Say([n EXCEPT !.party = None])
    BY <1>7 DEF GoBack, n
  <2>2. /\ [n EXCEPT !.passport = FALSE, !.flight = None,
                     !.stage = "flight_option_required"] \in near
        /\ [n EXCEPT !.passport = FALSE, !.stage = "room_type_required"] \in near
        /\ [n EXCEPT !.flight = None, !.stage = "room_type_required"] \in near
        /\ [n EXCEPT !.party = None] \in near
    BY <1>1, <1>2, NearUpdate
  <2>. QED BY <1>3, <2>1, <2>2, NearSaid
<1>. QED BY <1>4, <1>5, <1>6, <1>7

\* A traveler who is gone had a number, so nothing more is lost.
LEMMA PersonOutcome ==
  ASSUME Base(session), NEW m, AskForPerson(m) \/ Acknowledge(m)
  PROVE  Outcome
<1>. DEFINE near == Near(session, FALSE)
<1>1. session \in near /\ session \in SessionState
  BY NearSelf DEF Base
<1>2. UNCHANGED minor
  BY DEF AskForPerson, Acknowledge
<1>3. CASE Acknowledge(m)
  BY <1>1, <1>2, <1>3, NearHeard, NearSaid DEF Acknowledge
<1>4. CASE AskForPerson(m)
  <2>. DEFINE s == IF Gone(session) THEN [session EXCEPT !.lookup = "not_found"]
                   ELSE IF session.known THEN session
                   ELSE IF crm \in {"active", "restricted"} THEN LookUp(session)
                   ELSE session
  <2>1. Gone(session) => [session EXCEPT !.lookup = "not_found"] \in near
    BY <1>1 DEF Gone, Near, Lost, SessionState
  <2>2. s \in near
    BY <1>1, <2>1, NearLookUp, NearTypes
  <2>3. \/ \E h \in HandedOff(s, "human_handoff_required") : Say(h)
        \/ Prompt([s EXCEPT !.handed = FALSE])
    BY <1>4 DEF AskForPerson
  <2>. HIDE DEF s
  <2>4. [s EXCEPT !.handed = FALSE] \in near
    BY <2>2, NearUpdate
  <2>. QED BY <1>2, <2>2, <2>3, <2>4, HandoffIsStage, NearHandedOff, NearSaid, NearPrompt
<1>. QED BY <1>3, <1>4

LEMMA DiscoverOutcome ==
  ASSUME Base(session), NEW m, Discover(m)
  PROVE  Outcome
<1>. DEFINE near == Near(session, FALSE)
            next(r) == IF r.lookup = "none" THEN PostIdentity(r) ELSE Step(r)
<1>1. session \in near /\ UNCHANGED minor
  BY NearSelf DEF Base, Discover
<1>2. \A y \in Type : [session EXCEPT !.type = y] \in near
  BY <1>1, NearUpdate
<1>3. \A s \in near : Searches(s) \subseteq near
  BY NearSearches
<1>4. PICK s \in near, r \in near : Say(At(r, next(r)))
  BY <1>1, <1>2, <1>3 DEF Discover
<1>5. next(r) \in Stage \cup {"save_new_traveler_lead"}
  <2>1. PostIdentity(r) \in Stage
    BY PostIdentityIsStage
  <2>. QED BY <2>1, StepIsStage
<1>. HIDE DEF next
<1>. QED BY <1>1, <1>4, <1>5, NearAt, NearSaid

LEMMA TripOutcome ==
  ASSUME Base(session), NEW m,
         Reselect(m) \/ Details(m) \/ NameTrip(m) \/ AskNumber(m) \/ Browse(m)
  PROVE  Outcome
<1>. DEFINE near == Near(session, FALSE)
            a == Attentive(session)
<1>1. session \in near /\ a \in near
  BY NearSelf, NearAttentive DEF Base
<1>2. UNCHANGED minor
  BY DEF Reselect, Details, NameTrip, AskNumber, Browse
<1>. HIDE DEF a
<1>3. \A s \in near, t \in Trip : Select(s, t) \in near
  BY NearSelect
<1>4. /\ "public_trip_details" \in Stage /\ "trip_selection_required" \in Stage
      /\ "identity_required" \in Stage
  BY DEF Stage, Collecting
<1>5. CASE Reselect(m)
  <2>1. PICK t \in Trip : Prompt(Select(a, t))
    BY <1>5 DEF Reselect, a
  <2>. QED BY <1>1, <1>2, <1>3, <2>1, NearPrompt
<1>6. CASE Details(m)
  <2>1. PICK s \in near :
          Say(At(s, IF Step(s) \in Collecting THEN Step(s) ELSE "public_trip_details"))
    BY <1>1, <1>3, <1>6 DEF Details, a
  <2>2. (IF Step(s) \in Collecting THEN Step(s) ELSE "public_trip_details")
          \in Stage \cup {"save_new_traveler_lead"}
    BY DEF Stage
  <2>. QED BY <1>2, <2>1, <2>2, NearAt, NearSaid
<1>7. CASE NameTrip(m)
  <2>1. \/ \E t \in Trip :
             Say([Select([a EXCEPT !.results = {t}], t) EXCEPT !.stage = "public_trip_details"])
        \/ \E t, u \in Trip :
             Say([a EXCEPT !.results = {t, u}, !.stage = "trip_selection_required"])
        \/ Say([a EXCEPT !.stage = "trip_selection_required"])
    BY <1>7 DEF NameTrip, a
  <2>2. ASSUME NEW t \in Trip
        PROVE  [Select([a EXCEPT !.results = {t}], t) EXCEPT !.stage = "public_trip_details"]
                 \in near
    <3>1. [a EXCEPT !.results = {t}] \in near
      BY ZenonT(40), <1>1, NearUpdate
    <3>. QED BY <1>3, <1>4, <3>1, NearUpdate
  <2>3. ASSUME NEW t \in Trip, NEW u \in Trip
        PROVE  [a EXCEPT !.results = {t, u}, !.stage = "trip_selection_required"] \in near
    <3>1. {t, u} \in (SUBSET Trip) \cup {None}
      OBVIOUS
    <3>. QED BY <1>1, <1>4, <3>1, NearUpdate
  <2>4. [a EXCEPT !.stage = "trip_selection_required"] \in near
    BY <1>1, <1>4, NearUpdate
  <2>. QED BY <1>2, <2>1, <2>2, <2>3, <2>4, NearSaid
<1>8. CASE AskNumber(m)
  <2>1. Say(At(a, "identity_required"))
    BY <1>8 DEF AskNumber, a
  <2>. QED BY <1>1, <1>2, <1>4, <2>1, NearAt, NearSaid
<1>9. CASE Browse(m)
  <2>1. PICK r \in near : Say([r EXCEPT !.reselect = TRUE])
    BY <1>1, <1>9, NearDefaults, NearSearches DEF Browse
  <2>. QED BY <1>2, <2>1, NearUpdate, NearSaid
<1>. QED BY <1>5, <1>6, <1>7, <1>8, <1>9

\* The traveler is saved for a number that was looked up and not found.
LEMMA SaveOutcome ==
  ASSUME NEW o, Base(o), NEW s \in Near(o, TRUE), SaveTraveler(s)
  PROVE  Outcome
<1>. DEFINE near == Near(o, FALSE)
<1>1. UNCHANGED minor /\ Step(s) = "save_new_traveler_lead" /\ s \in near
  BY NearTypes DEF SaveTraveler
<1>2. s.lookup = "not_found"
  <2>1. PostIdentity(s) # "save_new_traveler_lead"
    <3>1. "save_new_traveler_lead" \notin Stage
      BY DEF Stage, Collecting, HandoffStep
    <3>. QED BY <3>1, PostIdentityIsStage
  <2>. QED BY <1>1, <2>1 DEF Step, NewTraveler
<1>3. TravelerSaved(s) \in near
  <2>1. [s EXCEPT !.lookup = "found"] \in near
    BY <1>1, <1>2 DEF Near, Lost, SessionState
  <2>. QED BY <2>1, NearUpdate DEF TravelerSaved
<1>4. "traveler_not_found" \in Stage
  BY DEF Stage, Collecting
<1>5. [TravelerSaved(s) EXCEPT !.stage = "traveler_not_found"] \in near
  BY <1>3, <1>4, NearUpdate
<1>6. LeadSaved(s) \subseteq near
  <2>1. [TravelerSaved(s) EXCEPT !.booking = FALSE, !.handoff = FALSE] \in near
    BY <1>3, NearUpdate
  <2>. QED BY <1>3, <2>1 DEF LeadSaved
<1>7. \A r \in near : Consent(r) \subseteq near
  BY NearConsent
<1>8. \/ Say(At(s, Step(s)))
      \/ Say([TravelerSaved(s) EXCEPT !.stage = "traveler_not_found"])
      \/ \E c \in near : Prompt(c)
  BY <1>3, <1>6, <1>7 DEF SaveTraveler
<1>9. At(s, Step(s)) \in near
  BY <1>1, StepIsStage, NearAt
<1>. QED BY <1>1, <1>5, <1>8, <1>9, NearSaid, NearPrompt

\* A private request is only made where none is on file, nor a booking.
LEMMA RequestOutcome ==
  ASSUME NEW o, Base(o), NEW s \in Near(o, TRUE), ~s.requested, RequestPrivateTrip(s)
  PROVE  Outcome
<1>1. UNCHANGED minor /\ Step(s) = "private_request_ready" /\ s \in Near(o, FALSE)
  BY NearTypes DEF RequestPrivateTrip
<1>2. CASE Say(At(s, Step(s)))
  BY <1>1, <1>2, StepIsStage, NearAt, NearSaid
<1>3. CASE ~Say(At(s, Step(s)))
  <2>1. /\ session' \in {Requested(s), [Requested(s) EXCEPT !.handoff = TRUE,
                                                            !.completed = TRUE]}
        /\ visible' = FALSE /\ written' = written + 1
    BY <1>3 DEF RequestPrivateTrip
  <2>2. s.private
    <3>1. NewTravelerStep(s) # "private_request_ready" /\ TripStep(s) # "private_request_ready"
          /\ BookingStep(s) # "private_request_ready"
      BY DEF NewTravelerStep, TripStep, BookingStep
    <3>. QED BY <1>1, <3>1 DEF Step, PostIdentity
  <2>3. ~s.booked /\ ~s.request /\ written = 0 /\ (Lost(s) => Lost(o))
    BY <1>1, <2>2 DEF Base, Fine, Count, Near
  <2>. DEFINE r == Requested(s)
  <2>4. /\ r \in SessionState /\ ~r.booked /\ r.request /\ r.handed /\ ~r.requested
        /\ r.stage = "private_request_escalated" /\ (Lost(r) => Lost(s))
    <3>1. "private_request_escalated" \in Stage
      BY DEF Stage
    <3>2. s \in SessionState
      BY <1>1 DEF Near
    <3>3. r \in SessionState
      BY <3>1, <3>2, Update, StateTypes DEF Requested
    <3>4. /\ r.booked = s.booked /\ r.request /\ r.handed /\ r.requested = s.requested
          /\ r.stage = "private_request_escalated" /\ r.lookup = s.lookup
          /\ r.phone = s.phone /\ r.guardian = s.guardian
      BY <3>2 DEF Requested, SessionState
    <3>. HIDE DEF r
    <3>. QED BY <2>3, <3>3, <3>4 DEF Lost
  <2>. HIDE DEF r
  <2>5. LET q == [r EXCEPT !.handoff = TRUE, !.completed = TRUE] IN
        /\ q \in SessionState /\ ~q.booked /\ q.request /\ q.handed /\ ~q.requested
        /\ q.stage = "private_request_escalated" /\ (Lost(q) => Lost(s))
    <3>. DEFINE q == [r EXCEPT !.handoff = TRUE, !.completed = TRUE]
    <3>1. q \in SessionState
      BY <2>4, Update, StateTypes
    <3>2. /\ q.booked = r.booked /\ q.request = r.request /\ q.handed = r.handed
          /\ q.requested = r.requested /\ q.stage = r.stage /\ q.lookup = r.lookup
          /\ q.phone = r.phone /\ q.guardian = r.guardian
      BY <2>4 DEF SessionState
    <3>. HIDE DEF q
    <3>3. /\ q \in SessionState /\ ~q.booked /\ q.request /\ q.handed /\ ~q.requested
          /\ q.stage = "private_request_escalated" /\ (Lost(q) => Lost(s))
      BY <2>4, <3>1, <3>2 DEF Lost
    <3>. QED BY <3>3 DEF q
  <2>6. /\ ~session'.booked /\ session'.request /\ session'.handed /\ ~session'.requested
        /\ session'.stage = "private_request_escalated" /\ (Lost(session)' => Lost(s))
    <3>1. session' = r \/ session' = [r EXCEPT !.handoff = TRUE, !.completed = TRUE]
      BY <2>1 DEF r
    <3>. QED BY <2>4, <2>5, <3>1 DEF Lost
  <2>7. Fine(session)'
    BY <1>1, <2>3, <2>6 DEF Base, Fine
  <2>8. Count(session, written)' /\ FiledIsKept' /\ ~Drafted
    BY <2>1, <2>3, <2>6 DEF Count, FiledIsKept, Drafted
  <2>. QED BY <2>7, <2>8 DEF Outcome, RecordInv
<1>. QED BY <1>2, <1>3

\* What is ready to be written was identified, and a minor has a guardian.
LEMMA ReadyIsIdentified ==
  ASSUME NEW s \in SessionState, Step(s) = "booking_ready"
  PROVE  /\ s.lookup \in {"found", "not_found"}
         /\ s.lookup = "found" /\ minor => s.guardian # "none"
<1>1. s.lookup \in {"found", "not_found"}
  <2>1. s.lookup # "duplicate" /\ s.lookup # "restricted" /\ s.lookup # "none"
    <3>1. s.lookup = "duplicate" => Step(s) = "duplicate_traveler_detected"
      BY DEF Step, NewTraveler
    <3>2. s.lookup = "restricted" => Step(s) = "human_handoff_required"
      BY DEF Step, NewTraveler
    <3>3. s.lookup = "none" => Step(s) = "identity_required"
      BY DEF Step, NewTraveler
    <3>. QED BY <3>1, <3>2, <3>3
  <2>2. s.lookup \in {"none", "found", "not_found", "restricted", "duplicate"}
    BY DEF SessionState
  <2>. QED BY <2>1, <2>2
<1>2. s.lookup = "found" /\ minor => s.guardian # "none"
  <2>1. s.lookup = "found" => PostIdentity(s) = "booking_ready"
    BY DEF Step, NewTraveler
  <2>. QED BY <2>1 DEF PostIdentity, IsMinor
<1>. QED BY <1>1, <1>2

LEMMA DraftOutcome ==
  ASSUME NEW o, Base(o), NEW s \in Near(o, TRUE), Step(s) = "booking_ready", WriteDraft(s)
  PROVE  Outcome
<1>1. /\ UNCHANGED << crm, minor >> /\ visible' = FALSE
      /\ s \in SessionState /\ ~s.private /\ ~s.booked
  BY NearTypes, ReadyHasTrip DEF WriteDraft, OnFile
<1>. DEFINE told(c) == [c EXCEPT !.completed = TRUE, !.booking = TRUE, !.requested = FALSE,
                                 !.stage = "post_booking_support"]
            done(c) == [told(c) EXCEPT !.booked = TRUE, !.handoff = FALSE, !.handed = FALSE]
<1>2. PICK c \in Consent(s) :
        /\ ~ConsentMissing(c)
        /\ \/ crm = "active" /\ session' = done(c) /\ written' = written + 1
           \/ session' = told(c) /\ UNCHANGED written
  BY DEF WriteDraft
<1>3. c \in Near(o, TRUE) /\ c \in SessionState
  BY <1>2, NearConsent, NearTypes
<1>4. told(c) \in Near(o, FALSE) /\ told(c).guardian = c.guardian
  <2>1. "post_booking_support" \in Stage
    BY DEF Stage
  <2>2. told(c) \in Near(o, TRUE)
    BY <1>3, <2>1, NearUpdate
  <2>. QED BY <1>3, <2>2, NearTypes DEF SessionState
<1>. DEFINE t == told(c)
<1>5. CASE session' = t /\ UNCHANGED written
  BY <1>1, <1>4, <1>5, NearOutcome
<1>6. CASE crm = "active" /\ session' = done(c) /\ written' = written + 1
  <2>. HIDE DEF told
  <2>1. /\ session'.booked /\ session'.private = t.private /\ session'.request = t.request
        /\ session'.guardian = t.guardian /\ (Lost(session)' => Lost(t))
    BY <1>4, <1>6 DEF Near, Lost, SessionState
  <2>2. t.private = s.private /\ ~t.request /\ (Lost(t) => Lost(o))
    BY <1>4 DEF Base, Near
  <2>3. written = 0
    BY <1>1 DEF Base, Count, Near
  <2>4. Fine(session)' /\ Count(session, written)' /\ FiledIsKept'
    BY <1>1, <1>6, <2>1, <2>2, <2>3 DEF Base, Fine, Count, FiledIsKept
  <2>5. ASSUME minor PROVE session'.guardian = "saved"
    <3>1. s.guardian # "none"
      <4>1. CASE s.phone
        <5>1. s.lookup \in {"found", "restricted"}
          BY <1>6, <4>1 DEF Near, Looked
        <5>. QED BY <1>1, <2>5, <5>1, ReadyIsIdentified
      <4>2. CASE ~s.phone
        <5>1. s.lookup # "none"
          BY <1>1, ReadyIsIdentified
        <5>2. ~Lost(s)
          BY <2>5 DEF Base, Fine, Near
        <5>. QED BY <4>2, <5>1, <5>2 DEF Lost
      <4>. QED BY <4>1, <4>2
    <3>2. c.guardian # "none"
      <4>1. [s EXCEPT !.guardian = "saved"].guardian = "saved"
        BY <1>1 DEF SessionState
      <4>. QED BY <1>2, <3>1, <4>1 DEF Consent, ConsentSent
    <3>3. c.guardian \in {"none", "given", "saved"} /\ c.guardian # "given"
      BY <1>2, <1>3, NearFields DEF ConsentMissing
    <3>. QED BY <1>4, <2>1, <3>2, <3>3
  <2>. QED BY <2>4, <2>5 DEF Outcome, RecordInv
<1>. QED BY <1>2, <1>5, <1>6

LEMMA WriteOutcome ==
  ASSUME NEW o, Base(o), NEW s \in Near(o, TRUE), Step(s) = "booking_ready", Write(s)
  PROVE  Outcome
<1>. DEFINE near == Near(o, FALSE)
<1>1. s \in near /\ s \in SessionState /\ Consent(s) \subseteq near
  BY NearTypes, NearConsent
<1>2. "booking_ready" \in Stage /\ "identity_required" \in Stage
      /\ "booking_confirmation_required" \in Stage
  BY DEF Stage, Collecting
<1>3. CASE LeaveToModel(s)
  BY <1>1, <1>3, StepIsStage, NearAt, NearSaid DEF LeaveToModel
<1>4. CASE MissTraveler(s)
  <2>. DEFINE r == [s EXCEPT !.lookup = "not_found", !.phone = FALSE,
                             !.stage = "identity_required"]
  <2>1. /\ r.guardian = s.guardian /\ r.booked = s.booked
        /\ r.request = s.request /\ r.private = s.private
    BY <1>1, <1>2 DEF SessionState
  <2>2. session' = r /\ UNCHANGED << minor, written >>
    BY <1>4 DEF MissTraveler, Say
  <2>. HIDE DEF r
  <2>3. s.lookup = "found"
    BY <1>4 DEF MissTraveler, Gone
  <2>4. minor => s.guardian # "none"
    BY <1>1, <2>3, ReadyIsIdentified
  <2>5. Fine(session)'
    BY <2>1, <2>2, <2>4 DEF Base, Fine, Near, Lost
  <2>6. Count(session, written)' /\ FiledIsKept' /\ ~Drafted
    BY <2>1, <2>2 DEF Base, Count, FiledIsKept, Drafted, Near
  <2>. QED BY <2>5, <2>6 DEF Outcome, RecordInv
<1>5. CASE AwaitConsent(s)
  <2>1. PICK c \in near : Say(At(c, "booking_ready"))
    BY <1>1, <1>5 DEF AwaitConsent
  <2>2. UNCHANGED minor
    BY <1>5 DEF AwaitConsent
  <2>. QED BY <1>2, <2>1, <2>2, NearAt, NearSaid
<1>6. CASE WriteDraft(s)
  BY <1>6, DraftOutcome
<1>7. CASE FailDraft(s)
  <2>1. PICK c \in near :
          Say([c EXCEPT !.confirmed = FALSE, !.requested = TRUE,
                        !.stage = "booking_confirmation_required"])
    BY <1>1, <1>7 DEF FailDraft
  <2>2. [c EXCEPT !.confirmed = FALSE, !.requested = TRUE,
                  !.stage = "booking_confirmation_required"] \in near
    BY <1>2, <2>1, NearUpdate
  <2>3. UNCHANGED minor
    BY <1>7 DEF FailDraft
  <2>. QED BY <2>1, <2>2, <2>3, NearSaid
<1>. QED BY <1>3, <1>4, <1>5, <1>6, <1>7 DEF Write

LEMMA AdvanceOutcome ==
  ASSUME session \in SessionState, NEW m, Base(From(m)), Free(session, m), Advance(m)
  PROVE  Outcome
<1>. DEFINE o == From(m)
            near == Near(o, FALSE)
<1>1. PICK s \in Reached(m) :
        \/ Collect(s) \/ SendToReview(s) \/ RequestPrivateTrip(s) \/ SaveTraveler(s)
        \/ Step(s) = "booking_ready" /\ (AskToConfirm(s) \/ Write(s))
  BY DEF Advance
<1>2. s \in Near(o, TRUE) /\ s \in near
  BY NearReached, NearTypes
<1>3. ~s.requested
  BY ReachedUnasked DEF State
<1>. HIDE DEF o
<1>4. Base(o)
  BY DEF o
<1>5. At(s, Step(s)) \in near
  BY <1>2, StepIsStage, NearAt
<1>6. CASE Collect(s)
  BY <1>4, <1>5, <1>6, NearSaid DEF Collect
<1>7. CASE SendToReview(s)
  <2>1. \A h \in HandedOff(s, Step(s)) \cup {At(s, Step(s))} : h \in near
    BY <1>2, <1>5, <1>7, HandoffIsStage, NearHandedOff DEF SendToReview
  <2>. QED BY <1>4, <1>7, <2>1, NearSaid DEF SendToReview
<1>8. CASE AskToConfirm(s)
  BY <1>2, <1>4, <1>8, NearAsked DEF AskToConfirm
<1>. QED BY <1>1, <1>2, <1>3, <1>4, <1>6, <1>7, <1>8, RequestOutcome, SaveOutcome, WriteOutcome

LEMMA NextOutcome == TypeOK /\ RecordInv /\ [Next]_vars => Outcome
<1>. SUFFICES ASSUME TypeOK, RecordInv, [Next]_vars PROVE Outcome
  OBVIOUS
<1>1. ASSUME UNCHANGED << session, minor, visible, written >> PROVE Outcome
  BY <1>1 DEF Outcome, RecordInv, Fine, Lost, Count, FiledIsKept, Drafted
<1>2. ASSUME NEW m, Turn(m) PROVE Outcome
  <2>1. CASE StartNewBooking(m) \/ Support(m)
    BY <2>1, NewBookingOutcome, SupportOutcome
  <2>2. CASE session.request /\ Acknowledge(m) /\ session' = session
    <3>1. UNCHANGED << minor, written >> /\ visible' = FALSE
      BY <2>2 DEF Acknowledge, Say
    <3>. QED BY <2>2, <3>1 DEF Outcome, RecordInv, Fine, Lost, Count, FiledIsKept, Drafted
  <2>3. CASE ~session.request
    <3>1. Base(session)
      BY <2>3 DEF Base, TypeOK, RecordInv
    <3>2. CASE Revise(m) \/ CannotUpload(m) \/ AnswerSummary(m)
      BY <3>1, <3>2, ReviseOutcome, SummaryOutcome
    <3>3. CASE Free(session, m)
      <4>1. Base(From(m)) /\ session \in SessionState /\ (m = "startOver" => ~session.booked)
        BY <2>3, <3>3, FromIsBase
      <4>2. CASE StartOver(m) \/ Cancel(m) \/ ChangeFlight(m) \/ GoBack(m)
        BY <3>1, <4>1, <4>2, NavigationOutcome
      <4>3. CASE Acknowledge(m) \/ AskForPerson(m) \/ Discover(m)
        BY <3>1, <4>3, PersonOutcome, DiscoverOutcome
      <4>4. CASE Reselect(m) \/ Details(m) \/ NameTrip(m) \/ AskNumber(m) \/ Browse(m)
        BY <3>1, <4>4, TripOutcome
      <4>5. CASE Advance(m)
        BY <3>3, <4>1, <4>5, AdvanceOutcome
      <4>. QED BY <1>2, <2>1, <3>2, <4>2, <4>3, <4>4, <4>5 DEF Turn
    <3>. QED BY <1>2, <2>1, <3>2, <3>3 DEF Turn
  <2>. QED BY <1>2, <2>1, <2>2, <2>3, FiledTakesAll
<1>3. CASE UploadPassport
  <2>1. ~session.request /\ session \in SessionState
    BY <1>3 DEF UploadPassport, RecordInv, FiledIsKept, TypeOK
  <2>2. Base(session) /\ session \in Near(session, FALSE)
    BY <2>1, NearSelf DEF Base, RecordInv
  <2>3. [session EXCEPT !.passport = TRUE] \in Near(session, FALSE)
    BY <2>2, NearUpdate
  <2>. QED BY <1>3, <2>2, <2>3, NearOutcome DEF UploadPassport
<1>. QED BY <1>1, <1>2, <1>3 DEF Next, DeleteTraveler, CreateTraveler, vars

LEMMA RecordInvariance == Spec => []RecordInv
<1>1. Init => RecordInv
  BY DEF Init, Start, RecordInv, Fine, Lost, Count, FiledIsKept
<1>2. TypeOK /\ RecordInv /\ [Next]_vars => RecordInv'
  BY NextOutcome DEF Outcome
<1>. QED BY <1>1, <1>2, TypeCorrect, PTL DEF Spec

\* One draft or private request until the customer asks for another booking,
\* for any trips, offers and messages (_has_completed_booking_context).
THEOREM WrittenOnce == Spec => []OneRecordPerRequest
<1>1. RecordInv => OneRecordPerRequest
  BY DEF RecordInv, Count, OneRecordPerRequest
<1>. QED BY <1>1, RecordInvariance, PTL

\* The agent knows of the person who has an open private request, although no
\* handoff may be on file, and whatever the customer says meanwhile
\* (_execute_private_trip_request).
THEOREM RequestsAreHandedOver == Spec => []PrivateRequestsAreHandedOver
<1>1. RecordInv => PrivateRequestsAreHandedOver
  BY DEF RecordInv, FiledIsKept, PrivateRequestsAreHandedOver
<1>. QED BY <1>1, RecordInvariance, PTL

\* No draft for a minor before the consent of a guardian is on file, although
\* the traveler may be deleted and entered again, and the number asked for once
\* more, between the question and the write (_persist_guardian_consent).
THEOREM MinorsAreGuarded == Spec => MinorsHaveConsent
<1>1. TypeOK /\ RecordInv /\ [Next]_vars =>
        [Drafted /\ minor => session'.guardian = "saved"]_vars
  BY NextOutcome DEF Outcome
<1>. QED BY <1>1, TypeCorrect, RecordInvariance, PTL DEF Spec, MinorsHaveConsent
-----------------------------------------------------------------------------
(* What the customer was shown: the trip of the last summary stays the     *)
(* trip of the session as long as a confirmation of it is asked for or     *)
(* counts, whichever handler takes the messages in between.                *)

Open(s) == s.requested \/ s.confirmed \/ s.stage = "booking_confirmation_required"

Answerable == Open(session) \/ visible

ShownInv == Answerable => session.trip = shown /\ shown # None

\* The sessions that hold the question to the trip that was shown, and do not
\* themselves put the question if k.
Held(k) ==
  {s \in SessionState : /\ Open(s) => s.trip = shown /\ shown # None
                        /\ s.booked => session.booked
                        /\ k => s.stage # "booking_confirmation_required"}

Kept == ShownInv' /\ (Drafted => session'.trip = shown)

LEMMA HeldUpdate ==
  ASSUME NEW k \in BOOLEAN, NEW s \in Held(k)
  PROVE  /\ \A x \in Stage \ {"booking_confirmation_required"} : [s EXCEPT !.stage = x] \in Held(k)
         /\ \A x \in {"none", "found", "not_found", "restricted", "duplicate"} : [s EXCEPT !.lookup = x] \in Held(k)
         /\ \A x \in BOOLEAN : [s EXCEPT !.known = x] \in Held(k)
         /\ \A x \in BOOLEAN : [s EXCEPT !.phone = x] \in Held(k)
         /\ \A x \in BOOLEAN : [s EXCEPT !.profile = x] \in Held(k)
         /\ \A x \in {"none", "given", "saved"} : [s EXCEPT !.guardian = x] \in Held(k)
         /\ \A x \in Type \cup {None} : [s EXCEPT !.type = x] \in Held(k)
         /\ \A x \in (SUBSET Trip) \cup {None} : [s EXCEPT !.results = x] \in Held(k)
         /\ \A x \in Party \cup {None} : [s EXCEPT !.party = x] \in Held(k)
         /\ \A x \in {"Chosen", "NotApplicable", None} : [s EXCEPT !.flight = x] \in Held(k)
         /\ \A x \in BOOLEAN : [s EXCEPT !.passport = x] \in Held(k)
         /\ \A x \in BOOLEAN : [s EXCEPT !.currency = x] \in Held(k)
         /\ [s EXCEPT !.requested = FALSE] \in Held(k)
         /\ [s EXCEPT !.confirmed = FALSE] \in Held(k)
         /\ \A x \in BOOLEAN : [s EXCEPT !.completed = x] \in Held(k)
         /\ \A x \in BOOLEAN : [s EXCEPT !.booking = x] \in Held(k)
         /\ \A x \in BOOLEAN : [s EXCEPT !.handoff = x] \in Held(k)
         /\ \A x \in BOOLEAN : [s EXCEPT !.handed = x] \in Held(k)
         /\ \A x \in BOOLEAN : [s EXCEPT !.private = x] \in Held(k)
         /\ \A x \in BOOLEAN : [s EXCEPT !.reselect = x] \in Held(k)
         /\ \A x \in BOOLEAN : [s EXCEPT !.wish = x] \in Held(k)
         /\ \A x \in BOOLEAN : [s EXCEPT !.request = x] \in Held(k)
         /\ [s EXCEPT !.booked = FALSE] \in Held(k)
<1>1. \A x \in Stage \ {"booking_confirmation_required"} : [s EXCEPT !.stage = x] \in Held(k)
  BY DEF Held, Open, SessionState
<1>2. \A x \in {"none", "found", "not_found", "restricted", "duplicate"} : [s EXCEPT !.lookup = x] \in Held(k)
  BY DEF Held, Open, SessionState
<1>3. \A x \in BOOLEAN : [s EXCEPT !.known = x] \in Held(k)
  BY DEF Held, Open, SessionState
<1>4. \A x \in BOOLEAN : [s EXCEPT !.phone = x] \in Held(k)
  BY DEF Held, Open, SessionState
<1>5. \A x \in BOOLEAN : [s EXCEPT !.profile = x] \in Held(k)
  BY DEF Held, Open, SessionState
<1>6. \A x \in {"none", "given", "saved"} : [s EXCEPT !.guardian = x] \in Held(k)
  BY DEF Held, Open, SessionState
<1>7. \A x \in Type \cup {None} : [s EXCEPT !.type = x] \in Held(k)
  BY DEF Held, Open, SessionState
<1>8. \A x \in (SUBSET Trip) \cup {None} : [s EXCEPT !.results = x] \in Held(k)
  BY DEF Held, Open, SessionState
<1>9. \A x \in Party \cup {None} : [s EXCEPT !.party = x] \in Held(k)
  BY DEF Held, Open, SessionState
<1>10. \A x \in {"Chosen", "NotApplicable", None} : [s EXCEPT !.flight = x] \in Held(k)
  BY DEF Held, Open, SessionState
<1>11. \A x \in BOOLEAN : [s EXCEPT !.passport = x] \in Held(k)
  BY DEF Held, Open, SessionState
<1>12. \A x \in BOOLEAN : [s EXCEPT !.currency = x] \in Held(k)
  BY DEF Held, Open, SessionState
<1>13. [s EXCEPT !.requested = FALSE] \in Held(k)
  <2>1. [s EXCEPT !.requested = FALSE] \in SessionState
    BY DEF Held, SessionState
  <2>2. /\ Open(s) => s.trip = shown /\ shown # None
        /\ s.booked => session.booked
        /\ k => s.stage # "booking_confirmation_required"
    BY DEF Held
  <2>3. s \in SessionState
    BY DEF Held
  <2>. DEFINE t == [s EXCEPT !.requested = FALSE]
  <2>4. /\ Open(t) => Open(s)
        /\ t.trip = s.trip /\ t.stage = s.stage
        /\ t.booked => s.booked
    BY <2>3 DEF Open, SessionState
  <2>. QED BY <2>1, <2>2, <2>4 DEF Held
<1>14. [s EXCEPT !.confirmed = FALSE] \in Held(k)
  <2>1. [s EXCEPT !.confirmed = FALSE] \in SessionState
    BY DEF Held, SessionState
  <2>2. /\ Open(s) => s.trip = shown /\ shown # None
        /\ s.booked => session.booked
        /\ k => s.stage # "booking_confirmation_required"
    BY DEF Held
  <2>3. s \in SessionState
    BY DEF Held
  <2>. DEFINE t == [s EXCEPT !.confirmed = FALSE]
  <2>4. /\ Open(t) => Open(s)
        /\ t.trip = s.trip /\ t.stage = s.stage
        /\ t.booked => s.booked
    BY <2>3 DEF Open, SessionState
  <2>. QED BY <2>1, <2>2, <2>4 DEF Held
<1>15. \A x \in BOOLEAN : [s EXCEPT !.completed = x] \in Held(k)
  BY DEF Held, Open, SessionState
<1>16. \A x \in BOOLEAN : [s EXCEPT !.booking = x] \in Held(k)
  BY DEF Held, Open, SessionState
<1>17. \A x \in BOOLEAN : [s EXCEPT !.handoff = x] \in Held(k)
  BY DEF Held, Open, SessionState
<1>18. \A x \in BOOLEAN : [s EXCEPT !.handed = x] \in Held(k)
  BY DEF Held, Open, SessionState
<1>19. \A x \in BOOLEAN : [s EXCEPT !.private = x] \in Held(k)
  BY DEF Held, Open, SessionState
<1>20. \A x \in BOOLEAN : [s EXCEPT !.reselect = x] \in Held(k)
  BY DEF Held, Open, SessionState
<1>21. \A x \in BOOLEAN : [s EXCEPT !.wish = x] \in Held(k)
  BY DEF Held, Open, SessionState
<1>22. \A x \in BOOLEAN : [s EXCEPT !.request = x] \in Held(k)
  BY DEF Held, Open, SessionState
<1>23. [s EXCEPT !.booked = FALSE] \in Held(k)
  <2>1. [s EXCEPT !.booked = FALSE] \in SessionState
    BY DEF Held, SessionState
  <2>2. /\ Open(s) => s.trip = shown /\ shown # None
        /\ s.booked => session.booked
        /\ k => s.stage # "booking_confirmation_required"
    BY DEF Held
  <2>3. s \in SessionState
    BY DEF Held
  <2>. DEFINE t == [s EXCEPT !.booked = FALSE]
  <2>4. /\ Open(t) => Open(s)
        /\ t.trip = s.trip /\ t.stage = s.stage
        /\ t.booked => s.booked
    BY <2>3 DEF Open, SessionState
  <2>. QED BY <2>1, <2>2, <2>4 DEF Held
<1>. QED BY <1>1, <1>2, <1>3, <1>4, <1>5, <1>6, <1>7, <1>8, <1>9, <1>10, <1>11, <1>12, <1>13, <1>14, <1>15, <1>16, <1>17, <1>18, <1>19, <1>20, <1>21, <1>22, <1>23

LEMMA HeldTypes ==
  ASSUME NEW k \in BOOLEAN
  PROVE  Held(k) \subseteq SessionState /\ Held(k) \subseteq Held(FALSE)
BY DEF Held

LEMMA HeldSession ==
  ASSUME TypeOK, ShownInv
  PROVE  /\ session \in Held(FALSE)
         /\ ~Awaited(session) => session \in Held(TRUE)
BY DEF TypeOK, ShownInv, Answerable, Held, Open, Awaited

\* Only the trip that was shown can be replaced under the question by itself.
LEMMA HeldTrip ==
  ASSUME NEW s \in Held(TRUE), NEW x \in Trip \cup {None},
         s.trip \in {None, x} \/ (~s.requested /\ ~s.confirmed)
  PROVE  [s EXCEPT !.trip = x] \in Held(TRUE)
<1>. DEFINE r == [s EXCEPT !.trip = x]
<1>1. s \in SessionState
  BY HeldTypes
<1>2. r \in SessionState
  BY <1>1, Update, StateTypes
<1>3. /\ r.trip = x /\ r.requested = s.requested /\ r.confirmed = s.confirmed
      /\ r.stage = s.stage /\ r.booked = s.booked
  BY <1>1 DEF SessionState
<1>. HIDE DEF r
<1>4. r \in Held(TRUE)
  BY <1>2, <1>3 DEF Held, Open
<1>. QED BY <1>4 DEF r

LEMMA HeldNotAsked ==
  ASSUME NEW k \in BOOLEAN, NEW s \in Held(k)
  PROVE  /\ NotAsked(s) \in Held(k)
         /\ ~NotAsked(s).requested /\ ~NotAsked(s).confirmed
<1>1. NotAsked(s) \in Held(k)
  BY HeldUpdate DEF NotAsked
<1>2. s \in SessionState
  BY HeldTypes
<1>. QED BY <1>1, <1>2 DEF NotAsked, SessionState

LEMMA HeldClear ==
  ASSUME NEW k \in BOOLEAN, NEW s \in Held(k)
  PROVE  /\ ClearDependent(s) \in Held(k)
         /\ ~ClearDependent(s).requested /\ ~ClearDependent(s).confirmed
<1>1. ClearDependent(s) \in Held(k)
  BY HeldNotAsked, HeldUpdate DEF ClearDependent
<1>2. s \in SessionState
  BY HeldTypes
<1>. QED BY <1>1, <1>2 DEF ClearDependent, NotAsked, SessionState

LEMMA HeldSelect ==
  ASSUME NEW s \in Held(TRUE), NEW t \in Trip
  PROVE  Select(s, t) \in Held(TRUE)
<1>. DEFINE fresh == IF s.trip \in {None, t} THEN s ELSE ClearDependent(s)
            moved == [fresh EXCEPT !.trip = t]
            typed == [moved EXCEPT !.type = TypeOf[t]]
<1>1. fresh \in Held(TRUE) /\ (fresh.trip \in {None, t} \/ (~fresh.requested /\ ~fresh.confirmed))
  BY HeldClear
<1>2. TypeOf[t] \in Type
  BY TripAssumption DEF Type
<1>. HIDE DEF fresh
<1>3. moved \in Held(TRUE)
  BY <1>1, HeldTrip
<1>. HIDE DEF moved
<1>4. typed \in Held(TRUE)
  BY <1>2, <1>3, HeldUpdate
<1>. HIDE DEF typed
<1>5. typed.flight \in {"Chosen", "NotApplicable", None}
  BY <1>4 DEF Held, SessionState
<1>6. [typed EXCEPT !.flight = IF TypeOf[t] = "local" THEN "NotApplicable" ELSE typed.flight]
        \in Held(TRUE)
  BY <1>4, <1>5, HeldUpdate
<1>. QED BY <1>6 DEF Select, fresh, moved, typed

LEMMA HeldDefaults ==
  ASSUME NEW k \in BOOLEAN, NEW s \in Held(k)
  PROVE  Defaults(s) \in Held(k)
BY HeldUpdate DEF Defaults

LEMMA HeldChangeType ==
  ASSUME NEW s \in Held(TRUE), NEW y \in Type
  PROVE  ChangeType(s, y) \in Held(TRUE)
<1>. DEFINE d == ClearDependent(s)
            e == [d EXCEPT !.type = y]
            f == [e EXCEPT !.trip = None]
            c == [f EXCEPT !.results = None]
<1>1. d \in Held(TRUE) /\ ~d.requested /\ ~d.confirmed
  BY HeldClear
<1>. HIDE DEF d
<1>2. e \in Held(TRUE) /\ ~e.requested /\ ~e.confirmed
  <2>1. d \in SessionState
    BY <1>1, HeldTypes
  <2>2. e \in Held(TRUE)
    BY <1>1, HeldUpdate
  <2>. QED BY <1>1, <2>1, <2>2 DEF SessionState
<1>. HIDE DEF e
<1>3. f \in Held(TRUE)
  BY <1>2, HeldTrip
<1>. HIDE DEF f
<1>4. c \in Held(TRUE)
  BY <1>3, HeldUpdate
<1>. HIDE DEF c
<1>. DEFINE w == IF s.private THEN FALSE ELSE c.wish
<1>5. w \in BOOLEAN
  BY <1>4 DEF Held, SessionState
<1>. HIDE DEF w
<1>6. [c EXCEPT !.wish = w] \in Held(TRUE)
  BY <1>4, <1>5, HeldUpdate
<1>. QED BY <1>6 DEF ChangeType, c, d, e, f, w

LEMMA HeldHandedOff ==
  ASSUME NEW k \in BOOLEAN, NEW s \in Held(k),
         NEW stage \in Stage \ {"booking_confirmation_required"},
         NEW h \in HandedOff(s, stage)
  PROVE  h \in Held(k)
<1>1. NewCase(s) \in Held(k)
  BY HeldUpdate DEF NewCase
<1>2. OpenCase(s) \in Held(k)
  <2>. DEFINE b == s.handoff /\ s.booking
  <2>1. b \in BOOLEAN
    OBVIOUS
  <2>. HIDE DEF b
  <2>2. [s EXCEPT !.handed = TRUE, !.handoff = TRUE, !.booking = b] \in Held(k)
    BY <2>1, HeldUpdate
  <2>. QED BY <2>2 DEF OpenCase, b
<1>3. PICK g \in {NewCase(s), OpenCase(s)} : h = [g EXCEPT !.stage = stage]
  BY DEF HandedOff
<1>4. g \in Held(k)
  BY <1>1, <1>2
<1>. QED BY <1>3, <1>4, HeldUpdate

\* No step of the policy is the question itself.
LEMMA StepAsksNothing ==
  ASSUME NEW s
  PROVE  /\ Step(s) # "booking_confirmation_required"
         /\ PostIdentity(s) # "booking_confirmation_required"
<1>1. PostIdentity(s) # "booking_confirmation_required"
  <2>1. /\ PrivateStep(s) # "booking_confirmation_required"
        /\ TripStep(s) # "booking_confirmation_required"
    BY DEF PrivateStep, TripStep
  <2>2. BookingStep(s) # "booking_confirmation_required"
    BY DEF BookingStep
  <2>. QED BY <2>1, <2>2 DEF PostIdentity
<1>2. NewTravelerStep(s) # "booking_confirmation_required"
  BY DEF NewTravelerStep
<1>. QED BY <1>1, <1>2 DEF Step

LEMMA HeldAt ==
  ASSUME NEW k \in BOOLEAN, NEW s \in Held(k),
         NEW step \in Stage \cup {"save_new_traveler_lead"},
         step # "booking_confirmation_required"
  PROVE  At(s, step) \in Held(k)
<1>. DEFINE g == IF step = "save_new_traveler_lead" THEN "traveler_not_found" ELSE step
<1>1. g \in Stage \ {"booking_confirmation_required"}
  BY DEF Stage, Collecting
<1>2. [s EXCEPT !.stage = g] \in Held(k)
  <2>. HIDE DEF g
  <2>. QED BY <1>1, HeldUpdate
<1>. QED BY <1>2 DEF At

LEMMA HeldAtStep ==
  ASSUME NEW k \in BOOLEAN, NEW s \in Held(k)
  PROVE  At(s, Step(s)) \in Held(k)
BY StepIsStage, StepAsksNothing, HeldAt

LEMMA HeldLookUp ==
  ASSUME NEW k \in BOOLEAN, NEW s \in Held(k)
  PROVE  LookUp(s) \in Held(k)
BY HeldUpdate DEF LookUp, Identified

LEMMA HeldConsent ==
  ASSUME NEW k \in BOOLEAN, NEW s \in Held(k)
  PROVE  Consent(s) \subseteq Held(k)
<1>1. [s EXCEPT !.guardian = "saved"] \in Held(k)
  BY HeldUpdate
<1>. QED BY <1>1 DEF Consent, ConsentSent

LEMMA HeldSearches ==
  ASSUME NEW k \in BOOLEAN, NEW s \in Held(k)
  PROVE  Searches(s) \subseteq Held(k)
<1>1. \A r \in Available(TypeKnown(s)) : r \in (SUBSET Trip) \cup {None}
  BY DEF Available
<1>2. \A r \in Available(TypeKnown(s)) : [s EXCEPT !.results = r] \in Held(k)
  BY <1>1, HeldUpdate
<1>. QED BY <1>2 DEF Searches

\* A "yes" counts for the trip that was shown.
LEMMA HeldHeard ==
  ASSUME TypeOK, ShownInv, NEW m, Free(session, m)
  PROVE  Heard(session, m) \in Held(TRUE)
<1>1. CASE Awaited(session)
  <2>1. session \in SessionState /\ session.trip = shown /\ shown # None /\ m = "yes"
    BY <1>1 DEF TypeOK, ShownInv, Answerable, Open, Awaited, Free
  <2>. DEFINE r == [session EXCEPT !.confirmed = TRUE, !.requested = FALSE,
                                   !.stage = "booking_ready"]
  <2>2. r \in SessionState
    <3>. DEFINE a == [session EXCEPT !.confirmed = TRUE]
                b == [a EXCEPT !.requested = FALSE]
    <3>1. a \in SessionState
      BY <2>1, Update, StateTypes
    <3>. HIDE DEF a
    <3>2. b \in SessionState
      BY <3>1, Update, StateTypes
    <3>. HIDE DEF b
    <3>3. "booking_ready" \in Stage
      BY DEF Stage
    <3>4. [b EXCEPT !.stage = "booking_ready"] \in SessionState
      BY <3>2, <3>3, Update, StateTypes
    <3>. QED BY <3>4 DEF a, b
  <2>3. r.trip = session.trip /\ r.booked = session.booked /\ r.stage = "booking_ready"
    BY <2>1 DEF SessionState
  <2>. HIDE DEF r
  <2>4. r \in Held(TRUE)
    BY <2>1, <2>2, <2>3 DEF Held
  <2>. QED BY <1>1, <2>1, <2>4 DEF Heard, r
<1>2. CASE ~Awaited(session)
  BY <1>2, HeldSession, HeldNotAsked DEF Heard
<1>. QED BY <1>1, <1>2

LEMMA HeldAnswers ==
  ASSUME NEW k \in BOOLEAN, NEW s \in Held(k)
  PROVE  Answers(s) \subseteq Held(k)
<1>1. \A y \in Type : [s EXCEPT !.type = y] \in Held(k)
  BY HeldUpdate
<1>2. TypeGiven(s) \subseteq Held(k)
  BY <1>1 DEF TypeGiven
<1>3. \A p \in Party : [s EXCEPT !.party = p] \in Held(k)
  BY HeldUpdate
<1>4. RoomsGiven(s) \subseteq Held(k)
  BY <1>3 DEF RoomsGiven
<1>5. [s EXCEPT !.guardian = "given"] \in Held(k)
  BY HeldUpdate
<1>6. GuardianGiven(s) \subseteq Held(k)
  BY <1>5, HeldConsent DEF GuardianGiven
<1>7. ProfileGiven(s) \in Held(k) /\ FlightGiven(s) \in Held(k)
      /\ CurrencyGiven(s) \in Held(k)
  BY HeldUpdate DEF ProfileGiven, FlightGiven, CurrencyGiven
<1>8. WishGiven(s) \in Held(k)
  BY HeldUpdate DEF WishGiven
<1>. QED BY <1>2, <1>4, <1>6, <1>7, <1>8 DEF Answers

LEMMA HeldPicks ==
  ASSUME NEW s \in Held(TRUE), NEW m
  PROVE  Picks(s, m) \subseteq Held(TRUE)
<1>1. s.results \notin {None, {}} => s.results \subseteq Trip
  BY DEF Held, SessionState
<1>2. \A t \in Trip : Select(s, t) \in Held(TRUE)
  BY HeldSelect
<1>. QED BY <1>1, <1>2 DEF Picks

LEMMA HeldFound ==
  ASSUME NEW s \in Held(TRUE), NEW m
  PROVE  Found(s, m) \subseteq Held(TRUE)
<1>1. \A r \in SUBSET Trip : [s EXCEPT !.results = r] \in Held(TRUE)
  BY HeldUpdate
<1>2. ASSUME NEW t \in Trip PROVE Select([s EXCEPT !.results = {t}], t) \in Held(TRUE)
  BY <1>1, HeldSelect
<1>. QED BY <1>1, <1>2 DEF Found

LEMMA HeldAttentive ==
  ASSUME NEW k \in BOOLEAN, NEW s \in Held(k)
  PROVE  Attentive(s) \in Held(k)
BY HeldUpdate DEF Attentive

LEMMA HeldSays ==
  ASSUME NEW s \in Held(TRUE), NEW m
  PROVE  Says(s, m) \subseteq Held(TRUE)
<1>1. RoomsSaid(s) \subseteq Held(TRUE)
  <2>1. \A r \in Held(TRUE), p \in Party : [r EXCEPT !.party = p] \in Held(TRUE)
    BY HeldUpdate
  <2>2. \A r \in Held(TRUE) : RoomsGiven(r) \subseteq Held(TRUE)
    BY <2>1 DEF RoomsGiven
  <2>3. [NotAsked(s) EXCEPT !.party = None] \in Held(TRUE)
    BY HeldNotAsked, HeldUpdate
  <2>. QED BY <2>2, <2>3, HeldNotAsked DEF RoomsSaid, RoomsAdded
<1>2. {ChangeType(s, y) : y \in Type} \subseteq Held(TRUE)
  <2>1. \A y \in Type : ChangeType(s, y) \in Held(TRUE)
    BY HeldChangeType
  <2>. QED BY <2>1
<1>3. FlightSaid(s) \subseteq Held(TRUE)
  <2>1. FlightGiven(s) \in Held(TRUE)
    BY HeldUpdate DEF FlightGiven
  <2>2. [NotAsked(FlightGiven(s)) EXCEPT !.passport = FALSE] \in Held(TRUE)
    BY <2>1, HeldNotAsked, HeldUpdate
  <2>. QED BY <2>1, <2>2 DEF FlightSaid
<1>4. Switches(s) \subseteq Held(TRUE)
  <2>1. \A t \in Trip : Select(s, t) \in Held(TRUE)
    BY HeldSelect
  <2>. QED BY <2>1 DEF Switches
<1>5. [s EXCEPT !.phone = TRUE] \in Held(TRUE) /\ [s EXCEPT !.private = TRUE] \in Held(TRUE)
  BY HeldUpdate
<1>6. Answers(s) \subseteq Held(TRUE) /\ \A n : Picks(s, n) \subseteq Held(TRUE)
  BY HeldAnswers, HeldPicks
<1>. QED BY <1>1, <1>2, <1>3, <1>4, <1>5, <1>6 DEF Says

LEMMA HeldReached ==
  ASSUME TypeOK, ShownInv, NEW m, Free(session, m), NEW r \in Reached(m)
  PROVE  r \in Held(TRUE)
<1>. DEFINE heard  == Says(Attentive(Heard(session, m)), m)
            said   == UNION {Found(LookUp(Defaults(s)), m) : s \in heard}
            search == {s \in said : Step(s) = "trip_search_ready"}
<1>1. heard \subseteq Held(TRUE)
  BY HeldHeard, HeldAttentive, HeldSays
<1>. HIDE DEF heard
<1>2. \A s \in Held(TRUE) : Found(LookUp(Defaults(s)), m) \subseteq Held(TRUE)
  <2>1. \A s \in Held(TRUE) : LookUp(Defaults(s)) \in Held(TRUE)
    BY HeldDefaults, HeldLookUp
  <2>. QED BY <2>1, HeldFound
<1>3. said \subseteq Held(TRUE)
  BY <1>1, <1>2
<1>. HIDE DEF said
<1>4. \A s \in search : Searches(s) \subseteq Held(TRUE)
  BY <1>3, HeldSearches
<1>5. r \in said \/ \E s \in search : r \in Searches(s)
  BY DEF Reached, heard, said
<1>. QED BY <1>3, <1>4, <1>5

-----------------------------------------------------------------------------
(* What the handlers show.                                                 *)

LEMMA HeldSaid ==
  ASSUME NEW k \in BOOLEAN, NEW s \in Held(k), Say(s)
  PROVE  Kept
BY DEF Say, Held, Kept, ShownInv, Answerable, Open, Drafted

LEMMA HeldSummarised ==
  ASSUME NEW k \in BOOLEAN, NEW s \in Held(k), s.trip # None, Summarise(s)
  PROVE  Kept
BY DEF Summarise, Held, Kept, ShownInv, Answerable, Open, Drafted

LEMMA HeldAsked ==
  ASSUME NEW k \in BOOLEAN, NEW s \in Held(k), s.trip # None, Ask(s)
  PROVE  Kept
<1>. DEFINE r == [s EXCEPT !.requested = TRUE, !.confirmed = FALSE,
                           !.stage = "booking_confirmation_required"]
<1>1. s \in SessionState
  BY HeldTypes
<1>2. r.trip = s.trip /\ r.booked = s.booked
  BY <1>1 DEF SessionState
<1>3. Summarise(r)
  BY DEF Ask
<1>. HIDE DEF r
<1>. QED BY <1>2, <1>3 DEF Summarise, Held, Kept, ShownInv, Answerable, Open, Drafted

LEMMA HeldPrompt ==
  ASSUME NEW k \in BOOLEAN, NEW s \in Held(k), Prompt(s)
  PROVE  Kept
<1>1. PICK r \in Held(k) : IF Step(r) = "booking_ready" THEN Summarise(At(r, Step(r)))
                                                       ELSE Say(At(r, Step(r)))
  BY HeldSearches DEF Prompt
<1>2. At(r, Step(r)) \in Held(k)
  BY HeldAtStep
<1>3. CASE Step(r) = "booking_ready"
  <2>1. At(r, Step(r)).trip = r.trip
    BY HeldTypes DEF At, SessionState
  <2>2. r.trip # None
    BY <1>3, ReadyHasTrip
  <2>3. Summarise(At(r, Step(r)))
    BY <1>1, <1>3
  <2>. QED BY <1>2, <2>1, <2>2, <2>3, HeldSummarised
<1>4. CASE Step(r) # "booking_ready"
  BY <1>1, <1>2, <1>4, HeldSaid
<1>. QED BY <1>3, <1>4

LEMMA HandoffAsksNothing ==
  /\ HandoffStep \subseteq Stage \ {"booking_confirmation_required"}
  /\ "human_handoff_required" \in Stage \ {"booking_confirmation_required"}
BY DEF HandoffStep, Stage

LEMMA NewBookingIsKept ==
  ASSUME TypeOK, NEW m, StartNewBooking(m)
  PROVE  Kept
<1>1. session \in SessionState /\ session' = NewBooking(session) /\ ~visible'
  BY DEF TypeOK, StartNewBooking
<1>2. NotAsked(session) \in SessionState /\ ~NotAsked(session).requested
      /\ ~NotAsked(session).confirmed
  <2>1. NotAsked(session) \in SessionState
    BY <1>1, NotAskedKeeps, StateTypes
  <2>. QED BY <1>1, <2>1 DEF NotAsked, SessionState
<1>3. /\ ~session'.requested /\ ~session'.confirmed /\ ~session'.booked
      /\ session'.stage = "new_booking_intent"
  <2>. DEFINE n == NotAsked(session)
  <2>1. n \in SessionState /\ ~n.requested /\ ~n.confirmed
    BY <1>2
  <2>2. session' = [n EXCEPT !.booked = FALSE, !.completed = FALSE, !.booking = FALSE,
                      !.private = FALSE, !.request = FALSE, !.type = None,
                      !.trip = None, !.party = None, !.flight = None,
                      !.currency = FALSE, !.stage = "new_booking_intent"]
    BY <1>1 DEF NewBooking
  <2>. HIDE DEF n
  <2>. QED BY <2>1, <2>2 DEF SessionState
<1>. QED BY <1>1, <1>3 DEF Kept, ShownInv, Answerable, Open, Drafted

LEMMA SupportIsKept ==
  ASSUME TypeOK, ShownInv, NEW m, Support(m)
  PROVE  Kept
<1>1. session \in Held(FALSE)
  BY HeldSession
<1>2. "post_booking_support" \in Stage \ {"booking_confirmation_required"}
  BY DEF Stage
<1>3. [session EXCEPT !.stage = "post_booking_support", !.completed = TRUE] \in Held(FALSE)
  BY <1>1, <1>2, HeldUpdate
<1>. QED BY <1>1, <1>3, HeldSaid DEF Support

LEMMA ReviseIsKept ==
  ASSUME TypeOK, ShownInv, NEW m, Revise(m)
  PROVE  Kept
<1>. DEFINE n == NotAsked(session)
<1>1. n \in Held(FALSE)
  BY HeldSession, HeldNotAsked
<1>2. PICK r \in Revisions(session) :
        LET s == Defaults(r) IN
        \/ Step(s) \in HandoffStep /\ \E h \in HandedOff(s, Step(s)) : Say(h)
        \/ Step(s) = "booking_ready" /\ Ask(s)
        \/ Step(s) # "booking_ready" /\ Say(At(s, Step(s)))
  BY DEF Revise
<1>3. r \in Held(FALSE)
  <2>1. r \in {[n EXCEPT !.party = p] : p \in Party \cup {None}}
              \cup {[n EXCEPT !.flight = "Chosen", !.passport = FALSE], n}
    BY <1>2 DEF Revisions, n
  <2>. HIDE DEF n
  <2>2. \A p \in Party \cup {None} : [n EXCEPT !.party = p] \in Held(FALSE)
    BY <1>1, HeldUpdate
  <2>3. [n EXCEPT !.flight = "Chosen", !.passport = FALSE] \in Held(FALSE)
    BY <1>1, HeldUpdate
  <2>. QED BY <1>1, <2>1, <2>2, <2>3
<1>. DEFINE s == Defaults(r)
<1>4. s \in Held(FALSE)
  BY <1>3, HeldDefaults
<1>5. \/ Step(s) \in HandoffStep /\ \E h \in HandedOff(s, Step(s)) : Say(h)
      \/ (Step(s) = "booking_ready" /\ Ask(s)) \/ Say(At(s, Step(s)))
  BY <1>2
<1>. HIDE DEF s
<1>6. CASE Step(s) \in HandoffStep /\ \E h \in HandedOff(s, Step(s)) : Say(h)
  BY <1>4, <1>6, HandoffAsksNothing, HeldHandedOff, HeldSaid
<1>7. CASE Step(s) = "booking_ready" /\ Ask(s)
  BY <1>4, <1>7, ReadyHasTrip, HeldAsked
<1>8. CASE Say(At(s, Step(s)))
  BY <1>4, <1>8, HeldAtStep, HeldSaid
<1>. QED BY <1>5, <1>6, <1>7, <1>8

\* A summary that is asked about again is still the one that was shown.
LEMMA SummaryIsKept ==
  ASSUME TypeOK, ShownInv, NEW m, CannotUpload(m) \/ AnswerSummary(m)
  PROVE  Kept
<1>. DEFINE n == NotAsked(session)
<1>1. session \in Held(FALSE) /\ n \in Held(FALSE) /\ session \in SessionState
  BY HeldSession, HeldNotAsked, HeldTypes
<1>2. /\ "awaiting_passport_upload" \in Stage \ {"booking_confirmation_required"}
      /\ "waiting" \in Stage \ {"booking_confirmation_required"}
  BY DEF Stage, Collecting
<1>3. CASE CannotUpload(m)
  <2>1. \A h \in HandedOff(n, "human_handoff_required") : h \in Held(FALSE)
    BY <1>1, HandoffAsksNothing, HeldHandedOff
  <2>2. [session EXCEPT !.handed = FALSE, !.stage = "awaiting_passport_upload"] \in Held(FALSE)
    BY <1>1, <1>2, HeldUpdate
  <2>3. \E s \in Held(FALSE) : Say(s)
    BY <1>1, <1>3, <2>1, <2>2 DEF CannotUpload
  <2>. QED BY <2>3, HeldSaid
<1>4. CASE AnswerSummary(m)
  <2>. DEFINE q == [session EXCEPT !.stage = "booking_confirmation_required"]
              w == [n EXCEPT !.stage = "waiting"]
  <2>1. session.trip = shown /\ shown # None
    BY <1>4 DEF AnswerSummary, Awaited, ShownInv, Answerable, Open
  <2>2. q \in Held(FALSE)
    <3>1. "booking_confirmation_required" \in Stage
      BY DEF Stage
    <3>2. q \in SessionState /\ q.trip = session.trip /\ q.booked = session.booked
      <4>1. q \in SessionState
        BY <1>1, <3>1, Update, StateTypes
      <4>. QED BY <1>1, <4>1 DEF SessionState
    <3>. HIDE DEF q
    <3>. QED BY <2>1, <3>2 DEF Held
  <2>3. w \in Held(FALSE)
    <3>. HIDE DEF n
    <3>. QED BY <1>1, <1>2, HeldUpdate
  <2>4. Say(w) \/ Say(q)
    BY <1>4 DEF AnswerSummary
  <2>. QED BY <2>2, <2>3, <2>4, HeldSaid
<1>. QED BY <1>3, <1>4

LEMMA NavigationIsKept ==
  ASSUME TypeOK, ShownInv, NEW m, Free(session, m),
         StartOver(m) \/ Cancel(m) \/ ChangeFlight(m) \/ GoBack(m)
  PROVE  Kept
<1>. DEFINE n == NotAsked(session)
<1>1. session \in Held(TRUE) /\ n \in Held(TRUE)
  <2>1. m # "yes"
    BY DEF StartOver, Cancel, ChangeFlight, GoBack
  <2>. QED BY <2>1, HeldSession, HeldNotAsked DEF Free
<1>2. \A x \in {"trip_type_required", "identity_required", "waiting",
                "flight_option_required", "room_type_required"} :
        x \in Stage \ {"booking_confirmation_required"}
  BY DEF Stage, Collecting
<1>3. CASE StartOver(m)
  <2>. DEFINE g == IF Verified(session) THEN "trip_type_required" ELSE "identity_required"
              d == ClearDependent(session)
              e == [d EXCEPT !.type = None]
              f == [e EXCEPT !.trip = None]
              c == [f EXCEPT !.results = None]
              b == [c EXCEPT !.booked = FALSE]
  <2>1. g \in Stage \ {"booking_confirmation_required"}
    BY <1>2
  <2>2. d \in Held(TRUE) /\ ~d.requested /\ ~d.confirmed
    BY <1>1, HeldClear
  <2>3. Say([b EXCEPT !.stage = g])
    BY <1>3 DEF StartOver
  <2>. HIDE DEF d, g
  <2>4. e \in Held(TRUE) /\ ~e.requested /\ ~e.confirmed
    <3>1. d \in SessionState
      BY <2>2, HeldTypes
    <3>2. e \in Held(TRUE)
      BY <2>2, HeldUpdate
    <3>. QED BY <2>2, <3>1, <3>2 DEF SessionState
  <2>. HIDE DEF e
  <2>5. f \in Held(TRUE)
    BY <2>4, HeldTrip
  <2>. HIDE DEF f
  <2>6. [b EXCEPT !.stage = g] \in Held(TRUE)
    BY <2>1, <2>5, HeldUpdate
  <2>. QED BY <2>3, <2>6, HeldSaid
<1>. HIDE DEF n
<1>4. CASE Cancel(m)
  <2>1. Say([n EXCEPT !.handed = FALSE, !.stage = "waiting"])
    BY <1>4 DEF Cancel, n
  <2>2. [n EXCEPT !.handed = FALSE, !.stage = "waiting"] \in Held(TRUE)
    BY <1>1, <1>2, HeldUpdate
  <2>. QED BY <2>1, <2>2, HeldSaid
<1>5. CASE ChangeFlight(m)
  <2>. DEFINE s == [n EXCEPT !.flight = "Chosen", !.passport = FALSE]
  <2>1. s \in Held(TRUE)
    BY <1>1, HeldUpdate
  <2>2. (Step(s) = "booking_ready" /\ Ask(s)) \/ Say(At(s, Step(s)))
    BY <1>5 DEF ChangeFlight, n
  <2>. HIDE DEF s
  <2>. QED BY <2>1, <2>2, ReadyHasTrip, HeldAtStep, HeldAsked, HeldSaid
<1>6. CASE GoBack(m)
  <2>1. \/ Say([n EXCEPT !.passport = FALSE, !.flight = None,
                         !.stage = "flight_option_required"])
        \/ Say([n EXCEPT !.passport = FALSE, !.stage = "room_type_required"])
        \/ Say([n EXCEPT !.flight = None, !.stage = "room_type_required"])
        \/ Say([n EXCEPT !.party = None])
    BY <1>6 DEF GoBack, n
  <2>2. /\ [n EXCEPT !.passport = FALSE, !.flight = None,
                     !.stage = "flight_option_required"] \in Held(TRUE)
        /\ [n EXCEPT !.passport = FALSE, !.stage = "room_type_required"] \in Held(TRUE)
        /\ [n EXCEPT !.flight = None, !.stage = "room_type_required"] \in Held(TRUE)
        /\ [n EXCEPT !.party = None] \in Held(TRUE)
    BY <1>1, <1>2, HeldUpdate
  <2>. QED BY <2>1, <2>2, HeldSaid
<1>. QED BY <1>3, <1>4, <1>5, <1>6

LEMMA PersonIsKept ==
  ASSUME TypeOK, ShownInv, NEW m, Free(session, m),
         AskForPerson(m) \/ Acknowledge(m) \/ Discover(m)
  PROVE  Kept
<1>1. session \in Held(FALSE)
  BY HeldSession
<1>2. CASE Acknowledge(m)
  BY <1>2, HeldHeard, HeldSaid DEF Acknowledge
<1>3. CASE AskForPerson(m)
  <2>. DEFINE s == IF Gone(session) THEN [session EXCEPT !.lookup = "not_found"]
                   ELSE IF session.known THEN session
                   ELSE IF crm \in {"active", "restricted"} THEN LookUp(session)
                   ELSE session
  <2>1. [session EXCEPT !.lookup = "not_found"] \in Held(FALSE)
    BY <1>1, HeldUpdate
  <2>2. s \in Held(FALSE)
    BY <1>1, <2>1, HeldLookUp
  <2>3. \/ \E h \in HandedOff(s, "human_handoff_required") : Say(h)
        \/ Prompt([s EXCEPT !.handed = FALSE])
    BY <1>3 DEF AskForPerson
  <2>. HIDE DEF s
  <2>4. [s EXCEPT !.handed = FALSE] \in Held(FALSE)
    BY <2>2, HeldUpdate
  <2>. QED BY <2>2, <2>3, <2>4, HandoffAsksNothing, HeldHandedOff, HeldSaid, HeldPrompt
<1>4. CASE Discover(m)
  <2>. DEFINE next(r) == IF r.lookup = "none" THEN PostIdentity(r) ELSE Step(r)
  <2>1. \A y \in Type : [session EXCEPT !.type = y] \in Held(FALSE)
    BY <1>1, HeldUpdate
  <2>2. \A s \in Held(FALSE) : Searches(s) \subseteq Held(FALSE)
    BY HeldSearches
  <2>3. PICK s \in Held(FALSE), r \in Held(FALSE) : Say(At(r, next(r)))
    BY <1>1, <1>4, <2>1, <2>2 DEF Discover
  <2>4. /\ next(r) \in Stage \cup {"save_new_traveler_lead"}
        /\ next(r) # "booking_confirmation_required"
    BY PostIdentityIsStage, StepIsStage, StepAsksNothing
  <2>. HIDE DEF next
  <2>. QED BY <2>3, <2>4, HeldAt, HeldSaid
<1>. QED BY <1>2, <1>3, <1>4

\* Another trip can be named while no question is open.
LEMMA TripIsKept ==
  ASSUME TypeOK, ShownInv, NEW m, Free(session, m),
         Reselect(m) \/ Details(m) \/ NameTrip(m) \/ AskNumber(m) \/ Browse(m)
  PROVE  Kept
<1>. DEFINE a == Attentive(session)
<1>1. session \in Held(TRUE) /\ a \in Held(TRUE)
  <2>1. m # "yes"
    BY DEF Reselect, Details, NameTrip, AskNumber, BooksUnknown, Browse, Browses
  <2>. QED BY <2>1, HeldSession, HeldAttentive DEF Free
<1>. HIDE DEF a
<1>2. \A s \in Held(TRUE), t \in Trip : Select(s, t) \in Held(TRUE)
  BY HeldSelect
<1>3. /\ "public_trip_details" \in Stage \ {"booking_confirmation_required"}
      /\ "trip_selection_required" \in Stage \ {"booking_confirmation_required"}
      /\ "identity_required" \in Stage \ {"booking_confirmation_required"}
  BY DEF Stage, Collecting
<1>4. CASE Reselect(m)
  <2>1. PICK t \in Trip : Prompt(Select(a, t))
    BY <1>4 DEF Reselect, a
  <2>. QED BY <1>1, <1>2, <2>1, HeldPrompt
<1>5. CASE Details(m)
  <2>1. PICK s \in Held(TRUE) :
          Say(At(s, IF Step(s) \in Collecting THEN Step(s) ELSE "public_trip_details"))
    BY <1>1, <1>2, <1>5 DEF Details, a
  <2>. DEFINE g == IF Step(s) \in Collecting THEN Step(s) ELSE "public_trip_details"
  <2>2. g \in Stage \cup {"save_new_traveler_lead"} /\ g # "booking_confirmation_required"
    BY <1>3, StepAsksNothing DEF Stage
  <2>3. Say(At(s, g))
    BY <2>1
  <2>. HIDE DEF g
  <2>. QED BY <2>2, <2>3, HeldAt, HeldSaid
<1>6. CASE NameTrip(m)
  <2>1. \/ \E t \in Trip :
             Say([Select([a EXCEPT !.results = {t}], t) EXCEPT !.stage = "public_trip_details"])
        \/ \E t, u \in Trip :
             Say([a EXCEPT !.results = {t, u}, !.stage = "trip_selection_required"])
        \/ Say([a EXCEPT !.stage = "trip_selection_required"])
    BY <1>6 DEF NameTrip, a
  <2>2. \A r \in SUBSET Trip : [a EXCEPT !.results = r] \in Held(TRUE)
    BY <1>1, HeldUpdate
  <2>3. ASSUME NEW t \in Trip
        PROVE  [Select([a EXCEPT !.results = {t}], t) EXCEPT !.stage = "public_trip_details"]
                 \in Held(TRUE)
    <3>1. Select([a EXCEPT !.results = {t}], t) \in Held(TRUE)
      BY <1>2, <2>2
    <3>. QED BY <1>3, <3>1, HeldUpdate
  <2>4. ASSUME NEW t \in Trip, NEW u \in Trip
        PROVE  [a EXCEPT !.results = {t, u}, !.stage = "trip_selection_required"] \in Held(TRUE)
    <3>1. [a EXCEPT !.results = {t, u}] \in Held(TRUE)
      BY <2>2
    <3>. QED BY <1>3, <3>1, HeldUpdate
  <2>5. [a EXCEPT !.stage = "trip_selection_required"] \in Held(TRUE)
    BY <1>1, <1>3, HeldUpdate
  <2>. QED BY <2>1, <2>3, <2>4, <2>5, HeldSaid
<1>7. CASE AskNumber(m)
  <2>1. Say(At(a, "identity_required"))
    BY <1>7 DEF AskNumber, a
  <2>. QED BY <1>1, <1>3, <2>1, HeldAt, HeldSaid
<1>8. CASE Browse(m)
  <2>1. PICK r \in Held(TRUE) : Say([r EXCEPT !.reselect = TRUE])
    BY <1>1, <1>8, HeldDefaults, HeldSearches DEF Browse
  <2>. QED BY <2>1, HeldUpdate, HeldSaid
<1>. QED BY <1>4, <1>5, <1>6, <1>7, <1>8

LEMMA SaveIsKept ==
  ASSUME NEW s \in Held(TRUE), SaveTraveler(s)
  PROVE  Kept
<1>1. "traveler_not_found" \in Stage \ {"booking_confirmation_required"}
  BY DEF Stage, Collecting
<1>2. TravelerSaved(s) \in Held(TRUE)
  BY HeldUpdate DEF TravelerSaved
<1>3. [TravelerSaved(s) EXCEPT !.stage = "traveler_not_found"] \in Held(TRUE)
  BY <1>1, <1>2, HeldUpdate
<1>4. LeadSaved(s) \subseteq Held(TRUE)
  <2>1. [TravelerSaved(s) EXCEPT !.booking = FALSE, !.handoff = FALSE] \in Held(TRUE)
    BY <1>2, HeldUpdate
  <2>. QED BY <1>2, <2>1 DEF LeadSaved
<1>5. \A r \in Held(TRUE) : Consent(r) \subseteq Held(TRUE)
  BY HeldConsent
<1>6. \/ Say(At(s, Step(s)))
      \/ Say([TravelerSaved(s) EXCEPT !.stage = "traveler_not_found"])
      \/ \E c \in Held(TRUE) : Prompt(c)
  BY <1>2, <1>4, <1>5 DEF SaveTraveler
<1>. QED BY <1>3, <1>6, HeldAtStep, HeldSaid, HeldPrompt

LEMMA RequestIsKept ==
  ASSUME NEW s \in Held(TRUE), RequestPrivateTrip(s)
  PROVE  Kept
<1>1. "private_request_escalated" \in Stage \ {"booking_confirmation_required"}
  BY DEF Stage
<1>2. Requested(s) \in Held(TRUE)
  BY <1>1, HeldUpdate DEF Requested
<1>3. [Requested(s) EXCEPT !.handoff = TRUE, !.completed = TRUE] \in Held(TRUE)
  BY <1>2, HeldUpdate
<1>4. CASE Say(At(s, Step(s)))
  BY <1>4, HeldAtStep, HeldSaid
<1>5. CASE session' \in Held(TRUE) /\ visible' = FALSE /\ UNCHANGED shown
  BY <1>5 DEF Held, Kept, ShownInv, Answerable, Open, Drafted
<1>. QED BY <1>2, <1>3, <1>4, <1>5 DEF RequestPrivateTrip

\* The draft is of the trip the confirmation was given for.
LEMMA WriteIsKept ==
  ASSUME NEW s \in Held(TRUE), Write(s)
  PROVE  Kept
<1>1. s \in SessionState /\ s.trip = shown /\ shown # None
  BY DEF Write, Held, Open
<1>2. ASSUME NEW c \in Consent(s)
      PROVE  c \in Held(TRUE) /\ c \in SessionState /\ c.trip = shown
  <2>1. c \in Held(TRUE)
    BY <1>2, HeldConsent
  <2>2. c = s \/ c = [s EXCEPT !.guardian = "saved"]
    BY <1>2 DEF Consent, ConsentSent
  <2>. QED BY <1>1, <2>1, <2>2, HeldTypes DEF SessionState
<1>3. /\ "booking_ready" \in Stage /\ "booking_ready" # "booking_confirmation_required"
      /\ "identity_required" \in Stage \ {"booking_confirmation_required"}
  BY DEF Stage, Collecting
<1>4. CASE LeaveToModel(s)
  BY <1>4, HeldAtStep, HeldSaid DEF LeaveToModel
<1>5. CASE MissTraveler(s)
  <2>1. [s EXCEPT !.lookup = "not_found", !.phone = FALSE, !.stage = "identity_required"]
          \in Held(TRUE)
    BY <1>3, HeldUpdate
  <2>. QED BY <1>5, <2>1, HeldSaid DEF MissTraveler
<1>6. CASE AwaitConsent(s)
  <2>1. PICK c \in Consent(s) : Say(At(c, "booking_ready"))
    BY <1>6 DEF AwaitConsent
  <2>. QED BY <1>2, <1>3, <2>1, HeldAt, HeldSaid
<1>7. CASE WriteDraft(s)
  <2>1. PICK c \in Consent(s) :
          LET told == [c EXCEPT !.completed = TRUE, !.booking = TRUE, !.requested = FALSE,
                                !.stage = "post_booking_support"]
          IN \/ session' = [told EXCEPT !.booked = TRUE, !.handoff = FALSE, !.handed = FALSE]
             \/ session' = told
    BY <1>7 DEF WriteDraft
  <2>2. session'.trip = c.trip
    BY <1>2, <2>1 DEF SessionState
  <2>3. visible' = FALSE /\ UNCHANGED shown
    BY <1>7 DEF WriteDraft
  <2>. QED BY <1>1, <1>2, <2>2, <2>3 DEF Kept, ShownInv
<1>8. CASE FailDraft(s)
  <2>1. PICK c \in Consent(s) :
          Say([c EXCEPT !.confirmed = FALSE, !.requested = TRUE,
                        !.stage = "booking_confirmation_required"])
    BY <1>8 DEF FailDraft
  <2>2. session'.trip = c.trip
    BY <1>2, <2>1 DEF Say, SessionState
  <2>3. UNCHANGED shown
    BY <2>1 DEF Say
  <2>. QED BY <1>1, <1>2, <2>2, <2>3 DEF Kept, ShownInv
<1>. QED BY <1>4, <1>5, <1>6, <1>7, <1>8 DEF Write

LEMMA AdvanceIsKept ==
  ASSUME TypeOK, ShownInv, NEW m, Free(session, m), Advance(m)
  PROVE  Kept
<1>1. PICK s \in Reached(m) :
        \/ Collect(s) \/ SendToReview(s) \/ RequestPrivateTrip(s) \/ SaveTraveler(s)
        \/ Step(s) = "booking_ready" /\ (AskToConfirm(s) \/ Write(s))
  BY DEF Advance
<1>2. s \in Held(TRUE)
  BY HeldReached
<1>3. CASE Collect(s)
  BY <1>2, <1>3, HeldAtStep, HeldSaid DEF Collect
<1>4. CASE SendToReview(s)
  <2>1. \A h \in HandedOff(s, Step(s)) \cup {At(s, Step(s))} : h \in Held(TRUE)
    BY <1>2, <1>4, HandoffAsksNothing, HeldHandedOff, HeldAtStep DEF SendToReview
  <2>. QED BY <1>4, <2>1, HeldSaid DEF SendToReview
<1>5. CASE Step(s) = "booking_ready" /\ AskToConfirm(s)
  BY <1>2, <1>5, ReadyHasTrip, HeldAsked DEF AskToConfirm
<1>. QED BY <1>1, <1>2, <1>3, <1>4, <1>5, RequestIsKept, SaveIsKept, WriteIsKept

LEMMA NextIsKept == TypeOK /\ ShownInv /\ [Next]_vars => Kept
<1>. SUFFICES ASSUME TypeOK, ShownInv, [Next]_vars PROVE Kept
  OBVIOUS
<1>1. ASSUME UNCHANGED << session, visible, shown >> PROVE Kept
  BY <1>1 DEF Kept, ShownInv, Answerable, Open, Drafted
<1>2. ASSUME NEW m, Turn(m) PROVE Kept
  <2>1. CASE StartNewBooking(m) \/ Support(m)
    BY <2>1, NewBookingIsKept, SupportIsKept
  <2>2. CASE Revise(m) \/ CannotUpload(m) \/ AnswerSummary(m)
    BY <2>2, ReviseIsKept, SummaryIsKept
  <2>3. CASE Free(session, m)
    <3>1. CASE StartOver(m) \/ Cancel(m) \/ ChangeFlight(m) \/ GoBack(m)
      BY <2>3, <3>1, NavigationIsKept
    <3>2. CASE Acknowledge(m) \/ AskForPerson(m) \/ Discover(m)
      BY <2>3, <3>2, PersonIsKept
    <3>3. CASE Reselect(m) \/ Details(m) \/ NameTrip(m) \/ AskNumber(m) \/ Browse(m)
      BY <2>3, <3>3, TripIsKept
    <3>4. CASE Advance(m)
      BY <2>3, <3>4, AdvanceIsKept
    <3>. QED BY <1>2, <2>1, <2>2, <3>1, <3>2, <3>3, <3>4 DEF Turn
  <2>. QED BY <1>2, <2>1, <2>2, <2>3 DEF Turn
<1>3. CASE UploadPassport
  <2>1. [session EXCEPT !.passport = TRUE].trip = session.trip
        /\ [session EXCEPT !.passport = TRUE].requested = session.requested
        /\ [session EXCEPT !.passport = TRUE].confirmed = session.confirmed
        /\ [session EXCEPT !.passport = TRUE].stage = session.stage
        /\ [session EXCEPT !.passport = TRUE].booked = session.booked
    BY DEF TypeOK, SessionState
  <2>. QED BY <1>3, <2>1 DEF UploadPassport, Kept, ShownInv, Answerable, Open, Drafted
<1>. QED BY <1>1, <1>2, <1>3 DEF Next, DeleteTraveler, CreateTraveler, vars

\* A draft is of the trip the customer last saw a summary of, for any trips,
\* offers and messages: between the summary and the draft the confirmation may
\* outlive corrections, failed writes and other wishes, but the trip is only
\* replaced together with the question (_clear_booking_dependent_state).
THEOREM DraftsWereShown == Spec => DraftsAreOfShownTrip
<1>1. Init => ShownInv
  BY DEF Init, Start, ShownInv, Answerable, Open
<1>2. TypeOK /\ ShownInv /\ [Next]_vars => ShownInv'
  BY NextIsKept DEF Kept
<1>3. TypeOK /\ ShownInv /\ [Next]_vars => [Drafted => session'.trip = shown]_vars
  BY NextIsKept DEF Kept
<1>. QED BY <1>1, <1>2, <1>3, TypeCorrect, PTL DEF Spec, DraftsAreOfShownTrip
=============================================================================
