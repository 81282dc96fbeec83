------------------------- MODULE SessionStoreProofs -------------------------
(***************************************************************************)
(* What SessionStore guarantees for any number of requests and sessions:   *)
(* leases that are valid exclude each other whether or not leases lapse,   *)
(* and no answered turn is lost as long as none does.                      *)
(***************************************************************************)
EXTENDS SessionStore, TLAPS

USE NoneAssumption, LapseAssumption

-----------------------------------------------------------------------------
(* Types. *)

\* The sessions and turns the actions work on are there.
LEMMA InTurnHasRow ==
  ASSUME TypeOK, NEW r \in Request, turn[r].at # "new"
  PROVE  /\ turn[r] \in Turn
         /\ turn[r].session \in Session
         /\ row[turn[r].session] \in Row
BY DEF TypeOK

LEMMA TypeInit == Init => TypeOK
BY DEF Init, TypeOK, NewTurn, Turn

\* What a step does to one turn and one row, well-typed, keeps the types.
LEMMA TypedChange ==
  ASSUME TypeOK,
         NEW r \in Request, NEW x \in Turn, NEW s \in Session, NEW y \in Row,
         turn' = [turn EXCEPT ![r] = x] \/ UNCHANGED turn,
         row' = [row EXCEPT ![s] = y] \/ UNCHANGED row,
         x.at # "new", x.session \in Session, row[x.session] # None
  PROVE  TypeOK'
<1>1. row' \in [Session -> Row \cup {None}]
  BY DEF TypeOK
<1>2. turn' \in [Request -> Turn]
  BY DEF TypeOK
<1>3. \A t \in Session : row[t] # None => row'[t] # None
  BY DEF TypeOK
<1>4. ASSUME NEW q \in Request, turn'[q].at # "new"
      PROVE  turn'[q].session \in Session /\ row'[turn'[q].session] # None
  BY <1>3, <1>4 DEF TypeOK
<1>. QED BY <1>1, <1>2, <1>4 DEF TypeOK

\* A step that gives only request r a new turn, on the session it already has.
LEMMA TypedTurn ==
  ASSUME TypeOK, NEW r \in Request, turn[r].at # "new", UNCHANGED row,
         NEW x \in Turn, x.at # "new", x.session = turn[r].session,
         turn' = [turn EXCEPT ![r] = x]
  PROVE  TypeOK'
<1>1. turn[r].session \in Session /\ row[turn[r].session] \in Row
  BY InTurnHasRow
<1>. QED BY <1>1, TypedChange, NoneAssumption

LEMMA TypeStep ==
  ASSUME TypeOK, [Next]_vars
  PROVE  TypeOK'
<1>1. ASSUME NEW s \in Session, CreateSession(s)
      PROVE  TypeOK'
  <2>1. NewRow \in Row
    BY DEF NewRow, Row
  <2>. QED BY <1>1, <2>1 DEF CreateSession, TypeOK
<1>2. ASSUME NEW s \in Session, NEW r \in Request, Arrive(r, s)
      PROVE  TypeOK'
  <2>1. PICK x : x = [turn[r] EXCEPT !.at = "polling", !.session = s]
    OBVIOUS
  <2>2. x \in Turn /\ x.at = "polling" /\ x.session = s
    <3>1. turn[r] \in Turn
      BY DEF TypeOK
    <3>. QED BY <2>1, <3>1 DEF Turn
  <2>3. row[s] \in Row /\ UNCHANGED row /\ turn' = [turn EXCEPT ![r] = x]
    BY <1>2, <2>1 DEF Arrive, TypeOK
  <2>. QED BY <1>2, <2>2, <2>3, TypedChange DEF Arrive
<1>3. ASSUME NEW r \in Request, Acquire(r)
      PROVE  TypeOK'
  <2>1. PICK x : x = [turn[r] EXCEPT !.at = "locked", !.lease = "live"]
    OBVIOUS
  <2>2. PICK y : y = [row[turn[r].session] EXCEPT !.owner = r]
    OBVIOUS
  <2>3. turn[r].at = "polling"
    BY <1>3 DEF Acquire
  <2>4. turn[r] \in Turn /\ turn[r].session \in Session
          /\ row[turn[r].session] \in Row
    BY <2>3, InTurnHasRow
  <2>5. x \in Turn /\ x.at = "locked" /\ x.session = turn[r].session
    BY <2>1, <2>4 DEF Turn, Running
  <2>6. y \in Row
    BY <2>2, <2>4 DEF Row
  <2>7. turn' = [turn EXCEPT ![r] = x]
          /\ row' = [row EXCEPT ![turn[r].session] = y]
    BY <1>3, <2>1, <2>2 DEF Acquire
  <2>. QED BY <2>4, <2>5, <2>6, <2>7, TypedChange, NoneAssumption
<1>4. ASSUME NEW r \in Request, Load(r)
      PROVE  TypeOK'
  <2>1. turn[r].at = "locked"
    BY <1>4 DEF Load
  <2>2. turn[r] \in Turn /\ row[turn[r].session] \in Row
    BY <2>1, InTurnHasRow
  <2>3. PICK x : x = [turn[r] EXCEPT !.at = "loaded",
                                     !.version = row[turn[r].session].version,
                                     !.turns = row[turn[r].session].turns]
    OBVIOUS
  <2>4. x \in Turn /\ x.at = "loaded" /\ x.session = turn[r].session
    BY <2>2, <2>3 DEF Turn, Row, Running
  <2>5. turn' = [turn EXCEPT ![r] = x] /\ UNCHANGED row
    BY <1>4, <2>3 DEF Load
  <2>. QED BY <2>1, <2>4, <2>5, TypedTurn
<1>5. ASSUME NEW r \in Request, Work(r)
      PROVE  TypeOK'
  <2>1. turn[r].at = "loaded"
    BY <1>5 DEF Work
  <2>2. turn[r] \in Turn
    BY DEF TypeOK
  <2>3. PICK x : x = [turn[r] EXCEPT !.at = "worked", !.turns = turn[r].turns \cup {r}]
    OBVIOUS
  <2>4. x \in Turn /\ x.at = "worked" /\ x.session = turn[r].session
    BY <2>2, <2>3 DEF Turn, Running
  <2>5. turn' = [turn EXCEPT ![r] = x] /\ UNCHANGED row
    BY <1>5, <2>3 DEF Work
  <2>. QED BY <2>1, <2>4, <2>5, TypedTurn
<1>6. ASSUME NEW r \in Request, Write(r)
      PROVE  TypeOK'
  <2>1. turn[r].at = "checked" /\ turn' = [turn EXCEPT ![r].at = "saved"]
    BY <1>6 DEF Write, Moves
  <2>2. turn[r] \in Turn /\ turn[r].session \in Session
          /\ row[turn[r].session] \in Row
    BY <2>1, InTurnHasRow
  <2>3. PICK x : x = [turn[r] EXCEPT !.at = "saved"]
    OBVIOUS
  <2>4. PICK y : y = [row[turn[r].session] EXCEPT
                        !.version = turn[r].version + 1, !.turns = turn[r].turns]
    OBVIOUS
  <2>5. x \in Turn /\ x.at = "saved" /\ x.session = turn[r].session
    BY <2>2, <2>3 DEF Turn, Running
  <2>6. y \in Row
    <3>1. turn[r].version + 1 \in Nat /\ turn[r].turns \in SUBSET Request
      BY <2>2 DEF Turn
    <3>. QED BY <2>2, <2>4, <3>1 DEF Row
  <2>7. turn' = [turn EXCEPT ![r] = x]
          /\ row' = [row EXCEPT ![turn[r].session] = y]
    BY <1>6, <2>1, <2>3, <2>4 DEF Write
  <2>. QED BY <2>2, <2>5, <2>6, <2>7, TypedChange, NoneAssumption
<1>7. ASSUME NEW r \in Request, Release(r)
      PROVE  TypeOK'
  <2>1. turn[r].at \in {"saved", "failing"}
    BY <1>7 DEF Release
  <2>2. turn[r] \in Turn /\ turn[r].session \in Session
          /\ row[turn[r].session] \in Row
    BY <2>1, InTurnHasRow
  <2>3. PICK x : x = [turn[r] EXCEPT !.at = Outcome(r), !.lease = "none"]
    OBVIOUS
  <2>4. PICK y : y = [row[turn[r].session] EXCEPT
                        !.owner = IF @ = r THEN None ELSE @]
    OBVIOUS
  <2>5. x \in Turn /\ x.at # "new" /\ x.session = turn[r].session
    BY <2>2, <2>3 DEF Turn, Outcome
  <2>6. y \in Row
    BY <2>2, <2>4 DEF Row
  <2>7. turn' = [turn EXCEPT ![r] = x]
          /\ row' = [row EXCEPT ![turn[r].session] = y]
    BY <1>7, <2>3, <2>4 DEF Release
  <2>. QED BY <2>2, <2>5, <2>6, <2>7, TypedChange, NoneAssumption
<1>8. ASSUME NEW r \in Request, Expire(r)
      PROVE  TypeOK'
  BY <1>8 DEF Expire, TypeOK, Turn
<1>9. ASSUME NEW r \in Request,
             GiveUp(r) \/ WorkFails(r) \/ CheckVersion(r) \/ ReleaseFails(r)
               \/ Crash(r)
      PROVE  TypeOK'
  <2>1. PICK at \in {"busy", "checked", "failing", "done", "failed", "crashed"} :
          turn' = [turn EXCEPT ![r].at = at]
    BY <1>9 DEF GiveUp, WorkFails, CheckVersion, ReleaseFails, Crash, Moves, Outcome
  <2>2. turn[r].at # "new" /\ UNCHANGED row
    BY <1>9 DEF GiveUp, WorkFails, CheckVersion, ReleaseFails, Crash, Moves, Running
  <2>3. turn[r] \in Turn
    BY DEF TypeOK
  <2>4. PICK x : x = [turn[r] EXCEPT !.at = at]
    OBVIOUS
  <2>5. x \in Turn /\ x.at # "new" /\ x.session = turn[r].session
    BY <2>1, <2>3, <2>4 DEF Turn, Running
  <2>. QED BY <2>1, <2>2, <2>4, <2>5, TypedTurn
<1>10. CASE UNCHANGED vars
  BY <1>10 DEF vars, TypeOK
<1>. QED BY <1>1, <1>2, <1>3, <1>4, <1>5, <1>6, <1>7, <1>8, <1>9, <1>10
         DEF Next, Serve

\* The store and the turns keep their types, and a request that is served is
\* served on a session that exists: sessions are never deleted.
THEOREM TypeCorrect == Spec => []TypeOK
<1>1. Init => TypeOK
  BY TypeInit
<1>2. TypeOK /\ [Next]_vars => TypeOK'
  BY TypeStep
<1>. QED BY <1>1, <1>2, PTL DEF Spec

-----------------------------------------------------------------------------
(* Effects: what an action does, field by field. *)

\* Only request r moves, and it stays on its session.
OnlyTurn(r) ==
  /\ \A q \in Request \ {r} : turn'[q] = turn[q]
  /\ turn'[r].session = turn[r].session

\* Only the row of session s changes.
OnlyRow(s) == \A t \in Session \ {s} : row'[t] = row[t]

LEMMA ArriveEffect ==
  ASSUME TypeOK, NEW r \in Request, NEW s \in Session, Arrive(r, s)
  PROVE  /\ \A q \in Request \ {r} : turn'[q] = turn[q]
         /\ turn'[r].at = "polling" /\ UNCHANGED row
BY DEF Arrive, TypeOK, Turn

LEMMA AcquireEffect ==
  ASSUME TypeOK, NEW r \in Request, Acquire(r)
  PROVE  LET s == turn[r].session
         IN /\ OnlyTurn(r) /\ OnlyRow(s)
            /\ s \in Session /\ row[s] \in Row /\ Acquirable(s)
            /\ turn'[r].at = "locked" /\ turn'[r].lease = "live"
            /\ row'[s].owner = r /\ row'[s].turns = row[s].turns
<1>1. turn[r].at = "polling"
  BY DEF Acquire
<1>2. turn[r] \in Turn /\ turn[r].session \in Session
        /\ row[turn[r].session] \in Row
  BY <1>1, InTurnHasRow
<1>3. turn \in [Request -> Turn] /\ row \in [Session -> Row \cup {None}]
  BY DEF TypeOK
<1>4. OnlyTurn(r) /\ turn'[r].at = "locked" /\ turn'[r].lease = "live"
  BY <1>2, <1>3 DEF Acquire, OnlyTurn, Turn
<1>5. /\ OnlyRow(turn[r].session)
      /\ row'[turn[r].session].owner = r
      /\ row'[turn[r].session].turns = row[turn[r].session].turns
  BY <1>2, <1>3 DEF Acquire, OnlyRow, Row
<1>. QED BY <1>2, <1>4, <1>5 DEF Acquire

LEMMA LoadEffect ==
  ASSUME TypeOK, NEW r \in Request, Load(r)
  PROVE  /\ OnlyTurn(r) /\ UNCHANGED row
         /\ turn[r].at = "locked" /\ turn'[r].at = "loaded"
         /\ turn'[r].lease = turn[r].lease
         /\ turn'[r].turns = row[turn[r].session].turns
BY DEF Load, OnlyTurn, TypeOK, Turn

LEMMA WorkEffect ==
  ASSUME TypeOK, NEW r \in Request, Work(r)
  PROVE  /\ OnlyTurn(r) /\ UNCHANGED row
         /\ turn[r].at = "loaded" /\ turn'[r].at = "worked"
         /\ turn'[r].lease = turn[r].lease
         /\ turn'[r].turns = turn[r].turns \cup {r}
BY DEF Work, OnlyTurn, TypeOK, Turn

LEMMA WriteEffect ==
  ASSUME TypeOK, NEW r \in Request, Write(r)
  PROVE  LET s == turn[r].session
         IN /\ OnlyTurn(r) /\ OnlyRow(s)
            /\ s \in Session /\ row[s] \in Row
            /\ turn[r].at = "checked" /\ turn'[r].at = "saved"
            /\ turn'[r].lease = turn[r].lease
            /\ row'[s].owner = row[s].owner /\ row'[s].turns = turn[r].turns
<1>1. turn[r].at = "checked"
  BY DEF Write, Moves
<1>2. turn[r] \in Turn /\ turn[r].session \in Session
        /\ row[turn[r].session] \in Row
  BY <1>1, InTurnHasRow
<1>3. turn \in [Request -> Turn] /\ row \in [Session -> Row \cup {None}]
  BY DEF TypeOK
<1>4. OnlyTurn(r) /\ turn'[r].at = "saved" /\ turn'[r].lease = turn[r].lease
  BY <1>2, <1>3 DEF Write, Moves, OnlyTurn, Turn
<1>5. /\ OnlyRow(turn[r].session)
      /\ row'[turn[r].session].owner = row[turn[r].session].owner
      /\ row'[turn[r].session].turns = turn[r].turns
  BY <1>2, <1>3 DEF Write, OnlyRow, Row
<1>. QED BY <1>1, <1>2, <1>4, <1>5

LEMMA ReleaseEffect ==
  ASSUME TypeOK, NEW r \in Request, Release(r)
  PROVE  LET s == turn[r].session
         IN /\ OnlyTurn(r) /\ OnlyRow(s)
            /\ s \in Session /\ row[s] \in Row
            /\ turn[r].at \in {"saved", "failing"}
            /\ turn'[r].at = Outcome(r)
            /\ row'[s].owner = IF row[s].owner = r THEN None ELSE row[s].owner
            /\ row'[s].turns = row[s].turns
<1>1. turn[r].at \in {"saved", "failing"}
  BY DEF Release
<1>2. turn[r] \in Turn /\ turn[r].session \in Session
        /\ row[turn[r].session] \in Row
  BY <1>1, InTurnHasRow
<1>3. turn \in [Request -> Turn] /\ row \in [Session -> Row \cup {None}]
  BY DEF TypeOK
<1>4. OnlyTurn(r) /\ turn'[r].at = Outcome(r)
  BY <1>2, <1>3 DEF Release, OnlyTurn, Turn
<1>5. /\ OnlyRow(turn[r].session)
      /\ row'[turn[r].session].turns = row[turn[r].session].turns
      /\ row'[turn[r].session].owner = IF row[turn[r].session].owner = r
                                       THEN None
                                       ELSE row[turn[r].session].owner
  BY <1>2, <1>3 DEF Release, OnlyRow, Row
<1>. QED BY <1>1, <1>2, <1>4, <1>5

LEMMA MoveEffect ==
  ASSUME TypeOK, NEW r \in Request,
         GiveUp(r) \/ WorkFails(r) \/ CheckVersion(r) \/ ReleaseFails(r)
           \/ Crash(r)
  PROVE  /\ OnlyTurn(r) /\ UNCHANGED row
         /\ turn'[r].lease = turn[r].lease /\ turn'[r].turns = turn[r].turns
         /\ \/ turn'[r].at \in {"busy", "failing", "failed", "crashed"}
            \/ turn[r].at = "worked" /\ turn'[r].at = "checked"
            \/ turn[r].at = "saved" /\ turn'[r].at = "done"
         /\ turn'[r].at \in Running => turn[r].at \in Running
BY DEF GiveUp, WorkFails, CheckVersion, ReleaseFails, Crash, Moves, Outcome,
       OnlyTurn, TypeOK, Turn, Running

LEMMA ExpireEffect ==
  ASSUME TypeOK, NEW r \in Request, Expire(r)
  PROVE  /\ OnlyTurn(r) /\ UNCHANGED row
         /\ turn'[r].at = turn[r].at /\ turn'[r].turns = turn[r].turns
         /\ turn'[r].lease = "lapsed"
         /\ LeaseCanLapse \/ turn[r].at \notin Running
BY DEF Expire, OnlyTurn, TypeOK, Turn

\* No step deletes a session, or moves a request to another one.
LEMMA StepEffect ==
  ASSUME TypeOK, NEW r \in Request, Serve(r) \/ Expire(r) \/ Crash(r)
  PROVE  /\ \A s \in Session : row[s] # None <=> row'[s] # None
         /\ \A q \in Request : /\ turn'[q].session = turn[q].session
                               /\ turn'[q].at = "new" <=> turn[q].at = "new"
<1>1. ASSUME Acquire(r) \/ Write(r) \/ Release(r)
      PROVE  \A s \in Session : row[s] # None <=> row'[s] # None
  <2>1. turn[r].at # "new"
    BY <1>1 DEF Acquire, Write, Release, Moves
  <2>2. turn[r] \in Turn /\ turn[r].session \in Session
          /\ row[turn[r].session] \in Row
    BY <2>1, InTurnHasRow
  <2>3. turn[r].version + 1 \in Nat /\ turn[r].turns \in SUBSET Request
    BY <2>2 DEF Turn
  <2>4. PICK y \in Row : row' = [row EXCEPT ![turn[r].session] = y]
    <3>1. CASE Acquire(r)
      <4>1. [row[turn[r].session] EXCEPT !.owner = r] \in Row
        BY <2>2 DEF Row
      <4>. QED BY <3>1, <4>1 DEF Acquire
    <3>2. CASE Write(r)
      <4>1. [row[turn[r].session] EXCEPT !.version = turn[r].version + 1,
                                         !.turns = turn[r].turns] \in Row
        BY <2>2, <2>3 DEF Row
      <4>. QED BY <3>2, <4>1 DEF Write
    <3>3. CASE Release(r)
      <4>1. PICK o \in Request \cup {None} :
              row' = [row EXCEPT ![turn[r].session].owner = o]
        BY <2>2, <3>3 DEF Release, Row
      <4>2. [row[turn[r].session] EXCEPT !.owner = o] \in Row
        BY <2>2, <4>1 DEF Row
      <4>. QED BY <4>1, <4>2
    <3>. QED BY <1>1, <3>1, <3>2, <3>3
  <2>. QED BY <2>2, <2>4, NoneAssumption DEF TypeOK
<1>2. ASSUME Load(r) \/ Work(r) \/ GiveUp(r) \/ WorkFails(r) \/ CheckVersion(r)
               \/ ReleaseFails(r) \/ Expire(r) \/ Crash(r)
      PROVE  UNCHANGED row
  BY <1>2, MoveEffect DEF Load, Work, Expire
<1>3. OnlyTurn(r) /\ (turn'[r].at = "new" <=> turn[r].at = "new")
  <2>1. CASE Acquire(r) \/ Load(r) \/ Work(r)
    BY <2>1, AcquireEffect, LoadEffect, WorkEffect DEF Acquire
  <2>2. CASE Write(r) \/ Release(r)
    BY <2>2, WriteEffect, ReleaseEffect DEF Outcome
  <2>3. CASE GiveUp(r) \/ WorkFails(r) \/ CheckVersion(r) \/ ReleaseFails(r)
               \/ Crash(r)
    <3>1. turn[r].at # "new"
      BY <2>3 DEF GiveUp, WorkFails, CheckVersion, ReleaseFails, Crash, Moves, Running
    <3>. QED BY <2>3, <3>1, MoveEffect
  <2>4. CASE Expire(r)
    BY <2>4, ExpireEffect
  <2>. QED BY <2>1, <2>2, <2>3, <2>4 DEF Serve
<1>. QED BY <1>1, <1>2, <1>3 DEF Serve, OnlyTurn

-----------------------------------------------------------------------------
(* The lease excludes. *)

LEMMA LeaseInit == Init => LiveLeaseIsOwner
BY DEF Init, LiveLeaseIsOwner, InTurn, NewTurn, Running

LEMMA LeaseStep ==
  ASSUME TypeOK, TypeOK', LiveLeaseIsOwner, [Next]_vars
  PROVE  LiveLeaseIsOwner'
<1>. SUFFICES ASSUME NEW p \in Request, NEW t \in Session,
                     InTurn(p, t)', turn'[p].lease = "live"
              PROVE  row'[t].owner = p
  BY DEF LiveLeaseIsOwner
<1>. USE DEF LiveLeaseIsOwner, InTurn
<1>a. turn'[p] = turn[p] => row[t].owner = p
  OBVIOUS
<1>1. ASSUME NEW s \in Session, CreateSession(s)
      PROVE  row'[t].owner = p
  <2>1. turn[p].at # "new" /\ turn[p].session = t
    BY <1>1 DEF CreateSession, Running
  <2>2. row[t] # None
    BY <2>1 DEF TypeOK
  <2>. QED BY <1>1, <1>a, <2>2 DEF CreateSession, TypeOK
<1>2. ASSUME NEW s \in Session, NEW r \in Request, Arrive(r, s)
      PROVE  row'[t].owner = p
  BY <1>2, <1>a, ArriveEffect DEF Running
<1>3. ASSUME NEW r \in Request, Acquire(r)
      PROVE  row'[t].owner = p
  <2>1. CASE p = r
    BY <1>3, <2>1, AcquireEffect DEF OnlyTurn
  <2>2. CASE p # r /\ t # turn[r].session
    BY <1>3, <1>a, <2>2, AcquireEffect DEF OnlyTurn, OnlyRow
  <2>3. CASE p # r /\ t = turn[r].session
    <3>1. turn'[p] = turn[p] /\ Acquirable(t)
      BY <1>3, <2>3, AcquireEffect DEF OnlyTurn
    <3>2. row[t].owner = p /\ turn[p].lease = "live"
      BY <1>a, <3>1
    <3>. QED BY <3>1, <3>2, NoneAssumption DEF Acquirable
  <2>. QED BY <2>1, <2>2, <2>3
<1>4. ASSUME NEW r \in Request, Load(r) \/ Work(r)
      PROVE  row'[t].owner = p
  BY <1>4, <1>a, LoadEffect, WorkEffect DEF OnlyTurn, Running
<1>5. ASSUME NEW r \in Request, Write(r)
      PROVE  row'[t].owner = p
  <2>1. row[t].owner = p
    BY <1>5, <1>a, WriteEffect DEF OnlyTurn, Running
  <2>. QED BY <1>5, <2>1, WriteEffect DEF OnlyRow
<1>6. ASSUME NEW r \in Request, Release(r)
      PROVE  row'[t].owner = p
  <2>1. p # r
    BY <1>6, ReleaseEffect DEF Outcome, Running
  <2>2. row[t].owner = p
    BY <1>6, <1>a, <2>1, ReleaseEffect DEF OnlyTurn
  <2>. QED BY <1>6, <2>1, <2>2, ReleaseEffect DEF OnlyRow
<1>7. ASSUME NEW r \in Request,
             GiveUp(r) \/ WorkFails(r) \/ CheckVersion(r) \/ ReleaseFails(r)
               \/ Crash(r)
      PROVE  row'[t].owner = p
  BY <1>7, <1>a, MoveEffect DEF OnlyTurn
<1>8. ASSUME NEW r \in Request, Expire(r)
      PROVE  row'[t].owner = p
  BY <1>8, <1>a, ExpireEffect DEF OnlyTurn
<1>9. CASE UNCHANGED vars
  BY <1>9 DEF vars
<1>. QED BY <1>1, <1>2, <1>3, <1>4, <1>5, <1>6, <1>7, <1>8, <1>9
         DEF Next, Serve

\* The owner the row names is the request whose lease is still valid: a late
\* release, a takeover or a crash never gives the lease of somebody else away.
THEOREM LiveLeaseIsOwnerHolds == Spec => []LiveLeaseIsOwner
<1>1. Init => LiveLeaseIsOwner
  BY LeaseInit
<1>2. TypeOK /\ TypeOK' /\ LiveLeaseIsOwner /\ [Next]_vars => LiveLeaseIsOwner'
  BY LeaseStep
<1>. QED BY <1>1, <1>2, TypeCorrect, PTL DEF Spec

LEMMA OwnerExcludes == LiveLeaseIsOwner => ExclusiveTurns
BY DEF LiveLeaseIsOwner, ExclusiveTurns

\* Two turns on one session never both run under a valid lease.
THEOREM ExclusiveTurnsHolds == Spec => []ExclusiveTurns
BY LiveLeaseIsOwnerHolds, OwnerExcludes, PTL

-----------------------------------------------------------------------------
(* Answered turns are kept, as long as no turn outlives its lease. *)

\* A turn that is running holds a valid lease.
RunningIsLeased ==
  \A r \in Request : turn[r].at \in Running => turn[r].lease = "live"

\* The copy a turn works on has everything its row has.
CopyIsFresh ==
  \A r \in Request :
    turn[r].at \in {"loaded", "worked", "checked"}
      => row[turn[r].session].turns \subseteq turn[r].turns

\* A turn that did its work is in its copy, and then in its row.
WorkIsThere ==
  \A r \in Request :
    /\ turn[r].at \in {"worked", "checked"} => r \in turn[r].turns
    /\ turn[r].at \in {"saved", "done"} => r \in row[turn[r].session].turns

KeptInv ==
  /\ TypeOK
  /\ LiveLeaseIsOwner
  /\ RunningIsLeased
  /\ CopyIsFresh
  /\ WorkIsThere

LEMMA KeptInit == Init => KeptInv
BY TypeInit, LeaseInit
   DEF Init, NewTurn, KeptInv, RunningIsLeased, CopyIsFresh, WorkIsThere, Running

\* The rows of sessions in use only ever gain turns.
RowsGrow ==
  \A t \in Session : row[t] # None => row[t].turns \subseteq row'[t].turns

LEMMA RowsOnlyGrow ==
  ASSUME KeptInv, [Next]_vars
  PROVE  RowsGrow
<1>. USE DEF KeptInv, RowsGrow
<1>1. ASSUME NEW s \in Session, CreateSession(s)
      PROVE  RowsGrow
  BY <1>1 DEF CreateSession, TypeOK
<1>2. ASSUME NEW r \in Request, Acquire(r)
      PROVE  RowsGrow
  BY <1>2, AcquireEffect DEF OnlyRow
<1>3. ASSUME NEW r \in Request, Write(r)
      PROVE  RowsGrow
  BY <1>3, WriteEffect DEF OnlyRow, CopyIsFresh
<1>4. ASSUME NEW r \in Request, Release(r)
      PROVE  RowsGrow
  BY <1>4, ReleaseEffect DEF OnlyRow
<1>5. CASE UNCHANGED row
  BY <1>5
<1>. QED BY <1>1, <1>2, <1>3, <1>4, <1>5, ArriveEffect, LoadEffect, WorkEffect,
            MoveEffect, ExpireEffect
         DEF Next, Serve, vars

LEMMA LeasedStep ==
  ASSUME KeptInv, [Next]_vars, ~LeaseCanLapse
  PROVE  RunningIsLeased'
<1>. SUFFICES ASSUME NEW p \in Request, turn'[p].at \in Running
              PROVE  turn'[p].lease = "live"
  BY DEF RunningIsLeased
<1>. USE DEF KeptInv, RunningIsLeased, OnlyTurn
<1>1. ASSUME NEW s \in Session, NEW r \in Request, Arrive(r, s)
      PROVE  turn'[p].lease = "live"
  BY <1>1, ArriveEffect DEF Running
<1>2. ASSUME NEW r \in Request, Acquire(r)
      PROVE  turn'[p].lease = "live"
  BY <1>2, AcquireEffect
<1>3. ASSUME NEW r \in Request, Load(r) \/ Work(r) \/ Write(r)
      PROVE  turn'[p].lease = "live"
  BY <1>3, LoadEffect, WorkEffect, WriteEffect DEF Running
<1>4. ASSUME NEW r \in Request, Release(r)
      PROVE  turn'[p].lease = "live"
  BY <1>4, ReleaseEffect DEF Outcome, Running
<1>5. ASSUME NEW r \in Request,
             GiveUp(r) \/ WorkFails(r) \/ CheckVersion(r) \/ ReleaseFails(r)
               \/ Crash(r)
      PROVE  turn'[p].lease = "live"
  BY <1>5, MoveEffect
<1>6. ASSUME NEW r \in Request, Expire(r)
      PROVE  turn'[p].lease = "live"
  BY <1>6, ExpireEffect
<1>7. CASE UNCHANGED turn
  BY <1>7
<1>. QED BY <1>1, <1>2, <1>3, <1>4, <1>5, <1>6, <1>7
         DEF Next, Serve, vars, CreateSession

LEMMA FreshStep ==
  ASSUME KeptInv, [Next]_vars
  PROVE  CopyIsFresh'
<1>. SUFFICES ASSUME NEW p \in Request,
                     turn'[p].at \in {"loaded", "worked", "checked"}
              PROVE  row'[turn'[p].session].turns \subseteq turn'[p].turns
  BY DEF CopyIsFresh
<1>. USE DEF KeptInv, CopyIsFresh, OnlyTurn
<1>a. turn'[p] = turn[p] =>
        /\ turn[p].session \in Session /\ row[turn[p].session] # None
        /\ row[turn[p].session].turns \subseteq turn[p].turns
  BY DEF TypeOK
<1>1. ASSUME NEW s \in Session, CreateSession(s)
      PROVE  row'[turn'[p].session].turns \subseteq turn'[p].turns
  BY <1>1, <1>a DEF CreateSession, TypeOK
<1>2. ASSUME NEW s \in Session, NEW r \in Request, Arrive(r, s)
      PROVE  row'[turn'[p].session].turns \subseteq turn'[p].turns
  BY <1>2, <1>a, ArriveEffect
<1>3. ASSUME NEW r \in Request, Acquire(r)
      PROVE  row'[turn'[p].session].turns \subseteq turn'[p].turns
  BY <1>3, <1>a, AcquireEffect DEF OnlyRow
<1>4. ASSUME NEW r \in Request, Load(r) \/ Work(r)
      PROVE  row'[turn'[p].session].turns \subseteq turn'[p].turns
  BY <1>4, <1>a, LoadEffect, WorkEffect
<1>5. ASSUME NEW r \in Request, Write(r)
      PROVE  row'[turn'[p].session].turns \subseteq turn'[p].turns
  <2>1. p # r /\ turn'[p] = turn[p]
    BY <1>5, WriteEffect
  <2>2. turn[p].lease = "live" /\ turn[r].lease = "live"
    BY <1>5, <2>1, WriteEffect DEF RunningIsLeased, Running
  <2>3. turn[p].session # turn[r].session
    BY <1>5, <1>a, <2>1, <2>2, WriteEffect, OwnerExcludes
       DEF ExclusiveTurns, InTurn, Running
  <2>. QED BY <1>5, <1>a, <2>1, <2>3, WriteEffect DEF OnlyRow
<1>6. ASSUME NEW r \in Request, Release(r)
      PROVE  row'[turn'[p].session].turns \subseteq turn'[p].turns
  <2>1. turn'[p] = turn[p]
    BY <1>6, ReleaseEffect DEF Outcome
  <2>. QED BY <1>6, <1>a, <2>1, ReleaseEffect DEF OnlyRow
<1>7. ASSUME NEW r \in Request,
             GiveUp(r) \/ WorkFails(r) \/ CheckVersion(r) \/ ReleaseFails(r)
               \/ Crash(r)
      PROVE  row'[turn'[p].session].turns \subseteq turn'[p].turns
  BY <1>7, <1>a, MoveEffect
<1>8. ASSUME NEW r \in Request, Expire(r)
      PROVE  row'[turn'[p].session].turns \subseteq turn'[p].turns
  BY <1>8, <1>a, ExpireEffect
<1>9. CASE UNCHANGED vars
  BY <1>9, <1>a DEF vars
<1>. QED BY <1>1, <1>2, <1>3, <1>4, <1>5, <1>6, <1>7, <1>8, <1>9
         DEF Next, Serve

LEMMA WorkStep ==
  ASSUME KeptInv, [Next]_vars
  PROVE  WorkIsThere'
<1>. SUFFICES ASSUME NEW p \in Request
              PROVE  /\ turn'[p].at \in {"worked", "checked"}
                          => p \in turn'[p].turns
                     /\ turn'[p].at \in {"saved", "done"}
                          => p \in row'[turn'[p].session].turns
  BY DEF WorkIsThere
<1>. USE DEF KeptInv, WorkIsThere, OnlyTurn
<1>g. RowsGrow
  BY RowsOnlyGrow
<1>a. CASE turn'[p] = turn[p]
  BY <1>a, <1>g DEF RowsGrow, TypeOK
<1>b. ASSUME turn'[p] # turn[p], ~ UNCHANGED turn
      PROVE  /\ turn'[p].at \in {"worked", "checked"} => p \in turn'[p].turns
             /\ turn'[p].at \in {"saved", "done"}
                  => p \in row'[turn'[p].session].turns
  <2>1. ASSUME NEW s \in Session, NEW r \in Request, Arrive(r, s)
        PROVE  turn'[p].at = "polling"
    BY <1>b, <2>1, ArriveEffect
  <2>2. ASSUME NEW r \in Request, Acquire(r) \/ Load(r)
        PROVE  turn'[p].at \in {"locked", "loaded"}
    BY <1>b, <2>2, AcquireEffect, LoadEffect
  <2>3. ASSUME NEW r \in Request, Work(r)
        PROVE  turn'[p].at = "worked" /\ p \in turn'[p].turns
    BY <1>b, <2>3, WorkEffect
  <2>4. ASSUME NEW r \in Request, Write(r)
        PROVE  turn'[p].at = "saved" /\ p \in row'[turn'[p].session].turns
    BY <1>b, <2>4, WriteEffect
  <2>5. ASSUME NEW r \in Request, Release(r)
        PROVE  /\ turn'[p].at \in {"done", "failed"}
               /\ turn'[p].at = "done" => p \in row'[turn'[p].session].turns
    BY <1>b, <2>5, ReleaseEffect DEF Outcome
  <2>6. ASSUME NEW r \in Request,
               GiveUp(r) \/ WorkFails(r) \/ CheckVersion(r) \/ ReleaseFails(r)
                 \/ Crash(r)
        PROVE  /\ turn'[p].at = "checked" => p \in turn'[p].turns
               /\ turn'[p].at = "done" => p \in row'[turn'[p].session].turns
               /\ turn'[p].at \notin {"worked", "saved"}
    BY <1>b, <2>6, MoveEffect
  <2>7. ASSUME NEW r \in Request, Expire(r)
        PROVE  /\ turn'[p].at \in {"worked", "checked"} => p \in turn'[p].turns
               /\ turn'[p].at \in {"saved", "done"}
                    => p \in row'[turn'[p].session].turns
    BY <1>b, <2>7, ExpireEffect
  <2>. QED BY <1>b, <2>1, <2>2, <2>3, <2>4, <2>5, <2>6, <2>7
           DEF Next, Serve, vars, CreateSession
<1>. QED BY <1>a, <1>b

\* When no turn outlives its lease, an answered turn stays in its session: the
\* lease alone guarantees it, the version check is never needed.
THEOREM AnsweredTurnsAreKeptInTime ==
  ~LeaseCanLapse => (Spec => []AnsweredTurnsAreKept)
<1>1. Init => KeptInv
  BY KeptInit
<1>2. KeptInv /\ [Next]_vars /\ ~LeaseCanLapse => KeptInv'
  BY TypeStep, LeaseStep, LeasedStep, FreshStep, WorkStep DEF KeptInv
<1>3. KeptInv => AnsweredTurnsAreKept
  BY DEF KeptInv, WorkIsThere, AnsweredTurnsAreKept
<1>. SUFFICES ASSUME ~LeaseCanLapse PROVE Spec => []AnsweredTurnsAreKept
  OBVIOUS
<1>. QED BY <1>1, <1>2, <1>3, PTL DEF Spec

=============================================================================
