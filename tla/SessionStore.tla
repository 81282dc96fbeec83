---------------------------- MODULE SessionStore ----------------------------
(***************************************************************************)
(* The agent's durable conversations (ai_agent_app/agent/session_store.py) *)
(* and the turn a request runs on one of them                              *)
(* (tool_calling_runtime.py, handle_message_by_id and                      *)
(* apply_passport_attachment_by_id): take the lease of the session, load   *)
(* it, work on the copy, save it under the version that was loaded, give   *)
(* the lease back.                                                         *)
(*                                                                         *)
(* The lease is a row update with an expiry (30 s) that nothing renews; a  *)
(* waiting request polls it for 10 s and then answers "session busy".      *)
(* save() reads the version and writes the row in two statements of one    *)
(* READ COMMITTED transaction, so other requests may commit in between:    *)
(* CheckVersion and Write are two actions.                                 *)
(***************************************************************************)
EXTENDS Naturals, FiniteSets

CONSTANTS
  Request,        \* HTTP requests; each is also the uuid that owns its lease
  Session,        \* session ids
  LeaseCanLapse,  \* whether a turn may last longer than its lease
  None            \* the SQL NULL

ASSUME LapseAssumption == LeaseCanLapse \in BOOLEAN

VARIABLES
  row,   \* ai_agent_sessions: row[s], or None when there is none
  turn   \* turn[r]: where the request is, and what it holds

vars == << row, turn >>

-----------------------------------------------------------------------------

\* A payload is the set of the requests whose turn it contains.
Row == [ version : Nat, turns : SUBSET Request, owner : Request \cup {None} ]

ASSUME NoneAssumption == None \notin Request \cup Session \cup Row

Running == {"locked", "loaded", "worked", "checked", "saved", "failing"}

Turn == [ at      : {"new", "polling", "busy", "done", "failed", "crashed"}
                      \cup Running,
          session : Session \cup {None},
          version : Nat,              \* the version it loaded
          turns   : SUBSET Request,   \* its copy of the payload
          lease   : {"none", "live", "lapsed"} ]

NewTurn == [ at |-> "new", session |-> None, version |-> 0, turns |-> {},
             lease |-> "none" ]

NewRow == [version |-> 1, turns |-> {}, owner |-> None]

Init ==
  /\ row = [s \in Session |-> None]
  /\ turn = [r \in Request |-> NewTurn]

Moves(r, from, to) ==
  /\ turn[r].at = from
  /\ turn' = [turn EXCEPT ![r].at = to]

-----------------------------------------------------------------------------
(* create_session: the row is inserted, its version is 1. *)

CreateSession(s) ==
  /\ row[s] = None
  /\ row' = [row EXCEPT ![s] = NewRow]
  /\ UNCHANGED turn

\* A request names a session that exists.
Arrive(r, s) ==
  /\ row[s] # None
  /\ turn[r].at = "new"
  /\ turn' = [turn EXCEPT ![r] = [@ EXCEPT !.at = "polling", !.session = s]]
  /\ UNCHANGED row

-----------------------------------------------------------------------------
(* session_lock: poll the lease, give up after wait_seconds. *)

\* Mutant of Acquirable: a lease that was never given back is never taken over.
AcquirableWhenReleased(s) == row[s].owner = None

\* The WHERE clause of the update that takes the lease.
Acquirable(s) ==
  row[s].owner # None => turn[row[s].owner].lease = "lapsed"

Acquire(r) ==
  /\ turn[r].at = "polling"
  /\ Acquirable(turn[r].session)
  /\ row' = [row EXCEPT ![turn[r].session].owner = r]
  /\ turn' = [turn EXCEPT ![r] = [@ EXCEPT !.at = "locked", !.lease = "live"]]

GiveUp(r) ==
  /\ turn[r].at = "polling"
  /\ ~Acquirable(turn[r].session)
  /\ Moves(r, "polling", "busy")
  /\ UNCHANGED row

\* locked_until passes.
Expire(r) ==
  /\ turn[r].lease = "live"
  /\ LeaseCanLapse \/ turn[r].at \notin Running
  /\ turn' = [turn EXCEPT ![r].lease = "lapsed"]
  /\ UNCHANGED row

-----------------------------------------------------------------------------
(* The turn. *)

Load(r) ==
  /\ turn[r].at = "locked"
  /\ LET s == turn[r].session
     IN turn' = [turn EXCEPT ![r] = [@ EXCEPT !.at = "loaded",
                                              !.version = row[s].version,
                                              !.turns = row[s].turns]]
  /\ UNCHANGED row

\* handle_message or handle_passport_attachment, on the loaded copy.
Work(r) ==
  /\ turn[r].at = "loaded"
  /\ turn' = [turn EXCEPT ![r] = [@ EXCEPT !.at = "worked",
                                           !.turns = turn[r].turns \cup {r}]]
  /\ UNCHANGED row

WorkFails(r) ==
  /\ Moves(r, "loaded", "failing")
  /\ UNCHANGED row

CheckVersion(r) ==
  /\ turn[r].at = "worked"
  /\ IF row[turn[r].session].version = turn[r].version
     THEN Moves(r, "worked", "checked")
     ELSE Moves(r, "worked", "failing")
  /\ UNCHANGED row

\* The new version is computed from the one that was checked.
Write(r) ==
  /\ Moves(r, "checked", "saved")
  /\ row' = [row EXCEPT ![turn[r].session] =
                [@ EXCEPT !.version = turn[r].version + 1,
                          !.turns = turn[r].turns]]

Outcome(r) == IF turn[r].at = "saved" THEN "done" ELSE "failed"

\* Mutant of Release: clears the lease whoever owns it.
ReleaseAny(r) ==
  /\ turn[r].at \in {"saved", "failing"}
  /\ row' = [row EXCEPT ![turn[r].session].owner = None]
  /\ turn' = [turn EXCEPT ![r] = [@ EXCEPT !.at = Outcome(r), !.lease = "none"]]

\* Gives back its own lease only; a lease taken over is somebody else's.
Release(r) ==
  /\ turn[r].at \in {"saved", "failing"}
  /\ row' = [row EXCEPT ![turn[r].session].owner = IF @ = r THEN None ELSE @]
  /\ turn' = [turn EXCEPT ![r] = [@ EXCEPT !.at = Outcome(r), !.lease = "none"]]

\* The update that releases fails and is only logged.
ReleaseFails(r) ==
  /\ turn[r].at \in {"saved", "failing"}
  /\ turn' = [turn EXCEPT ![r].at = Outcome(r)]
  /\ UNCHANGED row

\* The process serving r dies: an open save is rolled back, the lease stays.
Crash(r) ==
  /\ turn[r].at \in Running \cup {"polling"}
  /\ turn' = [turn EXCEPT ![r].at = "crashed"]
  /\ UNCHANGED row

-----------------------------------------------------------------------------

\* What the request does by itself once it is being served.
Serve(r) ==
  \/ Acquire(r) \/ GiveUp(r)
  \/ Load(r) \/ Work(r) \/ WorkFails(r) \/ CheckVersion(r) \/ Write(r)
  \/ Release(r) \/ ReleaseFails(r)

Next ==
  \/ \E s \in Session : CreateSession(s) \/ \E r \in Request : Arrive(r, s)
  \/ \E r \in Request : Serve(r) \/ Expire(r) \/ Crash(r)

Spec == Init /\ [][Next]_vars

\* What is being served goes on, every call returns or raises, and time passes.
FairSpec == Spec /\ \A r \in Request : WF_vars(Serve(r)) /\ WF_vars(Expire(r))

-----------------------------------------------------------------------------
(* Properties. *)

InTurn(r, s) == turn[r].at \in Running /\ turn[r].session = s

TypeOK ==
  /\ row \in [Session -> Row \cup {None}]
  /\ turn \in [Request -> Turn]
  /\ \A r \in Request :
       turn[r].at # "new" => /\ turn[r].session \in Session
                             /\ row[turn[r].session] # None

\* A request whose lease has not expired is the owner the row names, whatever
\* other requests took over, released late or crashed: releases are by owner.
LiveLeaseIsOwner ==
  \A r \in Request : \A s \in Session :
    InTurn(r, s) /\ turn[r].lease = "live" => row[s].owner = r

\* Two turns on one session never both run under a lease that is still valid.
ExclusiveTurns ==
  \A s \in Session : \A p, q \in Request :
    InTurn(p, s) /\ InTurn(q, s) /\ turn[p].lease = "live"
      /\ turn[q].lease = "live" => p = q

\* A turn that was answered with its saved session stays in that session: no
\* later save overwrites it with a copy that was loaded before it.
AnsweredTurnsAreKept ==
  \A r \in Request :
    turn[r].at = "done" => r \in row[turn[r].session].turns

\* A conversation is never stuck: whoever crashed or failed to release its
\* lease, it can always be taken again later.
SessionsRecover ==
  \A s \in Session : []<>(row[s] # None => Acquirable(s))

=============================================================================
