SPECIFICATION WebSpec
CONSTANTS
  r1 = r1
  r3 = r3
  e1 = e1
  e2 = e2
  x1 = x1
  Batched = TRUE
  None = None
  Request = {r1, r2, r3}
  Session = {s1, s2}
  Event = {e1, e2}
  Sender = {x1}
  EventOf <- Events
  SenderOf <- Senders
  Previous <- Batches
  LeaseCanLapse = FALSE
  Failing = {r2}
INVARIANTS WebTypeOK HandledOnce AnsweredTurnsAreKept
CHECK_DEADLOCK FALSE
