SPECIFICATION FairSpec
CONSTANTS
  Sender = {s1, s2}
  Receiver = {r1, r2, r3}
  Many = {r3}
  Sends = 2
INVARIANTS TypeOK NoLostWakeup
PROPERTIES MailboxRefinement MailboxProgress
CHECK_DEADLOCK FALSE
