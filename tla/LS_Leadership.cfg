SPECIFICATION FairSpec
CONSTANTS
  p1 = p1
  p2 = p2
  a1 = a1
  s1 = s1
  None = None
  Former = Former
  Procs = {p1, p2}
  TTL = 0
  MaxAttempts = 2
  Limit = 2
  Alerts = {a1}
  KillAlerts = {s1}
  Parts <- TwoParts
  Command <- ResumeStop
  MaxBoots = 2
  Loads <- LoadSet
INVARIANTS FreshLeaderOwns SentWasDelivered DeliveredInOrder CommandOnce
PROPERTIES MessageSettles CommandIsRun
