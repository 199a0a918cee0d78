\* Two requests at a time, every interleaving of their Redis commands, no fault.
SPECIFICATION FairSpec
CONSTANTS
  h1 = h1
  h2 = h2
  MaxMsgs = 2
  Albums = {}
  Kinds = {"text", "tap", "other"}
  Hooks = {h1, h2}
  Slips = FALSE
  MaxFaults = 0
INVARIANTS
  WithinWindow
PROPERTIES
  QueuedIsDelivered
  HumanTakeoverHolds
\* The agent's messages are bounded: the system may stop.
CHECK_DEADLOCK FALSE
