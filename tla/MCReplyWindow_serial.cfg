\* One request at a time: two messages of the agent, one an album, any one fault.
SPECIFICATION Spec
CONSTANTS
  h1 = h1
  h2 = h2
  MaxMsgs = 2
  Albums = {2}
  Kinds = {"text", "other"}
  Hooks = {h1}
  Slips = TRUE
  MaxFaults = 1
INVARIANTS
  TypeOK
  DeliveredOnce
  InOrder
  NothingVanishes
  ClientIsInvited
PROPERTIES
  SilentAfterDelivery
\* The agent's messages are bounded: the system may stop.
CHECK_DEADLOCK FALSE
