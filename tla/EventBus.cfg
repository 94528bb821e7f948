SPECIFICATION Spec
CONSTANTS
  desktop = desktop
  shell = shell
  Clients <- MCClients
  System = System
  LargeRequests <- MCLarge
  Outcomes = {"answered", "silent", "oversized"}
  MaxRequests <- MCMaxRequests
  MaxNews = 1
  BufferFrames = 2
INVARIANTS
  TypeOK
  RequestsInOrder
  EventsContiguous
PROPERTIES
  OthersUnharmed
  RequestsGetThrough
CHECK_DEADLOCK FALSE
