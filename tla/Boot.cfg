SPECIFICATION BootSpec
CONSTANTS
  desktop1 = desktop1
  desktop2 = desktop2
  Clients <- MCClients
  System = System
  Nobody = Nobody
  LargeRequests = {}
  Outcomes = {"answered"}
  MaxRequests <- MCMaxRequests
  MaxNews = 9
  BufferFrames = 12
  FadeFrames = 2
  MaxDeaths = 1
  MaxConfigs = 1
INVARIANTS
  BootTypeOK
  WordmarkAfterChime
  ReadyCanPresent
PROPERTIES
  ChimeLeadsToDesktop
CHECK_DEADLOCK FALSE
