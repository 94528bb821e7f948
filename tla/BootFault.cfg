SPECIFICATION BootSpec
CONSTANTS
  desktop1 = desktop1
  desktop2 = desktop2
  Clients <- MCClients
  System = System
  Nobody = Nobody
  LargeRequests = {}
  Outcomes = {"answered"}
  MaxRequests <- MCMaxRequests
  MaxNews = 4
  BufferFrames = 12
  FadeFrames = 2
  MaxDeaths = 0
  MaxConfigs = 0
PROPERTIES
  DesktopComesBack
CHECK_DEADLOCK FALSE
