SPECIFICATION Spec
CONSTANTS
  Clients = {"desktop", "shell"}
  Desktop = "desktop"
  Profiles = {"Balanced", "Endurance", "Max"}
  Targets = {"Sleep", "Shutdown", "Reboot"}
  Ssids = {"home"}
  Settings = {"default", "other"}
  Devices = {"headset"}
  MaxRequests = 2
  Capacity = 2
  MaxLines = 2
  Samples = 1
  MaxKernel = 3
  MaxRecords = 6
  Urgencies = {1, 2}
  MaxNotifications = 4
  MaxVisible = 2
  EnterFrames = 1
  TimeoutFrames = 1
  ExitFrames = 2
  MaxItems = 4
  a1 = a1
  a2 = a2
  a3 = a3
  Apps <- MCApps
  Pinned <- MCPinned
  MaxWindows = 2
  DockFrames = 3
  cols = 3
  rows = 2
  TabStop = 2
  MaxEscape = 5
  Bytes = {"ESC", "BS", "TAB", "CR", "LF", "[", "2", "H", "J", "K"}
  MaxBytes = 5
CHECK_DEADLOCK FALSE
INVARIANTS
  QuietMeansTold
  ScanNeedsPower
  NewestInOrder
  BannersMakeWay
  UnreadIsThere
  IconsMatchWindows
PROPERTIES
  ShowsThePage
  BannersLeave
  DockSettles
