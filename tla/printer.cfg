SPECIFICATION MCSpec
CONSTANTS
  root = root  include = include  moonraker = moonraker  Nothing = Nothing
  None = None  Refused = Refused  boot = boot  card = card
  Bootloader = {"boot"}  Device <- MCDevice  Board <- App  Expected = {"app"}
  MaxReports = 2
  SerialDevice <- MCBench  Baseline <- MCBaseline  Contract = {}  Bridge = {"bridge"}
  Node <- MCNode  Inserted <- MCInserted  Filesystems = {"vfat"}  Recipes <- MCRecipes
  Before = {"other", "planned"}  MaxSwaps = 4  MaxMoves = 5
  Files = {root, moonraker}
  Root = root
  MoonrakerConf = moonraker
  Methods = {"usb", "relay", "hands"}
  Faults <- Everything
  MaxEdits = 2
  Parts = {"physical", "port", "neighbour", "verification", "media", "cycle"}
CHECK_DEADLOCK FALSE
INVARIANTS
  FilesFollowFirmware ChosenIsTheBoard  VerifiedHasRun
PROPERTIES ActiveAsReported PresenceIsWatched
