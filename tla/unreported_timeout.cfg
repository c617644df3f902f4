SPECIFICATION MCSpec
CONSTANTS
  root = root  include = include  moonraker = moonraker  Nothing = Nothing
  None = None  Refused = Refused  boot = boot  card = card
  Bootloader = {"boot"}  Device <- MCDevice  Board <- App  Expected = {"app"}
  MaxReports = 2
  SerialDevice <- MCBench  Baseline <- MCBaseline  Contract = {}  Bridge = {"bridge"}
  Node <- MCNode  Inserted <- MCInserted  Filesystems = {"vfat"}  Recipes <- MCRecipes
  Before = {"other", "planned"}  MaxSwaps = 6  MaxMoves = 5
  Files = {root, include}
  Root = root
  MoonrakerConf = moonraker
  Methods = {"usb"}
  Faults <- Timeouts
  MaxEdits = 0
  Parts = {"physical"}
CHECK_DEADLOCK FALSE
INVARIANT WrittenIsDiagnosed
