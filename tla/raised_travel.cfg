SPECIFICATION MCSpec
CONSTANTS
  Boards = {"skr", "octopus"}
  FanBoards = {"octopus"}
  BltouchBoards = {"octopus"}
  CurrentBoards = {"octopus"}
  OpenBoards = {"skr"}
  BrokenBoards = {}
  ZCounts = {1, 2}
  Drivers = {"standard", "TMC2209"}
  Profiles = {"ender"}
  Probes = {"none", "bltouch", "inductive", "custom"}
  StartStep = "board"
  uart = uart  spi = spi  bare = bare  slow = slow  geared = geared
  small = small  directed = directed  custom = custom
  e1 = e1  e2 = e2  e3 = e3  None = None  Custom = Custom  Own = Own  Refused = Refused
  \* three more Z motors and three spare sockets, one of them without TMC section
  Spare = {e1, e2, e3}  WithTmc = {e1, e2}  ZMotors = 4  Present = {}  DriverMode = "UART"
  Circuit = {uart, spi, bare}  Printer = {slow, geared, small, directed}  Scratch = custom
  BoardModel <- ModelOf  BoardSays <- Stated  ProfileSays <- Described
  Models = {"tmc2209", "tmc5160", "Standalone"}  MotorCounts = {1, 2}
  Currents = {1, 3}  Distances = {4, 8}  Travels = {4, 8}  Endstops = {0, 4, 8}
  Axes <- HorizontalAxes  Rails <- VerticalAxes  Meshes <- SourceMeshes
  Kinds = {"none", "bltouch", "inductive"}
  Parts = {"editor"}
CHECK_DEADLOCK FALSE
INVARIANT SavedBedFits
