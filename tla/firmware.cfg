SPECIFICATION MCSpec
CONSTANTS
  Sd = Sd  Avr = Avr  Unknown = Unknown  Stm = Stm  Atmega = Atmega
  Low = Low  High = High  Known = Known  Clone = Clone  NoBridge = NoBridge
  Board = {Sd, Avr, Unknown}
  Startup = {Avr}
  Robin = {Unknown, Sd}
  Mcu = {Stm, Atmega}
  Offset = {Low, High}
  Bridge = {Known, Clone}
  ProfileItems <- MCProfileItems
  MaxTampers = 2
  None = None  mach = mach  canbus = canbus  entry = entry  clock = clock
  skr = skr  creality = creality  turbo = turbo  legacyName = legacyName
  Symbol = {mach, canbus, entry, clock}
  Requested <- MCRequested  Asserted <- MCAsserted
  Document <- MCDocument  Alias = {turbo, creality, legacyName}
  Processor = {lpc1768, lpc1769}  MaxEdits = 2  MaxBuilds = 2
  lpc1768 = lpc1768  lpc1769 = lpc1769  f103 = f103  v8 = v8  v9 = v9  v3 = v3
  Start = Start  End = End  Blank = Blank  Address = {0, 1, 2, 6}  Base = {0, 2}
  MaxBlocks = 3  MaxRecords = 4  MaxSpan = 5
  arch = arch  model = model  otherModel = otherModel  low = low
  usb = usb  uart1 = uart1  uart3 = uart3  bridge = bridge
  start7 = start7  start8 = start8
  Good = Good  Undrawn = Undrawn  Crossed = Crossed  Refused = Refused
  Partial = Partial  Alien = Alien  Absent = Absent
  Generation = {Good, Undrawn, Crossed, Refused, Partial, Alien}
  Undrawable = {Undrawn}  Miswired = {Crossed}  Withheld = {Refused}
  Incomplete = {Partial}  Foreign = {Alien}  MaxGenerations = 2
  Parts = {"delivery", "build", "evidence", "images", "targets", "menu"}
CHECK_DEADLOCK FALSE
INVARIANTS
   ProofIsTrue ContractIsFollowed ImageIsSearched BuiltAsDeclared
  PublicationIsHonest
PROPERTY DeliveredIsBuilt
