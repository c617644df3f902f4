------------------------------ MODULE MCPrinter ------------------------------
(***************************************************************************)
(* The parts of PrinterParts on a small printer.  A behaviour is about one *)
(* of them; the others stay where they begin.                              *)
(***************************************************************************)
EXTENDS PrinterParts

CONSTANTS root, include, moonraker, boot, card,
          Parts   \* which of the parts below a configuration explores

VARIABLE part

Everything == {"snapshot", "relay", "transport", "monitor", "klipper", "upload",
               "read", "restart", "interrupt"}
\* And an input or output error of the kind TimeoutError.
Timeouts == {"timeout", "upload"}

-----------------------------------------------------------------------------
\* The board, the board in its bootloader, a foreign board in its port, and
\* the board of another printer beside it.
Id(node, path, dev, by, serial, vidPid) ==
    [node |-> node, idPath |-> path, devPath |-> dev, byPath |-> by,
     serial |-> serial, vidPid |-> vidPid]
P1 == <<"usb1", "if0">>
P2 == <<"usb2", "if0">>
App == [id |-> Id("acm0", P1, None, {"alias1"}, "s1", "app"), link |-> "l1"]
Boot == [id |-> Id("acm0", P1, None, {"alias1"}, None, "boot"), link |-> "l2"]
Stranger == [id |-> Id("acm0", P1, None, {"alias1"}, "s3", "else"), link |-> "l3"]
Twin == [id |-> Id("acm1", P2, None, {"alias2"}, "s4", "app"), link |-> "l4"]

MCDevice == {App, Boot, Stranger, Twin}
\* One port with several boards, and two boards side by side, one report of
\* which is pending.
OnePort == INSTANCE McuMonitor WITH
    Device <- {App, Boot, Stranger}, MaxMoves <- MaxReports,
    pc <- waitPc, returned <- waitReturned
TwoPorts == INSTANCE McuMonitor WITH
    Device <- {App, Twin}, MaxMoves <- 1,
    pc <- waitPc, returned <- waitReturned

-----------------------------------------------------------------------------
\* The original board in its port, moved, in its bootloader, with another
\* serial, without one, behind a device path only, unreadable, a bridge,
\* another model, and moved in its bootloader.
Dev(id, model, readable) == [id |-> id, model |-> model, readable |-> readable]
Original == Id("acm0", P1, P1, {"alias1"}, "s1", "app")
Aliased == Id("acm0", None, P1, {}, "s1", "app")
Bridged == Id("usb0", P1, P1, {}, None, "bridge")
MCBench ==
    {Dev(Original, "same", TRUE), Dev(Bridged, None, TRUE),
     Dev(Id("acm1", P2, P2, {"alias2"}, "s1", "app"), "same", TRUE),
     Dev(Id("acm2", P1, P1, {"alias1"}, None, "boot"), "same", TRUE),
     Dev(Id("acm3", P1, P1, {}, "s2", "app"), "same", TRUE),
     Dev(Id("acm4", P1, P1, {"alias1"}, None, "app"), "same", TRUE),
     Dev(Id("acm5", None, <<"usb1", "if1">>, {}, "s1", "app"), "same", TRUE),
     Dev(Id("acm6", P1, P1, {}, None, "app"), "same", FALSE),
     Dev(Id("acm7", P2, P1, {}, None, "app"), "same", TRUE),
     Dev(Id("acm8", P1, P1, {}, "s3", "app"), "other", TRUE),
     Dev(Id("acm9", P2, P2, {"alias2"}, "s1", "boot"), "same", TRUE)}

MCBaseline == {Original, Aliased, Bridged, None}

-----------------------------------------------------------------------------
\* A host with a system disk of two partitions, the card meant for the
\* printer, a copy of the system disk, and a card without a partition table
\* that is known by its serial.
Part(mounts, parent, device, id, removable) ==
    [type |-> "part", mounts |-> mounts, parent |-> parent, device |-> device,
     partuuid |-> id, uuid |-> None, serial |-> None, fs |-> "vfat", size |-> 1,
     removable |-> removable, readOnly |-> FALSE, room |-> TRUE]
RootPart == Part({"root"}, "mmc", "mmc2", None, FALSE)
BootPart == Part({"boot"}, "mmc", "mmc1", boot, FALSE)
MemoryCard == Part({"media"}, "sda", "sda1", card, TRUE)
BootCopy == Part({"media"}, "sda", "sda1", boot, TRUE)
Bare == [Part({"media"}, "sda", "sda1", None, TRUE) EXCEPT
            !.type = "disk", !.serial = card]
Locked == [Bare EXCEPT !.readOnly = TRUE]
Full == [MemoryCard EXCEPT !.room = FALSE, !.device = "sdb1", !.parent = "sdb", !.mounts = {"stick"}]

MCNode == {RootPart, BootPart, MemoryCard, BootCopy, Bare, Locked, Full}
MCInserted == {RootPart, BootPart, MemoryCard, Full}
MCRecipes == [removable : BOOLEAN, deferred : BOOLEAN]

ASSUME PrinterAssumption ==
    /\ Monitor!BootloaderAssumption /\ Monitor!DeviceAssumption
    /\ Verification!BootloaderAssumption
    /\ Card!NodeAssumption

-----------------------------------------------------------------------------
MCInit ==
    /\ part \in Parts
    /\ part # "physical" =>
           method = "usb" /\ mcu = "new" /\ files = [f \in Files |-> "new"]
    /\ Init
    /\ part # "physical" => klipper.loaded = files
    /\ IF part = "neighbour" THEN TwoPorts!Init ELSE OnePort!Init
    /\ part # "verification" => baseline = None /\ present = {} /\ confirms = FALSE
    /\ Verification!Init
    /\ part # "cycle" => running = "other"
    /\ recipe = [removable |-> part = "cycle", deferred |-> part # "cycle"]
    /\ part \notin {"media", "cycle"} => content = [n \in Node |-> "none"]
    /\ host = IF part = "media" THEN MCInserted \ {Full} ELSE MCInserted
    /\ Card!Init
    /\ part = "media" => \A n \in {Bare, Locked, Full} : content[n] = "none"
    /\ part = "cycle" => \A n \in Node \ {MemoryCard, Full} : content[n] = "none"

\* The verification of the firmware is left to later while cards are exchanged;
\* otherwise the board is cycled, unplugged and early or late in Klipper, and the
\* card without room is in the host.
ExchangeCards == Card!Next /\ moves' <= 2 /\ Full \notin host'
CycleBoard == Card!Next /\ swaps' <= 1 /\ host' \subseteq MCInserted

MCNext ==
    \/ /\ part = "physical" /\ Next
       /\ UNCHANGED <<part, theMonitor, theExecutor, theVerification>>
    \/ /\ part = "port" /\ OnePort!Next
       /\ UNCHANGED <<part, vars, theExecutor, theVerification>>
    \/ /\ part = "neighbour" /\ TwoPorts!Next
       /\ UNCHANGED <<part, vars, theExecutor, theVerification>>
    \/ /\ part = "verification" /\ Verification!Next
       /\ UNCHANGED <<part, vars, theMonitor, theExecutor>>
    \/ /\ part = "media" /\ ExchangeCards
       /\ UNCHANGED <<part, vars, theMonitor, theVerification>>
    \/ /\ part = "cycle" /\ CycleBoard
       /\ UNCHANGED <<part, vars, theMonitor, theVerification>>

MCSpec ==
    MCInit /\ [][MCNext]_<<part, vars, theMonitor, theExecutor, theVerification>>
==============================================================================
