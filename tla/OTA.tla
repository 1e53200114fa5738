--------------------------------- MODULE OTA ---------------------------------
(***************************************************************************)
(* libraries/MySensors-2.0/core/MyOTAFirmwareUpdate.cpp: a node fetches a  *)
(* firmware from the controller block by block, the last block first, into *)
(* an external flash, and leaves it to the boot loader (DualOptiboot) with *)
(* a header in front. The power may go at any step. An answer of the       *)
(* controller says which block it is, but the node does not look.          *)
(*                                                                         *)
(* Messages keep their order. A lost block, or request for one, is drawn   *)
(* from one budget; another lost message, a wait that ends before the      *)
(* answer that is on its way, a power cut, a flash that does not answer    *)
(* and an unasked request for the node's presentation from another.        *)
(***************************************************************************)
EXTENDS Naturals, Sequences

CONSTANTS
  None,          \* an erased block
  Mixed,         \* what comes of writing a block that is not erased
  Torn,          \* an EEPROM record that was cut off while it was written
  Blocks,        \* the number of blocks of each firmware
  Block,         \* the numbers of the blocks of the flash
  MY_OTA_RETRY,  \* 5
  MaxLost,       \* bound: lost blocks and requests for blocks
  MaxFaults      \* bound: other faults of the environment

Firmware == DOMAIN Blocks
Config == Firmware \cup {Torn}
Data == Firmware \X Block   \* what a FIRMWARE_RESPONSE carries

ASSUME OTAAssumption ==
  /\ Blocks # <<>> /\ Blocks \in Seq(Block) /\ Block \subseteq Nat \ {0}
  /\ \A f \in Firmware : 1 .. Blocks[f] \subseteq Block
  /\ Torn \notin Firmware /\ None # Mixed /\ {None, Mixed} \cap Data = {}
  /\ MY_OTA_RETRY \in Nat /\ MaxLost \in Nat /\ MaxFaults \in Nat

VARIABLES
  fc,               \* the configuration in RAM
  fwUpdateOngoing,
  fwBlock,
  fwRetry,
  due,              \* fwLastRequestTime is 0: the next request does not wait
  pc,               \* what is still to be done with a complete image
  flash,            \* the blocks of the external flash
  header,           \* how many of them its header announces, 0 without one
  eeprom,           \* the configuration in EEPROM
  running,          \* the firmware the processor runs
  toNode, toController,
  wanted,           \* the firmware the controller has for the node
  serving,          \* the controller answers
  lost, faults

download == <<fc, fwUpdateOngoing, fwBlock, fwRetry, due>>
memory == <<flash, header, eeprom, running>>
vars == <<download, pc, memory, toNode, toController, wanted, serving, lost, faults>>

TypeOK ==
  /\ fc \in Config
  /\ fwUpdateOngoing \in BOOLEAN
  /\ fwUpdateOngoing => fc \in Firmware /\ fwBlock \in 1 .. Blocks[fc]
  /\ fwRetry \in 0 .. MY_OTA_RETRY + 1 /\ due \in BOOLEAN
  /\ pc \in {"loop", "header", "config", "reboot"}
  /\ flash \in [Block -> Data \cup {None, Mixed}]
  /\ header \in Block \cup {0}
  /\ eeprom \in Config /\ running \in Firmware
  /\ wanted \in Firmware /\ serving \in BOOLEAN
  /\ lost \in 0 .. MaxLost /\ faults \in 0 .. MaxFaults

Message(type, fw, block) == [type |-> type, fw |-> fw, block |-> block]

\* The flash starts with the image of firmware f.
Holds(f) == \A b \in 1 .. Blocks[f] : flash[b] = <<f, b>>

Spend(blocks, cost) ==
  /\ lost + blocks <= MaxLost /\ lost' = lost + blocks
  /\ faults + cost <= MaxFaults /\ faults' = faults + cost

\* A wait that has run out: too early if a message is on its way.
Early == IF toNode = <<>> /\ toController = <<>> THEN 0 ELSE 1

\* The channel after a message at a cost, which gets lost or not.
Sends(channel, after, msg, cost) ==
  \/ after = Append(channel, msg) /\ Spend(0, cost)
  \/ /\ after = channel
     /\ IF msg.type \in {"FIRMWARE_REQUEST", "FIRMWARE_RESPONSE"} THEN Spend(1, cost)
                                                                 ELSE Spend(0, cost + 1)

ToController(msg, cost) == Sends(toController, toController', msg, cost)
ToNode(msg) == Sends(toNode, toNode', msg, 0)

-----------------------------------------------------------------------------
\* firmwareOTAUpdateRequest(), in the loop of the node.

Waited == IF due THEN 0 ELSE Early

\* Faulty: requests are not counted.
RequestUncounted ==
  /\ pc = "loop" /\ fwUpdateOngoing /\ fwRetry > 0
  /\ ToController(Message("FIRMWARE_REQUEST", fc, fwBlock), Waited)
  /\ due' = FALSE
  /\ UNCHANGED <<fc, fwUpdateOngoing, fwBlock, fwRetry, pc, memory, toNode, wanted, serving>>

Request ==
  /\ pc = "loop" /\ fwUpdateOngoing /\ fwRetry > 0
  /\ ToController(Message("FIRMWARE_REQUEST", fc, fwBlock), Waited)
  /\ due' = FALSE
  /\ fwRetry' = fwRetry - 1
  /\ UNCHANGED <<fc, fwUpdateOngoing, fwBlock, pc, memory, toNode, wanted, serving>>

GiveUp ==
  /\ pc = "loop" /\ fwUpdateOngoing /\ fwRetry = 0
  /\ Spend(0, Waited)
  /\ fwUpdateOngoing' = FALSE
  /\ UNCHANGED <<fc, fwBlock, fwRetry, due, pc, memory, toNode, toController, wanted, serving>>

-----------------------------------------------------------------------------
\* firmwareOTAUpdateProcess(), and presentNode() when the controller asks.

Received(type) ==
  /\ pc = "loop"
  /\ toNode # <<>> /\ Head(toNode).type = type
  /\ toNode' = Tail(toNode)

ConfigKnown ==
  /\ Received("CONFIG_RESPONSE")
  /\ Head(toNode).fw = fc
  /\ UNCHANGED <<download, pc, memory, toController, wanted, serving, lost, faults>>

\* Faulty: the count of blocks is left over from the last download.
ConfigNewUncounted ==
  /\ Received("CONFIG_RESPONSE")
  /\ Head(toNode).fw # fc
  /\ fc' = Head(toNode).fw
  /\ fwUpdateOngoing' = TRUE
  /\ fwRetry' = MY_OTA_RETRY + 1 /\ due' = TRUE
  /\ flash' = [b \in Block |-> None] /\ header' = 0
  /\ UNCHANGED <<fwBlock, pc, eeprom, running, toController, wanted, serving, lost, faults>>

\* Faulty: the flash is not erased.
ConfigNewUnerased ==
  /\ Received("CONFIG_RESPONSE")
  /\ Head(toNode).fw # fc
  /\ fc' = Head(toNode).fw
  /\ fwUpdateOngoing' = TRUE
  /\ fwBlock' = Blocks[fc']
  /\ fwRetry' = MY_OTA_RETRY + 1 /\ due' = TRUE
  /\ UNCHANGED <<pc, memory, toController, wanted, serving, lost, faults>>

\* Another firmware: the lower 32K of the flash are erased.
ConfigNew ==
  /\ Received("CONFIG_RESPONSE")
  /\ Head(toNode).fw # fc
  /\ fc' = Head(toNode).fw
  /\ fwUpdateOngoing' = TRUE
  /\ fwBlock' = Blocks[fc']
  /\ fwRetry' = MY_OTA_RETRY + 1 /\ due' = TRUE
  /\ flash' = [b \in Block |-> None] /\ header' = 0
  /\ UNCHANGED <<pc, eeprom, running, toController, wanted, serving, lost, faults>>

\* Another firmware, but no flash.
FlashInitFails ==
  /\ Received("CONFIG_RESPONSE")
  /\ Head(toNode).fw # fc
  /\ Spend(0, 1)
  /\ fc' = Head(toNode).fw
  /\ fwUpdateOngoing' = FALSE
  /\ UNCHANGED <<fwBlock, fwRetry, due, pc, memory, toController, wanted, serving>>

\* Faulty: any image will do.
CompletedUnchecked == pc' = "header"

\* transportIsValidFirmware(): the CRC tells the image from every other.
Completed == pc' = IF Holds(fc)' THEN "header" ELSE "loop"

\* Whatever block it is, it is written where the next one belongs.
FirmwareBlock ==
  /\ Received("FIRMWARE_RESPONSE")
  /\ fwUpdateOngoing
  /\ flash' = [flash EXCEPT ![fwBlock] =
                 IF @ = None THEN <<Head(toNode).fw, Head(toNode).block>> ELSE Mixed]
  /\ fwBlock' = fwBlock - 1
  /\ fwUpdateOngoing' = (fwBlock' # 0)
  /\ fwRetry' = MY_OTA_RETRY + 1 /\ due' = TRUE
  /\ UNCHANGED fc
  /\ IF fwUpdateOngoing' THEN UNCHANGED pc ELSE Completed
  /\ UNCHANGED <<header, eeprom, running, toController, wanted, serving, lost, faults>>

NoUpdateOngoing ==
  /\ Received("FIRMWARE_RESPONSE")
  /\ ~fwUpdateOngoing
  /\ UNCHANGED <<download, pc, memory, toController, wanted, serving, lost, faults>>

\* presentBootloaderInformation() ends a download that is going on.
PresentNode ==
  /\ Received("PRESENTATION")
  /\ fwUpdateOngoing' = FALSE
  /\ ToController(Message("CONFIG_REQUEST", fc, 0), 0)
  /\ UNCHANGED <<fc, fwBlock, fwRetry, due, pc, memory, wanted, serving>>

-----------------------------------------------------------------------------
\* A complete image: the header, the configuration, and a reboot.

\* Faulty: the configuration is written first.
WriteHeaderLast ==
  /\ pc = "header"
  /\ eeprom' = fc
  /\ pc' = "config"
  /\ UNCHANGED <<download, flash, header, running, toNode, toController, wanted, serving, lost, faults>>

WriteHeader ==
  /\ pc = "header"
  /\ header' = Blocks[fc]
  /\ pc' = "config"
  /\ UNCHANGED <<download, flash, eeprom, running, toNode, toController, wanted, serving, lost, faults>>

WriteConfig ==
  /\ pc = "config"
  /\ eeprom' = fc
  /\ pc' = "reboot"
  /\ UNCHANGED <<download, flash, header, running, toNode, toController, wanted, serving, lost, faults>>

\* The boot loader moves an image with a header to the processor and erases the
\* flash. The node starts, and presents what its EEPROM says.
Boot(stored, cost) ==
  /\ eeprom' = stored
  /\ IF header = 0 THEN UNCHANGED <<flash, running>>
     ELSE /\ running' \in {f \in Firmware : Blocks[f] = header /\ Holds(f)}
          /\ flash' = [b \in Block |-> None]
  /\ header' = 0
  /\ fc' = stored
  /\ fwUpdateOngoing' = FALSE /\ fwBlock' = 0 /\ fwRetry' = 0 /\ due' = TRUE
  /\ pc' = "loop"
  /\ toNode' = <<>>
  /\ ToController(Message("CONFIG_REQUEST", stored, 0), cost)
  /\ UNCHANGED <<wanted, serving>>

Reboot == pc = "reboot" /\ Boot(eeprom, 0)

\* The power goes, perhaps while the configuration is being written.
PowerCut ==
  \E stored \in {eeprom} \cup IF pc = "config" THEN {Torn} ELSE {} : Boot(stored, 1)

-----------------------------------------------------------------------------
\* The controller.

Answer ==
  /\ serving /\ toController # <<>>
  /\ LET request == Head(toController)
     IN  ToNode(IF request.type = "CONFIG_REQUEST"
                THEN Message("CONFIG_RESPONSE", wanted, 0)
                ELSE Message("FIRMWARE_RESPONSE", request.fw, request.block))
  /\ toController' = Tail(toController)
  /\ UNCHANGED <<download, pc, memory, wanted, serving>>

\* The controller, or the way to it, is gone.
Stop ==
  /\ serving /\ Spend(0, 1)
  /\ serving' = FALSE
  /\ UNCHANGED <<download, pc, memory, toNode, toController, wanted>>

Ignore ==
  /\ ~serving /\ toController # <<>>
  /\ toController' = Tail(toController)
  /\ UNCHANGED <<download, pc, memory, toNode, wanted, serving, lost, faults>>

\* There is a new firmware for the node, which is asked to present itself.
NewFirmware ==
  /\ serving /\ wanted + 1 \in Firmware
  /\ wanted' = wanted + 1
  /\ ToNode(Message("PRESENTATION", wanted, 0))
  /\ UNCHANGED <<download, pc, memory, toController, serving>>

AskPresentation ==
  /\ serving
  /\ Spend(0, 1)
  /\ toNode' = Append(toNode, Message("PRESENTATION", wanted, 0))
  /\ UNCHANGED <<download, pc, memory, toController, wanted, serving>>

-----------------------------------------------------------------------------

\* What the flash holds before the first download is of no use.
Init ==
  /\ fc = 1 /\ eeprom = 1 /\ running = 1
  /\ wanted = 1 /\ serving = TRUE
  /\ fwUpdateOngoing = FALSE /\ fwBlock = 0 /\ fwRetry = 0 /\ due = TRUE
  /\ pc = "loop"
  /\ flash = [b \in Block |-> Mixed] /\ header = 0
  /\ toNode = <<>> /\ toController = <<>>
  /\ lost = 0 /\ faults = 0

Handle ==
  \/ ConfigKnown \/ ConfigNew \/ FlashInitFails
  \/ FirmwareBlock \/ NoUpdateOngoing \/ PresentNode

Finish == WriteHeader \/ WriteConfig \/ Reboot

Next ==
  \/ Request \/ GiveUp \/ Handle \/ Finish
  \/ PowerCut
  \/ Answer \/ Ignore \/ Stop \/ NewFirmware \/ AskPresentation

Spec == Init /\ [][Next]_vars

\* The node's loop goes on, and the controller, or what swallows its requests.
FairSpec ==
  /\ Spec
  /\ WF_vars(Request) /\ WF_vars(GiveUp) /\ WF_vars(Handle) /\ WF_vars(Finish)
  /\ WF_vars(Answer) /\ WF_vars(Ignore) /\ WF_vars(NewFirmware)

-----------------------------------------------------------------------------

(* The boot loader never finds a header in front of anything but a whole    *)
(* image, whatever answers came late, twice or for another firmware, and    *)
(* wherever the power went (MyOTAFirmwareUpdate.cpp:91-108).                *)
HeaderMeansImage ==
  header # 0 => \E f \in Firmware : header = Blocks[f] /\ Holds(f)

(* The configuration in EEPROM, which the node presents after a start, is   *)
(* of a firmware that runs or is about to. A power cut leaves it behind, or *)
(* torn, so that the firmware is fetched again, but never ahead: that one   *)
(* would not be fetched (MyOTAFirmwareUpdate.cpp:99-107). Firmwares are     *)
(* numbered in the order in which they come up.                             *)
ConfigNotAhead ==
  eeprom \in Firmware => eeprom <= running \/ (header # 0 /\ Holds(eeprom))

(* A download ends, with an image or by giving up, also when the controller *)
(* is gone (MyOTAFirmwareUpdate.cpp:33-53).                                 *)
DownloadEnds == fwUpdateOngoing ~> ~fwUpdateOngoing

(* The controller's firmware runs in the end, also when a newer one comes   *)
(* up during a download, and when not more than MY_OTA_RETRY blocks or      *)
(* requests for them get lost                                               *)
(* (MyOTAFirmwareUpdate.cpp:33-133).                                        *)
Installed ==
  [](faults = 0) => <>[](running = wanted)
=============================================================================
