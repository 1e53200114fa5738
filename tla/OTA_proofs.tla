------------------------------ MODULE OTA_proofs ------------------------------
(***************************************************************************)
(* Proofs about the firmware update, for every sequence of firmwares, any  *)
(* number of lost messages, early timeouts and power cuts.                 *)
(***************************************************************************)
EXTENDS OTA, SequenceTheorems, TLAPS

\* What may be on its way. Only a node that starts with a torn record asks for
\* the configuration of no firmware.
Sent ==
  {m \in [type : {"CONFIG_REQUEST", "CONFIG_RESPONSE", "FIRMWARE_REQUEST",
                  "FIRMWARE_RESPONSE", "PRESENTATION"},
          fw : Config, block : Block \cup {0}] :
     /\ m.type # "CONFIG_REQUEST" => m.fw \in Firmware
     /\ m.type \in {"FIRMWARE_REQUEST", "FIRMWARE_RESPONSE"} => m.block \in Block}

Requests == {m \in Sent : m.type \in {"CONFIG_REQUEST", "FIRMWARE_REQUEST"}}

ChannelsOK == toNode \in Seq(Sent) /\ toController \in Seq(Requests)

\* A header is written last, in front of the image that was checked, and only
\* the boot loader sees it: nothing that comes in is handled before the reboot.
ImageKept ==
  /\ pc # "loop" => ~fwUpdateOngoing /\ fc \in Firmware /\ Holds(fc)
  /\ pc \in {"loop", "header"} => header = 0
  /\ pc \in {"config", "reboot"} => header = Blocks[fc]

OTAInv == TypeOK /\ ChannelsOK /\ ImageKept

-----------------------------------------------------------------------------

LEMMA BlocksOf ==
  ASSUME NEW f \in Firmware
  PROVE  Blocks[f] \in Block /\ Blocks[f] \in Nat \ {0} /\ 1 .. Blocks[f] \subseteq Block
<1>1. Blocks \in Seq(Block) /\ f \in DOMAIN Blocks
  BY OTAAssumption DEF Firmware
<1>2. Blocks[f] \in Block
  BY <1>1, ElementOfSeq, LenProperties
<1>3. QED
  BY <1>2, OTAAssumption

LEMMA SpendKeeps ==
  ASSUME NEW blocks \in Nat, NEW cost \in Nat, TypeOK, Spend(blocks, cost)
  PROVE  lost' \in 0 .. MaxLost /\ faults' \in 0 .. MaxFaults
BY OTAAssumption DEF Spend, TypeOK

LEMMA EarlyCost == Early \in Nat /\ Waited \in Nat
BY DEF Early, Waited

\* A channel keeps its kind of messages, and the budgets their bounds.
LEMMA SendsKeeps ==
  ASSUME NEW S, NEW channel \in Seq(S), NEW after, NEW msg \in S, NEW cost \in Nat,
         TypeOK, Sends(channel, after, msg, cost)
  PROVE  after \in Seq(S) /\ lost' \in 0 .. MaxLost /\ faults' \in 0 .. MaxFaults
<1>1. CASE after = Append(channel, msg) /\ Spend(0, cost)
  BY <1>1, SpendKeeps, AppendProperties
<1>2. CASE after = channel /\ Spend(1, cost)
  BY <1>2, SpendKeeps
<1>3. CASE after = channel /\ Spend(0, cost + 1)
  BY <1>3, SpendKeeps
<1>4. QED
  BY <1>1, <1>2, <1>3 DEF Sends

\* What is received is something that was sent.
LEMMA ReceivedSent ==
  ASSUME NEW type, ChannelsOK, Received(type)
  PROVE  /\ pc = "loop" /\ Head(toNode) \in Sent /\ Head(toNode).type = type
         /\ toNode' \in Seq(Sent)
BY HeadTailProperties DEF Received, ChannelsOK

LEMMA BootKeeps ==
  ASSUME NEW stored \in Config, NEW cost \in Nat, OTAInv, Boot(stored, cost)
  PROVE  OTAInv'
<1> USE DEF OTAInv
<1>1. Message("CONFIG_REQUEST", stored, 0) \in Requests
  BY DEF Message, Sent, Requests
<1>2. /\ toController' \in Seq(Requests)
      /\ lost' \in 0 .. MaxLost /\ faults' \in 0 .. MaxFaults
  BY <1>1, SendsKeeps DEF Boot, ToController, ChannelsOK
<1>3. toNode' \in Seq(Sent)
  BY EmptySeq DEF Boot
<1>4. flash' \in [Block -> Data \cup {None, Mixed}] /\ running' \in Firmware
  BY DEF Boot, TypeOK
<1>5. TypeOK'
  <2>1. fc' \in Config /\ eeprom' \in Config /\ pc' = "loop"
    BY DEF Boot
  <2>2. fwUpdateOngoing' = FALSE /\ due' = TRUE
    BY DEF Boot
  <2>3. fwRetry' \in 0 .. MY_OTA_RETRY + 1 /\ header' \in Block \cup {0}
    BY OTAAssumption DEF Boot
  <2>4. wanted' \in Firmware /\ serving' \in BOOLEAN
    BY DEF Boot, TypeOK
  <2>5. QED
    BY <1>2, <1>4, <2>1, <2>2, <2>3, <2>4 DEF TypeOK
<1>6. ImageKept'
  BY DEF Boot, ImageKept
<1>7. QED
  BY <1>2, <1>3, <1>5, <1>6 DEF ChannelsOK

\* Nothing but the queues and the budgets changes: one step for the network,
\* the controller and the messages that the node ignores.
LEMMA OthersKeep ==
  ASSUME OTAInv, toNode' \in Seq(Sent), toController' \in Seq(Requests),
         lost' \in 0 .. MaxLost, faults' \in 0 .. MaxFaults,
         wanted' \in Firmware, serving' \in BOOLEAN,
         UNCHANGED <<download, pc, memory>>
  PROVE  OTAInv'
<1>1. TypeOK'
  BY DEF OTAInv, TypeOK, download, memory
<1>2. ImageKept'
  BY DEF OTAInv, ImageKept, Holds, download, memory
<1>3. QED
  BY <1>1, <1>2 DEF OTAInv, ChannelsOK

LEMMA RequestKeeps == OTAInv /\ Request => OTAInv'
<1> SUFFICES ASSUME OTAInv, Request PROVE OTAInv'
  OBVIOUS
<1>1. fc \in Firmware /\ fwBlock \in Block
  BY BlocksOf DEF OTAInv, TypeOK, Request
<1>2. Message("FIRMWARE_REQUEST", fc, fwBlock) \in Requests
  BY <1>1 DEF Message, Sent, Requests, Config
<1>3. /\ toController' \in Seq(Requests)
      /\ lost' \in 0 .. MaxLost /\ faults' \in 0 .. MaxFaults
  BY <1>2, SendsKeeps, EarlyCost DEF OTAInv, Request, ToController, ChannelsOK
<1>4. fwRetry' \in 0 .. MY_OTA_RETRY + 1
  BY OTAAssumption DEF OTAInv, TypeOK, Request
<1>5. TypeOK'
  BY <1>3, <1>4 DEF OTAInv, TypeOK, Request, memory
<1>6. ImageKept'
  BY DEF OTAInv, ImageKept, Request, memory
<1>7. QED
  BY <1>3, <1>5, <1>6 DEF OTAInv, ChannelsOK, Request

LEMMA GiveUpKeeps == OTAInv /\ GiveUp => OTAInv'
<1> SUFFICES ASSUME OTAInv, GiveUp PROVE OTAInv'
  OBVIOUS
<1>1. lost' \in 0 .. MaxLost /\ faults' \in 0 .. MaxFaults
  BY SpendKeeps, EarlyCost DEF OTAInv, GiveUp
<1>2. TypeOK'
  BY <1>1 DEF OTAInv, TypeOK, GiveUp, memory
<1>3. ImageKept'
  BY DEF OTAInv, ImageKept, GiveUp, memory
<1>4. QED
  BY <1>2, <1>3 DEF OTAInv, ChannelsOK, GiveUp

LEMMA ConfigNewKeeps == OTAInv /\ ConfigNew => OTAInv'
<1> SUFFICES ASSUME OTAInv, ConfigNew PROVE OTAInv'
  OBVIOUS
<1>1. fc' \in Firmware /\ pc = "loop" /\ toNode' \in Seq(Sent)
  BY ReceivedSent DEF OTAInv, ConfigNew, Sent
<1>2. fwBlock' \in 1 .. Blocks[fc']
  BY <1>1, BlocksOf DEF ConfigNew
<1>3. fwRetry' \in 0 .. MY_OTA_RETRY + 1
  BY OTAAssumption DEF ConfigNew
<1>4. flash' \in [Block -> Data \cup {None, Mixed}] /\ header' \in Block \cup {0}
  BY DEF ConfigNew
<1>5. TypeOK'
  BY <1>1, <1>2, <1>3, <1>4 DEF OTAInv, TypeOK, ConfigNew, Config
<1>6. ImageKept'
  BY <1>1 DEF ImageKept, ConfigNew
<1>7. QED
  BY <1>1, <1>5, <1>6 DEF OTAInv, ChannelsOK, ConfigNew

LEMMA FlashInitFailsKeeps == OTAInv /\ FlashInitFails => OTAInv'
<1> SUFFICES ASSUME OTAInv, FlashInitFails PROVE OTAInv'
  OBVIOUS
<1>1. fc' \in Firmware /\ pc = "loop" /\ toNode' \in Seq(Sent)
  BY ReceivedSent DEF OTAInv, FlashInitFails, Sent
<1>2. lost' \in 0 .. MaxLost /\ faults' \in 0 .. MaxFaults
  BY SpendKeeps DEF OTAInv, FlashInitFails
<1>3. TypeOK'
  BY <1>1, <1>2 DEF OTAInv, TypeOK, FlashInitFails, memory, Config
<1>4. ImageKept'
  BY <1>1 DEF OTAInv, ImageKept, FlashInitFails, memory
<1>5. QED
  BY <1>1, <1>3, <1>4 DEF OTAInv, ChannelsOK, FlashInitFails

\* The only way into "header" is through the check of the whole image.
LEMMA FirmwareBlockKeeps == OTAInv /\ FirmwareBlock => OTAInv'
<1> SUFFICES ASSUME OTAInv, FirmwareBlock PROVE OTAInv'
  OBVIOUS
<1>1. /\ pc = "loop" /\ toNode' \in Seq(Sent)
      /\ <<Head(toNode).fw, Head(toNode).block>> \in Data
  <2>1. /\ pc = "loop" /\ toNode' \in Seq(Sent)
        /\ Head(toNode) \in Sent /\ Head(toNode).type = "FIRMWARE_RESPONSE"
    BY ReceivedSent DEF OTAInv, FirmwareBlock
  <2>2. Head(toNode).fw \in Firmware /\ Head(toNode).block \in Block
    BY <2>1 DEF Sent
  <2>3. QED
    BY <2>1, <2>2 DEF Data
<1>2. fc' = fc /\ fc \in Firmware /\ fwBlock \in 1 .. Blocks[fc] /\ Blocks[fc] \in Nat
  BY BlocksOf DEF OTAInv, TypeOK, FirmwareBlock
<1>3. fwBlock' # 0 => fwBlock' \in 1 .. Blocks[fc']
  BY <1>2 DEF FirmwareBlock
<1>4. flash' \in [Block -> Data \cup {None, Mixed}]
  BY <1>1 DEF OTAInv, TypeOK, FirmwareBlock
<1>5. fwRetry' \in 0 .. MY_OTA_RETRY + 1
  BY OTAAssumption DEF FirmwareBlock
<1>6. /\ pc' \in {"loop", "header"}
      /\ pc' # "loop" => ~fwUpdateOngoing' /\ Holds(fc)'
  BY <1>1 DEF FirmwareBlock, Completed
<1>7. TypeOK'
  <2>1. fwUpdateOngoing' \in BOOLEAN /\ due' \in BOOLEAN
    BY DEF FirmwareBlock
  <2>2. fwUpdateOngoing' => fc' \in Firmware /\ fwBlock' \in 1 .. Blocks[fc']
    BY <1>2, <1>3 DEF FirmwareBlock
  <2>3. QED
    BY <1>2, <1>4, <1>5, <1>6, <2>1, <2>2 DEF OTAInv, TypeOK, FirmwareBlock
<1>8. ImageKept'
  BY <1>1, <1>2, <1>6 DEF OTAInv, ImageKept, FirmwareBlock
<1>9. QED
  BY <1>1, <1>7, <1>8 DEF OTAInv, ChannelsOK, FirmwareBlock

LEMMA PresentNodeKeeps == OTAInv /\ PresentNode => OTAInv'
<1> SUFFICES ASSUME OTAInv, PresentNode PROVE OTAInv'
  OBVIOUS
<1>1. pc = "loop" /\ toNode' \in Seq(Sent)
  BY ReceivedSent DEF OTAInv, PresentNode
<1>2. Message("CONFIG_REQUEST", fc, 0) \in Requests
  BY DEF Message, Sent, Requests, OTAInv, TypeOK
<1>3. /\ toController' \in Seq(Requests)
      /\ lost' \in 0 .. MaxLost /\ faults' \in 0 .. MaxFaults
  BY <1>2, SendsKeeps DEF OTAInv, PresentNode, ToController, ChannelsOK
<1>4. TypeOK'
  BY <1>3 DEF OTAInv, TypeOK, PresentNode, memory
<1>5. ImageKept'
  BY <1>1 DEF OTAInv, ImageKept, PresentNode, memory
<1>6. QED
  BY <1>1, <1>3, <1>4, <1>5 DEF OTAInv, ChannelsOK

-----------------------------------------------------------------------------

LEMMA HandleKeeps == OTAInv /\ Handle => OTAInv'
<1> SUFFICES ASSUME OTAInv, Handle PROVE OTAInv'
  OBVIOUS
<1>1. CASE ConfigKnown
  <2>1. toNode' \in Seq(Sent)
    BY <1>1, ReceivedSent DEF OTAInv, ConfigKnown
  <2>2. QED
    BY <1>1, <2>1, OthersKeep DEF ConfigKnown, OTAInv, TypeOK, ChannelsOK
<1>2. CASE NoUpdateOngoing
  <2>1. toNode' \in Seq(Sent)
    BY <1>2, ReceivedSent DEF OTAInv, NoUpdateOngoing
  <2>2. QED
    BY <1>2, <2>1, OthersKeep DEF NoUpdateOngoing, OTAInv, TypeOK, ChannelsOK
<1>3. CASE ConfigNew
  BY <1>3, ConfigNewKeeps
<1>4. CASE FlashInitFails
  BY <1>4, FlashInitFailsKeeps
<1>5. CASE FirmwareBlock
  BY <1>5, FirmwareBlockKeeps
<1>6. CASE PresentNode
  BY <1>6, PresentNodeKeeps
<1>7. QED
  BY <1>1, <1>2, <1>3, <1>4, <1>5, <1>6 DEF Handle

\* The image stays as it was checked until the boot loader takes it.
LEMMA FinishKeeps == OTAInv /\ Finish => OTAInv'
<1> SUFFICES ASSUME OTAInv, Finish PROVE OTAInv'
  OBVIOUS
<1>1. CASE WriteHeader
  <2>1. header' \in Block \cup {0}
    BY <1>1, BlocksOf DEF WriteHeader, OTAInv, ImageKept
  <2>2. TypeOK'
    BY <1>1, <2>1 DEF WriteHeader, OTAInv, TypeOK, download
  <2>3. ImageKept'
    BY <1>1 DEF WriteHeader, OTAInv, ImageKept, Holds, download
  <2>4. QED
    BY <1>1, <2>2, <2>3 DEF WriteHeader, OTAInv, ChannelsOK
<1>2. CASE WriteConfig
  <2>1. TypeOK'
    BY <1>2 DEF WriteConfig, OTAInv, TypeOK, download
  <2>2. ImageKept'
    BY <1>2 DEF WriteConfig, OTAInv, ImageKept, Holds, download
  <2>3. QED
    BY <1>2, <2>1, <2>2 DEF WriteConfig, OTAInv, ChannelsOK
<1>3. CASE Reboot
  <2>1. eeprom \in Config
    BY DEF OTAInv, TypeOK
  <2>2. QED
    BY <1>3, <2>1, BootKeeps DEF Reboot
<1>4. QED
  BY <1>1, <1>2, <1>3 DEF Finish

LEMMA ControllerKeeps ==
  OTAInv /\ (Answer \/ Ignore \/ Stop \/ NewFirmware \/ AskPresentation) => OTAInv'
<1> SUFFICES ASSUME OTAInv,
                    Answer \/ Ignore \/ Stop \/ NewFirmware \/ AskPresentation
             PROVE  OTAInv'
  OBVIOUS
<1>0. /\ toNode \in Seq(Sent) /\ toController \in Seq(Requests)
      /\ lost \in 0 .. MaxLost /\ faults \in 0 .. MaxFaults
      /\ wanted \in Firmware /\ serving \in BOOLEAN /\ TypeOK
  BY DEF OTAInv, TypeOK, ChannelsOK
<1>1. CASE Answer
  <2> DEFINE request == Head(toController)
             answer == IF request.type = "CONFIG_REQUEST"
                       THEN Message("CONFIG_RESPONSE", wanted, 0)
                       ELSE Message("FIRMWARE_RESPONSE", request.fw, request.block)
  <2>1. request \in Requests /\ toController' \in Seq(Requests)
    BY <1>0, <1>1, HeadTailProperties DEF Answer
  <2>2. answer \in Sent
    BY <1>0, <2>1 DEF Message, Sent, Requests, Config
  <2>3. Sends(toNode, toNode', answer, 0)
    BY <1>1 DEF Answer, ToNode
  <2>4. toNode' \in Seq(Sent) /\ lost' \in 0 .. MaxLost /\ faults' \in 0 .. MaxFaults
    BY <1>0, <2>2, <2>3, SendsKeeps
  <2>5. QED
    BY <1>0, <1>1, <2>1, <2>4, OthersKeep DEF Answer
<1>2. CASE Ignore
  <2>1. toController' \in Seq(Requests)
    BY <1>0, <1>2, HeadTailProperties DEF Ignore
  <2>2. QED
    BY <1>0, <1>2, <2>1, OthersKeep DEF Ignore
<1>3. CASE Stop
  <2>1. lost' \in 0 .. MaxLost /\ faults' \in 0 .. MaxFaults
    BY <1>0, <1>3, SpendKeeps DEF Stop
  <2>2. QED
    BY <1>0, <1>3, <2>1, OthersKeep DEF Stop
<1>4. CASE NewFirmware
  <2>1. Message("PRESENTATION", wanted, 0) \in Sent
    BY <1>0 DEF Message, Sent, Config
  <2>2. toNode' \in Seq(Sent) /\ lost' \in 0 .. MaxLost /\ faults' \in 0 .. MaxFaults
    BY <1>0, <1>4, <2>1, SendsKeeps DEF NewFirmware, ToNode
  <2>3. QED
    BY <1>0, <1>4, <2>2, OthersKeep DEF NewFirmware
<1>5. CASE AskPresentation
  <2>1. Message("PRESENTATION", wanted, 0) \in Sent
    BY <1>0 DEF Message, Sent, Config
  <2>2. toNode' \in Seq(Sent)
    BY <1>0, <1>5, <2>1, AppendProperties DEF AskPresentation
  <2>3. lost' \in 0 .. MaxLost /\ faults' \in 0 .. MaxFaults
    BY <1>0, <1>5, SpendKeeps DEF AskPresentation
  <2>4. QED
    BY <1>0, <1>5, <2>2, <2>3, OthersKeep DEF AskPresentation
<1>6. QED
  BY <1>1, <1>2, <1>3, <1>4, <1>5

-----------------------------------------------------------------------------

LEMMA OTAInit == Init => OTAInv
<1> SUFFICES ASSUME Init PROVE OTAInv
  OBVIOUS
<1>1. 1 \in Firmware
  <2>1. Blocks \in Seq(Block) /\ Blocks # <<>>
    BY OTAAssumption
  <2>2. Len(Blocks) \in Nat /\ Len(Blocks) # 0 /\ DOMAIN Blocks = 1 .. Len(Blocks)
    BY <2>1, LenProperties, EmptySeq
  <2>3. QED
    BY <2>2 DEF Firmware
<1>2. TypeOK
  <2>1. fc \in Config /\ eeprom \in Config /\ running \in Firmware /\ wanted \in Firmware
    BY <1>1 DEF Init, Config
  <2>2. fwUpdateOngoing = FALSE /\ due \in BOOLEAN /\ serving \in BOOLEAN
    BY DEF Init
  <2>3. flash \in [Block -> Data \cup {None, Mixed}] /\ header \in Block \cup {0}
    BY DEF Init
  <2>4. /\ fwRetry \in 0 .. MY_OTA_RETRY + 1 /\ pc = "loop"
        /\ lost \in 0 .. MaxLost /\ faults \in 0 .. MaxFaults
    BY OTAAssumption DEF Init
  <2>5. QED
    BY <2>1, <2>2, <2>3, <2>4 DEF TypeOK
<1>3. ChannelsOK
  BY EmptySeq DEF Init, ChannelsOK
<1>4. ImageKept
  BY DEF Init, ImageKept
<1>5. QED
  BY <1>2, <1>3, <1>4 DEF OTAInv

LEMMA OTAStep == OTAInv /\ [Next]_vars => OTAInv'
<1> SUFFICES ASSUME OTAInv, [Next]_vars PROVE OTAInv'
  OBVIOUS
<1>1. CASE Request
  BY <1>1, RequestKeeps
<1>2. CASE GiveUp
  BY <1>2, GiveUpKeeps
<1>3. CASE Handle
  BY <1>3, HandleKeeps
<1>4. CASE Finish
  BY <1>4, FinishKeeps
<1>5. CASE PowerCut
  <2>1. PICK stored \in {eeprom, Torn} : Boot(stored, 1)
    BY <1>5 DEF PowerCut
  <2>2. stored \in Config
    BY <2>1 DEF OTAInv, TypeOK, Config
  <2>3. QED
    BY <2>1, <2>2, BootKeeps
<1>6. CASE Answer \/ Ignore \/ Stop \/ NewFirmware \/ AskPresentation
  BY <1>6, ControllerKeeps
<1>7. CASE UNCHANGED vars
  <2>1. OTAInv /\ UNCHANGED <<download, pc, memory>> /\ toNode' = toNode
        /\ toController' = toController /\ lost' = lost /\ faults' = faults
        /\ wanted' = wanted /\ serving' = serving
    BY <1>7 DEF vars
  <2>2. QED
    BY <2>1, OthersKeep DEF OTAInv, TypeOK, ChannelsOK
<1>8. QED
  BY <1>1, <1>2, <1>3, <1>4, <1>5, <1>6, <1>7 DEF Next

LEMMA OTAInvariant == Spec => []OTAInv
<1>1. Init => OTAInv
  BY OTAInit
<1>2. OTAInv /\ [Next]_vars => OTAInv'
  BY OTAStep
<1>3. QED
  BY <1>1, <1>2, PTL DEF Spec

(* What the node, its flash and its EEPROM hold keeps its type; a download  *)
(* that goes on always has a firmware with a block left to fetch            *)
(* (MyOTAFirmwareUpdate.cpp:33-121).                                        *)
THEOREM OTATypeOK == Spec => []TypeOK
<1>1. OTAInv => TypeOK
  BY DEF OTAInv
<1>2. QED
  BY <1>1, OTAInvariant, PTL

(* A header in the flash stands in front of a whole image, for every number *)
(* of blocks, losses, late answers and power cuts                           *)
(* (MyOTAFirmwareUpdate.cpp:91-108).                                        *)
THEOREM OTAHeaderMeansImage == Spec => []HeaderMeansImage
<1>1. OTAInv => HeaderMeansImage
  BY DEF OTAInv, TypeOK, ImageKept, HeaderMeansImage
<1>2. QED
  BY <1>1, OTAInvariant, PTL

-----------------------------------------------------------------------------
\* Firmwares come up one after the other: no answer on its way is of an older one
\* than the node runs, because a boot forgets what was on its way, and the image
\* that is being fetched is not older either. ConfigNotAhead is inductive with it.
Current == {m \in Sent : m.type = "CONFIG_RESPONSE" => running <= m.fw /\ m.fw <= wanted}

NoneOlder ==
  /\ running <= wanted
  /\ toNode \in Seq(Current)
  /\ fwUpdateOngoing \/ pc # "loop" => running <= fc /\ fc <= wanted

AheadInv == NoneOlder /\ ConfigNotAhead

\* Firmwares are numbered from 1.
LEMMA FirmwareNat == Firmware \subseteq Nat /\ Torn \notin Firmware
<1>1. Blocks \in Seq(Block)
  BY OTAAssumption
<1>2. DOMAIN Blocks = 1 .. Len(Blocks) /\ Len(Blocks) \in Nat
  BY <1>1, LenProperties
<1>3. QED
  BY <1>2, OTAAssumption DEF Firmware

\* What is received is current.
LEMMA ReceivedCurrent ==
  ASSUME NEW type, NoneOlder, Received(type)
  PROVE  /\ toNode' \in Seq(Current) /\ pc = "loop"
         /\ Head(toNode) \in Current /\ Head(toNode).type = type
BY HeadTailProperties DEF Received, NoneOlder

\* What was current stays so while the node runs the same firmware.
LEMMA CurrentKept ==
  ASSUME OTAInv, NEW q \in Seq(Current), running' = running,
         wanted' = wanted \/ wanted' = wanted + 1
  PROVE  q \in Seq(Current')
<1>1. wanted \in Nat
  BY FirmwareNat DEF OTAInv, TypeOK
<1>2. ASSUME NEW m \in Current PROVE m \in Current'
  <2>1. m \in Sent
    BY DEF Current
  <2>2. CASE m.type # "CONFIG_RESPONSE"
    BY <2>1, <2>2 DEF Current
  <2>3. CASE m.type = "CONFIG_RESPONSE"
    <3>1. m.fw \in Firmware /\ running <= m.fw /\ m.fw <= wanted
      BY <2>3 DEF Current, Sent
    <3>2. m.fw \in Nat
      BY <3>1, FirmwareNat
    <3>3. QED
      BY <1>1, <2>1, <3>1, <3>2 DEF Current
  <2>4. QED
    BY <2>2, <2>3
<1>3. QED
  BY <1>2

\* A step that leaves what the node fetches, and its memory, alone.
LEMMA StillNotAhead ==
  ASSUME OTAInv, AheadInv, UNCHANGED <<fc, pc, memory>>,
         fwUpdateOngoing' => fwUpdateOngoing,
         wanted' = wanted \/ wanted' = wanted + 1,
         toNode' \in Seq(Current')
  PROVE  AheadInv'
<1>1. running \in Nat /\ wanted \in Nat
  BY FirmwareNat DEF OTAInv, TypeOK
<1>2. fwUpdateOngoing \/ pc # "loop" => fc \in Nat
  BY FirmwareNat DEF OTAInv, TypeOK, ImageKept
<1>3. NoneOlder'
  <2>1. (running <= wanted)'
    BY <1>1 DEF AheadInv, NoneOlder, memory
  <2>2. (fwUpdateOngoing \/ pc # "loop" => running <= fc /\ fc <= wanted)'
    BY <1>1, <1>2 DEF AheadInv, NoneOlder, memory
  <2>3. QED
    BY <2>1, <2>2 DEF NoneOlder
<1>4. ConfigNotAhead'
  BY DEF AheadInv, ConfigNotAhead, Holds, memory
<1>5. QED
  BY <1>3, <1>4 DEF AheadInv

\* The controller tells of the newest firmware only.
LEMMA ControllerNotAhead ==
  OTAInv /\ AheadInv /\ (Answer \/ Ignore \/ Stop \/ NewFirmware \/ AskPresentation)
    => AheadInv'
<1> SUFFICES ASSUME OTAInv, AheadInv,
                    Answer \/ Ignore \/ Stop \/ NewFirmware \/ AskPresentation
             PROVE  AheadInv'
  OBVIOUS
<1>1. /\ UNCHANGED <<fc, pc, memory>> /\ (fwUpdateOngoing' => fwUpdateOngoing)
      /\ wanted' = wanted \/ wanted' = wanted + 1
  BY DEF Answer, Ignore, Stop, NewFirmware, AskPresentation, download
<1>2. /\ toNode \in Seq(Current') /\ TypeOK
      /\ running' = running /\ running <= wanted /\ wanted \in Nat /\ running \in Nat
      /\ wanted \in Firmware
  BY <1>1, CurrentKept, FirmwareNat DEF AheadInv, NoneOlder, OTAInv, TypeOK, memory
<1>3. toNode' \in Seq(Current')
  <2>1. CASE Answer
    <3> DEFINE request == Head(toController)
               answer == IF request.type = "CONFIG_REQUEST"
                         THEN Message("CONFIG_RESPONSE", wanted, 0)
                         ELSE Message("FIRMWARE_RESPONSE", request.fw, request.block)
    <3>1. request \in Requests
      BY <2>1, HeadTailProperties DEF Answer, OTAInv, ChannelsOK
    <3>2. wanted' = wanted
      BY <2>1 DEF Answer
    <3>3. answer \in Sent
      BY <1>2, <3>1 DEF Message, Sent, Requests, Config
    <3>4. answer.type = "CONFIG_RESPONSE" => answer.fw = wanted
      BY DEF Message
    <3>5. answer \in Current'
      BY <1>2, <3>2, <3>3, <3>4 DEF Current
    <3>6. Sends(toNode, toNode', answer, 0)
      BY <2>1 DEF Answer, ToNode
    <3>7. QED
      BY <1>2, <3>5, <3>6, SendsKeeps
  <2>2. CASE Ignore \/ Stop
    BY <1>2, <2>2 DEF Ignore, Stop
  <2>3. CASE NewFirmware \/ AskPresentation
    <3>1. Message("PRESENTATION", wanted, 0) \in Current'
      BY <1>2 DEF Message, Current, Sent, Config
    <3>2. CASE NewFirmware
      BY <1>2, <3>1, <3>2, SendsKeeps DEF NewFirmware, ToNode
    <3>3. CASE AskPresentation
      BY <1>2, <3>1, <3>3, AppendProperties DEF AskPresentation
    <3>4. QED
      BY <2>3, <3>2, <3>3
  <2>4. QED
    BY <2>1, <2>2, <2>3
<1>4. QED
  BY <1>1, <1>3, StillNotAhead

\* The node takes up a firmware that it was told of, or goes on with the one it has.
LEMMA HandleNotAhead == OTAInv /\ AheadInv /\ Handle => AheadInv'
<1> SUFFICES ASSUME OTAInv, AheadInv, Handle PROVE AheadInv'
  OBVIOUS
<1>1. wanted' = wanted /\ running' = running /\ eeprom' = eeprom
  BY DEF Handle, ConfigKnown, ConfigNew, FlashInitFails, FirmwareBlock, NoUpdateOngoing,
         PresentNode, memory
<1>2. Current' = Current /\ NoneOlder
  BY <1>1 DEF Current, AheadInv
<1>3. CASE ConfigKnown \/ NoUpdateOngoing \/ PresentNode
  <2>1. toNode' \in Seq(Current')
    BY <1>2, <1>3, ReceivedCurrent DEF ConfigKnown, NoUpdateOngoing, PresentNode
  <2>2. UNCHANGED <<fc, pc, memory>> /\ (fwUpdateOngoing' => fwUpdateOngoing)
    BY <1>3 DEF ConfigKnown, NoUpdateOngoing, PresentNode, download
  <2>3. QED
    BY <1>1, <2>1, <2>2, StillNotAhead
<1>4. CASE ConfigNew \/ FlashInitFails \/ FirmwareBlock
  <2>1. pc = "loop" /\ header = 0 /\ header' = 0
    BY <1>4 DEF ConfigNew, FlashInitFails, FirmwareBlock, Received, OTAInv, ImageKept, memory
  <2>2. ConfigNotAhead'
    BY <1>1, <2>1 DEF AheadInv, ConfigNotAhead
  <2>3. toNode' \in Seq(Current')
    BY <1>2, <1>4, ReceivedCurrent DEF ConfigNew, FlashInitFails, FirmwareBlock
  <2>4. (fwUpdateOngoing \/ pc # "loop" => running <= fc /\ fc <= wanted)'
    <3>1. CASE ConfigNew \/ FlashInitFails
      <4>1. Head(toNode) \in Current /\ Head(toNode).type = "CONFIG_RESPONSE"
        BY <1>2, <3>1, ReceivedCurrent DEF ConfigNew, FlashInitFails
      <4>2. QED
        BY <1>1, <3>1, <4>1 DEF ConfigNew, FlashInitFails, Current
    <3>2. CASE FirmwareBlock
      BY <1>1, <1>2, <3>2 DEF FirmwareBlock, NoneOlder
    <3>3. QED
      BY <1>4, <3>1, <3>2
  <2>5. QED
    BY <1>1, <1>2, <2>2, <2>3, <2>4 DEF AheadInv, NoneOlder
<1>5. QED
  BY <1>3, <1>4 DEF Handle

\* The boot loader moves the very image that was fetched: its first block is of no
\* other firmware.
LEMMA BootNotAhead ==
  ASSUME OTAInv, AheadInv, NEW stored \in {eeprom, Torn}, NEW cost, Boot(stored, cost)
  PROVE  AheadInv'
<1>1. /\ eeprom' = stored /\ wanted' = wanted /\ toNode' = <<>> /\ header' = 0
      /\ pc' = "loop" /\ fwUpdateOngoing' = FALSE
  BY DEF Boot
<1>2. wanted \in Nat /\ running \in Nat
  BY FirmwareNat DEF OTAInv, TypeOK
<1>3. eeprom' \in Firmware => eeprom' = eeprom
  BY <1>1, FirmwareNat
<1>4. running' <= wanted /\ (eeprom' \in Firmware => eeprom' <= running')
  <2>1. CASE header = 0
    BY <1>3, <2>1 DEF AheadInv, NoneOlder, ConfigNotAhead, Boot
  <2>2. CASE header # 0
    <3>1. running' \in Firmware /\ Blocks[running'] = header /\ Holds(running')
      BY <2>2 DEF Boot
    <3>2. pc # "loop" /\ fc \in Firmware /\ Holds(fc)
      BY <2>2 DEF OTAInv, ImageKept
    <3>3. ASSUME NEW f \in Firmware, Holds(f) PROVE flash[1] = <<f, 1>>
      <4>1. 1 \in 1 .. Blocks[f]
        BY BlocksOf
      <4>2. QED
        BY <3>3, <4>1 DEF Holds
    <3>4. running' = fc
      BY <3>1, <3>2, <3>3
    <3>5. running <= fc /\ fc <= wanted
      BY <3>2 DEF AheadInv, NoneOlder
    <3>6. ASSUME eeprom' \in Firmware PROVE eeprom' <= running'
      <4>1. eeprom \in Firmware /\ eeprom' = eeprom
        BY <1>3, <3>6
      <4>2. eeprom <= running \/ Holds(eeprom)
        BY <4>1 DEF AheadInv, ConfigNotAhead
      <4>3. eeprom \in Nat /\ fc \in Nat
        BY <3>2, <4>1, FirmwareNat
      <4>4. CASE eeprom <= running
        BY <1>2, <3>4, <3>5, <4>1, <4>3, <4>4
      <4>5. CASE Holds(eeprom)
        <5>1. eeprom = fc
          BY <3>2, <3>3, <4>1, <4>5
        <5>2. QED
          BY <3>4, <4>1, <4>3, <5>1
      <4>6. QED
        BY <4>2, <4>4, <4>5
    <3>7. QED
      BY <3>4, <3>5, <3>6
  <2>3. QED
    BY <2>1, <2>2
<1>5. NoneOlder'
  <2>1. toNode' \in Seq(Current')
    BY <1>1, EmptySeq
  <2>2. QED
    BY <1>1, <1>4, <2>1 DEF NoneOlder
<1>6. QED
  BY <1>4, <1>5 DEF AheadInv, ConfigNotAhead

\* The configuration is written only behind the header of its image.
LEMMA FinishNotAhead == OTAInv /\ AheadInv /\ Finish => AheadInv'
<1> SUFFICES ASSUME OTAInv, AheadInv, Finish PROVE AheadInv'
  OBVIOUS
<1>1. CASE Reboot
  BY <1>1, BootNotAhead DEF Reboot
<1>2. CASE WriteHeader \/ WriteConfig
  <2>1. /\ UNCHANGED <<fc, fwUpdateOngoing, running, wanted, toNode, flash>>
        /\ pc # "loop" /\ pc' # "loop"
    BY <1>2 DEF WriteHeader, WriteConfig, download
  <2>2. NoneOlder'
    <3>1. Current' = Current
      BY <2>1 DEF Current
    <3>2. QED
      BY <2>1, <3>1 DEF AheadInv, NoneOlder
  <2>3. ConfigNotAhead'
    <3>1. CASE WriteHeader
      <4>1. header = 0 /\ eeprom' = eeprom
        BY <3>1 DEF WriteHeader, OTAInv, ImageKept
      <4>2. QED
        BY <2>1, <4>1 DEF AheadInv, ConfigNotAhead
    <3>2. CASE WriteConfig
      <4>1. eeprom' = fc /\ header' = header /\ header = Blocks[fc] /\ fc \in Firmware /\ Holds(fc)
        BY <3>2 DEF WriteConfig, OTAInv, ImageKept
      <4>2. header' # 0
        BY <4>1, BlocksOf
      <4>3. Holds(eeprom)'
        BY <2>1, <4>1 DEF Holds
      <4>4. QED
        BY <4>2, <4>3 DEF ConfigNotAhead
    <3>3. QED
      BY <1>2, <3>1, <3>2
  <2>4. QED
    BY <2>2, <2>3 DEF AheadInv
<1>3. QED
  BY <1>1, <1>2 DEF Finish

LEMMA StepNotAhead == OTAInv /\ AheadInv /\ [Next]_vars => AheadInv'
<1> SUFFICES ASSUME OTAInv, AheadInv, [Next]_vars PROVE AheadInv'
  OBVIOUS
<1>1. CASE Request \/ GiveUp \/ UNCHANGED vars
  <2>1. /\ UNCHANGED <<fc, pc, memory, wanted, toNode>> /\ running' = running
        /\ (fwUpdateOngoing' => fwUpdateOngoing)
    BY <1>1 DEF Request, GiveUp, vars, download, memory
  <2>2. toNode' \in Seq(Current')
    BY <2>1, CurrentKept DEF AheadInv, NoneOlder
  <2>3. QED
    BY <2>1, <2>2, StillNotAhead
<1>2. CASE Handle
  BY <1>2, HandleNotAhead
<1>3. CASE Finish
  BY <1>3, FinishNotAhead
<1>4. CASE PowerCut
  <2>1. PICK stored \in {eeprom, Torn} : Boot(stored, 1)
    BY <1>4 DEF PowerCut
  <2>2. QED
    BY <2>1, BootNotAhead
<1>5. CASE Answer \/ Ignore \/ Stop \/ NewFirmware \/ AskPresentation
  BY <1>5, ControllerNotAhead
<1>6. QED
  BY <1>1, <1>2, <1>3, <1>4, <1>5 DEF Next

(* The configuration a node presents is never ahead of the firmware that    *)
(* runs or is about to, so a firmware is fetched again rather than lost,    *)
(* for every number of firmwares, late answers and power cuts               *)
(* (MyOTAFirmwareUpdate.cpp:99-107).                                        *)
THEOREM OTAConfigNotAhead == Spec => []ConfigNotAhead
<1>1. Init => AheadInv
  <2> SUFFICES ASSUME Init PROVE AheadInv
    OBVIOUS
  <2>1. toNode \in Seq(Current)
    BY EmptySeq DEF Init
  <2>2. QED
    BY <2>1 DEF Init, AheadInv, NoneOlder, ConfigNotAhead
<1>2. OTAInv /\ AheadInv /\ [Next]_vars => AheadInv'
  BY StepNotAhead
<1>3. AheadInv => ConfigNotAhead
  BY DEF AheadInv
<1>4. QED
  BY <1>1, <1>2, <1>3, OTAInvariant, PTL DEF Spec
=============================================================================
