----------------------------- MODULE MotionLight -----------------------------
(***************************************************************************)
(* sketches/MotionLightWithRelay: a node with a motion sensor, a light     *)
(* sensor, a button and a relay. The main loop and a timer interrupt       *)
(* (MsTimer2) send through the same radio: the interrupt may come between  *)
(* any two commands of the main loop to the chip, or inside one, and runs  *)
(* to its end. Interrupts do not nest, and the timer's period is longer    *)
(* than a pass of the loop.                                                *)
(*                                                                         *)
(* The transport is kept to what the sketch and the chip see of it: ready, *)
(* looking for a parent, or failed and waiting for a new start.            *)
(***************************************************************************)
EXTENDS RF24

CONSTANTS
  TRANSMISSION_FAILURES,  \* 5
  MAX_SUBSEQ_MSGS         \* 5

ASSUME MotionLightAssumption ==
  /\ TRANSMISSION_FAILURES \in 0 .. 10
  /\ MAX_SUBSEQ_MSGS \in Nat

\* The messages of the three sensors. The light level is left out, and what
\* the relay is asked to be.
Motion == {"motion"} \X BOOLEAN
Payload == Motion \cup {<<"light">>, <<"relay">>}

VARIABLES
  radio,              \* the chip
  pc,                 \* what the main loop is doing
  at,                 \* its command in RF24_sendMessage(), see Commands
  spi,                \* an SPI command is closed, open, or open and lost
  payload,            \* what it sends
  status,             \* what its poll has read
  running,            \* setup() is over and the timer started
  fired,              \* the timer has fired in this pass of the loop
  transport,          \* the transport's state
  failed,             \* failedUplinkTransmissions
  processed,          \* messages processed in this pass
  movement,           \* the motion sensor's pin
  movement_detected,
  relay_state,
  relay_pin,          \* the relay is on
  cell,               \* the EEPROM cell of saveState(CHILD_ID_RELAY)
  known,              \* the controller's idea of the movement
  acked               \* history: the payload at hand reached the next node

sending == <<at, payload, status>>
relay == <<relay_state, relay_pin, cell>>
vars == <<radio, pc, sending, spi, running, fired, transport, failed, processed,
          movement, movement_detected, relay, known, acked>>

TypeOK ==
  /\ radio \in Radio(Payload)
  /\ pc \in {"process", "fifo", "read", "handle", "save", "movement", "light",
             "button", "send"}
  /\ at \in DOMAIN Commands
  /\ spi \in {"closed", "open", "lost"}
  /\ payload \in Payload \cup {None}
  /\ status \in {None, "tx_ds", "max_rt"}
  /\ running \in BOOLEAN /\ fired \in BOOLEAN
  /\ transport \in {"ok", "parent", "failure"}
  /\ failed \in 0 .. TRANSMISSION_FAILURES + 5
  /\ processed \in 0 .. MAX_SUBSEQ_MSGS
  /\ movement \in BOOLEAN /\ movement_detected \in BOOLEAN
  /\ relay_state \in {0, 1, 255} /\ relay_pin \in BOOLEAN /\ cell \in {0, 1, 255}
  /\ known \in BOOLEAN
  /\ acked \in BOOLEAN

\* A start of the node, with a radio that works.
PowerOn ==
  /\ radio' = RF24_initialize
  /\ pc' = "process" /\ spi' = "closed"
  /\ at' = 1 /\ payload' = None /\ status' = None
  /\ running' = FALSE /\ fired' = FALSE
  /\ transport' = "parent" /\ failed' = 0
  /\ processed' = 0
  /\ movement_detected' = FALSE
  /\ relay_state' = 0 /\ relay_pin' = FALSE
  /\ acked' = FALSE

\* The cell may never have been written.
Init ==
  /\ radio = RF24_initialize
  /\ pc = "process" /\ spi = "closed"
  /\ at = 1 /\ payload = None /\ status = None
  /\ running = FALSE /\ fired = FALSE
  /\ transport = "parent" /\ failed = 0
  /\ processed = 0
  /\ movement \in BOOLEAN /\ movement_detected = FALSE
  /\ relay_state = 0 /\ relay_pin = FALSE /\ cell \in {0, 1, 255}
  /\ known = FALSE
  /\ acked = FALSE

\* What the next node has heard may still not reach the controller.
Learn(heard) ==
  known' \in {known} \cup (IF heard \in Motion THEN {heard[2]} ELSE {})

Counted(n, ok) == IF ok THEN 0 ELSE (n + 1) % 16

-----------------------------------------------------------------------------
\* transportProcess() and, once the transport is ready, setup().

\* A new pass: the state machine has moved, the messages come next.
Pass ==
  /\ pc = "process"
  /\ pc' = "fifo"
  /\ fired' = FALSE
  /\ UNCHANGED <<sending, spi, running, processed, movement, movement_detected,
                 relay, known, acked>>

\* Faulty: failures are counted but never looked at.
StillReadyAnyway ==
  /\ Pass
  /\ transport = "ok"
  /\ UNCHANGED <<radio, transport, failed>>

StillReady ==
  /\ Pass
  /\ transport = "ok" /\ failed <= TRANSMISSION_FAILURES
  /\ UNCHANGED <<radio, transport, failed>>

\* Too many failures: the transport is not ready any more, and then a request
\* for a parent is broadcast, which leaves the radio listening.
NewParent ==
  /\ Pass
  /\ transport = "ok" /\ failed > TRANSMISSION_FAILURES
  /\ transport' = "parent"
  /\ failed' = 0
  /\ radio' = Finished(Prepared(radio, None, "closed"))

StillWaiting ==
  /\ Pass
  /\ transport \in {"parent", "failure"}
  /\ UNCHANGED <<radio, transport, failed>>

\* Parent, id and uplink found: both directions work.
Joined ==
  /\ Pass
  /\ transport = "parent"
  /\ radio.rx_addr # "broken" /\ radio.tx_addr # "broken"
  /\ transport' = "ok"
  /\ failed' = 0
  /\ UNCHANGED radio

NotJoined ==
  /\ Pass
  /\ transport = "parent"
  /\ transport' = "failure"
  /\ radio' = RF24_powerDown(radio)
  /\ UNCHANGED failed

\* Faulty: the driver writes the lowest address byte of a new start only.
StartedAnewByLSB ==
  /\ Pass
  /\ transport = "failure"
  /\ transport' = "parent"
  /\ radio' = [radio EXCEPT !.mode = "PRX", !.ce = TRUE]
  /\ failed' = 0

StartedAnew ==
  /\ Pass
  /\ transport = "failure"
  /\ transport' = "parent"
  /\ radio' = RF24_initialize
  /\ failed' = 0

\* Faulty: the relay starts switched off.
SetupSwitchedOff ==
  /\ pc = "fifo"
  /\ ~running /\ transport = "ok"
  /\ running' = TRUE
  /\ movement_detected' = FALSE
  /\ relay_state' = 0
  /\ relay_pin' = FALSE
  /\ pc' = "process"
  /\ processed' = 0
  /\ UNCHANGED <<radio, sending, spi, fired, transport, failed, movement,
                 cell, known, acked>>

\* receive() may already have been called when setup() runs.
Setup ==
  /\ pc = "fifo"
  /\ ~running /\ transport = "ok"
  /\ running' = TRUE
  /\ movement_detected' = FALSE
  /\ relay_state' = cell
  /\ relay_pin' = (cell # 0)
  /\ pc' = "process"
  /\ processed' = 0
  /\ UNCHANGED <<radio, sending, spi, fired, transport, failed, movement,
                 cell, known, acked>>

-----------------------------------------------------------------------------
\* The messages: the V_LIGHT commands of the controller, which may have come at
\* any time since the last pass. receive() returns from others at once.

FifoDone ==
  /\ pc = "fifo"
  /\ running \/ transport # "ok"
  /\ pc' = IF running THEN "movement" ELSE "process"
  /\ processed' = 0
  /\ UNCHANGED <<radio, sending, spi, running, fired, transport, failed,
                 movement, movement_detected, relay, known, acked>>

ReadStart ==
  /\ pc = "fifo"
  /\ transport # "failure" /\ processed < MAX_SUBSEQ_MSGS
  /\ pc' = "read" /\ spi' = "open"
  /\ processed' = processed + 1
  /\ UNCHANGED <<radio, sending, running, fired, transport, failed,
                 movement, movement_detected, relay, known, acked>>

\* A payload cut by the interrupt reads as anything, or as no message.
ReadEnd ==
  /\ pc = "read"
  /\ spi' = "closed"
  /\ \/ pc' = "handle" /\ relay_state' \in {0, 1}
     \/ spi = "lost" /\ pc' = "fifo" /\ UNCHANGED relay_state
  /\ UNCHANGED <<radio, sending, running, fired, transport, failed, processed, movement,
                 movement_detected, relay_pin, cell, known, acked>>

\* Before setup() the pin is an input and the relay stays off.
Handle ==
  /\ pc = "handle"
  /\ relay_pin' = (running /\ relay_state # 0)
  /\ pc' = "save"
  /\ UNCHANGED <<radio, sending, spi, running, fired, transport, failed, processed,
                 movement, movement_detected, relay_state, cell, known, acked>>

Save ==
  /\ pc = "save"
  /\ cell' = relay_state
  /\ pc' = "fifo"
  /\ UNCHANGED <<radio, sending, spi, running, fired, transport, failed, processed,
                 movement, movement_detected, relay_state, relay_pin, known, acked>>

-----------------------------------------------------------------------------
\* The sensors and the button, and message_send() of the main loop.

\* Without a transport message_send() fails at once.
Send(p, then) ==
  IF transport = "ok"
  THEN /\ pc' = "send"
       /\ at' = 1 /\ payload' = p /\ status' = None
       /\ acked' = FALSE
  ELSE /\ pc' = then
       /\ UNCHANGED <<sending, acked>>

Skip(next) == pc' = next /\ UNCHANGED <<sending, acked>>

unsensed == <<radio, spi, running, fired, transport, failed, processed, movement, relay, known>>

\* Faulty: the end of a movement is not sent.
MovementProcessStart ==
  /\ pc = "movement"
  /\ movement_detected' = (movement \/ movement_detected)
  /\ IF movement /\ ~movement_detected THEN Send(<<"motion", movement>>, "light")
                                     ELSE Skip("light")
  /\ UNCHANGED unsensed

MovementProcess ==
  /\ pc = "movement"
  /\ movement_detected' = movement
  /\ IF movement # movement_detected THEN Send(<<"motion", movement>>, "light")
                                     ELSE Skip("light")
  /\ UNCHANGED unsensed

LightLevelProcess ==
  /\ pc = "light"
  /\ Send(<<"light">>, "button") \/ Skip("button")
  /\ UNCHANGED <<unsensed, movement_detected>>

ButtonProcess ==
  /\ pc = "button"
  /\ Send(<<"relay">>, "process") \/ Skip("process")
  /\ UNCHANGED <<unsensed, movement_detected>>

\* Where the main loop goes on after a send.
After(p) ==
  CASE p \in Motion     -> "light"
    [] p = <<"light">>  -> "button"
    [] p = <<"relay">>  -> "process"

-----------------------------------------------------------------------------
\* RF24_sendMessage() of the main loop, command by command.

command == Commands[at]

unsent == <<running, fired, transport, processed, movement, movement_detected,
            relay, known>>

Result(r) == IF r.tx_ds THEN "tx_ds" ELSE IF r.max_rt THEN "max_rt" ELSE None

\* The chip answers with its status as soon as it is addressed.
CommandStart ==
  /\ pc = "send" /\ spi = "closed" /\ OnSPI(command, status)
  /\ spi' = "open"
  /\ status' = IF command = "poll" THEN Result(radio) ELSE status
  /\ UNCHANGED <<radio, pc, at, payload, failed, acked, unsent>>

\* Another poll: the chip has not answered and is still at work.
PollAgain ==
  /\ command = "poll" /\ status = None
  /\ Transmits(radio) \/ Result(radio) # None

\* What an interrupt has left of a command is ignored by the chip. After the
\* last command the result is counted.
CommandEnd ==
  /\ pc = "send"
  /\ spi # "closed" \/ ~OnSPI(command, status)
  /\ radio' = IF spi = "lost" THEN radio ELSE Executed(command, radio, payload, status)
  /\ spi' = "closed"
  /\ IF at = Len(Commands)
     THEN /\ pc' = After(payload)
          /\ failed' = Counted(failed, status = "tx_ds")
          /\ at' = 1 /\ payload' = None /\ status' = None /\ acked' = FALSE
     ELSE /\ at' = IF PollAgain THEN at ELSE at + 1
          /\ UNCHANGED <<pc, payload, status, failed, acked>>
  /\ UNCHANGED unsent

\* The chip transmits.
Transmit ==
  /\ Transmits(radio)
  /\ \E t \in Transmission(radio) :
       /\ radio' = t.radio
       /\ Learn(t.heard)
       /\ acked' = (t.acked /\ radio.tx_fifo = payload)
  /\ UNCHANGED <<pc, sending, spi, running, fired, transport, failed, processed,
                 movement, movement_detected, relay>>

-----------------------------------------------------------------------------
\* on_send_timer(), in the interrupt.

\* The command the main loop has open, if it is not the reading of a message.
Opened == IF pc = "send" THEN command ELSE "read"

\* The chip as the interrupt finds it, its first write done or swallowed.
Found == IF spi = "open" THEN Spliced(Opened, radio) ELSE {radio}

OnSendTimer ==
  /\ running /\ ~fired
  /\ transport = "ok"
  /\ fired' = TRUE
  /\ \E found \in Found :
       \E motion \in RF24_sendMessage(found, <<"motion", movement_detected>>, spi) :
         \E light \in RF24_sendMessage(motion.radio, <<"light">>, "closed") :
           /\ radio' = light.radio
           /\ Learn(motion.heard)
           /\ failed' = Counted(Counted(failed, motion.ok), light.ok)
  /\ spi' = IF spi = "open" THEN "lost" ELSE spi
  /\ UNCHANGED <<pc, sending, running, transport, processed, movement,
                 movement_detected, relay, acked>>

-----------------------------------------------------------------------------
\* The environment.

MovementChanges ==
  /\ movement' = ~movement
  /\ UNCHANGED <<radio, pc, sending, spi, running, fired, transport, failed, processed,
                 movement_detected, relay, known, acked>>

Restart == PowerOn /\ UNCHANGED <<movement, cell, known>>

TransportProcess ==
  StillReady \/ NewParent \/ StillWaiting \/ Joined \/ NotJoined \/ StartedAnew

MainLoop ==
  \/ TransportProcess
  \/ Setup \/ FifoDone \/ ReadStart \/ ReadEnd \/ Handle \/ Save
  \/ MovementProcess \/ LightLevelProcess \/ ButtonProcess
  \/ CommandStart \/ CommandEnd

Next ==
  \/ MainLoop
  \/ Transmit
  \/ OnSendTimer
  \/ MovementChanges
  \/ Restart

Spec == Init /\ [][Next]_vars

\* The interrupt's motion message reaches the controller.
MotionArrives == OnSendTimer /\ known' = movement_detected

\* The loop, the chip and the timer go on. A search for a parent ends, one that
\* can succeed does in the end, and so does a message that is sent again and
\* again.
FairSpec ==
  /\ Spec
  /\ WF_vars(MainLoop) /\ WF_vars(Transmit) /\ WF_vars(OnSendTimer)
  /\ SF_vars(Joined) /\ SF_vars(Joined \/ NotJoined) /\ SF_vars(StartedAnew)
  /\ SF_vars(MotionArrives)

-----------------------------------------------------------------------------

(* A message the main loop counts as sent has reached the next node, also   *)
(* when the timer interrupt has sent its own in between: the interrupt      *)
(* leaves no result of its own in the status register, and takes the main   *)
(* loop's away (RF24.cpp:173-206, MotionLightWithRelay.ino:156-163).        *)
SuccessIsDelivery ==
  pc = "send" /\ status = "tx_ds" => acked

(* The relay is as the EEPROM says, so that a restart restores it, except   *)
(* between the two writes of receive() (MotionLightWithRelay.ino:61-62,     *)
(* 122-126).                                                                *)
RelayAsSaved ==
  running /\ pc # "save" => relay_pin = (cell # 0)

(* Whatever the interrupt has torn, the radio listens on the node's own     *)
(* address again: lost address bytes make sends fail until the transport    *)
(* starts anew (MyTransport.cpp:174-204, RF24.cpp:256-305).                 *)
RadioRecovers == []<>Listening(radio)

(* A movement that goes on, or stays away, is known to the controller in    *)
(* the end: the timer repeats what a lost message has said                  *)
(* (MotionLightWithRelay.ino:130-163).                                      *)
MovementReported ==
  \A v \in BOOLEAN : <>[](running /\ movement = v) => <>[](known = v)
=============================================================================
