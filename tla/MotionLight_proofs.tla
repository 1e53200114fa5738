-------------------------- MODULE MotionLight_proofs --------------------------
(***************************************************************************)
(* Proofs about the radio that the main loop and the timer interrupt share,*)
(* the relay, and the count of failed sends, for every limit of failures   *)
(* and of messages.                                                        *)
(***************************************************************************)
EXTENDS MotionLight, TLAPS

SendTypes ==
  /\ radio \in Radio(Payload)
  /\ at \in 1 .. 14 /\ status \in {None, "tx_ds", "max_rt"}
  /\ pc = "send" => payload \in Payload
  /\ spi \in {"closed", "open", "lost"}
  /\ pc \notin {"read", "send"} => spi = "closed"
  /\ movement \in BOOLEAN /\ movement_detected \in BOOLEAN

\* Outside of RF24_sendMessage() there is nothing to transmit with and no old
\* result.
Quiet == pc # "send" => radio.mode # "PTX" /\ ~radio.tx_ds

\* Inside, CE is low where the FIFO holds something else than the payload, and
\* a result in the status register is that of the payload.
Busy ==
  pc = "send" =>
    /\ at = 1 => radio.mode # "PTX"
    /\ at \in 2 .. 5 \cup 10 .. 14 => (radio.ce => radio.tx_fifo = None)
    /\ at = 6 => radio.tx_fifo = None
    /\ at >= 7 => radio.tx_fifo \in {None, payload}
    /\ at >= 13 => radio.mode # "PTX"
    /\ radio.tx_ds => acked /\ radio.tx_fifo = None /\ at \in 7 .. 10
    /\ status = "tx_ds" => acked /\ radio.tx_fifo = None /\ at >= 8
    /\ spi = "lost" => radio.mode # "PTX" /\ radio.tx_fifo = None /\ ~radio.tx_ds

SendInv == SendTypes /\ Quiet /\ Busy

-----------------------------------------------------------------------------

LEMMA CommandsAre ==
  /\ Len(Commands) = 14 /\ DOMAIN Commands = 1 .. 14
  /\ Commands[1] = "ce_stop" /\ Commands[2] = "ptx" /\ Commands[3] = "rx_next"
  /\ Commands[4] = "tx_next" /\ Commands[5] = "flush" /\ Commands[6] = "payload"
  /\ Commands[7] = "ce_high" /\ Commands[8] = "poll" /\ Commands[9] = "ce_idle"
  /\ Commands[10] = "clear" /\ Commands[11] = "flush_failed" /\ Commands[12] = "prx"
  /\ Commands[13] = "rx_own" /\ Commands[14] = "ce_listen"
BY DEF Commands

LEMMA InitialRadio == RF24_initialize \in Radio(Payload)
BY DEF RF24_initialize, Radio

LEMMA SplicedRadio ==
  ASSUME NEW r \in Radio(Payload), NEW c, NEW s \in Spliced(c, r)
  PROVE  s \in Radio(Payload)
BY DEF Spliced, Radio

LEMMA ExecutedRadio ==
  ASSUME NEW r \in Radio(Payload), NEW p \in Payload, NEW result, NEW i \in 1 .. 14
  PROVE  Executed(Commands[i], r, p, result) \in Radio(Payload)
<1>1. /\ \A b \in BOOLEAN : [r EXCEPT !.ce = b] \in Radio(Payload)
      /\ \A m \in {"PRX", "PTX"} : [r EXCEPT !.mode = m] \in Radio(Payload)
      /\ \A f \in {None, p} : [r EXCEPT !.tx_fifo = f] \in Radio(Payload)
  BY DEF Radio
<1>2. /\ \A a \in {"next", "own"} : [r EXCEPT !.rx_addr = SetLSB(@, a)] \in Radio(Payload)
      /\ [r EXCEPT !.tx_addr = SetLSB(@, "next")] \in Radio(Payload)
      /\ [r EXCEPT !.tx_ds = FALSE, !.max_rt = FALSE] \in Radio(Payload)
  BY DEF Radio, SetLSB
<1>3. CASE i \in {1, 2, 7, 8, 9, 12, 14}
  BY <1>1, <1>3, CommandsAre DEF Executed
<1>4. CASE i \in {3, 4, 10, 13}
  BY <1>2, <1>4, CommandsAre DEF Executed
<1>5. CASE i \in {5, 6, 11}
  BY <1>1, <1>5, CommandsAre DEF Executed
<1>6. QED
  BY <1>3, <1>4, <1>5

LEMMA TransmissionResult ==
  ASSUME NEW r \in Radio(Payload), NEW t \in Transmission(r)
  PROVE  /\ t.radio \in Radio(Payload) /\ t.acked \in BOOLEAN
         /\ \/ /\ t.acked
               /\ t.radio = [r EXCEPT !.tx_ds = TRUE, !.tx_fifo = None]
            \/ t.radio = [r EXCEPT !.max_rt = TRUE]
         /\ t.radio.max_rt \/ t.radio.tx_fifo = None
<1>1. PICK o \in [heard : BOOLEAN, acked : BOOLEAN] :
        t = [radio |-> IF o.acked THEN [r EXCEPT !.tx_ds = TRUE, !.tx_fifo = None]
                                  ELSE [r EXCEPT !.max_rt = TRUE],
             heard |-> IF o.heard THEN r.tx_fifo ELSE None,
             acked |-> o.acked]
  BY DEF Transmission
<1>2. CASE o.acked
  BY <1>1, <1>2 DEF Radio
<1>3. CASE ~o.acked
  BY <1>1, <1>3 DEF Radio
<1>4. QED
  BY <1>2, <1>3

LEMMA PreparedRadio ==
  ASSUME NEW r \in Radio(Payload), NEW p \in Payload \cup {None}, NEW bus
  PROVE  LET ready == Prepared(r, p, bus)
         IN  /\ ready \in Radio(Payload) /\ ready.tx_fifo = p /\ ready.ce
             /\ bus # "open" => ready.mode = "PTX"
             /\ ready.tx_ds = r.tx_ds /\ ready.max_rt = r.max_rt
BY DEF Prepared, Radio, SetLSB

LEMMA FinishedRadio ==
  ASSUME NEW s \in Radio(Payload)
  PROVE  /\ Finished(s) \in Radio(Payload)
         /\ Finished(s).mode = "PRX" /\ ~Finished(s).tx_ds /\ ~Finished(s).max_rt
         /\ s.max_rt \/ s.tx_fifo = None => Finished(s).tx_fifo = None
BY DEF Finished, Radio, SetLSB

\* Whatever it finds, a whole RF24_sendMessage() leaves the chip receiving and
\* without a result; if there was none before, it also leaves nothing to send.
LEMMA WholeSendLeaves ==
  ASSUME NEW r \in Radio(Payload), NEW p \in Payload, NEW bus,
         NEW x \in RF24_sendMessage(r, p, bus)
  PROVE  /\ x.radio \in Radio(Payload)
         /\ x.radio.mode = "PRX" /\ ~x.radio.tx_ds /\ ~x.radio.max_rt
         /\ bus # "open" /\ ~r.tx_ds /\ ~r.max_rt => x.radio.tx_fifo = None
<1> DEFINE ready == Prepared(r, p, bus)
<1>1. /\ ready \in Radio(Payload) /\ ready.tx_fifo = p /\ ready.ce
      /\ bus # "open" => ready.mode = "PTX"
      /\ ready.tx_ds = r.tx_ds /\ ready.max_rt = r.max_rt
  BY PreparedRadio
<1>2. ASSUME NEW t \in Transmission(ready)
      PROVE  t.radio \in Radio(Payload) /\ (t.radio.max_rt \/ t.radio.tx_fifo = None)
  BY <1>1, TransmissionResult
<1>3. CASE Transmits(ready)
  <2>1. PICK t \in Transmission(ready) : x.radio = Finished(t.radio)
    BY <1>3 DEF RF24_sendMessage
  <2>2. QED
    BY FinishedRadio, <1>2, <2>1
<1>4. CASE ~Transmits(ready)
  <2>1. x.radio = Finished(ready)
    BY <1>4 DEF RF24_sendMessage
  <2>2. bus # "open" /\ ~r.tx_ds /\ ~r.max_rt => p = None
    BY <1>1, <1>4 DEF Transmits
  <2>3. QED
    BY <1>1, FinishedRadio, <2>1, <2>2
<1>5. QED
  BY <1>3, <1>4

-----------------------------------------------------------------------------
\* One lemma for each part of the main loop that touches the radio.

\* Steps that leave the radio and what is being sent alone.
LEMMA RestKeeps ==
  ASSUME SendInv, pc # "send", pc' # "send", UNCHANGED <<radio, sending>>,
         spi' \in {"closed", "open", "lost"}, pc' # "read" => spi' = "closed",
         movement' \in BOOLEAN, movement_detected' \in BOOLEAN
  PROVE  SendInv'
BY DEF SendInv, SendTypes, Quiet, Busy, sending

LEMMA TransportKeeps == SendInv /\ TransportProcess => SendInv'
<1> SUFFICES ASSUME SendInv, TransportProcess PROVE SendInv'
  OBVIOUS
<1>1. /\ pc = "process" /\ pc' = "fifo" /\ UNCHANGED <<sending, spi>>
      /\ UNCHANGED <<movement, movement_detected>>
  BY DEF TransportProcess, StillReady, NewParent, StillWaiting, Joined, NotJoined,
         StartedAnew, Pass
<1>2. radio' \in Radio(Payload) /\ radio'.mode # "PTX" /\ ~radio'.tx_ds
  <2>1. radio \in Radio(Payload) /\ radio.mode # "PTX" /\ ~radio.tx_ds
    BY <1>1 DEF SendInv, SendTypes, Quiet
  <2>2. CASE radio' = radio
    BY <2>1, <2>2
  <2>3. CASE NewParent
    BY <2>1, <2>3, PreparedRadio, FinishedRadio DEF NewParent
  <2>4. CASE NotJoined
    BY <2>1, <2>4 DEF NotJoined, RF24_powerDown, Radio
  <2>5. CASE StartedAnew
    BY <2>5 DEF StartedAnew, RF24_initialize, Radio
  <2>6. QED
    BY <2>2, <2>3, <2>4, <2>5 DEF TransportProcess, StillReady, StillWaiting, Joined
<1>3. QED
  BY <1>1, <1>2 DEF SendInv, SendTypes, Quiet, Busy, sending

\* A send starts with its first command.
LEMMA SendsKeep ==
  ASSUME SendInv, pc \notin {"read", "send"},
         NEW p \in Payload, NEW then, then \notin {"read", "send"},
         Send(p, then) \/ Skip(then),
         radio' = radio, spi' = spi, movement' = movement, movement_detected' \in BOOLEAN
  PROVE  SendInv'
<1>1. CASE pc' = "send"
  <2>1. at' = 1 /\ payload' = p /\ status' = None /\ status' # "tx_ds"
    BY <1>1, NoneAssumption DEF Send, Skip
  <2>2. radio.mode # "PTX" /\ ~radio.tx_ds /\ spi = "closed"
    BY DEF SendInv, Quiet, SendTypes
  <2>3. SendTypes'
    BY <1>1, <2>1, <2>2 DEF SendInv, SendTypes
  <2>4. Quiet' /\ Busy'
    BY <1>1, <2>1, <2>2 DEF Quiet, Busy
  <2>5. QED
    BY <2>3, <2>4 DEF SendInv
<1>2. CASE pc' # "send"
  <2>1. UNCHANGED sending /\ pc' = then
    BY <1>2 DEF Send, Skip
  <2>2. QED
    BY <1>2, <2>1, RestKeeps DEF SendInv, SendTypes
<1>3. QED
  BY <1>1, <1>2

LEMMA SensorsKeep ==
  SendInv /\ (MovementProcess \/ LightLevelProcess \/ ButtonProcess) => SendInv'
<1> SUFFICES ASSUME SendInv, MovementProcess \/ LightLevelProcess \/ ButtonProcess
             PROVE  SendInv'
  OBVIOUS
<1>1. CASE MovementProcess
  <2>1. /\ pc \notin {"read", "send"} /\ radio' = radio /\ spi' = spi /\ movement' = movement
        /\ movement_detected' \in BOOLEAN /\ <<"motion", movement>> \in Payload
    BY <1>1 DEF MovementProcess, unsensed, SendInv, SendTypes, Payload, Motion
  <2>2. QED
    BY <1>1, <2>1, SendsKeep DEF MovementProcess
<1>2. CASE LightLevelProcess
  <2>1. /\ pc \notin {"read", "send"} /\ radio' = radio /\ spi' = spi /\ movement' = movement
        /\ movement_detected' \in BOOLEAN /\ <<"light">> \in Payload
    BY <1>2 DEF LightLevelProcess, unsensed, SendInv, SendTypes, Payload
  <2>2. QED
    BY <1>2, <2>1, SendsKeep DEF LightLevelProcess
<1>3. CASE ButtonProcess
  <2>1. /\ pc \notin {"read", "send"} /\ radio' = radio /\ spi' = spi /\ movement' = movement
        /\ movement_detected' \in BOOLEAN /\ <<"relay">> \in Payload
    BY <1>3 DEF ButtonProcess, unsensed, SendInv, SendTypes, Payload
  <2>2. QED
    BY <1>3, <2>1, SendsKeep DEF ButtonProcess
<1>4. QED
  BY <1>1, <1>2, <1>3

LEMMA CommandStartKeeps == SendInv /\ CommandStart => SendInv'
<1> SUFFICES ASSUME SendInv, CommandStart PROVE SendInv'
  OBVIOUS
<1>1. /\ radio' = radio /\ pc = "send" /\ pc' = "send" /\ spi' = "open" /\ at' = at /\ payload' = payload
      /\ acked' = acked /\ movement' = movement /\ movement_detected' = movement_detected
  BY DEF CommandStart, unsent
<1>2. CASE command = "poll"
  <2>1. at = 8
    BY <1>2, CommandsAre DEF SendInv, SendTypes, command
  <2>2. /\ status' \in {None, "tx_ds", "max_rt"}
        /\ status' = "tx_ds" => radio.tx_ds \/ None = "tx_ds"
    BY <1>2 DEF CommandStart, Result
  <2>3. QED
    BY <1>1, <2>1, <2>2, NoneAssumption DEF SendInv, SendTypes, Quiet, Busy
<1>3. CASE command # "poll"
  <2>1. status' = status
    BY <1>3 DEF CommandStart
  <2>2. QED
    BY <1>1, <2>1 DEF SendInv, SendTypes, Quiet, Busy
<1>4. QED
  BY <1>2, <1>3

\* The command that is cut is lost; the interrupt has done what it would have.
LEMMA CommandEndKeeps == SendInv /\ CommandEnd => SendInv'
<1> SUFFICES ASSUME SendInv, CommandEnd PROVE SendInv'
  OBVIOUS
<1> DEFINE r == radio
<1>1. /\ pc = "send" /\ spi' = "closed" /\ r \in Radio(Payload) /\ payload \in Payload
      /\ at \in 1 .. 14 /\ status \in {None, "tx_ds", "max_rt"}
      /\ movement' \in BOOLEAN /\ movement_detected' \in BOOLEAN
  BY DEF SendInv, SendTypes, CommandEnd, unsent
<1>2. \/ spi = "lost" /\ radio' = r
      \/ radio' = Executed(Commands[at], r, payload, status)
  BY DEF CommandEnd, command
<1>3. radio' \in Radio(Payload)
  BY <1>1, <1>2, CommandsAre, ExecutedRadio
<1>4. CASE at = 14
  <2>1. /\ pc' # "read" /\ pc' # "send"
        /\ at' = 1 /\ status' = None
    BY <1>1, <1>4, CommandsAre DEF CommandEnd, After, Payload
  <2>2. radio'.mode # "PTX" /\ ~radio'.tx_ds
    <3>1. r.mode # "PTX" /\ ~r.tx_ds
      BY <1>1, <1>4 DEF SendInv, Busy
    <3>2. QED
      BY <1>1, <1>2, <1>4, <3>1, CommandsAre DEF Executed, Radio
  <2>3. QED
    BY <1>1, <1>3, <2>1, <2>2 DEF SendInv, SendTypes, Quiet, Busy
<1>5. CASE at # 14
  <2>1. /\ pc' = "send" /\ payload' = payload /\ status' = status /\ acked' = acked
        /\ at' = at + 1 \/ (at = 8 /\ at' = 8)
    BY <1>1, <1>5, CommandsAre DEF CommandEnd, PollAgain, command, SendInv, SendTypes
  <2>2. SendTypes'
    BY <1>1, <1>3, <1>5, <2>1 DEF SendTypes
  <2>3. Quiet'
    BY <2>1 DEF Quiet
  <2>4. Busy'
    <3>1. CASE spi = "lost" /\ radio' = r
      BY <1>1, <1>5, <2>1, <3>1 DEF SendInv, Busy
    <3> DEFINE Run(i) == at = i /\ radio' = Executed(Commands[i], r, payload, status)
    <3>2. CASE Run(1)
      BY <1>1, <2>1, <3>2, CommandsAre DEF Executed, Radio, SendInv, Busy
    <3>3. CASE Run(2) \/ Run(3) \/ Run(4)
      BY <1>1, <2>1, <3>3, CommandsAre DEF Executed, Radio, SendInv, Busy
    <3>4. CASE Run(5) \/ Run(6)
      BY <1>1, <2>1, <3>4, CommandsAre DEF Executed, Radio, SendInv, Busy
    <3>5. CASE Run(7) \/ Run(8)
      BY <1>1, <2>1, <3>5, CommandsAre DEF Executed, Radio, SendInv, Busy
    <3>6. CASE Run(9)
      BY <1>1, <2>1, <3>6, CommandsAre DEF Executed, Radio, SendInv, Busy
    <3>9. CASE Run(10)
      <4>1. radio' = [r EXCEPT !.tx_ds = FALSE, !.max_rt = FALSE] /\ at' = 11 /\ at = 10
        BY <2>1, <3>9, CommandsAre DEF Executed
      <4>2. /\ ~radio'.tx_ds /\ radio'.ce = r.ce /\ radio'.tx_fifo = r.tx_fifo
        BY <1>1, <4>1 DEF Radio
      <4>3. QED
        BY <1>1, <2>1, <4>1, <4>2 DEF SendInv, Busy
    <3>7. CASE Run(11) \/ Run(12) \/ Run(13)
      BY <1>1, <2>1, <3>7, CommandsAre DEF Executed, Radio, SendInv, Busy
    <3>8. QED
      BY <1>1, <1>2, <1>5, <3>1, <3>2, <3>3, <3>4, <3>5, <3>6, <3>7, <3>9
  <2>5. QED
    BY <2>2, <2>3, <2>4 DEF SendInv
<1>6. QED
  BY <1>4, <1>5

\* What the chip transmits is the payload at hand.
LEMMA TransmitKeeps == SendInv /\ Transmit => SendInv'
<1> SUFFICES ASSUME SendInv, Transmit PROVE SendInv'
  OBVIOUS
<1>1. /\ pc = "send" /\ at \in 7 .. 9 /\ radio.tx_fifo = payload
      /\ status # "tx_ds" /\ spi # "lost" /\ ~radio.tx_ds
  BY DEF Transmit, Transmits, SendInv, SendTypes, Quiet, Busy
<1>2. PICK t \in Transmission(radio) :
        radio' = t.radio /\ acked' = (t.acked /\ radio.tx_fifo = payload)
  BY DEF Transmit
<1>3. UNCHANGED <<pc, sending, spi, movement, movement_detected>>
  BY DEF Transmit
<1>4. radio \in Radio(Payload)
  BY DEF SendInv, SendTypes
<1>5. /\ radio' \in Radio(Payload)
      /\ \/ acked' /\ radio' = [radio EXCEPT !.tx_ds = TRUE, !.tx_fifo = None]
         \/ radio' = [radio EXCEPT !.max_rt = TRUE]
  BY <1>1, <1>2, <1>4, TransmissionResult
<1>6. SendTypes'
  BY <1>3, <1>5 DEF SendInv, SendTypes, sending
<1>7. Quiet'
  BY <1>1, <1>3 DEF Quiet
<1>8. Busy'
  <2>1. CASE acked' /\ radio' = [radio EXCEPT !.tx_ds = TRUE, !.tx_fifo = None]
    <3>1. radio'.tx_fifo = None
      BY <1>4, <2>1 DEF Radio
    <3>2. QED
      BY <1>1, <1>3, <2>1, <3>1 DEF Busy, sending
  <2>2. CASE radio' = [radio EXCEPT !.max_rt = TRUE]
    <3>1. radio'.tx_fifo = payload /\ ~radio'.tx_ds
      BY <1>1, <1>4, <2>2 DEF Radio
    <3>2. QED
      BY <1>1, <1>3, <3>1 DEF Busy, sending
  <2>3. QED
    BY <1>5, <2>1, <2>2
<1>9. QED
  BY <1>6, <1>7, <1>8 DEF SendInv

\* The interrupt leaves the chip receiving and nothing to transmit: a message of
\* the main loop that it comes upon is not sent, and not counted as sent.
LEMMA OnSendTimerKeeps == SendInv /\ OnSendTimer => SendInv'
<1> SUFFICES ASSUME SendInv, OnSendTimer PROVE SendInv'
  OBVIOUS
<1>1. PICK found \in Found :
       \E motion \in RF24_sendMessage(found, <<"motion", movement_detected>>, spi) :
         \E light \in RF24_sendMessage(motion.radio, <<"light">>, "closed") :
           radio' = light.radio
  BY DEF OnSendTimer
<1>2. PICK motion \in RF24_sendMessage(found, <<"motion", movement_detected>>, spi) :
       \E light \in RF24_sendMessage(motion.radio, <<"light">>, "closed") :
         radio' = light.radio
  BY <1>1
<1>20. PICK light \in RF24_sendMessage(motion.radio, <<"light">>, "closed") :
         radio' = light.radio
  BY <1>2
<1>3. /\ radio \in Radio(Payload)
      /\ <<"motion", movement_detected>> \in Payload /\ <<"light">> \in Payload
  BY DEF SendInv, SendTypes, Payload, Motion
<1>4. found \in Radio(Payload)
  BY <1>3, SplicedRadio DEF Found
<1>5. motion.radio \in Radio(Payload) /\ ~motion.radio.tx_ds /\ ~motion.radio.max_rt
  BY <1>2, <1>3, <1>4, WholeSendLeaves
<1>6. /\ radio' \in Radio(Payload) /\ radio'.mode = "PRX"
      /\ ~radio'.tx_ds /\ radio'.tx_fifo = None
  <2>1. light \in RF24_sendMessage(motion.radio, <<"light">>, "closed")
    BY <1>20
  <2>2. /\ light.radio \in Radio(Payload) /\ light.radio.mode = "PRX"
        /\ ~light.radio.tx_ds /\ light.radio.tx_fifo = None
    BY <1>3, <1>5, <2>1, WholeSendLeaves
  <2>3. QED
    BY <1>20, <2>2
<1>7. /\ UNCHANGED <<pc, sending, movement, movement_detected, acked>>
      /\ spi' = IF spi = "open" THEN "lost" ELSE spi
  BY DEF OnSendTimer
<1>8. SendTypes'
  BY <1>6, <1>7 DEF SendInv, SendTypes, sending
<1>9. Quiet' /\ Busy'
  BY <1>6, <1>7 DEF SendInv, SendTypes, Quiet, Busy, sending
<1>10. QED
  BY <1>8, <1>9 DEF SendInv

-----------------------------------------------------------------------------

LEMMA SendInit == Init => SendInv
<1> SUFFICES ASSUME Init PROVE SendInv
  OBVIOUS
<1>1. SendTypes
  <2>1. radio \in Radio(Payload) /\ movement \in BOOLEAN /\ movement_detected \in BOOLEAN
    BY InitialRadio DEF Init
  <2>2. at = 1 /\ status = None /\ pc = "process" /\ spi = "closed"
    BY DEF Init
  <2>3. QED
    BY <2>1, <2>2 DEF SendTypes
<1>2. Quiet /\ Busy
  BY DEF Init, Quiet, Busy, RF24_initialize
<1>3. QED
  BY <1>1, <1>2 DEF SendInv

LEMMA SendStep == SendInv /\ [Next]_vars => SendInv'
<1> SUFFICES ASSUME SendInv, [Next]_vars PROVE SendInv'
  OBVIOUS
<1>0. movement \in BOOLEAN /\ movement_detected \in BOOLEAN /\ spi \in {"closed", "open", "lost"}
      /\ (pc \notin {"read", "send"} => spi = "closed")
  BY DEF SendInv, SendTypes
<1>1. CASE TransportProcess
  BY <1>1, TransportKeeps
<1>2. CASE Setup \/ FifoDone \/ ReadStart \/ ReadEnd \/ Handle \/ Save
  <2>1. /\ pc # "send" /\ pc' # "send" /\ UNCHANGED <<radio, sending>>
        /\ spi' \in {"closed", "open", "lost"} /\ (pc' # "read" => spi' = "closed")
        /\ movement' \in BOOLEAN /\ movement_detected' \in BOOLEAN
    BY <1>0, <1>2 DEF Setup, FifoDone, ReadStart, ReadEnd, Handle, Save
  <2>2. QED
    BY <2>1, RestKeeps
<1>3. CASE MovementProcess \/ LightLevelProcess \/ ButtonProcess
  BY <1>3, SensorsKeep
<1>4. CASE CommandStart
  BY <1>4, CommandStartKeeps
<1>5. CASE CommandEnd
  BY <1>5, CommandEndKeeps
<1>6. CASE Transmit
  BY <1>6, TransmitKeeps
<1>7. CASE OnSendTimer
  BY <1>7, OnSendTimerKeeps
<1>8. CASE MovementChanges \/ UNCHANGED vars
  <2>1. /\ UNCHANGED <<radio, pc, sending, spi, acked>>
        /\ movement' \in BOOLEAN /\ movement_detected' \in BOOLEAN
    BY <1>0, <1>8 DEF MovementChanges, vars
  <2>2. QED
    BY <2>1 DEF SendInv, SendTypes, Quiet, Busy, sending
<1>9. CASE Restart
  <2>1. SendTypes'
    <3>1. radio' \in Radio(Payload) /\ movement' \in BOOLEAN /\ movement_detected' \in BOOLEAN
      BY <1>0, <1>9, InitialRadio DEF Restart, PowerOn
    <3>2. at' = 1 /\ status' = None /\ pc' = "process" /\ spi' = "closed"
      BY <1>9 DEF Restart, PowerOn
    <3>3. QED
      BY <3>1, <3>2 DEF SendTypes
  <2>2. Quiet' /\ Busy'
    BY <1>9 DEF Restart, PowerOn, Quiet, Busy, RF24_initialize
  <2>3. QED
    BY <2>1, <2>2 DEF SendInv
<1>10. QED
  BY <1>1, <1>2, <1>3, <1>4, <1>5, <1>6, <1>7, <1>8, <1>9 DEF Next, MainLoop

LEMMA SendInvariant == Spec => []SendInv
<1>1. Init => SendInv
  BY SendInit
<1>2. SendInv /\ [Next]_vars => SendInv'
  BY SendStep
<1>3. QED
  BY <1>1, <1>2, PTL DEF Spec

(* A message the main loop counts as sent has reached the next node,        *)
(* wherever the interrupt comes, inside a command as well as between two,   *)
(* and however often (RF24.cpp:173-206).                                    *)
THEOREM MotionSuccessIsDelivery == Spec => []SuccessIsDelivery
<1>1. SendInv => SuccessIsDelivery
  BY DEF SendInv, Busy, SuccessIsDelivery
<1>2. QED
  BY <1>1, SendInvariant, PTL

-----------------------------------------------------------------------------

\* While receive() is between its writes, the relay is as the message says.
RelayInv ==
  /\ RelayAsSaved
  /\ pc = "save" => relay_pin = (running /\ relay_state # 0)

LEMMA RelayStep == SendInv /\ RelayInv /\ [Next]_vars => RelayInv'
<1> SUFFICES ASSUME SendInv, RelayInv, [Next]_vars PROVE RelayInv'
  OBVIOUS
<1>1. CASE Setup
  BY <1>1 DEF Setup, RelayInv, RelayAsSaved
<1>2. CASE Handle
  BY <1>2 DEF Handle, RelayInv, RelayAsSaved
<1>3. CASE Save
  BY <1>3 DEF Save, RelayInv, RelayAsSaved
<1>4. CASE ReadEnd \/ ReadStart \/ FifoDone
  BY <1>4 DEF ReadEnd, ReadStart, FifoDone, RelayInv, RelayAsSaved, relay
<1>5. CASE TransportProcess
  <2>1. Pass
    BY <1>5 DEF TransportProcess, StillReady, NewParent, StillWaiting, Joined, NotJoined,
                StartedAnew
  <2>2. QED
    BY <2>1 DEF Pass, RelayInv, RelayAsSaved, relay
<1>6. CASE MovementProcess \/ LightLevelProcess \/ ButtonProcess
  BY <1>6 DEF MovementProcess, LightLevelProcess, ButtonProcess, Send, Skip, unsensed,
              RelayInv, RelayAsSaved, relay
<1>7. CASE CommandStart
  BY <1>7 DEF CommandStart, unsent, RelayInv, RelayAsSaved, relay
<1>8. CASE CommandEnd
  <2>1. UNCHANGED <<running, relay>> /\ pc = "send"
    BY <1>8 DEF CommandEnd, unsent
  <2>2. running => relay_pin = (cell # 0)
    BY <2>1 DEF RelayInv, RelayAsSaved
  <2>3. pc' # "save"
    <3>1. payload \in Payload
      BY <2>1 DEF SendInv, SendTypes
    <3>2. After(payload) # "save"
      BY <3>1 DEF After, Payload
    <3>3. QED
      BY <1>8, <2>1, <3>2 DEF CommandEnd
  <2>4. QED
    BY <2>1, <2>2, <2>3 DEF RelayInv, RelayAsSaved, relay
<1>9. CASE Transmit \/ OnSendTimer \/ MovementChanges \/ UNCHANGED vars
  <2>1. UNCHANGED <<pc, running, relay>>
    BY <1>9 DEF Transmit, OnSendTimer, MovementChanges, vars
  <2>2. QED
    BY <2>1 DEF RelayInv, RelayAsSaved, relay
<1>10. CASE Restart
  BY <1>10 DEF Restart, PowerOn, RelayInv, RelayAsSaved
<1>11. QED
  BY <1>1, <1>2, <1>3, <1>4, <1>5, <1>6, <1>7, <1>8, <1>9, <1>10 DEF Next, MainLoop

(* A restart restores the relay: what EEPROM holds is what the relay shows, *)
(* except between the two writes of receive()                               *)
(* (MotionLightWithRelay.ino:61-62, 122-126).                               *)
THEOREM MotionRelayAsSaved == Spec => []RelayAsSaved
<1>1. Init => RelayInv
  BY DEF Init, RelayInv, RelayAsSaved
<1>2. SendInv /\ RelayInv /\ [Next]_vars => RelayInv'
  BY RelayStep
<1>3. RelayInv => RelayAsSaved
  BY DEF RelayInv
<1>4. QED
  BY <1>1, <1>2, <1>3, SendInvariant, PTL DEF Spec

-----------------------------------------------------------------------------

\* How often the main loop may have sent in this pass when it gets there.
SendsBy(where) ==
  CASE where = "light"   -> 1
    [] where = "button"  -> 2
    [] where = "process" -> 3
    [] OTHER             -> 0

SendsDone(where, what) ==
  IF where = "send" THEN SendsBy(After(what)) - 1 ELSE SendsBy(where)

\* How often the interrupt has sent in it.
TimerSends(begun) == IF begun THEN 2 ELSE 0

\* A pass begins with no more failures than the transport puts up with; the
\* main loop adds three at most, and the interrupt two.
Counting ==
  /\ failed \in Nat
  /\ transport # "ok" => failed = 0 /\ pc # "send"
  /\ failed <= TRANSMISSION_FAILURES + SendsDone(pc, payload) + TimerSends(fired)

MotionInv == SendInv /\ TypeOK /\ Counting

LEMMA AfterIs ==
  /\ \A p \in Motion : After(p) = "light"
  /\ After(<<"light">>) = "button"
  /\ After(<<"relay">>) = "process"
<1>1. <<"light">> \notin Motion /\ <<"relay">> \notin Motion /\ <<"light">> # <<"relay">>
  BY DEF Motion
<1>2. \A p \in Motion : p # <<"light">> /\ p # <<"relay">>
  BY <1>1
<1>3. QED
  BY <1>1, <1>2 DEF After

LEMMA SendsAre ==
  /\ SendsBy("light") = 1 /\ SendsBy("button") = 2 /\ SendsBy("process") = 3
  /\ \A w \in {"fifo", "read", "handle", "save", "movement", "send"} : SendsBy(w) = 0
BY DEF SendsBy

Places == {"process", "fifo", "read", "handle", "save", "movement", "light", "button", "send"}

LEMMA SendsBounded ==
  ASSUME NEW where \in Places, NEW what, where = "send" => what \in Payload
  PROVE  SendsDone(where, what) \in 0 .. 3
<1>1. CASE where = "send"
  <2>1. what \in Motion \/ what = <<"light">> \/ what = <<"relay">>
    BY <1>1 DEF Payload
  <2>2. QED
    BY <1>1, <2>1, AfterIs, SendsAre DEF SendsDone
<1>2. CASE where # "send"
  BY <1>2, SendsAre DEF Places, SendsDone
<1>3. QED
  BY <1>1, <1>2

LEMMA CountedBound ==
  ASSUME NEW n \in Nat, NEW ok
  PROVE  Counted(n, ok) \in 0 .. n + 1
BY DEF Counted

LEMMA CountingStep == MotionInv /\ [Next]_vars => Counting'
<1> SUFFICES ASSUME MotionInv, [Next]_vars PROVE Counting'
  OBVIOUS
<1> USE DEF MotionInv
<1>0. /\ SendsDone(pc, payload) \in 0 .. 3 /\ TRANSMISSION_FAILURES \in 0 .. 10 /\ failed \in Nat
      /\ TimerSends(fired) \in 0 .. 2
  BY SendsBounded, MotionLightAssumption
     DEF Counting, TypeOK, TimerSends, SendInv, SendTypes, Places
<1>1. CASE TransportProcess
  <2>1. pc = "process" /\ pc' = "fifo" /\ TimerSends(fired') = 0 /\ SendsDone(pc', payload') = 0
    BY <1>1, SendsAre
       DEF TransportProcess, StillReady, NewParent, StillWaiting, Joined, NotJoined, StartedAnew,
           Pass, SendsDone, TimerSends
  <2>2. failed' \in Nat /\ failed' <= TRANSMISSION_FAILURES /\ (transport' # "ok" => failed' = 0)
    BY <1>0, <1>1
       DEF TransportProcess, StillReady, NewParent, StillWaiting, Joined, NotJoined, StartedAnew,
           Counting
  <2>3. QED
    BY <1>0, <2>1, <2>2 DEF Counting
<1>2. CASE Setup \/ FifoDone \/ ReadStart \/ ReadEnd \/ Handle \/ Save
  <2>1. failed' = failed /\ transport' = transport /\ TimerSends(fired') = TimerSends(fired)
    BY <1>2 DEF Setup, FifoDone, ReadStart, ReadEnd, Handle, Save, TimerSends
  <2>2. pc' # "send" /\ SendsDone(pc, payload) = 0 /\ SendsDone(pc', payload') \in 0 .. 3
    BY <1>2, SendsAre DEF Setup, FifoDone, ReadStart, ReadEnd, Handle, Save, SendsDone
  <2>3. QED
    BY <1>0, <2>1, <2>2 DEF Counting
<1>3. CASE MovementProcess \/ LightLevelProcess \/ ButtonProcess
  <2>1. failed' = failed /\ transport' = transport /\ TimerSends(fired') = TimerSends(fired)
    BY <1>3 DEF MovementProcess, LightLevelProcess, ButtonProcess, unsensed, TimerSends
  <2>2. SendsDone(pc', payload') \in 0 .. 3 /\ SendsDone(pc', payload') >= SendsDone(pc, payload)
    <3>1. CASE MovementProcess
      <4>1. SendsDone(pc, payload) = 0
        BY <3>1, SendsAre DEF MovementProcess, SendsDone
      <4>2. <<"motion", movement>> \in Motion
        BY DEF TypeOK, Motion
      <4>3. QED
        BY <3>1, <4>1, <4>2, AfterIs, SendsAre DEF MovementProcess, Send, Skip, SendsDone
    <3>2. CASE LightLevelProcess
      BY <3>2, AfterIs, SendsAre DEF LightLevelProcess, Send, Skip, SendsDone
    <3>3. CASE ButtonProcess
      BY <3>3, AfterIs, SendsAre DEF ButtonProcess, Send, Skip, SendsDone
    <3>4. QED
      BY <1>3, <3>1, <3>2, <3>3
  <2>3. pc' = "send" => transport = "ok"
    BY <1>3 DEF MovementProcess, LightLevelProcess, ButtonProcess, Send, Skip
  <2>4. QED
    BY <1>0, <2>1, <2>2, <2>3 DEF Counting
<1>4. CASE CommandStart \/ Transmit \/ MovementChanges \/ UNCHANGED vars
  <2>1. /\ pc' = pc /\ payload' = payload /\ failed' = failed
        /\ transport' = transport /\ TimerSends(fired') = TimerSends(fired)
    BY <1>4 DEF CommandStart, Transmit, MovementChanges, vars, unsent, sending, TimerSends
  <2>2. SendsDone(pc', payload') = SendsDone(pc, payload)
    BY <2>1 DEF SendsDone, After
  <2>3. QED
    BY <1>0, <2>1, <2>2 DEF Counting
<1>5. CASE CommandEnd
  <2>1. /\ pc = "send" /\ transport' = transport /\ TimerSends(fired') = TimerSends(fired)
        /\ transport = "ok"
    BY <1>5 DEF CommandEnd, unsent, Counting, TimerSends
  <2>2. CASE at = Len(Commands)
    <3>1. pc' = After(payload) /\ failed' = Counted(failed, status = "tx_ds")
      BY <1>5, <2>2 DEF CommandEnd
    <3>2. SendsDone(pc', payload') = SendsDone(pc, payload) + 1
      <4>1. payload \in Motion \/ payload = <<"light">> \/ payload = <<"relay">>
        BY <2>1 DEF SendInv, SendTypes, Payload
      <4>2. After(payload) \in {"light", "button", "process"}
        BY <4>1, AfterIs
      <4>3. QED
        BY <2>1, <3>1, <4>2, SendsAre DEF SendsDone
    <3>3. failed' \in 0 .. failed + 1
      BY <1>0, <3>1, CountedBound
    <3>4. QED
      BY <1>0, <2>1, <3>2, <3>3 DEF Counting
  <2>3. CASE at # Len(Commands)
    <3>1. UNCHANGED <<pc, payload, failed>>
      BY <1>5, <2>3 DEF CommandEnd
    <3>2. SendsDone(pc', payload') = SendsDone(pc, payload)
      BY <3>1 DEF SendsDone, After
    <3>3. QED
      BY <1>0, <2>1, <3>1, <3>2 DEF Counting
  <2>4. QED
    BY <2>2, <2>3
<1>6. CASE OnSendTimer
  <2>1. /\ TimerSends(fired) = 0 /\ TimerSends(fired') = 2 /\ transport = "ok"
        /\ UNCHANGED <<pc, payload, transport>>
    BY <1>6 DEF OnSendTimer, sending, TimerSends
  <2>2. PICK a, b : failed' = Counted(Counted(failed, a), b)
    BY <1>6 DEF OnSendTimer
  <2>3. failed' \in 0 .. failed + 2
    BY <1>0, <2>2, CountedBound
  <2>4. SendsDone(pc', payload') = SendsDone(pc, payload)
    BY <2>1 DEF SendsDone, After
  <2>5. QED
    BY <1>0, <2>1, <2>3, <2>4 DEF Counting
<1>7. CASE Restart
  <2>1. pc' = "process" /\ failed' = 0 /\ TimerSends(fired') = 0
    BY <1>7 DEF Restart, PowerOn, TimerSends
  <2>2. QED
    BY <1>0, <2>1, SendsAre DEF SendsDone, Counting
<1>8. QED
  BY <1>1, <1>2, <1>3, <1>4, <1>5, <1>6, <1>7 DEF Next, MainLoop

LEMMA LearnKeeps ==
  ASSUME known \in BOOLEAN, NEW heard, Learn(heard)
  PROVE  known' \in BOOLEAN
BY DEF Learn, Motion

LEMMA TypeStep == MotionInv /\ SendInv' /\ Counting' /\ [Next]_vars => TypeOK'
<1> SUFFICES ASSUME MotionInv, SendInv', Counting', [Next]_vars PROVE TypeOK'
  OBVIOUS
<1> USE DEF MotionInv
<1> DEFINE Rest ==
      /\ pc \in Places
      /\ payload \in Payload \cup {None}
      /\ running \in BOOLEAN /\ fired \in BOOLEAN
      /\ transport \in {"ok", "parent", "failure"}
      /\ processed \in 0 .. MAX_SUBSEQ_MSGS
      /\ relay_state \in {0, 1, 255} /\ relay_pin \in BOOLEAN /\ cell \in {0, 1, 255}
      /\ known \in BOOLEAN
      /\ acked \in BOOLEAN
<1>0. Rest /\ MAX_SUBSEQ_MSGS \in Nat
  BY MotionLightAssumption DEF TypeOK, Places
<1>1. Rest'
  <2>1. CASE TransportProcess
    <3>1. Pass /\ transport' \in {"ok", "parent", "failure"}
      BY <1>0, <2>1
         DEF TransportProcess, StillReady, NewParent, StillWaiting, Joined, NotJoined, StartedAnew
    <3>2. pc' \in Places /\ fired' \in BOOLEAN
      BY <3>1 DEF Pass, Places
    <3>3. UNCHANGED <<payload, running, processed, relay_state, relay_pin, cell, known, acked>>
      BY <3>1 DEF Pass, sending, relay
    <3>4. QED
      BY <1>0, <3>1, <3>2, <3>3
  <2>2. CASE Setup
    BY <1>0, <2>2 DEF Setup, Places, sending
  <2>3. CASE FifoDone \/ ReadStart
    BY <1>0, <2>3 DEF FifoDone, ReadStart, Places, sending, relay
  <2>4. CASE ReadEnd \/ Handle \/ Save
    <3>1. UNCHANGED <<payload, running, fired, transport, processed, known, acked>>
      BY <2>4 DEF ReadEnd, Handle, Save, sending
    <3>2. pc' \in Places /\ relay_pin' \in BOOLEAN
      BY <1>0, <2>4 DEF ReadEnd, Handle, Save, Places
    <3>3. relay_state' \in {0, 1, 255} /\ cell' \in {0, 1, 255}
      BY <1>0, <2>4 DEF ReadEnd, Handle, Save
    <3>4. QED
      BY <1>0, <3>1, <3>2, <3>3
  <2>5. CASE MovementProcess \/ LightLevelProcess \/ ButtonProcess
    <3>1. UNCHANGED <<running, fired, transport, processed, relay_state, relay_pin, cell, known>>
      BY <2>5 DEF MovementProcess, LightLevelProcess, ButtonProcess, unsensed, relay
    <3>2. pc' \in Places /\ acked' \in BOOLEAN
      BY <1>0, <2>5
         DEF MovementProcess, LightLevelProcess, ButtonProcess, Send, Skip, Places
    <3>3. payload' \in Payload \cup {None}
      <4>1. <<"motion", movement>> \in Payload
        BY DEF TypeOK, Payload, Motion
      <4>2. <<"light">> \in Payload /\ <<"relay">> \in Payload
        BY DEF Payload
      <4>3. QED
        BY <1>0, <2>5, <4>1, <4>2
           DEF MovementProcess, LightLevelProcess, ButtonProcess, Send, Skip, sending
    <3>4. QED
      BY <1>0, <3>1, <3>2, <3>3
  <2>6. CASE CommandStart \/ MovementChanges \/ UNCHANGED vars
    BY <1>0, <2>6 DEF CommandStart, MovementChanges, vars, unsent, Places, sending, relay
  <2>7. CASE CommandEnd
    <3>1. /\ UNCHANGED <<running, fired, transport, processed, relay_state, relay_pin, cell, known>>
          /\ acked' \in BOOLEAN /\ payload' \in {None, payload}
      BY <1>0, <2>7 DEF CommandEnd, unsent, relay
    <3>2. pc' \in Places
      <4>1. payload \in Motion \/ payload = <<"light">> \/ payload = <<"relay">>
        BY <2>7 DEF CommandEnd, SendInv, SendTypes, Payload
      <4>2. After(payload) \in Places
        BY <4>1, AfterIs DEF Places
      <4>3. QED
        BY <1>0, <2>7, <4>2 DEF CommandEnd
    <3>3. QED
      BY <1>0, <3>1, <3>2
  <2>8. CASE Transmit
    <3>1. PICK t \in Transmission(radio) : Learn(t.heard) /\ acked' \in BOOLEAN
      BY <2>8 DEF Transmit
    <3>2. known' \in BOOLEAN
      BY <1>0, <3>1, LearnKeeps
    <3>3. QED
      BY <1>0, <2>8, <3>1, <3>2 DEF Transmit, Places, sending, relay
  <2>9. CASE OnSendTimer
    <3>1. PICK heard : Learn(heard)
      BY <2>9 DEF OnSendTimer
    <3>2. known' \in BOOLEAN
      BY <1>0, <3>1, LearnKeeps
    <3>3. QED
      BY <1>0, <2>9, <3>2 DEF OnSendTimer, Places, sending, relay
  <2>10. CASE Restart
    <3>1. /\ pc' = "process" /\ payload' = None /\ transport' = "parent" /\ processed' = 0
          /\ relay_state' = 0 /\ cell' = cell /\ known' = known
      BY <2>10 DEF Restart, PowerOn
    <3>2. /\ running' \in BOOLEAN /\ fired' \in BOOLEAN /\ relay_pin' \in BOOLEAN
          /\ acked' \in BOOLEAN
      BY <2>10 DEF Restart, PowerOn
    <3>3. QED
      BY <1>0, <3>1, <3>2 DEF Places
  <2>11. QED
    BY <2>1, <2>2, <2>3, <2>4, <2>5, <2>6, <2>7, <2>8, <2>9, <2>10 DEF Next, MainLoop
<1>2. failed' \in 0 .. TRANSMISSION_FAILURES + 5
  <2>1. SendsDone(pc', payload') \in 0 .. 3
    BY <1>1, SendsBounded DEF SendInv, SendTypes
  <2>2. TimerSends(fired') \in 0 .. 2
    BY DEF TimerSends
  <2>3. QED
    BY <2>1, <2>2, MotionLightAssumption DEF Counting
<1>3. at' \in DOMAIN Commands
  BY CommandsAre DEF SendInv, SendTypes
<1>4. QED
  BY <1>1, <1>2, <1>3 DEF SendInv, SendTypes, TypeOK, Places

(* Every variable keeps its type; in particular the 4-bit count of failed   *)
(* sends never goes round, since the transport looks at it once per pass    *)
(* (MyTransport.cpp:176-183, 333-337, MyTransport.h:75).                    *)
THEOREM MotionTypeOK == Spec => []TypeOK
<1>1. Init => MotionInv
  <2>1. ASSUME Init PROVE TypeOK /\ Counting
    <3>1. SendsDone(pc, payload) = 3 /\ TimerSends(fired) = 0
      BY <2>1, SendsAre DEF Init, SendsDone, TimerSends
    <3>2. Counting
      BY <2>1, <3>1, MotionLightAssumption DEF Init, Counting
    <3>3. TypeOK
      <4>1. /\ radio \in Radio(Payload) /\ at \in DOMAIN Commands
            /\ failed \in 0 .. TRANSMISSION_FAILURES + 5 /\ processed \in 0 .. MAX_SUBSEQ_MSGS
        BY <2>1, InitialRadio, CommandsAre, MotionLightAssumption DEF Init
      <4>2. /\ running \in BOOLEAN /\ fired \in BOOLEAN /\ movement \in BOOLEAN
            /\ movement_detected \in BOOLEAN /\ relay_pin \in BOOLEAN /\ known \in BOOLEAN
            /\ acked \in BOOLEAN
        BY <2>1, Zenon DEF Init
      <4>3. QED
        BY <2>1, <4>1, <4>2 DEF Init, TypeOK
    <3>4. QED
      BY <3>2, <3>3
  <2>2. QED
    BY <2>1, SendInit DEF MotionInv
<1>2. MotionInv /\ [Next]_vars => MotionInv'
  BY SendStep, CountingStep, TypeStep DEF MotionInv
<1>3. MotionInv => TypeOK
  BY DEF MotionInv
<1>4. QED
  BY <1>1, <1>2, <1>3, PTL DEF Spec
=============================================================================
