# A TLA+ model of the smart house nodes

The repository holds the firmware of several Arduino nodes of a home: sketches
(`src/sketches`), the small libraries they share (`src/libraries/NewButton`,
`src/libraries/LEDFader`), the vendored MySensors network stack and unit tests
with a mocked Arduino. The specifications here model the three nodes with the most
logic of their own (the kitchen light, the dimmer, the motion light), the two
libraries they are built on, and of MySensors what decides whether a node works at
all: the way it finds to the gateway, the radio it shares with an interrupt, and the
firmware update. `PROJECT.json` lists, for every definition, the lines it models.

## 1. Inventory

All code of a node runs in one main loop (`MyMainDefault.cpp`): `_begin()`, which
starts MySensors and calls the sketch's `setup()`, and then for ever `_process()`,
which delivers messages to the sketch's `receive()`, followed by the sketch's
`loop()`. Only the two interrupts of the dimmer and the timer of the motion light
interleave with it at a finer grain.

| Part | State | Operations | Correct when |
|---|---|---|---|
| NewButton | pin, press time, previous and current press status | `process()` polled by the loop; callbacks for press and release, short and long | a callback reports the time the button was held; press and release agree; long follows short |
| LEDFader | colour, target, last step, interval, duration | `fade`, `set_value`, `stop_fade`, `slower`, `faster`; `update()` polled by the loop | a fade follows its line, never leaves its range, ends on its target and in its time |
| Kitchen: LEDs | four faders, a transition per light | `leds_*_fade`, `leds_start_transition`, `leds_process` | a light does what was reported last; a loop turns back when all channels arrived |
| Kitchen: button | button mode | short release, long press | the modes go round; both lights switched consistently |
| Kitchen: networking, parsing | `errno` | V_LIGHT and V_VAR1 for two lights | every well-formed command is carried out |
| Kitchen: storage | limits of both sources, RAM and EEPROM | save, load | EEPROM holds the limits; they survive a restart |
| LightSwitchAC: control | actual, limit and target level, button direction, EEPROM cell | V_LIGHT_LEVEL, V_LIGHT, short and long press, one step per pass | the status sent is what the lamp does; the limit is kept and survives a restart |
| LightSwitchAC: triac | `zero_cross`, `step_counter`, gate | zero-crossing interrupt, timer interrupt | the gate rises at the angle of the level in every half wave |
| LightSwitchAC: relays | one bit each | message, short release | not modelled (section 7) |
| MotionLightWithRelay | relay state and its cell, motion, light level | messages, loop, timer interrupt that sends | the relay survives a restart; the controller learns of a movement |
| RF24 driver | registers and FIFO of the chip | send, listen, initialise, power down | "sent" means received; the chip always listens again |
| MySensors transport | state machine, parent, distance, routes, ping, failure counter | parent search, id, uplink check, routing, failure and new start | every node gets ready and reachable; a parent is another station; a check of the uplink counts for the search it belongs to |
| MySensors OTA update | configuration, block and retry counters, flash, EEPROM | request, block, header, configuration, reboot | only whole images are booted; the controller's firmware is installed |
| MySensors core | nothing the sketches read | presentation and the `wait()` in it | a node that presents itself inside another wait is not confused |
| Gateways | the link to the controller | requests of the controller | modelled as far as `Transport` needs it |
| Signing, inclusion, other drivers, logging, timers | | | not modelled (section 7) |

How the parts interact: the loop polls the button and the faders; the button
calls back into the sketch, which starts fades, saves limits and sends statuses;
messages do the same through `receive()`; MySensors and the kitchen's storage
share EEPROM cells without knowing of each other; the dimmer's loop and its
interrupts share `dimmer.actual`; the motion light's loop and its timer share the
radio chip and MySensors' failure counter; nodes exchange messages over the air, which
repeaters pass on, and a node may handle one, or run its whole state machine, while it waits
for another.

What is hard here: commands from the controller, presses of the button and steps
of a fade come in any order, and each of them must undo what the others started;
polling is late by an unknown time; the clock wraps; arithmetic is on bytes and
unsigned longs; a node restarts at any moment; four channels of one light arrive
at different times; messages and acknowledges are lost, answers come after the wait for
them, and the power goes between two writes that belong together.
`PROJECT.json` ("hazards") names each of these at its line.

## 2. Modules

| Module | Models | Built on |
|---|---|---|
| `Millis` | `millis()` and the unsigned subtraction of times | |
| `ButtonCallbacks` | statuses of a press and the callback that goes with each change | |
| `ButtonProtocol` | abstract: what a button promises to the sketch | `ButtonCallbacks` |
| `NewButton` | `NewButton.cpp`: edges, hold time, callbacks | `Millis`, refines `ButtonProtocol` |
| `FaderChannel` | one LED channel without a clock | |
| `FaderSpec` | abstract: what a fader promises | `FaderChannel` |
| `LEDFader` | `LEDFader.cpp`: commands and `update()` | `Millis`, refines `FaderSpec` |
| `Parsing` | which V_VAR1 payloads are accepted; `errno` | |
| `Kitchen` | the whole kitchen node | `FaderChannel`, `ButtonCallbacks`, `Parsing` |
| `MCKitchen` | constants for TLC | `Kitchen` |
| `DimmerLevels` | the levels of the dimmer, shared by the next two | |
| `LightSwitchAC` | the control of the dimmer | `DimmerLevels`, `ButtonCallbacks` |
| `PhaseCut` | its two interrupts against a moving level | `DimmerLevels` |
| `LightSwitch` | both together: the loop under its interrupts | `LightSwitchAC`, refines `PhaseCut` |
| `RF24` | `RF24.cpp` and the chip: the commands of a send | |
| `MotionLight` | the motion light: loop, timer interrupt, relay, transport in short | `RF24` |
| `Transport` | `MyTransport.cpp`: a gateway and the nodes that find their way to it | |
| `OTA` | `MyOTAFirmwareUpdate.cpp` and the controller | |
| `MCOTA` | constants for TLC | `OTA` |
| `*_proofs` | theorems about the module of the same name; `LightSwitch_proofs` has those about `LightSwitchAC`, too | TLAPS |

The composition goes through the abstract specifications: `NewButton` is checked
(and proved) to implement `ButtonProtocol`, `LEDFader` is checked (and proved) to
implement `FaderSpec`, and the control of the dimmer is checked and proved to be what `PhaseCut`
takes the main loop for; the nodes use `Polled`/`Callback` and `Updated`/`FadeTo`/`SetTo`,
the steps of those two abstractions, in place of the detailed components. Two
restrictions come with it: the sketches are modelled for a button that is not held
for a whole period of the clock (49.7 days), and for fades longer than
`MIN_INTERVAL`, which the parser and the sketch's constants guarantee.

### State and actions

* `NewButton`: one variable per member; `Process` is one call of `process()`,
  split by the edge it sees; `PinChange` is the world (it may bounce between two
  polls) and `Tick` is a millisecond. `hold` counts, independently of the code's
  arithmetic, how long the button has been seen down.
* `LEDFader`: one variable per member; `Update` is `update()` with its three
  outcomes, `Command` everything a sketch calls. `start`, `requested`, `age` are
  history: where and when the fade started and what it was given. `set_value()`
  under a fade starts that history anew, because the code goes on from there.
  `updated` says whether the last step was an update: only a command of the
  sketch may make a channel jump, which `FaderSpec` tells apart by it. `odd_calls`
  of `NewButton` counts the callbacks modulo 2, so that none is made twice unseen.
* `Kitchen`: `pc` says whether the loop is still delivering messages or about to
  step the LEDs. `Receive` is `receive()` for one message, `ButtonProcess` is
  `button.process()` with its callback, `LedsStep` is `leds_process()`: an update
  of each channel, then the loop transition of each light. `Restart` is power
  loss at any moment followed by `_begin()` and `setup()`; `TransportInit` is
  MySensors starting its transport again after losing the gateway, which writes
  the node id. `saved` and `lit_by` are history: a limit was saved, and whose limit
  a light was last switched on with. Channels fade independently, so the abstract `Updated` lets each of
  them wait, move or arrive in every iteration.
* `LightSwitchAC`: `DimmerStep`/`DimmerWait` are `dimmer_process()` with the delay
  over or not; `pc` separates it from the poll of the button.
* `PhaseCut`: each interrupt is one action (they do not nest), the main loop's
  step of the one-byte level comes at any time between them. The timer is not
  synchronous with the mains: a half wave has `HalfWave` steps or one less.

* `LightSwitch`: every step of the control is one of `LightSwitchAC`, every
  interrupt one of `PhaseCut`, over the same `actual`; a restart is one of both.
* `MotionLight`: `pc` is the position of the main loop: the messages (`fifo`, `read`,
  `handle`, `save`), the three sensors, or inside `RF24_sendMessage()` (`send`, with
  `at` the next of its fourteen commands). A command on the SPI bus is two steps,
  `CommandStart` and `CommandEnd`; `OnSendTimer` may come between any two steps and
  runs to its end, two sends with everything they do to the chip. Between the two
  halves its first write is swallowed by the open command (`Spliced`): a mode that is
  switched, address bytes that no later write restores, because the driver sets
  only the lowest byte. `acked` is history: the payload at hand has reached the
  next node.
* `Transport`: `node[n]` is the state of a station, `inbox[n]` what its radio will
  still give it. One action per state and outcome (`ParentFound`, `ParentRetry`,
  ...), `Process` for a message of any kind, and `UplinkChecked`, `AskerChecked`, `Presented`
  for the return of a wait: `waits` is the stack of waits that have not returned. In a
  `transportWait()` messages are handled and further waits begin. In the `wait()` of
  `presentNode()`, which the controller asks for (`AskPresentation`) at any time, also
  inside other waits, the state machine runs as well (`Updates`): a ready node that pings before
  it answers the search of another may lose its uplink there and search itself before
  that ping has returned. `SanityFails` is the check of a repeater's radio, which `transportProcessFIFO()` makes
  before it reads messages, in the loop or in a wait: it goes to "failure" under whatever waits.
* `OTA`: `Request`/`GiveUp` are `firmwareOTAUpdateRequest()`, the actions of `Handle`
  `firmwareOTAUpdateProcess()` for each kind of message, and `WriteHeader`, `WriteConfig`,
  `Reboot` the three steps after a complete image, so that the power can go between
  them. `flash` says which block of which firmware stands in each place.

Definitions whose comment starts with "Faulty:" are variants of the definition
after them as a plausible mistake would have left it (a dropped guard, a missing
reset). Nothing in the specifications uses them; each breaks one property, which
shows that the property depends on the code being as it is.

### Abstractions

* `LEDFader` computes in exact arithmetic where the code uses `float`; with
  colours up to 255 and times up to minutes a float step is exact to far less
  than the half unit that rounding decides on. `percent_done`, which only
  `get_progress()` reads and no sketch calls, and the output curve are left out.
  `update()` reads `millis()` twice within one call; here it is one reading.
* A payload is a record of what its conversion gives (`Parsing`): length right or
  wrong, value per channel, time that fits, is too short or overflows. Letters
  that are no hex digits give 0 in the code and are covered by the value.
* A message that cannot be sent is only logged by every sketch, so "reported"
  means handed to MySensors. An EEPROM write that fails is only logged, too.
* `dimmer.delay` sets the pace only and is left out: a pass may or may not step.
* `MotionLight`. The interrupt's bytes in an open command are lost or become its data as
  a whole, not bit by bit; a command that has been cut is ignored by the chip from
  there on. The update of `failedUplinkTransmissions` is atomic. The timer fires at
  most once in a pass of the loop, since its period (54 s) is far longer. A send that
  the driver has ended before the chip's 130 us of settling are over transmits
  nothing. Commands for the relay arrive at any time. The values of the light level
  and of the button's message are left out, and so is the EEPROM's wear. Parent,
  id and uplink are one step here (`Joined`), which needs a radio with whole addresses.
* `Transport`. `inbox` is the air and the receive FIFO together, three messages deep; a
  message there is handled at any later time, so the limit of messages per pass
  (`MAX_SUBSEQ_MSGS`) needs no counter. Which ids the controller gives out is external.
  One message to the gateway stands for those of a presentation. The sanity check fails at any
  time, as a fault. In "failure" the radio hears nothing, and that state lasts
  longer than any wait (`TIMEOUT_FAILURE_STATE` is 10 s, a wait 2 s): `StartedAnew` comes when none is left.
  Not in the model: a static or preferred parent, the id that says the network is full,
  requested acknowledges, I_CHILDREN (clearing the routes), I_DISCOVER, the other internal messages
  and signing. All
  stations start from "failure" rather than from "init", which does the same. A
  result of a ping, and whether the last check is recent, are forgotten where
  nothing reads them any more. A node sends a report of its own only when the air is
  quiet.
* `OTA`. A block is the pair of its firmware and its number, and the CRC of the code
  tells the wanted image from any other. Messages keep their order. The controller
  and the boot loader are external: the controller answers every request, and presents
  newer firmwares; the boot loader moves an image with a header and erases the flash.

## 3. Runs

All passing runs finish within two minutes. Deadlock is checked in every one but `ota`,
where everything may really come to rest: all firmwares installed, all budgets used.

| Run | Bounds | Shows |
|---|---|---|
| `button` | clock period 11, short 2, long 5, polls up to 3 ms apart | the callbacks report the time held and the press time that goes with it, in the promised order; a long press is reported in the end |
| `fader` | clock period 19, colours 0..3, times 2, 5, 7, interval 2, polls up to 2 ms apart | a fade stays within one unit of its line, keeps its time, ends, and implements `FaderSpec` |
| `kitchen` | a colour channel and white, colours 0..2; a limit for each light and source, a loop, a refused payload | off means dark, lit at the limit of whoever lit it, EEPROM holds the limits |
| `kitchen_loops` | two colour channels and white, colours 0..2; a loop in which both colours move, a one-shot for each light, a refused payload | transitions stay on course and turn back without a jump |
| `kitchen_live` | one channel per light, colours 0 and 1, one looping transition | a light that is off becomes dark; a loop never stops pulsing |
| `kitchen_restart` | one channel per light | violated: limits do not survive a restart |
| `kitchen_errno` | one channel per light | violated: a well-formed command is refused |
| `switch` | off at 5, dimmest at 3, bytes of 8 values, half wave of 8 steps | status, limit, EEPROM, toggle, settling; the gate never rises early and, at a steady level, rises in time, under the real main loop |
| `dimmer_level` | off at 8, dimmest at 6, bytes of 16 values | violated: a level above 100 is reported |
| `motion` | one failure before a new parent is looked for, one message per pass | a send of the main loop that succeeds is delivered, the relay is as saved, the radio recovers, movements are reported |
| `transport` | a gateway, two repeaters, one with an id to ask for and an uplink that may get out of range, which the controller also asks to present itself; one retry, one failure, two messages per FIFO, three nested waits, one fault or presentation | parents are other stations, a ready node is linked, a check of the uplink belongs to the search it ends; every node becomes ready with a way up and a way down |
| `ota` | three firmwares of 1, 2 and 3 blocks, two retries, two lost blocks, three other faults | only whole images are booted; the EEPROM is never ahead; downloads end; the last firmware runs |

Why the bounds are enough. The clock period is chosen just above the sum of the
times involved, so that the clock wraps inside a press and inside a fade, at every
position; in `button` it is short enough for the button to be held for more than
a whole period, the one case in which a long press falls back. `PollGap` is
larger than the short time and than a fade's interval, so that polls skip a status and
steps come late. Three colours are the least with
which a channel can be between its ends, and two colour channels the least with
which one can be there while another has arrived: `kitchen_loops` has both. The
limits need no second colour channel, for two lights with two sources already
differ in every way the code can confuse. The payloads of the runs together reach
each command of the parser, a refused payload and one that overflows. For liveness two
colours will do: an update may leave a fading channel where it is for as long as
the fairness allows. In the dimmer, the boundaries the code compares with are off,
dimmest, brightest and the end of the byte; the run has one level or more between any two
of them. In `motion`, one failure is enough for the transport to change its state, and
the interrupt comes again in every pass. In `transport` two repeaters are the
least with which one can be the other's parent and waits can nest, and the uplink that may go forces a node to change its parent while the other still has
routes through it; a fault of any kind may come at any moment, and the faults follow up on
each other, as a lost acknowledge leads to a new search. A request for presentation costs
one unit of the same budget. The FIFO has two places instead of three, so that it
fills, and sends fail, without a fault as well. `MaxWaits` is not reached: four waits
give the same number of states as three. For `LinkSound` alone the model was also
explored with two nodes that ask for an id (932 000 states). In `ota` the firmwares differ in length in both directions of a mix-up, the
longest is more blocks than can get lost, and three faults let a power cut,
a block that comes too late and a request for presentation meet.

What the interesting properties say:

* `EventMatchesHold`, `TimeKept`: a press is classified by the time it was held,
  across the wrap. A press first seen in the one millisecond in which `millis()`
  is 0 is lost, because 0 stands for "not pressed"; the properties except it.
* `FollowsTheLine`: each step is computed from what is left, so that its rounding is
  shared out over the rest of the fade: what adds up is at most half a unit per interval
  gone by, and nothing is left at the end. `FadeKeepsTime`: neither do late polls.
* `OffMeansDark`: after V_LIGHT 0, a long press or a short one, nothing that was
  running can light the lamp again. `LitAtLimit`: a new limit is shown at once, and
  a light lit by the controller never ends up at the button's limit or the reverse.
* `TransitionOnCourse`, `NoJump`: the channels of a loop arrive in different
  iterations; the light turns back when the last has, and no colour jumps then.
* `EepromHoldsLimits`: in every cell of the record but the version byte, the one
  MySensors writes.
* `StatusTold`, `LimitKept`, `LimitSurvives`, `ShortPressToggles`: the button and the
  controller may interleave in any way, and a status is still true and a limit
  still in force.
* `ImplementsPhaseCut`: between two interrupts the control moves the level by one unit
  at most, in range; this is what `FiresAtAngle` and `FiresInTime` rest on: although the level moves between two interrupts
  of one half wave, the count never passes it unseen.
* `SuccessIsDelivery`: the driver reads a result that another send may have left or
  cleared. It is about the sends of the main loop; a send of the interrupt may take the
  main loop's result for its own. `RadioRecovers`: an address that the interrupt has broken makes every
  send fail, until the failure counter brings about a new start, which writes whole
  addresses. `MovementReported`: and then the timer repeats what was lost.
* `LinkSound`: the check of the uplink that ends a search makes the node ready when it succeeds,
  whatever has happened since it began; messages, presentations, the state machine in them
  and a failing radio all run inside it. `CheckIsCurrent`: it never returns into another
  search, though other waits do, for its state has no update but its own return, and "failure" lasts
  longer than it. So a ready node has an id, a parent and a distance, and no answer makes a
  node its own parent.
* `Settles`: routes are learned from the messages that pass, never expire,
  and survive in EEPROM; still, once the faults are over, parents lead up and routes
  lead down over links that exist. It excepts a node that is ready and deaf, which the
  code does not notice; see section 4, also for the circles that may form while faults
  go on.
* `HeaderMeansImage`, `ConfigNotAhead`: a block is written where the next one belongs,
  whichever it is; the check of the whole image and the order of header, configuration
  and reboot are all that keeps a mixed or half image from being booted, or one that
  is not there from being taken for installed.

### Liveness and fairness

* `NewButton`, `LEDFader`: weak fairness of `Tick` and of the polled call. Time does
  not stop, and `loop()` calls the library in every iteration.
* `Kitchen`: weak fairness of `ButtonProcess` and `LedsStep`, the two halves of
  `loop()`; strong fairness of `Arrival(c)`, a fade that comes to its end, which
  is what `FadeEnds` shows of `LEDFader` (each channel arrives when its time is
  over, whatever the others do).
* `LightSwitch`: weak fairness of a pass and of the poll of the button, strong fairness
  of `MoveLamp`, since the delay of a step (at most 50 ms) is over again and again.
  Nothing is assumed of the interrupts but that they end.
* `MotionLight`: weak fairness of the main loop, the chip and the timer. Strong
  fairness of `Joined`, `Joined \/ NotJoined` and `StartedAnew`, steps of the transport
  that wait for timeouts and are reached again and again: a search ends, and one that
  could succeed each time does once. Strong fairness of `MotionArrives`: a message
  that is repeated for ever is received once. `RadioRecovers` and `MovementReported`
  need no more; in particular the radio may be torn infinitely often.
* `Transport`: strong fairness of the state machine (`UpdateSM`) and of the waits that
  return (`Returns`), each for itself, because their end may be put off as long as answers are on
  their way: both timers run, whatever the other does. Fairness of the two together would let
  a node search for ever inside one presentation, whose 2 s never end: each of these
  searches fails because the ping that would end it is refused. Strong fairness of `Report`,
  as every sketch sends something now and then; weak fairness
  of `Process` and of the gateway's start. Faults are bounded, so they end.
* `OTA`: weak fairness of the node's actions and of the controller's answers.
  `Installed` is about behaviours whose only faults are lost blocks or requests.

The liveness properties of the nodes are about a node that is left alone from
some time on (`LeftAlone`, `Undisturbed`): no message, no press, no restart. A user
who keeps pressing may keep a light from ever becoming dark.

## 4. Findings

* **Limits are lost by every restart** (`kitchen_restart`). The kitchen stores its
  record at EEPROM address 0, where MySensors keeps its node id and, next to it,
  its parent. Each start writes both before `setup()` reads the record; the
  version byte is then the node id, and both limits go back to 255.
* **One overflow disables V_VAR1** (`kitchen_errno`). The parser takes `errno` for
  the failure of its last conversion and never clears it; after one transition
  time beyond `unsigned long`, limits and transitions are refused until restart.
* **A level of 241** (`dimmer_level`). A long press that begins with the lamp off
  and ends while it is still above `DIMMER_MAX` saves and reports a level that wraps
  in a byte. `TypeOK` includes such limits; the next start brings them into range.

Seen while reading, or in the models, and not run:

* The dimmer's timer interrupt does anything only when `dimmer.actual >= DIMMER_MAX`; at
  every level at which the lamp is meant to shine the gate stays low, though the
  branch is commented "turn on light" (`LightSwitchAC.ino:194-196`). Either the
  condition or the comment (that is, the polarity of the gate) is wrong.
* The kitchen's README lets "mode 0" set the limit for the button, too, while the code
  has a command of its own for that, so that the mode numbers of the README are off by
  one; its long press goes round in another order.
* Three parents in a circle. A repeater refuses an answer to a search only to its own
  parent ("no circular reference", `MyTransport.cpp:550`); for all others it relies on
  its uplink, which "also prevents circular references" (lines 554-555). But a check of
  the uplink counts for a while (`transportCheckUplink(false)`). In a chain gateway, 1, 2, 3
  where 1 loses its uplink and searches, 3, whose last check is recent, answers without a
  ping, and 1, 3 and 2 are each other's parents until one of them checks again. TLC finds it with
  three nodes in five steps from the settled chain. With two nodes it takes seven faults
  and late answers. No run has it: three nodes are too many for `Settles`, so that
  nothing here shows that such a circle ends.
* A repeater that is ready and deaf. The sanity check of the radio may fail inside a check of the
  uplink that has got its pong already. The state machine then goes to "failure", which stops
  `transportProcessFIFO()`, and when the check returns it goes to "ok" (`MyTransport.cpp:156-171,
  624-631`). Nothing sets `transportActive` again: the node sends, which powers its radio up,
  and reads no message until it restarts or enough of its sends fail.
* A search under a presentation. A ready node pings before it answers the search of another.
  Asked to present itself in that wait, it may find that its uplink is gone and look for
  another parent inside `presentNode()`; it finds one, but cannot check it, because a ping is
  active (`transportPingNode()`), and searches again until the 2 s are over.
* The distance of an old check. When that ping succeeds after all, `transportCheckUplink()`
  sets the distance it found over that of the new search.
* A firmware download makes one request more than `MY_OTA_RETRY` before it gives up
  (`MyOTAFirmwareUpdate.cpp:39,77`), and after giving up the node takes the new
  configuration for its own until it restarts (line 63).
* `TIMER_DELAY_MS` (`2 * 60 * 1000U`) overflows 16 bits: the motion light's timer runs every
  54 s instead of every two minutes.
* `Relay::set_status()` logs two conversions with one argument (`Relay.cpp:17`).

## 5. Proofs

Every theorem holds for all values of the constants that satisfy the named
assumptions of the modules (`ClockWrapAssumption`, `ButtonAssumption`,
`FaderAssumption`, `MaxColorAssumption`, `KitchenAssumption`, `PayloadAssumption`,
`DimmerAssumption`, `PhaseAssumption`, `NoneAssumption`, `MotionLightAssumption`,
`OTAAssumption`, `TransportAssumption`). They say no more than what the code's
`#define`s satisfy: thresholds in order, and a clock period longer than the times
measured with it.

| Module | Theorems | Argument |
|---|---|---|
| `NewButton_proofs` | `ButtonTimeKept`, `ButtonEventMatchesHold`, `ButtonImplementsProtocol` | `TypeOK /\ TimeKept` is inductive; types alone (`ButtonTypeOK`) depend on the clock, not on the library, and are no property of a run. The status alone does not say how long the button was down; `TimeKept` ties it and the press time to the history `hold`. The refinement maps a poll to `Poll`, or to `PressAgain` when the clock has gone round. |
| `LEDFader_proofs` | `FaderTypeOK`, `FaderTimeAccounted`, `FaderKeepsTime`, `FaderFollowsTheLine`, `FaderImplements` | `FaderInv` adds to `TypeOK` and `TimeAccounted` that the interval of a fade is at least 1 and at most `MaxTime + MIN_INTERVAL`: only then does the clock never get round to the last step. `RoundBounded` shows that of the rounded quotient. `ErrorStep` is the arithmetic of the line: a step shrinks the old error in proportion to the time left and adds half a unit at most. For the refinement, the colour and its target are a channel at rest or on its way, and a poll moves it towards the target, never past it (`IncrementNear`). |
| `Kitchen_proofs` | `KitchenTypeOK`, `KitchenOffMeansDark`, `KitchenTransitionOnCourse`, `KitchenLitAtLimit`, `KitchenNoJump`, `KitchenEepromHoldsLimits` | `StartInv`: the three invariants together, the types of lights and limits, and the EEPROM cell that the next start reads. They need each other: a light that turns back is off or at a limit only if transitions are on course. `SwitchKeeps` and its like treat the operators once, and each action cites them. `NoJump` follows from them step by step. `RecordInv`: a limit goes to RAM and EEPROM together, no two limits share a cell, and none has the cell of the node id. |
| `PhaseCut_proofs` | `PhaseTypeOK`, `PhaseFiresAtAngle`, `PhaseFiresInTime` | `CountBehind`: the counter is never ahead of the timer steps since the crossing, nor is the lowest level above the present one. |
| `LightSwitch_proofs`, the control | `DimmerTypeOK`, `DimmerStatusTold`, `DimmerLimitKept`, `DimmerLimitSurvives`, `DimmerShortPressToggles` | `DimmerInv`: the target is the limit or off unless the user holds the button, and the cell and the limit restore to the same. |
| `LightSwitch_proofs`, the whole | `SwitchImplementsPhaseCut`, `SwitchTypes`, `SwitchFiresAtAngle`, `SwitchFiresInTime`, `SwitchStatusTold`, `SwitchKeepsControl` | Composition: the interrupts are stuttering steps of the control (`SwitchControls`), and the control's steps are steps of `PhaseCut` by `DimmerInv`. What is proved of each part alone then holds of both. |
| `MotionLight_proofs` | `MotionTypeOK`, `MotionSuccessIsDelivery`, `MotionRelayAsSaved` | `SendInv`: at each of the fourteen commands, what the FIFO, CE, the mode and the status register can be. A whole send of the interrupt leaves the chip receiving, with an empty FIFO and no result (`WholeSendLeaves`): the main loop's message is then lost but never counted as sent. `Counting`: how many sends may have failed at each place of a pass; the 4-bit count cannot go round before the transport looks at it. |
| `OTA_proofs` | `OTATypeOK`, `OTAHeaderMeansImage`, `OTAConfigNotAhead` | `OTAInv`: types, the kinds of messages on their way, and `ImageKept`: from the check of an image to the reboot nothing touches it, and only then is there a header. `NoneOlder`: no answer on its way, and no download, is of an older firmware than the one that runs, because a boot forgets what was on its way. |
| `Transport_proofs` | `TransportSound`, `TransportTypeOK`, `TransportLinkSound` | `TransportInv`: `LinkSound` says nothing of messages, but a node takes its parent, id and distance from them; so the invariant says what may be on its way to each station (`MayHear`), that a station, once known by its id, stays known, and what may wait (`Waiting`): the check that ends a search finds its own state or "failure". It holds of every outcome of every handler (`Fine`), whatever station it is called for and whatever waits; a handler that calls another, as a search calls a ping and a presentation a send, cites its lemma. Nothing is assumed of the number of nodes that ask for an id. |

Every invariant, action property and refinement that a passing run checks is proved as
well. Checked by TLC only:

* every liveness property, since it rests on fairness and `ENABLED`: `LongPressReported`,
  `FadeEnds`, `SettlesDark`, `KeepsPulsing`, `LampSettles`, `RadioRecovers`,
  `MovementReported`, `Settles`, `DownloadEnds`, `Installed`;
* the three violated properties of section 4.

One assumption deserves a word. `MotionLightAssumption` bounds `TRANSMISSION_FAILURES` by 10
(it is 5): with the five sends of a pass on top of a larger one, four bits would not do.
`TransportAssumption` lets any number of nodes ask for an id. Two that ask at the same
time may take the same one (`MyTransport.cpp:474`); "another station" in `LinkSound` is then the
other device of that id.

## 6. Running

    tlc -config NewButton.cfg NewButton.tla
    tlc -config LEDFader.cfg LEDFader.tla
    tlc -config Kitchen.cfg MCKitchen.tla                (KitchenLoops, KitchenLive,
                                                          KitchenRestart, KitchenErrno)
    tlc -config LightSwitch.cfg LightSwitch.tla
    tlc -config LightSwitchACLevel.cfg LightSwitchAC.tla
    tlc -config MotionLight.cfg MotionLight.tla
    tlc -config Transport.cfg Transport.tla
    tlc -config OTA.cfg MCOTA.tla
    tlapm NewButton_proofs.tla                           (and the other *_proofs)

## 7. Not modelled

* The relays of `LightSwitchAC`: one bit each, set by a message or toggled by a short
  release, which nothing else reads, saves or reports.
* MySensors' core beyond the order in which it calls the sketch, presentation and `wait()`;
  signing and inclusion mode, which no sketch switches on; the gateway's link to the controller but
  for its request of a presentation, the drivers of other radios and boards: character and
  register I/O.
* Logging and the timer libraries: no state that a sketch reads.
* Sketches without logic of their own (one sensor read and sent per wake-up): they
  follow the pattern of `MotionLightWithRelay`.

Most lines of the repository are vendored: MySensors' examples, drivers of radios that
no sketch uses, crypto and tables of registers. They have no behaviour of this
system in them, so the share of all lines that the map covers stays small.

## 8. Plan

1. `Transport` with three repeaters, for routes of more than one hop that change and for
   the circle of section 4: a bound on how long it lasts, as an invariant over the age of
   the last check, rather than as liveness.
2. `Transport` with a static or preferred parent and requested acknowledges.
3. The kitchen over messages that get lost, with a controller that repeats itself.
