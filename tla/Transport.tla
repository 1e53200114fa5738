------------------------------ MODULE Transport ------------------------------
(***************************************************************************)
(* libraries/MySensors-2.0/core/MyTransport.cpp: a gateway and the nodes   *)
(* that find their way to it. A node looks for a parent, asks for an id if *)
(* it has none, pings the gateway through its parent, and is ready; it     *)
(* looks for another parent when too many of its messages fail. Repeaters  *)
(* answer the search of others and relay their messages. The controller    *)
(* may ask a node to present itself at any time, also while it waits: the  *)
(* node then runs its state machine inside the wait.                       *)
(*                                                                         *)
(* inbox[n] is the receive FIFO of the radio, with what is still in the    *)
(* air: a message in it is handled at any later time. What the environment *)
(* does wrong, messages and acknowledges that are lost, waits that end     *)
(* before the answer that is on its way, radios that fail their check,     *)
(* restarts, and what the controller asks for, is drawn from one budget.   *)
(***************************************************************************)
EXTENDS Naturals, Sequences, FiniteSets

CONSTANTS
  Node,                   \* ids of the nodes
  Repeaters,              \* those with MY_REPEATER_FEATURE
  Dynamic,                \* those that ask the controller for their id
  Asked,                  \* those the controller asks to present themselves
  STATE_RETRIES,          \* 3
  TRANSMISSION_FAILURES,  \* 10 of a repeater, 5 of other nodes
  MAX_HOPS,               \* 254
  FarNodes,               \* sets of nodes that may be out of the gateway's range
  RxFifo,                 \* 3: messages the radio can hold
  MaxWaits,               \* bound: nested waits
  MaxFaults               \* bound: faults of the environment and presentations

ASSUME TransportAssumption ==
  /\ Node \subseteq 1 .. 254 /\ Repeaters \subseteq Node
  /\ Dynamic \subseteq Node /\ Asked \subseteq Node
  /\ STATE_RETRIES \in 0 .. 15 /\ TRANSMISSION_FAILURES \in 0 .. 14
  /\ FarNodes \subseteq SUBSET Node
  /\ MAX_HOPS \in Nat \ {0} /\ RxFifo \in Nat \ {0}
  /\ MaxWaits \in Nat \ {0} /\ MaxFaults \in Nat

GATEWAY == 0
AUTO == 255         \* no id, no parent, no route
BROADCAST == 255
UPLINK == GATEWAY   \* the gateway never looks for a parent
PRESENT == 256      \* no id
INVALID == MAX_HOPS + 1   \* DISTANCE_INVALID, INVALID_HOPS

Station == Node \cup {GATEWAY}
Id == Station \cup {AUTO}

\* `arg` is a distance, a number of hops, or an id.
Message ==
  [type : {"FIND_PARENT", "FIND_PARENT_RESPONSE", "ID_REQUEST", "ID_RESPONSE",
           "PING", "PONG", "PRESENTATION", "SET"},
   last : Id, sender : Id, dest : Id, arg : 0 .. INVALID \cup Id]

\* The state machine, NodeConfig and the ping of a station. uplinkOk is
\* sm = "ok"; `finding` is findingParentNode, `listening` transportActive and
\* `active` pingActive. `waits` are the waits that have not returned, the
\* innermost first: transportWait() in stUplinkTransition() (UPLINK) or before
\* the answer to the FIND_PARENT of a node, wait() in presentNode() (PRESENT).
\* `pong` says that the message handled last is a PONG, `recent` that the last
\* check of the uplink is.
State ==
  [sm : {"failure", "parent", "id", "uplink", "ok"}, retries : 0 .. 15,
   failed : 0 .. 15, finding : BOOLEAN, listening : BOOLEAN, id : Id, parent : Id,
   distance : 0 .. INVALID, active : BOOLEAN, response : 0 .. INVALID,
   pong : BOOLEAN, recent : BOOLEAN, waits : Seq(Id \cup {PRESENT}),
   routes : [Station -> Id]]

VARIABLES
  node,    \* the state of every station
  inbox,   \* the messages each station will handle
  far,     \* the nodes out of the gateway's range
  faults   \* faults so far
vars == <<node, inbox, far, faults>>

\* A ping of the station has not returned.
Pinging(s) == \E i \in DOMAIN s.waits : s.waits[i] # PRESENT

TypeOK ==
  /\ node \in [Station -> State]
  /\ inbox \in [Station -> Seq(Message)]
  /\ far \in FarNodes
  /\ faults \in 0 .. MaxFaults
  /\ \A n \in Station :
       /\ Len(inbox[n]) <= RxFifo /\ Len(node[n].waits) <= MaxWaits
       /\ node[n].active => Pinging(node[n])

\* Where the messages and the budget stand: the handlers below map it.
World == [inbox |-> inbox, faults |-> faults]

Ready(n) == node[n].sm = "ok"

-----------------------------------------------------------------------------
\* The air.

InRange(x, y) == GATEWAY \notin {x, y} \/ {x, y} \cap far = {}

\* Stations that listen on the address and have room may still miss the
\* message; the acknowledge of a unicast may get lost.
transportSend(n, to, msg, w) ==
  LET near == {x \in Station \ {n} : /\ node[x].sm # "failure"
                                     /\ InRange(n, x)
                                     /\ to \in {BROADCAST, node[x].id}
                                     /\ Len(w.inbox[x]) < RxFifo}
      lost(heard, acked) ==
        Cardinality(near \ heard) +
          IF to # BROADCAST /\ heard # {} /\ ~acked THEN 1 ELSE 0
  IN  {[w |-> [inbox |-> [x \in Station |-> IF x \in o[1] THEN Append(w.inbox[x], msg)
                                                          ELSE w.inbox[x]],
               faults |-> w.faults + lost(o[1], o[2])],
        ok |-> to = BROADCAST \/ o[2]] :
        o \in {p \in (SUBSET near) \X BOOLEAN :
                 /\ p[2] => p[1] # {} /\ to # BROADCAST
                 /\ w.faults + lost(p[1], p[2]) <= MaxFaults}}

\* A message of station n itself.
Built(s, type, dest, arg) ==
  [type |-> type, last |-> s.id, sender |-> s.id, dest |-> dest, arg |-> arg]

-----------------------------------------------------------------------------
\* Routing. Handlers map the state of a station and the world to the possible
\* states and worlds after them.

Outcome(s, w) == [s |-> s, w |-> w]

\* A repeater without a route sends up what did not come from its parent.
Route(n, s, msg, last) ==
  CASE msg.dest = GATEWAY -> s.parent
    [] msg.dest = BROADCAST -> BROADCAST
    [] OTHER ->
         IF n \notin Repeaters \cup {GATEWAY} THEN s.parent
         ELSE IF s.routes[msg.dest] # AUTO THEN s.routes[msg.dest]
         ELSE IF last # s.parent THEN s.parent
         ELSE msg.dest

\* transportRouteMessage() of a message that came from `last`, and
\* transportSendWrite().
transportRouteMessage(n, s, msg, last, w) ==
  IF s.finding /\ msg.dest # BROADCAST
  THEN {Outcome(s, w)}
  ELSE LET route == Route(n, s, msg, last)
       IN  {Outcome(IF n # GATEWAY /\ route = s.parent
                    THEN [s EXCEPT !.failed = IF sent.ok THEN 0 ELSE (@ + 1) % 16]
                    ELSE s,
                    sent.w) :
              sent \in transportSend(n, route, [msg EXCEPT !.last = s.id], w)}

\* transportPingNode(GATEWAY_ADDRESS) up to its wait.
Ping(n, s, asker, w) ==
  LET pinging == [s EXCEPT !.active = TRUE, !.response = INVALID, !.pong = FALSE,
                           !.waits = <<asker>> \o @]
  IN  transportRouteMessage(n, pinging, Built(s, "PING", GATEWAY, 1), s.id, w)

-----------------------------------------------------------------------------
\* The transitions of the state machine.

Entered(s, sm) ==
  [s EXCEPT !.sm = sm, !.retries = IF s.sm = sm THEN (@ + 1) % 16 ELSE 0]

stParentTransition(n, s, w) ==
  LET looking == [Entered(s, "parent") EXCEPT !.failed = 0, !.finding = TRUE,
                                              !.distance = INVALID, !.parent = AUTO]
  IN  transportRouteMessage(n, looking, Built(s, "FIND_PARENT", BROADCAST, 0), s.id, w)

stIDTransition(n, s, w) ==
  LET in == [Entered(s, "id") EXCEPT !.finding = FALSE]
  IN  IF s.id = AUTO
      THEN transportRouteMessage(n, in, Built(s, "ID_REQUEST", GATEWAY, 0), s.id, w)
      ELSE {Outcome(in, w)}

\* The radio is powered down, and what it holds is lost.
stFailureTransition(n, s, w) ==
  {Outcome([Entered(s, "failure") EXCEPT !.listening = FALSE],
           [w EXCEPT !.inbox[n] = <<>>])}

\* stInitTransition() and stParentTransition(): id and routes are in the EEPROM.
stInitTransition(n, s, w) ==
  stParentTransition(n, [s EXCEPT !.sm = "failure", !.failed = 0, !.active = FALSE,
                                  !.listening = TRUE], w)

-----------------------------------------------------------------------------
\* transportProcessMessage().

\* Faulty: the sender is taken for a neighbour.
LearnedSender(n, s, msg) ==
  IF n \in Repeaters \cup {GATEWAY} /\ msg.last # s.parent /\ msg.sender # AUTO
  THEN [s EXCEPT !.routes[msg.sender] = msg.sender]
  ELSE s

\* The sender of a message that does not come from the parent is reached the
\* way the message came.
Learned(n, s, msg) ==
  IF n \in Repeaters \cup {GATEWAY} /\ msg.last # s.parent /\ msg.sender # AUTO
  THEN [s EXCEPT !.routes[msg.sender] = msg.last]
  ELSE s

\* The nearest neighbour so far.
Nearer(s, msg) ==
  IF msg.arg # INVALID /\ msg.arg + 1 # INVALID /\ msg.arg + 1 < s.distance
  THEN [s EXCEPT !.distance = msg.arg + 1, !.parent = msg.sender]
  ELSE s

Ponged(s, msg) ==
  IF s.active THEN [s EXCEPT !.active = FALSE, !.response = msg.arg] ELSE s

\* presentNode() up to its wait. One message stands for those of the
\* presentation.
presentNode(n, s, w) ==
  LET presenting == [s EXCEPT !.pong = FALSE, !.waits = <<PRESENT>> \o @]
  IN  IF s.sm = "ok"
      THEN transportRouteMessage(n, presenting, Built(s, "SET", GATEWAY, 0), s.id, w)
      ELSE {Outcome(presenting, w)}

\* A message to this station. An ID_REQUEST is answered by the controller.
ToThis(n, s, msg, w) ==
  CASE msg.type = "ID_RESPONSE" /\ n \in Dynamic -> {Outcome([s EXCEPT !.id = msg.arg], w)}
    [] msg.type = "FIND_PARENT_RESPONSE" /\ n # GATEWAY -> {Outcome(Nearer(s, msg), w)}
    [] msg.type = "PING" ->
         transportRouteMessage(n, s, Built(s, "PONG", msg.sender, 1), s.id, w)
    [] msg.type = "PONG" -> {Outcome(Ponged(s, msg), w)}
    [] msg.type = "ID_REQUEST" /\ n = GATEWAY ->
         UNION {transportRouteMessage(n, s, Built(s, "ID_RESPONSE", BROADCAST, id), s.id, w) :
                  id \in Dynamic}
    [] msg.type = "PRESENTATION" /\ n # GATEWAY -> presentNode(n, s, w)
    [] OTHER -> {Outcome(s, w)}

FindParentResponse(n, s, asker, w) ==
  transportRouteMessage(n, s, Built(s, "FIND_PARENT_RESPONSE", asker, s.distance), s.id, w)

\* A neighbour looks for a parent: transportCheckUplink(false) pings the gateway
\* unless the last check is recent. Any answer counts as a check.
FindParent(n, s, msg, w) ==
  LET reached == IF msg.sender = AUTO THEN s ELSE [s EXCEPT !.routes[msg.sender] = msg.sender]
  IN  IF n \notin Repeaters \cup {GATEWAY} \/ msg.sender = s.parent
      THEN {Outcome(s, w)}
      ELSE IF n = GATEWAY \/ s.recent
      THEN FindParentResponse(n, [reached EXCEPT !.recent = TRUE], msg.sender, w)
      ELSE IF s.active THEN {Outcome(reached, w)}
      ELSE Ping(n, reached, msg.sender, w)

\* Broadcasts are repeated when they come from the parent.
Broadcast(n, s, msg, w) ==
  IF msg.type = "FIND_PARENT" /\ s.sm = "ok" THEN FindParent(n, s, msg, w)
  ELSE IF n \in Repeaters /\ msg.last = s.parent /\ msg.sender # s.id /\ s.sm = "ok"
  THEN transportRouteMessage(n, s, msg, msg.last, w)
  ELSE {Outcome(s, w)}

Hopped(msg) ==
  IF msg.type \in {"PING", "PONG"} /\ msg.arg # MAX_HOPS THEN [msg EXCEPT !.arg = @ + 1]
  ELSE msg

Relay(n, s, msg, w) ==
  IF n \in Repeaters \cup {GATEWAY} /\ s.sm = "ok"
  THEN transportRouteMessage(n, Learned(n, s, msg), Hopped(msg), msg.last, w)
  ELSE {Outcome(s, w)}

Processed(n, s, msg, w) ==
  IF msg.dest = s.id THEN ToThis(n, Learned(n, s, msg), msg, w)
  ELSE IF msg.dest = BROADCAST THEN Broadcast(n, s, msg, w)
  ELSE Relay(n, s, msg, w)

-----------------------------------------------------------------------------
\* The steps of a node.

\* The result of a ping matters until it has returned only, the time of the
\* last check until the next forced one.
Forgotten(s) ==
  [s EXCEPT !.pong = @ /\ Pinging(s),
            !.response = IF Pinging(s) THEN @ ELSE INVALID,
            !.recent = @ /\ s.sm = "ok"]

Step(n, outcomes) ==
  \E o \in outcomes :
    /\ node' = [node EXCEPT ![n] = Forgotten(o.s)]
    /\ inbox' = o.w.inbox
    /\ faults' = o.w.faults
    /\ UNCHANGED far

Fault == faults < MaxFaults

\* Nothing that a ping or a search could wait for is on its way, or about to be.
Quiet ==
  \A x \in Station :
    /\ node[x].listening =>
         \A i \in DOMAIN inbox[x] : inbox[x][i].type \in {"PRESENTATION", "SET"}
    /\ ~node[x].pong

\* The world when a wait has run out: too early if it is not quiet.
RunOut == {w \in {[World EXCEPT !.faults = @ + IF Quiet THEN 0 ELSE 1]} : w.faults <= MaxFaults}

\* transportUpdateSM() is called when nothing waits, and by the wait() of
\* presentNode(), whatever waits below it.
Updates(n, sm) ==
  node[n].sm = sm /\ (node[n].waits # <<>> => Head(node[n].waits) = PRESENT)

ParentFound(n) ==
  /\ Updates(n, "parent") /\ node[n].parent # AUTO
  /\ \E w \in RunOut : Step(n, stIDTransition(n, node[n], w))

ParentRetry(n) ==
  /\ Updates(n, "parent") /\ node[n].parent = AUTO
  /\ node[n].retries < STATE_RETRIES
  /\ \E w \in RunOut : Step(n, stParentTransition(n, node[n], w))

ParentFail(n) ==
  /\ Updates(n, "parent") /\ node[n].parent = AUTO
  /\ node[n].retries >= STATE_RETRIES
  /\ \E w \in RunOut : Step(n, stFailureTransition(n, node[n], w))

\* Faulty: the id is not waited for.
IdSkipped(n) ==
  /\ Updates(n, "id")
  /\ LET s == Entered(node[n], "uplink")
     IN  Step(n, IF s.active THEN stParentTransition(n, s, World) ELSE Ping(n, s, UPLINK, World))
  /\ Len(node'[n].waits) <= MaxWaits

\* stUplinkTransition(). There is one ping at a time: the check of the uplink
\* fails when it is refused.
IdKnown(n) ==
  /\ Updates(n, "id") /\ node[n].id # AUTO
  /\ LET s == Entered(node[n], "uplink")
     IN  Step(n, IF s.active THEN stParentTransition(n, s, World) ELSE Ping(n, s, UPLINK, World))
  /\ Len(node'[n].waits) <= MaxWaits

IdRetry(n) ==
  /\ Updates(n, "id") /\ node[n].id = AUTO
  /\ node[n].retries < STATE_RETRIES
  /\ \E w \in RunOut : Step(n, stIDTransition(n, node[n], w))

IdFail(n) ==
  /\ Updates(n, "id") /\ node[n].id = AUTO
  /\ node[n].retries >= STATE_RETRIES
  /\ \E w \in RunOut : Step(n, stFailureTransition(n, node[n], w))

UplinkLost(n) ==
  /\ Updates(n, "ok") /\ node[n].failed > TRANSMISSION_FAILURES
  /\ Step(n, stParentTransition(n, node[n], World))

\* The time in the state of failure is longer than any wait.
StartedAnew(n) ==
  /\ node[n].sm = "failure" /\ node[n].waits = <<>>
  /\ Step(n, stInitTransition(n, node[n], World))

\* transportSanityCheck() fails, in the loop or inside a wait.
SanityFails(n) ==
  /\ n \in Repeaters /\ node[n].listening /\ Fault
  /\ Step(n, stFailureTransition(n, node[n], [World EXCEPT !.faults = @ + 1]))

Process(n) ==
  /\ node[n].listening /\ inbox[n] # <<>>
  /\ LET msg == Head(inbox[n])
     IN  Step(n, Processed(n, [node[n] EXCEPT !.pong = (msg.type = "PONG")], msg,
                           [inbox |-> [inbox EXCEPT ![n] = Tail(@)], faults |-> faults]))
  /\ Len(node'[n].waits) <= MaxWaits

\* Faulty: a ping without an answer stays active.
ReturnedActive(s) == [s EXCEPT !.waits = Tail(@)]

\* transportWait() and transportPingNode() return, and transportCheckUplink()
\* with them.
Returned(s) == [s EXCEPT !.active = FALSE, !.waits = Tail(@)]

Checked(s) == [s EXCEPT !.recent = TRUE, !.distance = s.response]

WaitOver(n) == IF node[n].pong THEN {World} ELSE RunOut

\* stUplinkTransition() goes on.
UplinkChecked(n) ==
  /\ node[n].waits # <<>> /\ Head(node[n].waits) = UPLINK
  /\ \E w \in WaitOver(n) :
       LET s == Returned(node[n])
       IN  Step(n, IF s.response # INVALID THEN {Outcome(Entered(Checked(s), "ok"), w)}
                   ELSE stParentTransition(n, s, w))

\* The answer to FIND_PARENT goes on.
AskerChecked(n) ==
  /\ node[n].waits # <<>> /\ Head(node[n].waits) \notin {UPLINK, PRESENT}
  /\ \E w \in WaitOver(n) :
       LET s == Returned(node[n])
       IN  Step(n, IF s.response # INVALID
                   THEN FindParentResponse(n, Checked(s), Head(node[n].waits), w)
                   ELSE {Outcome(s, w)})

\* wait() and presentNode() return: the time is over, or an I_CONFIG has come.
Presented(n) ==
  /\ node[n].waits # <<>> /\ Head(node[n].waits) = PRESENT
  /\ Step(n, {Outcome([node[n] EXCEPT !.waits = Tail(@), !.pong = p], World) :
               p \in {node[n].pong, FALSE}})

\* The sketch sends a message to the controller. One is on its way at a time.
Report(n) ==
  /\ Ready(n) /\ node[n].waits = <<>> /\ node[n].failed <= TRANSMISSION_FAILURES
  /\ Quiet /\ \A x \in Station : node[x].listening => inbox[x] = <<>>
  /\ Step(n, transportRouteMessage(n, node[n], Built(node[n], "SET", GATEWAY, 0),
                                   node[n].id, World))

\* CHKUPL_INTERVAL after the last check.
CheckAges(n) ==
  /\ node[n].recent /\ Quiet
  /\ node' = [node EXCEPT ![n].recent = FALSE]
  /\ UNCHANGED <<inbox, far, faults>>

-----------------------------------------------------------------------------
\* Restarts.

\* The RAM of a node is lost, and what its radio held.
Rebooted(s) ==
  [s EXCEPT !.retries = 0, !.waits = <<>>]

NodeRestarts(n) ==
  /\ Fault
  /\ Step(n, stInitTransition(n, Rebooted(node[n]),
               [inbox |-> [inbox EXCEPT ![n] = <<>>], faults |-> faults + 1]))

GatewayStops ==
  /\ Fault /\ Ready(GATEWAY)
  /\ node' = [node EXCEPT ![GATEWAY].sm = "failure", ![GATEWAY].listening = FALSE]
  /\ inbox' = [inbox EXCEPT ![GATEWAY] = <<>>]
  /\ faults' = faults + 1
  /\ UNCHANGED far

GatewayStarts ==
  /\ ~Ready(GATEWAY)
  /\ node' = [node EXCEPT ![GATEWAY].sm = "ok", ![GATEWAY].listening = TRUE]
  /\ UNCHANGED <<inbox, far, faults>>

\* The controller wants to know what node n is, a command on its serial line.
AskPresentation(n) ==
  /\ Fault /\ Ready(GATEWAY)
  /\ Step(GATEWAY, transportRouteMessage(GATEWAY, node[GATEWAY],
                     Built(node[GATEWAY], "PRESENTATION", n, 0), GATEWAY,
                     [World EXCEPT !.faults = @ + 1]))

RangeChanges ==
  /\ Fault
  /\ far' \in FarNodes \ {far}
  /\ faults' = faults + 1
  /\ UNCHANGED <<node, inbox>>

-----------------------------------------------------------------------------

Start(n) ==
  [sm |-> IF n = GATEWAY THEN "ok" ELSE "failure", retries |-> 0, failed |-> 0,
   finding |-> FALSE, listening |-> n = GATEWAY,
   id |-> IF n \in Dynamic THEN AUTO ELSE n,
   parent |-> IF n = GATEWAY THEN GATEWAY ELSE AUTO,
   distance |-> IF n = GATEWAY THEN 0 ELSE INVALID,
   active |-> FALSE, response |-> INVALID, pong |-> FALSE, recent |-> FALSE,
   waits |-> <<>>, routes |-> [x \in Station |-> AUTO]]

Init ==
  /\ node = [n \in Station |-> Start(n)]
  /\ inbox = [n \in Station |-> <<>>]
  /\ far \in FarNodes
  /\ faults = 0

UpdateSM(n) ==
  \/ ParentFound(n) \/ ParentRetry(n) \/ ParentFail(n)
  \/ IdKnown(n) \/ IdRetry(n) \/ IdFail(n)
  \/ UplinkLost(n) \/ StartedAnew(n)

Returns(n) == UplinkChecked(n) \/ AskerChecked(n) \/ Presented(n)

NodeStep(n) ==
  UpdateSM(n) \/ Returns(n) \/ SanityFails(n) \/ Report(n) \/ CheckAges(n) \/ NodeRestarts(n)

Next ==
  \/ \E n \in Node : NodeStep(n)
  \/ \E n \in Station : Process(n)
  \/ \E n \in Asked : AskPresentation(n)
  \/ GatewayStops \/ GatewayStarts \/ RangeChanges

Spec == Init /\ [][Next]_vars

\* Waits end, when it is quiet at last, messages are handled, the sketches
\* report, and the gateway is not off for ever.
FairSpec ==
  /\ Spec
  /\ \A n \in Node : /\ SF_vars(UpdateSM(n)) /\ SF_vars(Returns(n))
                     /\ SF_vars(Report(n))
  /\ \A n \in Station : WF_vars(Process(n))
  /\ WF_vars(GatewayStarts)

-----------------------------------------------------------------------------

\* A parent is another station: one that goes by that id.
ParentIsReal(n) ==
  node[n].parent # AUTO => \E x \in Station \ {n} : node[x].id = node[n].parent

\* Only a node that has all it takes to send and relay is ready.
ReadyIsLinked(n) ==
  Ready(n) => /\ node[n].id # AUTO /\ node[n].parent # AUTO
              /\ node[n].distance \in 1 .. MAX_HOPS

\* Of the checks of the uplink that make a node ready when they return, one
\* waits at a time, and it finds its state again, or that of failure.
CheckIsCurrent(n) ==
  LET s == node[n]
      Check == {i \in DOMAIN s.waits : s.waits[i] = UPLINK}
  IN  /\ \A i, j \in Check : i = j
      /\ Check # {} => s.sm \in {"uplink", "failure"} /\ s.id # AUTO /\ s.parent # AUTO

(* Whatever is lost, late, repeated or restarted, and although messages are *)
(* handled and the state machine moves on inside waits, the parent of a     *)
(* node is another station, never itself or one without an id; a node is    *)
(* ready only with an id, a parent and a distance; and the check of the     *)
(* uplink that makes it ready does not return into another search           *)
(* (MyTransport.cpp:86-171, 481-503, 546-570; MySensorsCore.cpp:423-437).   *)
LinkSound ==
  \A n \in Node : ParentIsReal(n) /\ ReadyIsLinked(n) /\ CheckIsCurrent(n)

Hops == 0 .. Cardinality(Node)

\* The way up, along the parents.
LeadsUp(n) ==
  LET at[k \in Hops] == IF k = 0 THEN n ELSE node[at[k - 1]].parent
  IN  \E k \in Hops : /\ at[k] = GATEWAY
                      /\ \A j \in 1 .. k : InRange(at[j - 1], at[j])

\* The way down, along the routes. A node without a route sends directly.
LeadsDown(n) ==
  LET hop(x) == IF x \in Node /\ node[x].routes[n] = AUTO THEN n ELSE node[x].routes[n]
      at[k \in Hops] == IF k = 0 THEN GATEWAY
                        ELSE IF at[k - 1] \in {n, AUTO} THEN at[k - 1]
                        ELSE hop(at[k - 1])
  IN  /\ at[Cardinality(Node)] = n
      /\ \A k \in Hops \ {0} : InRange(at[k - 1], at[k])

\* A repeater whose radio failed its check in the middle of an uplink check
\* that had got its pong reads no messages, and does not notice.
Deaf(n) == Ready(n) /\ ~node[n].listening

(* When the faults are over every node becomes ready and stays so, with a   *)
(* way up along the parents and a way down along the routes that the radio  *)
(* can go, also when the first parent has got out of range; unless one is   *)
(* ready and deaf (MyTransport.cpp:101-204, 292-345, 446-452, 599-603,      *)
(* 622-653).                                                                *)
Settles ==
  <>[](\A n \in Node : ~Deaf(n)) =>
    <>[](\A n \in Node : Ready(n) /\ LeadsUp(n) /\ LeadsDown(n))
=============================================================================
