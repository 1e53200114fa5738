-------------------------- MODULE Transport_proofs --------------------------
(***************************************************************************)
(* Proofs about Transport, for any number of nodes and any budget of       *)
(* faults. An outcome of a handler is a state of the station and what is   *)
(* in the air after it; there is one lemma for each handler, which says    *)
(* that its outcomes are sound when it is called in a sound state.         *)
(***************************************************************************)
EXTENDS Transport, TLAPS, FiniteSetTheorems

\* The ids the stations go by, and those that stations other than x go by.
Names == [x \in Station |-> node[x].id]
Others(x, ids) == {ids[y] : y \in Station \ {x}} \ {AUTO}

\* What station x may hear when these are the ids. The answer to a search may
\* come from any station with an id; it does not come from the one it is for.
MayHear(x, ids, m) ==
  /\ m.type \in {"PING", "PONG"} => m.arg \in 1 .. MAX_HOPS
  /\ m.type = "ID_RESPONSE" => m.arg \in Dynamic /\ m.dest = BROADCAST
  /\ m.type = "FIND_PARENT" =>
       m.dest = BROADCAST /\ m.sender \in (Others(x, ids) \cup {AUTO}) \ {GATEWAY}
  /\ m.type = "FIND_PARENT_RESPONSE" =>
       \E y \in Station : /\ m.sender = ids[y] /\ m.sender # AUTO
                          /\ m.sender = m.dest => m.sender \in Others(y, ids)

\* What station n may send.
MaySend(n, ids, m) == \A x \in Station : x # n => MayHear(x, ids, m)

Air(ids) ==
  {w \in [inbox : [Station -> Seq(Message)], faults : 0 .. MaxFaults] :
     \A x \in Station :
       /\ Len(w.inbox[x]) <= RxFifo
       /\ \A i \in DOMAIN w.inbox[x] : MayHear(x, ids, w.inbox[x][i])}

\* No wait of the uplink check, which there is at most one of.
Unlinked(s) == \A i \in DOMAIN s.waits : s.waits[i] # UPLINK

\* What may wait at station n: whoever pings has an id; a search waits for
\* another station or for one without an id; stUplink has no update, so the
\* uplink check finds its state again, or that of failure.
Waiting(n, ids, s) ==
  /\ \A i \in DOMAIN s.waits :
       /\ s.waits[i] \in Others(n, ids) \cup {AUTO, UPLINK, PRESENT}
       /\ s.waits[i] # PRESENT => s.id # AUTO
       /\ s.waits[i] = UPLINK => s.sm \in {"uplink", "failure"} /\ s.parent # AUTO
  /\ \A i, j \in DOMAIN s.waits : s.waits[i] = UPLINK /\ s.waits[j] = UPLINK => i = j

\* What the state machine has found so far.
Linked(n, ids, s) ==
  /\ s.id \in Node \cup {AUTO}
  /\ s.parent \in Others(n, ids) \cup {AUTO}
  /\ s.distance \in 1 .. INVALID
  /\ s.response \in 1 .. INVALID
  /\ s.sm \in {"id", "uplink", "ok"} => s.parent # AUTO
  /\ s.sm \in {"uplink", "ok"} => s.id # AUTO
  /\ s.sm = "ok" => s.distance # INVALID

Sound(n, ids, s) ==
  /\ s \in State
  /\ ids[n] # AUTO => s.id = ids[n]
  /\ s.active => Pinging(s)
  /\ n = GATEWAY => s.id = GATEWAY /\ s.waits = <<>>
  /\ n # GATEWAY => Waiting(n, ids, s) /\ Linked(n, ids, s)

TransportInv ==
  /\ node \in [Station -> State]
  /\ World \in Air(Names)
  /\ far \in FarNodes
  /\ \A n \in Station : Sound(n, Names, node[n]) /\ Len(node[n].waits) <= MaxWaits

MessageType ==
  {"FIND_PARENT", "FIND_PARENT_RESPONSE", "ID_REQUEST", "ID_RESPONSE",
   "PING", "PONG", "PRESENTATION", "SET"}

\* t differs from s in the failures of the uplink only.
ButFailures(s, t) == \E f \in 0 .. 15 : t = [s EXCEPT !.failed = f]

\* ... and in the routes only.
ButRoutes(s, t) ==
  /\ t \in State /\ t.sm = s.sm /\ t.id = s.id /\ t.active = s.active
  /\ t.waits = s.waits /\ t.parent = s.parent /\ t.distance = s.distance
  /\ t.response = s.response

\* A station that has sent a ping and waits for the pong.
PingSent(s, asker) ==
  [s EXCEPT !.active = TRUE, !.response = INVALID, !.pong = FALSE,
            !.waits = <<asker>> \o @]

\* An outcome of a handler of station n.
Fine(n, ids, o) == Sound(n, ids, o.s) /\ o.w \in Air(ids)

-----------------------------------------------------------------------------

(* The ids of stations lie in 0 .. 254 (MyTransport.h, AUTO and BROADCAST). *)
LEMMA Ids ==
  /\ Node \subseteq 1 .. 254 /\ Station \subseteq 0 .. 254
  /\ GATEWAY \in Station /\ GATEWAY \notin Node /\ AUTO \notin Station
  /\ \A x \in Station : x # GATEWAY => x \in Node
  /\ MAX_HOPS \in Nat /\ MAX_HOPS >= 1 /\ MaxFaults \in Nat
  /\ RxFifo \in Nat /\ RxFifo >= 1 /\ MaxWaits \in Nat /\ MaxWaits >= 1
  /\ STATE_RETRIES \in 0 .. 15
  /\ Repeaters \subseteq Node /\ Dynamic \subseteq Node /\ Asked \subseteq Node
  BY TransportAssumption DEF TransportAssumption, Station, GATEWAY, AUTO

(* There are finitely many stations. *)
LEMMA Finite == IsFiniteSet(Station)
<1>1. IsFiniteSet(0 .. 254)
  <2>1. 0 \in Int /\ 254 \in Int
    OBVIOUS
  <2>2. QED
    BY <2>1, FS_Interval
<1>2. QED
  BY <1>1, Ids, FS_Subset

(* What is sent arrives whole where there is room, or not at all, and the   *)
(* budget of faults is kept (MyTransportNRF24.cpp:56-71).                   *)
LEMMA Sending ==
  ASSUME NEW n \in Station, NEW to, NEW ids,
         NEW w \in Air(ids), NEW msg \in Message,
         MaySend(n, ids, msg),
         NEW o \in transportSend(n, to, msg, w)
  PROVE  o.w \in Air(ids)
<1> DEFINE near == {x \in Station \ {n} : /\ node[x].sm # "failure"
                                          /\ InRange(n, x)
                                          /\ to \in {BROADCAST, node[x].id}
                                          /\ Len(w.inbox[x]) < RxFifo}
           lost(heard, acked) ==
             Cardinality(near \ heard) +
               IF to # BROADCAST /\ heard # {} /\ ~acked THEN 1 ELSE 0
           got(heard) == [x \in Station |-> IF x \in heard THEN Append(w.inbox[x], msg)
                                            ELSE w.inbox[x]]
<1>1. PICK p \in (SUBSET near) \X BOOLEAN :
        /\ w.faults + lost(p[1], p[2]) <= MaxFaults
        /\ o.w = [inbox |-> got(p[1]), faults |-> w.faults + lost(p[1], p[2])]
  <2> DEFINE choices == {p \in (SUBSET near) \X BOOLEAN :
                           /\ p[2] => p[1] # {} /\ to # BROADCAST
                           /\ w.faults + lost(p[1], p[2]) <= MaxFaults}
             sent(p) == [w |-> [inbox |-> got(p[1]), faults |-> w.faults + lost(p[1], p[2])],
                         ok |-> to = BROADCAST \/ p[2]]
  <2>1. o \in {sent(p) : p \in choices}
    BY DEF transportSend
  <2>2. PICK p \in choices : o = sent(p)
    <3> HIDE DEF choices, sent
    <3>1. QED
      BY <2>1
  <2>3. /\ p \in (SUBSET near) \X BOOLEAN
        /\ w.faults + lost(p[1], p[2]) <= MaxFaults
    BY DEF choices
  <2>4. o.w = [inbox |-> got(p[1]), faults |-> w.faults + lost(p[1], p[2])]
    <3> HIDE DEF got, lost
    <3>1. QED
      BY <2>2 DEF sent
  <2> HIDE DEF got, lost, near
  <2>5. QED
    BY <2>3, <2>4
<1>2. /\ w.inbox \in [Station -> Seq(Message)] /\ w.faults \in 0 .. MaxFaults
      /\ \A x \in Station : /\ Len(w.inbox[x]) <= RxFifo
                            /\ \A i \in DOMAIN w.inbox[x] : MayHear(x, ids, w.inbox[x][i])
  BY DEF Air
<1>3. w.faults + lost(p[1], p[2]) \in 0 .. MaxFaults
  <2>1. IsFiniteSet(near \ p[1])
    <3>1. near \ p[1] \subseteq Station
      OBVIOUS
    <3> HIDE DEF near
    <3>2. QED
      BY <3>1, Finite, FS_Subset
  <2>2. Cardinality(near \ p[1]) \in Nat
    BY <2>1, FS_CardinalityType
  <2>3. lost(p[1], p[2]) \in Nat
    BY <2>2
  <2> HIDE DEF lost
  <2>4. QED
    BY <1>1, <1>2, <2>3, Ids
<1>4. \A x \in Station : /\ got(p[1])[x] \in Seq(Message)
                         /\ Len(got(p[1])[x]) <= RxFifo
                         /\ \A i \in DOMAIN got(p[1])[x] : MayHear(x, ids, got(p[1])[x][i])
  <2> SUFFICES ASSUME NEW x \in Station
      PROVE  /\ got(p[1])[x] \in Seq(Message)
             /\ Len(got(p[1])[x]) <= RxFifo
             /\ \A i \in DOMAIN got(p[1])[x] : MayHear(x, ids, got(p[1])[x][i])
    OBVIOUS
  <2>0. w.inbox[x] \in Seq(Message)
    BY <1>2
  <2>1. CASE x \notin p[1]
    <3>1. got(p[1])[x] = w.inbox[x]
      BY <2>1
    <3> HIDE DEF got
    <3>2. QED
      BY <1>2, <2>0, <3>1
  <2>2. CASE x \in p[1]
    <3>1. got(p[1])[x] = Append(w.inbox[x], msg)
      BY <2>2
    <3>2. x # n /\ Len(w.inbox[x]) < RxFifo
      BY <2>2
    <3>3. MayHear(x, ids, msg)
      BY <3>2 DEF MaySend
    <3> HIDE DEF got
    <3>4. Append(w.inbox[x], msg) \in Seq(Message)
      BY <2>0
    <3>5. Len(Append(w.inbox[x], msg)) <= RxFifo
      BY <2>0, <3>2, Ids
    <3>6. ASSUME NEW i \in DOMAIN Append(w.inbox[x], msg)
          PROVE  MayHear(x, ids, Append(w.inbox[x], msg)[i])
      <4>1. CASE i = Len(w.inbox[x]) + 1
        <5>1. Append(w.inbox[x], msg)[i] = msg
          BY <2>0, <4>1
        <5>2. QED
          BY <5>1, <3>3
      <4>2. CASE i # Len(w.inbox[x]) + 1
        <5>1. i \in DOMAIN w.inbox[x] /\ Append(w.inbox[x], msg)[i] = w.inbox[x][i]
          BY <2>0, <4>2
        <5>2. QED
          BY <5>1, <1>2
      <4>3. QED
        BY <4>1, <4>2
    <3>7. QED
      BY <3>1, <3>4, <3>5, <3>6
  <2>3. QED
    BY <2>1, <2>2
<1>5. got(p[1]) \in [Station -> Seq(Message)]
  BY <1>4
<1> HIDE DEF got, lost, near
<1>6. QED
  BY <1>1, <1>3, <1>4, <1>5 DEF Air
-----------------------------------------------------------------------------

(* What a station has learned of routes and has counted does not matter.    *)
LEMMA SoundSame ==
  ASSUME NEW n, NEW ids, NEW s, Sound(n, ids, s), NEW t \in State,
         t.sm = s.sm, t.id = s.id, t.active = s.active, t.waits = s.waits,
         t.parent = s.parent, t.distance = s.distance, t.response = s.response
  PROVE  Sound(n, ids, t)
<1>1. Waiting(n, ids, s) => Waiting(n, ids, t)
  BY DEF Waiting
<1>2. Linked(n, ids, s) => Linked(n, ids, t)
  BY DEF Linked
<1>3. Pinging(s) => Pinging(t)
  BY DEF Pinging
<1>4. QED
  BY <1>1, <1>2, <1>3 DEF Sound

(* A message of a station is one its neighbours may hear when its argument  *)
(* and sender suit its type (MySensorsCore.h:267-276).                      *)
LEMMA Building ==
  ASSUME NEW s \in State, NEW dest \in Id, NEW arg \in (0 .. INVALID) \cup Id,
         NEW type \in MessageType
  PROVE  /\ Built(s, type, dest, arg) \in Message
         /\ Built(s, type, dest, arg).type = type
         /\ Built(s, type, dest, arg).dest = dest
         /\ Built(s, type, dest, arg).arg = arg
         /\ Built(s, type, dest, arg).sender = s.id
  BY DEF Built, Message, MessageType, State

(* The failures of the uplink are the only thing that sending changes in    *)
(* the state of a station (MyTransport.cpp:292-345).                        *)
LEMMA Routing ==
  ASSUME NEW n \in Station, NEW ids, NEW s \in State, NEW msg \in Message, NEW last,
         NEW w \in Air(ids),
         MaySend(n, ids, msg),
         NEW o \in transportRouteMessage(n, s, msg, last, w)
  PROVE  o.w \in Air(ids) /\ ButFailures(s, o.s)
<1>0. s.failed \in 0 .. 15 /\ s.id \in Id /\ s = [s EXCEPT !.failed = s.failed]
  BY DEF State
<1>1. CASE s.finding /\ msg.dest # BROADCAST
  <2>1. o = Outcome(s, w)
    BY <1>1 DEF transportRouteMessage
  <2>2. QED
    BY <2>1, <1>0 DEF Outcome, ButFailures
<1>2. CASE ~(s.finding /\ msg.dest # BROADCAST)
  <2> DEFINE route == Route(n, s, msg, last)
             onward == [msg EXCEPT !.last = s.id]
             after(sent) == IF n # GATEWAY /\ route = s.parent
                            THEN [s EXCEPT !.failed = IF sent.ok THEN 0 ELSE (@ + 1) % 16]
                            ELSE s
  <2>1. PICK sent \in transportSend(n, route, onward, w) : o = Outcome(after(sent), sent.w)
    BY <1>2 DEF transportRouteMessage
  <2>2. /\ onward \in Message /\ onward.type = msg.type /\ onward.dest = msg.dest
        /\ onward.arg = msg.arg /\ onward.sender = msg.sender
    BY <1>0 DEF Message
  <2>3. MaySend(n, ids, onward)
    <3> HIDE DEF onward
    <3>1. QED
      BY <2>2 DEF MaySend, MayHear
  <2>4. sent.w \in Air(ids)
    <3> HIDE DEF onward, route
    <3>1. QED
      BY <2>2, <2>3, Sending
  <2>5. ButFailures(s, after(sent))
    <3> HIDE DEF route, onward
    <3>1. (s.failed + 1) % 16 \in 0 .. 15
      BY <1>0
    <3>2. CASE n # GATEWAY /\ route = s.parent /\ sent.ok
      <4>1. after(sent) = [s EXCEPT !.failed = 0]
        BY <3>2 DEF State
      <4>2. QED
        BY <4>1 DEF ButFailures
    <3>3. CASE n # GATEWAY /\ route = s.parent /\ ~sent.ok
      <4>1. after(sent) = [s EXCEPT !.failed = (s.failed + 1) % 16]
        BY <3>3 DEF State
      <4>2. QED
        BY <4>1, <3>1 DEF ButFailures
    <3>4. CASE ~(n # GATEWAY /\ route = s.parent)
      <4>1. after(sent) = s
        BY <3>4
      <4>2. QED
        BY <4>1, <1>0 DEF ButFailures
    <3>5. QED
      BY <3>2, <3>3, <3>4
  <2> HIDE DEF after
  <2>6. QED
    BY <2>1, <2>4, <2>5 DEF Outcome
<1>3. QED
  BY <1>1, <1>2

(* A sound station that sends is sound, and waits for what it waited for.   *)
LEMMA RoutingFine ==
  ASSUME NEW n \in Station, NEW ids, NEW s, Sound(n, ids, s), NEW msg \in Message,
         NEW last, NEW w \in Air(ids),
         MaySend(n, ids, msg),
         NEW o \in transportRouteMessage(n, s, msg, last, w)
  PROVE  Fine(n, ids, o) /\ o.s.waits = s.waits
<1>1. s \in State
  BY DEF Sound
<1>2. o.w \in Air(ids) /\ ButFailures(s, o.s)
  BY <1>1, Routing
<1>3. PICK f \in 0 .. 15 : o.s = [s EXCEPT !.failed = f]
  BY <1>2 DEF ButFailures
<1>4. /\ o.s \in State /\ o.s.sm = s.sm /\ o.s.id = s.id /\ o.s.active = s.active
      /\ o.s.waits = s.waits /\ o.s.parent = s.parent /\ o.s.distance = s.distance
      /\ o.s.response = s.response
  BY <1>1, <1>3 DEF State
<1>5. Sound(n, ids, o.s)
  BY <1>4, SoundSame
<1>6. QED
  BY <1>2, <1>4, <1>5 DEF Fine

(* What a station builds it may send.                                      *)
LEMMA Sendable ==
  ASSUME NEW n \in Station, NEW ids, NEW s \in State, s.id = ids[n],
         NEW dest \in Id, NEW arg \in (0 .. INVALID) \cup Id,
         NEW type \in MessageType,
         type \in {"PING", "PONG"} => arg = 1,
         type = "ID_RESPONSE" => arg \in Dynamic /\ dest = BROADCAST,
         type = "FIND_PARENT" => s.id # GATEWAY /\ dest = BROADCAST,
         type = "FIND_PARENT_RESPONSE" => /\ s.id # AUTO
                                          /\ s.id = dest => s.id \in Others(n, ids)
  PROVE  Built(s, type, dest, arg) \in Message /\ MaySend(n, ids, Built(s, type, dest, arg))
<1> DEFINE m == Built(s, type, dest, arg)
<1>1. /\ m \in Message /\ m.type = type /\ m.dest = dest /\ m.arg = arg /\ m.sender = s.id
  BY Building
<1>2. ASSUME NEW x \in Station, x # n PROVE MayHear(x, ids, m)
  <2>1. s.id \in Others(x, ids) \cup {AUTO}
    BY <1>2 DEF Others
  <2> HIDE DEF m
  <2>2. type = "FIND_PARENT" =>
          m.dest = BROADCAST /\ m.sender \in (Others(x, ids) \cup {AUTO}) \ {GATEWAY}
    BY <1>1, <2>1
  <2>3. type \in {"PING", "PONG"} => m.arg \in 1 .. MAX_HOPS
    BY <1>1, Ids
  <2>4. QED
    BY <1>1, <2>2, <2>3 DEF MayHear
<1> HIDE DEF m
<1>3. MaySend(n, ids, m)
  BY <1>2 DEF MaySend
<1>4. QED
  BY <1>1, <1>3 DEF m

(* transportPingNode() up to its wait, when the state fits the wait.        *)
LEMMA PingFine ==
  ASSUME NEW n \in Station, NEW ids, NEW s \in State, s.id = ids[n], NEW asker,
         Sound(n, ids, PingSent(s, asker)),
         NEW w \in Air(ids), NEW o \in Ping(n, s, asker, w)
  PROVE  Fine(n, ids, o) /\ o.s.waits = <<asker>> \o s.waits
<1> DEFINE pinging == PingSent(s, asker)
           m == Built(s, "PING", GATEWAY, 1)
<1>1. o \in transportRouteMessage(n, pinging, m, s.id, w)
  BY DEF Ping, PingSent
<1>2. m \in Message /\ MaySend(n, ids, m)
  <2>1. GATEWAY \in Id /\ 1 \in (0 .. INVALID) \cup Id /\ "PING" \in MessageType
    BY Ids DEF Id, INVALID, MessageType
  <2>2. QED
    BY <2>1, Sendable
<1>3. pinging.waits = <<asker>> \o s.waits
  BY DEF State, PingSent
<1> HIDE DEF pinging, m
<1>4. Sound(n, ids, pinging)
  BY DEF pinging
<1>5. QED
  BY <1>1, <1>2, <1>3, <1>4, RoutingFine

(* A wait that begins is the innermost one.                                *)
LEMMA Pushing ==
  ASSUME NEW n, NEW ids, NEW s \in State, Waiting(n, ids, s),
         NEW x \in Others(n, ids) \cup {AUTO, UPLINK, PRESENT}, x \in Id \cup {PRESENT},
         x # PRESENT => s.id # AUTO,
         x = UPLINK => s.sm \in {"uplink", "failure"} /\ s.parent # AUTO /\ Unlinked(s),
         NEW t, t.waits = <<x>> \o s.waits, t.sm = s.sm, t.id = s.id, t.parent = s.parent
  PROVE  /\ t.waits \in Seq(Id \cup {PRESENT})
         /\ Waiting(n, ids, t)
         /\ x # PRESENT \/ Pinging(s) => Pinging(t)
<1>1. s.waits \in Seq(Id \cup {PRESENT})
  BY DEF State
<1>2. t.waits \in Seq(Id \cup {PRESENT}) /\ 1 \in DOMAIN t.waits /\ t.waits[1] = x
  BY <1>1
<1>3. ASSUME NEW i \in DOMAIN t.waits, i # 1
      PROVE  i - 1 \in DOMAIN s.waits /\ t.waits[i] = s.waits[i - 1]
  BY <1>1, <1>3
<1>4. ASSUME NEW i \in DOMAIN s.waits PROVE i + 1 \in DOMAIN t.waits /\ t.waits[i + 1] = s.waits[i]
  BY <1>1
<1>5. ASSUME NEW i \in DOMAIN t.waits
      PROVE  /\ t.waits[i] \in Others(n, ids) \cup {AUTO, UPLINK, PRESENT}
             /\ t.waits[i] # PRESENT => t.id # AUTO
             /\ t.waits[i] = UPLINK => t.sm \in {"uplink", "failure"} /\ t.parent # AUTO
  BY <1>2, <1>3 DEF Waiting
<1>6. ASSUME NEW i \in DOMAIN t.waits, NEW j \in DOMAIN t.waits,
             t.waits[i] = UPLINK, t.waits[j] = UPLINK
      PROVE  i = j
  <2>1. i \in Nat /\ j \in Nat
    BY <1>2
  <2>2. CASE x = UPLINK
    BY <1>3, <1>6, <2>2 DEF Unlinked
  <2>3. CASE x # UPLINK
    <3>1. i # 1 /\ j # 1
      BY <1>2, <1>6, <2>3
    <3>2. i - 1 = j - 1
      BY <1>3, <1>6, <3>1 DEF Waiting
    <3>3. QED
      BY <2>1, <3>2
  <2>4. QED
    BY <2>2, <2>3
<1>7. Waiting(n, ids, t)
  BY <1>5, <1>6 DEF Waiting
<1>8. x # PRESENT \/ Pinging(s) => Pinging(t)
  BY <1>2, <1>4 DEF Pinging
<1>9. QED
  BY <1>2, <1>7, <1>8

(* When a wait returns, those around it are left.                           *)
LEMMA Popping ==
  ASSUME NEW n, NEW ids, NEW s \in State, s.waits # <<>>, Waiting(n, ids, s),
         NEW t, t.waits = Tail(s.waits), t.sm = s.sm, t.id = s.id, t.parent = s.parent
  PROVE  /\ t.waits \in Seq(Id \cup {PRESENT}) /\ Len(t.waits) <= Len(s.waits)
         /\ Waiting(n, ids, t)
         /\ Head(s.waits) = UPLINK => Unlinked(t)
         /\ Head(s.waits) = PRESENT /\ Pinging(s) => Pinging(t)
<1>1. s.waits \in Seq(Id \cup {PRESENT})
  BY DEF State
<1>2. /\ t.waits \in Seq(Id \cup {PRESENT}) /\ Len(t.waits) <= Len(s.waits)
      /\ 1 \in DOMAIN s.waits /\ Head(s.waits) = s.waits[1]
  BY <1>1
<1>3. ASSUME NEW i \in DOMAIN t.waits
      PROVE  i \in Nat \ {0} /\ i + 1 \in DOMAIN s.waits /\ t.waits[i] = s.waits[i + 1]
  BY <1>1
<1>4. ASSUME NEW i \in DOMAIN s.waits, i # 1
      PROVE  i - 1 \in DOMAIN t.waits /\ t.waits[i - 1] = s.waits[i]
  BY <1>1, <1>4
<1>5. ASSUME NEW i \in DOMAIN t.waits
      PROVE  /\ t.waits[i] \in Others(n, ids) \cup {AUTO, UPLINK, PRESENT}
             /\ t.waits[i] # PRESENT => t.id # AUTO
             /\ t.waits[i] = UPLINK => t.sm \in {"uplink", "failure"} /\ t.parent # AUTO
  BY <1>3 DEF Waiting
<1>6. ASSUME NEW i \in DOMAIN t.waits, NEW j \in DOMAIN t.waits,
             t.waits[i] = UPLINK, t.waits[j] = UPLINK
      PROVE  i = j
  <2>1. i + 1 = j + 1
    BY <1>3, <1>6 DEF Waiting
  <2>2. QED
    BY <1>3, <2>1
<1>7. Waiting(n, ids, t)
  BY <1>5, <1>6 DEF Waiting
<1>8. ASSUME Head(s.waits) = UPLINK, NEW i \in DOMAIN t.waits PROVE t.waits[i] # UPLINK
  <2>1. SUFFICES ASSUME t.waits[i] = UPLINK PROVE FALSE
    OBVIOUS
  <2>2. 1 = i + 1
    BY <1>2, <1>3, <1>8, <2>1 DEF Waiting
  <2>3. QED
    BY <1>3, <2>2
<1>9. Head(s.waits) = PRESENT /\ Pinging(s) => Pinging(t)
  BY <1>2, <1>4 DEF Pinging
<1>10. QED
  BY <1>2, <1>7, <1>8, <1>9 DEF Unlinked

-----------------------------------------------------------------------------
\* The transitions.

(* Entering a state counts the retries and changes nothing else             *)
(* (MyTransport.cpp:206-220).                                              *)
LEMMA Entering ==
  ASSUME NEW s \in State, NEW sm \in {"failure", "parent", "id", "uplink", "ok"}
  PROVE  /\ Entered(s, sm) \in State /\ Entered(s, sm).sm = sm
         /\ Entered(s, sm).id = s.id /\ Entered(s, sm).active = s.active
         /\ Entered(s, sm).waits = s.waits /\ Entered(s, sm).parent = s.parent
         /\ Entered(s, sm).distance = s.distance /\ Entered(s, sm).response = s.response
<1> DEFINE r == IF s.sm = sm THEN (s.retries + 1) % 16 ELSE 0
<1>1. r \in 0 .. 15
  BY DEF State
<1>2. Entered(s, sm) = [s EXCEPT !.sm = sm, !.retries = r]
  BY DEF Entered, State
<1> HIDE DEF r
<1>3. QED
  BY <1>1, <1>2 DEF State

(* What waits may wait on in another state without the uplink check.        *)
LEMMA WaitingSame ==
  ASSUME NEW n, NEW ids, NEW s, Waiting(n, ids, s), NEW t,
         t.waits = s.waits, t.id = s.id,
         Unlinked(s) \/ (t.sm \in {"uplink", "failure"} /\ t.parent = s.parent)
  PROVE  Waiting(n, ids, t) /\ (Pinging(s) => Pinging(t))
<1>1. ASSUME NEW i \in DOMAIN t.waits
      PROVE  /\ t.waits[i] \in Others(n, ids) \cup {AUTO, UPLINK, PRESENT}
             /\ t.waits[i] # PRESENT => t.id # AUTO
             /\ t.waits[i] = UPLINK => t.sm \in {"uplink", "failure"} /\ t.parent # AUTO
  BY <1>1 DEF Waiting, Unlinked
<1>2. \A i, j \in DOMAIN t.waits : t.waits[i] = UPLINK /\ t.waits[j] = UPLINK => i = j
  BY DEF Waiting
<1>3. Waiting(n, ids, t)
  BY <1>1, <1>2 DEF Waiting
<1>4. QED
  BY <1>3 DEF Pinging

(* A search begins, from any state, and whatever waits but the check of the *)
(* uplink (MyTransport.cpp:86-98).                                         *)
LEMMA Searching ==
  ASSUME NEW n \in Node, NEW ids, NEW s \in State, s.id = ids[n], s.id \in Node \cup {AUTO},
         Waiting(n, ids, s), Unlinked(s), s.active => Pinging(s),
         s.response \in 1 .. INVALID,
         NEW w \in Air(ids), NEW o \in stParentTransition(n, s, w)
  PROVE  Fine(n, ids, o) /\ o.s.waits = s.waits
<1> DEFINE looking == [Entered(s, "parent") EXCEPT !.failed = 0, !.finding = TRUE,
                                                   !.distance = INVALID, !.parent = AUTO]
           m == Built(s, "FIND_PARENT", BROADCAST, 0)
<1>1. n \in Station /\ n # GATEWAY
  BY Ids DEF Station
<1>2. o \in transportRouteMessage(n, looking, m, s.id, w)
  BY DEF stParentTransition
<1>3. m \in Message /\ MaySend(n, ids, m)
  <2>1. /\ BROADCAST \in Id /\ 0 \in (0 .. INVALID) \cup Id /\ "FIND_PARENT" \in MessageType
        /\ s.id # GATEWAY
    BY Ids DEF Id, INVALID, BROADCAST, AUTO, MessageType, GATEWAY
  <2>2. QED
    BY <1>1, <2>1, Sendable
<1>4. /\ looking \in State /\ looking.sm = "parent" /\ looking.id = s.id
      /\ looking.active = s.active /\ looking.waits = s.waits /\ looking.parent = AUTO
      /\ looking.distance = INVALID /\ looking.response = s.response
  <2>1. /\ Entered(s, "parent") \in State /\ Entered(s, "parent").sm = "parent"
        /\ Entered(s, "parent").id = s.id /\ Entered(s, "parent").active = s.active
        /\ Entered(s, "parent").waits = s.waits /\ Entered(s, "parent").response = s.response
    BY Entering
  <2>2. INVALID \in 0 .. INVALID /\ AUTO \in Id /\ 0 \in 0 .. 15
    BY Ids DEF INVALID, Id
  <2>3. QED
    BY <2>1, <2>2 DEF State
<1>5. INVALID \in 1 .. INVALID
  BY Ids DEF INVALID
<1> HIDE DEF looking, m
<1>6. Waiting(n, ids, looking) /\ (Pinging(s) => Pinging(looking))
  BY <1>4, WaitingSame
<1>7. Linked(n, ids, looking)
  BY <1>4, <1>5 DEF Linked
<1>8. Sound(n, ids, looking)
  BY <1>1, <1>4, <1>6, <1>7 DEF Sound
<1>9. QED
  BY <1>1, <1>2, <1>3, <1>4, <1>8, RoutingFine

(* No check of the uplink waits in the states before it.                    *)
LEMMA LinkedLater ==
  ASSUME NEW n, NEW ids, NEW s, Waiting(n, ids, s), s.sm \notin {"uplink", "failure"}
  PROVE  Unlinked(s)
  BY DEF Waiting, Unlinked

(* An id is asked for when there is a parent (MyTransport.cpp:125-132).     *)
LEMMA AskingForId ==
  ASSUME NEW n \in Node, NEW ids, NEW s, Sound(n, ids, s), s.id = ids[n],
         s.sm \in {"parent", "id"},
         s.parent # AUTO, NEW w \in Air(ids), NEW o \in stIDTransition(n, s, w)
  PROVE  Fine(n, ids, o) /\ o.s.waits = s.waits
<1> DEFINE in == [Entered(s, "id") EXCEPT !.finding = FALSE]
           m == Built(s, "ID_REQUEST", GATEWAY, 0)
<1>1. n \in Station /\ n # GATEWAY
  BY Ids DEF Station
<1>2. s \in State /\ Waiting(n, ids, s) /\ Unlinked(s) /\ Linked(n, ids, s)
  BY <1>1, LinkedLater DEF Sound
<1>3. m \in Message /\ MaySend(n, ids, m)
  <2>1. GATEWAY \in Id /\ 0 \in (0 .. INVALID) \cup Id /\ "ID_REQUEST" \in MessageType
    BY Ids DEF Id, INVALID, MessageType
  <2>2. QED
    BY <1>1, <1>2, <2>1, Sendable
<1>4. /\ in \in State /\ in.sm = "id" /\ in.id = s.id /\ in.active = s.active
      /\ in.waits = s.waits /\ in.parent = s.parent /\ in.distance = s.distance
      /\ in.response = s.response
  <2>1. /\ Entered(s, "id") \in State /\ Entered(s, "id").sm = "id"
        /\ Entered(s, "id").id = s.id /\ Entered(s, "id").active = s.active
        /\ Entered(s, "id").waits = s.waits /\ Entered(s, "id").parent = s.parent
        /\ Entered(s, "id").distance = s.distance /\ Entered(s, "id").response = s.response
    BY <1>2, Entering
  <2>2. QED
    BY <2>1 DEF State
<1>5. o \in transportRouteMessage(n, in, m, s.id, w) \/ o = Outcome(in, w)
  BY DEF stIDTransition
<1> HIDE DEF in, m
<1>6. Waiting(n, ids, in) /\ (Pinging(s) => Pinging(in))
  BY <1>2, <1>4, WaitingSame
<1>7. Linked(n, ids, in)
  BY <1>2, <1>4 DEF Linked
<1>8. Sound(n, ids, in)
  BY <1>1, <1>4, <1>6, <1>7 DEF Sound
<1>9. CASE o = Outcome(in, w)
  BY <1>2, <1>4, <1>8, <1>9 DEF Outcome, Fine
<1>10. CASE o \in transportRouteMessage(n, in, m, s.id, w)
  BY <1>1, <1>2, <1>3, <1>4, <1>8, <1>10, RoutingFine
<1>11. QED
  BY <1>5, <1>9, <1>10

(* What the radio of a node held may be lost (MyTransport.cpp:190-198).     *)
LEMMA Emptied ==
  ASSUME NEW n \in Station, NEW ids, NEW w \in Air(ids)
  PROVE  [w EXCEPT !.inbox[n] = <<>>] \in Air(ids)
<1> DEFINE v == [w EXCEPT !.inbox[n] = <<>>]
<1>1. /\ w.inbox \in [Station -> Seq(Message)] /\ w.faults \in 0 .. MaxFaults
      /\ w \in [inbox : [Station -> Seq(Message)], faults : 0 .. MaxFaults]
      /\ \A x \in Station : /\ Len(w.inbox[x]) <= RxFifo
                            /\ \A i \in DOMAIN w.inbox[x] : MayHear(x, ids, w.inbox[x][i])
  BY DEF Air
<1>2. v.inbox = [w.inbox EXCEPT ![n] = <<>>] /\ v = [w EXCEPT !.inbox = v.inbox]
  BY <1>1
<1>3. v.inbox \in [Station -> Seq(Message)]
  BY <1>1, <1>2
<1>4. v \in [inbox : [Station -> Seq(Message)], faults : 0 .. MaxFaults]
  BY <1>1, <1>2, <1>3
<1>5. \A x \in Station : /\ Len(v.inbox[x]) <= RxFifo
                         /\ \A i \in DOMAIN v.inbox[x] : MayHear(x, ids, v.inbox[x][i])
  BY <1>1, <1>2, Ids
<1> HIDE DEF v
<1>6. v \in Air(ids)
  BY <1>4, <1>5 DEF Air
<1>7. QED
  BY <1>6 DEF v

(* The budget of faults pays for one more.                                 *)
LEMMA Paying ==
  ASSUME NEW ids, World \in Air(ids), faults < MaxFaults
  PROVE  /\ [World EXCEPT !.faults = @ + 1] \in Air(ids)
         /\ faults + 1 \in 0 .. MaxFaults
<1>1. World = [inbox |-> inbox, faults |-> faults]
  BY DEF World
<1>2. inbox \in [Station -> Seq(Message)] /\ faults \in 0 .. MaxFaults
  BY <1>1 DEF Air
<1>3. faults + 1 \in 0 .. MaxFaults
  BY <1>2, Ids
<1>4. [World EXCEPT !.faults = @ + 1] = [inbox |-> inbox, faults |-> faults + 1]
  BY <1>1
<1>5. [inbox |-> inbox, faults |-> faults + 1] \in Air(ids)
  BY <1>1, <1>2, <1>3 DEF Air
<1>6. QED
  BY <1>3, <1>4, <1>5

(* A node that gives up is off, whatever waits (MyTransport.cpp:190-198).   *)
LEMMA Failing ==
  ASSUME NEW n \in Node, NEW ids, NEW s, Sound(n, ids, s),
         NEW w \in Air(ids), NEW o \in stFailureTransition(n, s, w)
  PROVE  Fine(n, ids, o) /\ o.s.waits = s.waits
<1> DEFINE off == [Entered(s, "failure") EXCEPT !.listening = FALSE]
<1>1. n \in Station /\ n # GATEWAY
  BY Ids DEF Station
<1>2. s \in State /\ Waiting(n, ids, s) /\ Linked(n, ids, s)
  BY <1>1 DEF Sound
<1>3. /\ off \in State /\ off.sm = "failure" /\ off.id = s.id /\ off.active = s.active
      /\ off.waits = s.waits /\ off.parent = s.parent /\ off.distance = s.distance
      /\ off.response = s.response
  <2>1. /\ Entered(s, "failure") \in State /\ Entered(s, "failure").sm = "failure"
        /\ Entered(s, "failure").id = s.id /\ Entered(s, "failure").waits = s.waits
        /\ Entered(s, "failure").active = s.active
        /\ Entered(s, "failure").parent = s.parent
        /\ Entered(s, "failure").distance = s.distance
        /\ Entered(s, "failure").response = s.response
    BY <1>2, Entering
  <2>2. QED
    BY <2>1 DEF State
<1>4. o = Outcome(off, [w EXCEPT !.inbox[n] = <<>>])
  BY DEF stFailureTransition
<1> HIDE DEF off
<1>5. Waiting(n, ids, off) /\ (Pinging(s) => Pinging(off))
  BY <1>2, <1>3, WaitingSame
<1>6. Linked(n, ids, off)
  BY <1>2, <1>3 DEF Linked
<1>7. Sound(n, ids, off)
  BY <1>1, <1>3, <1>5, <1>6 DEF Sound
<1>8. QED
  BY <1>1, <1>3, <1>4, <1>7, Emptied DEF Outcome, Fine

(* A start begins with a search (MyTransport.cpp:41-83, 200-204, 235-239).  *)
LEMMA Starting ==
  ASSUME NEW n \in Node, NEW ids, NEW s \in State, s.id = ids[n], s.id \in Node \cup {AUTO},
         s.waits = <<>>, s.response \in 1 .. INVALID,
         NEW w \in Air(ids), NEW o \in stInitTransition(n, s, w)
  PROVE  Fine(n, ids, o) /\ o.s.waits = <<>>
<1> DEFINE init == [s EXCEPT !.sm = "failure", !.failed = 0, !.active = FALSE,
                             !.listening = TRUE]
<1>1. /\ init \in State /\ init.id = s.id /\ init.active = FALSE
      /\ init.waits = <<>> /\ init.response = s.response
  <2>1. 0 \in 0 .. 15
    OBVIOUS
  <2>2. QED
    BY <2>1 DEF State
<1>2. o \in stParentTransition(n, init, w)
  BY DEF stInitTransition
<1> HIDE DEF init
<1>3. Waiting(n, ids, init) /\ Unlinked(init)
  <2>1. DOMAIN init.waits = {}
    BY <1>1
  <2>2. QED
    BY <2>1 DEF Waiting, Unlinked
<1>4. QED
  BY <1>1, <1>2, <1>3, Searching

-----------------------------------------------------------------------------
\* The messages.

(* A route that is learned changes nothing else (MyTransport.cpp:446-452,   *)
(* 551-553).                                                               *)
LEMMA Rerouted ==
  ASSUME NEW s \in State, NEW x \in Station, NEW y \in Id
  PROVE  ButRoutes(s, [s EXCEPT !.routes[x] = y])
  BY DEF State, ButRoutes

LEMMA SoundRerouted ==
  ASSUME NEW n, NEW ids, NEW s, Sound(n, ids, s), NEW t, ButRoutes(s, t)
  PROVE  Sound(n, ids, t)
  BY SoundSame DEF ButRoutes

LEMMA Learning ==
  ASSUME NEW n \in Station, NEW s \in State, NEW msg \in Message
  PROVE  ButRoutes(s, Learned(n, s, msg))
<1>1. ButRoutes(s, s)
  BY DEF ButRoutes
<1>2. CASE msg.sender = AUTO
  BY <1>1, <1>2 DEF Learned
<1>3. CASE msg.sender # AUTO
  <2>1. msg.sender \in Station /\ msg.last \in Id
    BY <1>3 DEF Message, Id
  <2>2. ButRoutes(s, [s EXCEPT !.routes[msg.sender] = msg.last])
    BY <2>1, Rerouted
  <2>3. QED
    BY <1>1, <2>2 DEF Learned
<1>4. QED
  BY <1>2, <1>3

(* The nearest neighbour becomes the parent: another station, with an id    *)
(* (MyTransport.cpp:481-503).                                              *)
LEMMA FindingParent ==
  ASSUME NEW n \in Node, NEW ids, NEW s, Sound(n, ids, s), s.id = ids[n],
         NEW msg \in Message, msg.type = "FIND_PARENT_RESPONSE", msg.dest = s.id,
         MayHear(n, ids, msg)
  PROVE  Sound(n, ids, Nearer(s, msg))
<1>1. n \in Station /\ n # GATEWAY
  BY Ids DEF Station
<1>2. s \in State /\ Waiting(n, ids, s) /\ Linked(n, ids, s)
  BY <1>1 DEF Sound
<1>3. CASE ~(msg.arg # INVALID /\ msg.arg + 1 # INVALID /\ msg.arg + 1 < s.distance)
  BY <1>3 DEF Nearer
<1>4. CASE msg.arg # INVALID /\ msg.arg + 1 # INVALID /\ msg.arg + 1 < s.distance
  <2> DEFINE t == [s EXCEPT !.distance = msg.arg + 1, !.parent = msg.sender]
  <2>1. Nearer(s, msg) = t
    BY <1>4 DEF Nearer
  <2>2. msg.arg \in Nat
    <3>1. msg.arg \in (0 .. INVALID) \cup Id
      BY DEF Message
    <3>2. (0 .. INVALID) \subseteq Nat /\ Id \subseteq Nat
      BY Ids DEF Id, AUTO, INVALID
    <3>3. QED
      BY <3>1, <3>2
  <2>3. s.distance \in 1 .. INVALID /\ INVALID \in Nat
    BY <1>2, Ids DEF Linked, INVALID
  <2>4. /\ msg.arg + 1 \in 1 .. INVALID /\ msg.arg + 1 \in 0 .. INVALID
        /\ msg.arg + 1 # INVALID
    BY <1>4, <2>2, <2>3
  <2>5. msg.sender \in Others(n, ids) /\ msg.sender # AUTO /\ msg.sender \in Id
    <3>1. PICK y \in Station : /\ msg.sender = ids[y] /\ msg.sender # AUTO
                               /\ msg.sender = msg.dest => msg.sender \in Others(y, ids)
      BY DEF MayHear
    <3>2. CASE y = n
      BY <3>1, <3>2 DEF Message
    <3>3. CASE y # n
      BY <3>1, <3>3 DEF Others, Message
    <3>4. QED
      BY <3>2, <3>3
  <2>6. t \in State
    BY <1>2, <2>4, <2>5 DEF State
  <2>7. /\ t.sm = s.sm /\ t.id = s.id /\ t.active = s.active /\ t.waits = s.waits
        /\ t.parent = msg.sender /\ t.distance = msg.arg + 1 /\ t.response = s.response
    BY <1>2 DEF State
  <2> HIDE DEF t
  <2>8. Waiting(n, ids, t) /\ (Pinging(s) => Pinging(t))
    BY <1>2, <2>5, <2>7 DEF Waiting, Pinging
  <2>9. Linked(n, ids, t)
    BY <1>2, <2>4, <2>5, <2>7 DEF Linked
  <2>10. Sound(n, ids, t)
    BY <1>1, <2>6, <2>7, <2>8, <2>9 DEF Sound
  <2>11. QED
    BY <2>1, <2>10
<1>5. QED
  BY <1>3, <1>4

(* A pong ends the ping it answers, or one that came later                  *)
(* (MyTransport.cpp:511-518).                                              *)
LEMMA Ponging ==
  ASSUME NEW n \in Station, NEW ids, NEW s, Sound(n, ids, s), NEW msg \in Message,
         msg.arg \in 1 .. MAX_HOPS
  PROVE  Sound(n, ids, Ponged(s, msg))
<1>1. s \in State
  BY DEF Sound
<1>2. CASE ~s.active
  BY <1>2 DEF Ponged
<1>3. CASE s.active
  <2> DEFINE t == [s EXCEPT !.active = FALSE, !.response = msg.arg]
  <2>1. Ponged(s, msg) = t
    BY <1>3 DEF Ponged
  <2>2. msg.arg \in 1 .. INVALID /\ msg.arg \in 0 .. INVALID
    BY Ids DEF INVALID
  <2>3. /\ t \in State /\ t.sm = s.sm /\ t.id = s.id /\ t.active = FALSE
        /\ t.waits = s.waits /\ t.parent = s.parent /\ t.distance = s.distance
        /\ t.response = msg.arg
    BY <1>1, <2>2 DEF State
  <2> HIDE DEF t
  <2>4. Waiting(n, ids, s) => Waiting(n, ids, t)
    BY <2>3 DEF Waiting
  <2>5. Linked(n, ids, s) => Linked(n, ids, t)
    BY <2>2, <2>3 DEF Linked
  <2>6. Sound(n, ids, t)
    BY <2>3, <2>4, <2>5 DEF Sound
  <2>7. QED
    BY <2>1, <2>6
<1>4. QED
  BY <1>2, <1>3

(* A station answers a search under its own id (MyTransport.cpp:560-563).   *)
LEMMA Answering ==
  ASSUME NEW n \in Station, NEW ids, NEW s, Sound(n, ids, s), s.id = ids[n], s.id # AUTO,
         NEW asker \in Id, asker \in Others(n, ids) \cup {AUTO},
         NEW w \in Air(ids), NEW o \in FindParentResponse(n, s, asker, w)
  PROVE  Fine(n, ids, o) /\ o.s.waits = s.waits
<1> DEFINE m == Built(s, "FIND_PARENT_RESPONSE", asker, s.distance)
<1>1. /\ s \in State /\ s.distance \in (0 .. INVALID) \cup Id
      /\ "FIND_PARENT_RESPONSE" \in MessageType
  BY DEF Sound, State, MessageType
<1>2. m \in Message /\ MaySend(n, ids, m)
  BY <1>1, Sendable
<1>3. o \in transportRouteMessage(n, s, m, s.id, w)
  BY DEF FindParentResponse
<1> HIDE DEF m
<1>4. QED
  BY <1>2, <1>3, RoutingFine

(* The wait that a search begins in a ready node names the asker: another   *)
(* node or one without an id (MyTransport.cpp:546-570).                     *)
LEMMA PingsForAsker ==
  ASSUME NEW n \in Node, NEW ids, NEW s, Sound(n, ids, s), s.sm = "ok",
         NEW asker \in Id, asker \in (Others(n, ids) \cup {AUTO}) \ {GATEWAY}
  PROVE  Sound(n, ids, PingSent(s, asker))
<1> DEFINE t == PingSent(s, asker)
<1>1. n \in Station /\ n # GATEWAY
  BY Ids DEF Station
<1>2. s \in State /\ Waiting(n, ids, s) /\ Linked(n, ids, s)
  BY <1>1 DEF Sound
<1>3. asker # UPLINK /\ asker # PRESENT /\ asker \in Id \cup {PRESENT}
  BY Ids DEF Id, Station, UPLINK, AUTO, GATEWAY, PRESENT
<1>4. t.waits = <<asker>> \o s.waits /\ t.sm = s.sm /\ t.id = s.id /\ t.parent = s.parent
  BY <1>2 DEF State, PingSent
<1>5. INVALID \in 0 .. INVALID /\ INVALID \in 1 .. INVALID
  BY Ids DEF INVALID
<1> HIDE DEF t
<1>6. t.waits \in Seq(Id \cup {PRESENT}) /\ Waiting(n, ids, t) /\ Pinging(t)
  <2>1. s.id # AUTO /\ asker \in Others(n, ids) \cup {AUTO, UPLINK, PRESENT}
    BY <1>2 DEF Linked
  <2>2. QED
    BY <1>2, <1>3, <1>4, <2>1, Pushing
<1>7. t \in State /\ t.distance = s.distance /\ t.response = INVALID
  BY <1>2, <1>4, <1>5, <1>6 DEF State, PingSent, t
<1>8. Linked(n, ids, t)
  BY <1>2, <1>4, <1>5, <1>7 DEF Linked
<1>9. Sound(n, ids, t)
  BY <1>1, <1>2, <1>4, <1>6, <1>7, <1>8 DEF Sound
<1>10. QED
  BY <1>9 DEF t

(* A search that a ready station hears (MyTransport.cpp:546-570).           *)
LEMMA Searched ==
  ASSUME NEW n \in Station, NEW ids, NEW s, Sound(n, ids, s), s.id = ids[n], s.sm = "ok",
         NEW msg \in Message, msg.type = "FIND_PARENT", MayHear(n, ids, msg),
         NEW w \in Air(ids), NEW o \in FindParent(n, s, msg, w)
  PROVE  Fine(n, ids, o)
<1> DEFINE reached == IF msg.sender = AUTO THEN s ELSE [s EXCEPT !.routes[msg.sender] = msg.sender]
           fresh == [reached EXCEPT !.recent = TRUE]
<1>1. s \in State /\ s.id # AUTO
  BY Ids DEF Sound, Linked
<1>2. msg.sender \in (Others(n, ids) \cup {AUTO}) \ {GATEWAY} /\ msg.sender \in Id
  BY DEF MayHear, Message
<1>3. ButRoutes(s, reached)
  <2>1. CASE msg.sender = AUTO
    BY <1>1, <2>1 DEF ButRoutes
  <2>2. CASE msg.sender # AUTO
    <3>1. msg.sender \in Station
      BY <1>2, <2>2 DEF Id
    <3>2. QED
      BY <1>1, <1>2, <2>2, <3>1, Rerouted
  <2>3. QED
    BY <2>1, <2>2
<1>4. \/ o = Outcome(s, w)
      \/ o = Outcome(reached, w)
      \/ o \in FindParentResponse(n, fresh, msg.sender, w)
      \/ n \in Repeaters /\ o \in Ping(n, reached, msg.sender, w)
  BY DEF FindParent
<1> HIDE DEF reached
<1>5. Sound(n, ids, reached) /\ reached \in State /\ reached.sm = "ok" /\ reached.id = s.id
  BY <1>3, SoundRerouted DEF ButRoutes
<1>6. Sound(n, ids, fresh) /\ fresh.id = s.id
  <2>1. /\ fresh \in State /\ fresh.sm = reached.sm /\ fresh.id = reached.id
        /\ fresh.active = reached.active /\ fresh.waits = reached.waits
        /\ fresh.parent = reached.parent /\ fresh.distance = reached.distance
        /\ fresh.response = reached.response
    BY <1>5 DEF State
  <2> HIDE DEF fresh
  <2>2. QED
    BY <1>5, <2>1, SoundSame
<1> HIDE DEF fresh
<1>7. CASE o = Outcome(s, w)
  BY <1>7 DEF Outcome, Fine
<1>8. CASE o = Outcome(reached, w)
  BY <1>5, <1>8 DEF Outcome, Fine
<1>9. CASE o \in FindParentResponse(n, fresh, msg.sender, w)
  BY <1>1, <1>2, <1>6, <1>9, Answering
<1>10. CASE n \in Repeaters /\ o \in Ping(n, reached, msg.sender, w)
  <2>1. n \in Node
    BY <1>10, Ids
  <2>2. Sound(n, ids, PingSent(reached, msg.sender))
    BY <1>2, <1>5, <2>1, PingsForAsker
  <2>3. QED
    BY <1>5, <1>10, <2>2, PingFine
<1>11. QED
  BY <1>4, <1>7, <1>8, <1>9, <1>10

(* The id that the gateway broadcasts, taken by every node without one      *)
(* (MyTransport.cpp:467-480).                                              *)
LEMMA Naming ==
  ASSUME NEW n \in Dynamic, NEW ids, NEW s, Sound(n, ids, s), s.id = ids[n], s.id = AUTO,
         NEW id \in Dynamic
  PROVE  Sound(n, ids, [s EXCEPT !.id = id])
<1> DEFINE t == [s EXCEPT !.id = id]
<1>1. n \in Node /\ n \in Station /\ n # GATEWAY /\ id \in Node /\ id \in Id
  BY Ids DEF Station, Id
<1>2. s \in State /\ Waiting(n, ids, s) /\ Linked(n, ids, s)
  BY <1>1 DEF Sound
<1>3. /\ t \in State /\ t.sm = s.sm /\ t.id = id /\ t.active = s.active
      /\ t.waits = s.waits /\ t.parent = s.parent /\ t.distance = s.distance
      /\ t.response = s.response
  BY <1>1, <1>2 DEF State
<1> HIDE DEF t
<1>4. Waiting(n, ids, t) /\ (Pinging(s) => Pinging(t))
  BY <1>2, <1>3 DEF Waiting, Pinging
<1>5. Linked(n, ids, t)
  BY <1>1, <1>2, <1>3 DEF Linked
<1>6. Sound(n, ids, t)
  BY <1>1, <1>2, <1>3, <1>4, <1>5 DEF Sound
<1>7. QED
  BY <1>6 DEF t

(* A node presents itself, inside whatever wait the request found it in     *)
(* (MySensorsCore.cpp:199-221).                                            *)
LEMMA Presenting ==
  ASSUME NEW n \in Node, NEW ids, NEW s, Sound(n, ids, s), s.id = ids[n],
         NEW w \in Air(ids), NEW o \in presentNode(n, s, w)
  PROVE  Fine(n, ids, o)
<1> DEFINE t == [s EXCEPT !.pong = FALSE, !.waits = <<PRESENT>> \o @]
           m == Built(s, "SET", GATEWAY, 0)
<1>1. n \in Station /\ n # GATEWAY
  BY Ids DEF Station
<1>2. s \in State /\ Waiting(n, ids, s) /\ Linked(n, ids, s)
  BY <1>1 DEF Sound
<1>3. t.waits = <<PRESENT>> \o s.waits /\ t.sm = s.sm /\ t.id = s.id /\ t.parent = s.parent
  BY <1>2 DEF State
<1>4. o \in transportRouteMessage(n, t, m, s.id, w) \/ o = Outcome(t, w)
  BY DEF presentNode
<1>5. m \in Message /\ MaySend(n, ids, m)
  <2>1. GATEWAY \in Id /\ 0 \in (0 .. INVALID) \cup Id /\ "SET" \in MessageType
    BY Ids DEF Id, INVALID, MessageType
  <2>2. QED
    BY <1>1, <1>2, <2>1, Sendable
<1> HIDE DEF t, m
<1>6. t.waits \in Seq(Id \cup {PRESENT}) /\ Waiting(n, ids, t) /\ (Pinging(s) => Pinging(t))
  <2>1. PRESENT # UPLINK
    BY DEF PRESENT, UPLINK, GATEWAY
  <2>2. QED
    BY <1>2, <1>3, <2>1, Pushing
<1>7. /\ t \in State /\ t.active = s.active /\ t.distance = s.distance
      /\ t.response = s.response
  BY <1>2, <1>3, <1>6 DEF State, t
<1>8. Linked(n, ids, t)
  BY <1>2, <1>3, <1>7 DEF Linked
<1>9. Sound(n, ids, t)
  BY <1>1, <1>3, <1>6, <1>7, <1>8 DEF Sound
<1>10. CASE o = Outcome(t, w)
  BY <1>9, <1>10 DEF Outcome, Fine
<1>11. CASE o \in transportRouteMessage(n, t, m, s.id, w)
  BY <1>1, <1>5, <1>9, <1>11, RoutingFine
<1>12. QED
  BY <1>4, <1>10, <1>11

(* A message to this station (MyTransport.cpp:439-541).                     *)
LEMMA Receiving ==
  ASSUME NEW n \in Station, NEW ids, NEW s, Sound(n, ids, s), s.id = ids[n],
         NEW msg \in Message, msg.dest = s.id, MayHear(n, ids, msg),
         NEW w \in Air(ids), NEW o \in ToThis(n, s, msg, w)
  PROVE  Fine(n, ids, o)
<1>1. s \in State
  BY DEF Sound
<1>2. CASE o = Outcome(s, w)
  BY <1>2 DEF Outcome, Fine
<1>3. CASE msg.type = "ID_RESPONSE" /\ n \in Dynamic
  <2>1. o = Outcome([s EXCEPT !.id = msg.arg], w)
    BY <1>3 DEF ToThis
  <2>2. msg.arg \in Dynamic /\ s.id = AUTO
    BY <1>3 DEF MayHear, AUTO, BROADCAST
  <2>3. Sound(n, ids, [s EXCEPT !.id = msg.arg])
    BY <1>3, <2>2, Naming
  <2>4. QED
    BY <2>1, <2>3 DEF Outcome, Fine
<1>4. CASE msg.type = "FIND_PARENT_RESPONSE" /\ n # GATEWAY
  <2>1. o = Outcome(Nearer(s, msg), w)
    BY <1>4 DEF ToThis
  <2>2. n \in Node
    BY <1>4, Ids
  <2>3. Sound(n, ids, Nearer(s, msg))
    BY <1>4, <2>2, FindingParent
  <2>4. QED
    BY <2>1, <2>3 DEF Outcome, Fine
<1>5. CASE msg.type = "PING"
  <2> DEFINE m == Built(s, "PONG", msg.sender, 1)
  <2>1. o \in transportRouteMessage(n, s, m, s.id, w)
    BY <1>5 DEF ToThis
  <2>2. msg.sender \in Id /\ 1 \in (0 .. INVALID) \cup Id /\ "PONG" \in MessageType
    BY Ids DEF Message, INVALID, MessageType
  <2>3. m \in Message /\ MaySend(n, ids, m)
    BY <1>1, <2>2, Sendable
  <2> HIDE DEF m
  <2>4. QED
    BY <2>1, <2>3, RoutingFine
<1>6. CASE msg.type = "PONG"
  <2>1. o = Outcome(Ponged(s, msg), w)
    BY <1>6 DEF ToThis
  <2>2. msg.arg \in 1 .. MAX_HOPS
    BY <1>6 DEF MayHear
  <2>3. QED
    BY <2>1, <2>2, Ponging DEF Outcome, Fine
<1>7. CASE msg.type = "ID_REQUEST" /\ n = GATEWAY
  <2>1. PICK id \in Dynamic :
          o \in transportRouteMessage(n, s, Built(s, "ID_RESPONSE", BROADCAST, id), s.id, w)
    BY <1>7 DEF ToThis
  <2> DEFINE m == Built(s, "ID_RESPONSE", BROADCAST, id)
  <2>2. BROADCAST \in Id /\ id \in (0 .. INVALID) \cup Id /\ "ID_RESPONSE" \in MessageType
    BY Ids DEF Id, BROADCAST, AUTO, Station, MessageType
  <2>3. m \in Message /\ MaySend(n, ids, m)
    BY <1>1, <2>2, Sendable
  <2> HIDE DEF m
  <2>4. o \in transportRouteMessage(n, s, m, s.id, w)
    BY <2>1 DEF m
  <2>5. QED
    BY <2>3, <2>4, RoutingFine
<1>8. CASE msg.type = "PRESENTATION" /\ n # GATEWAY
  <2>1. o \in presentNode(n, s, w)
    BY <1>8 DEF ToThis
  <2>2. n \in Node
    BY <1>8, Ids
  <2>3. QED
    BY <2>1, <2>2, Presenting
<1>9. QED
  <2>1. \/ msg.type = "ID_RESPONSE" /\ n \in Dynamic
        \/ msg.type = "FIND_PARENT_RESPONSE" /\ n # GATEWAY
        \/ msg.type \in {"PING", "PONG"}
        \/ msg.type = "ID_REQUEST" /\ n = GATEWAY
        \/ msg.type = "PRESENTATION" /\ n # GATEWAY
        \/ o = Outcome(s, w)
    BY DEF ToThis
  <2>2. QED
    BY <2>1, <1>2, <1>3, <1>4, <1>5, <1>6, <1>7, <1>8

(* A station repeats and relays what its neighbours may hear                *)
(* (MyTransport.cpp:542-619).                                              *)
LEMMA Passing ==
  ASSUME NEW n \in Station, NEW ids, NEW msg \in Message, MayHear(n, ids, msg),
         msg.type # "FIND_PARENT"
  PROVE  /\ msg \in Message /\ MaySend(n, ids, msg)
         /\ Hopped(msg) \in Message /\ MaySend(n, ids, Hopped(msg))
<1>1. MaySend(n, ids, msg)
  BY DEF MayHear, MaySend
<1>2. CASE ~(msg.type \in {"PING", "PONG"} /\ msg.arg # MAX_HOPS)
  BY <1>1, <1>2 DEF Hopped
<1>3. CASE msg.type \in {"PING", "PONG"} /\ msg.arg # MAX_HOPS
  <2> DEFINE m == [msg EXCEPT !.arg = @ + 1]
  <2>1. Hopped(msg) = m
    BY <1>3 DEF Hopped
  <2>2. msg.arg + 1 \in 1 .. MAX_HOPS /\ msg.arg + 1 \in 0 .. INVALID
    <3>1. msg.arg \in 1 .. MAX_HOPS
      BY <1>3 DEF MayHear
    <3>2. QED
      BY <1>3, <3>1, Ids DEF INVALID
  <2>3. m \in Message /\ m.type = msg.type /\ m.arg = msg.arg + 1
    BY <2>2 DEF Message
  <2> HIDE DEF m
  <2>4. MaySend(n, ids, m)
    BY <1>3, <2>2, <2>3 DEF MaySend, MayHear
  <2>5. QED
    BY <1>1, <2>1, <2>3, <2>4
<1>4. QED
  BY <1>2, <1>3

(* transportProcessMessage() (MyTransport.cpp:407-619).                     *)
LEMMA Processing ==
  ASSUME NEW n \in Station, NEW ids, NEW s, Sound(n, ids, s), s.id = ids[n],
         NEW msg \in Message, MayHear(n, ids, msg),
         NEW w \in Air(ids), NEW o \in Processed(n, s, msg, w)
  PROVE  Fine(n, ids, o)
<1> DEFINE t == Learned(n, s, msg)
<1>1. s \in State
  BY DEF Sound
<1>2. ButRoutes(s, t)
  BY <1>1, Learning
<1> HIDE DEF t
<1>3. Sound(n, ids, t) /\ t.id = s.id
  BY <1>2, SoundRerouted DEF ButRoutes
<1>4. CASE msg.dest = s.id
  <2>1. o \in ToThis(n, t, msg, w)
    BY <1>4 DEF Processed, t
  <2>2. QED
    BY <1>3, <1>4, <2>1, Receiving
<1>5. CASE msg.dest # s.id /\ msg.dest = BROADCAST
  <2>1. o \in Broadcast(n, s, msg, w)
    BY <1>5 DEF Processed
  <2>2. CASE msg.type = "FIND_PARENT" /\ s.sm = "ok"
    <3>1. o \in FindParent(n, s, msg, w)
      BY <2>1, <2>2 DEF Broadcast
    <3>2. QED
      BY <2>2, <3>1, Searched
  <2>3. CASE msg.type # "FIND_PARENT" /\ o \in transportRouteMessage(n, s, msg, msg.last, w)
    BY <2>3, Passing, RoutingFine
  <2>4. CASE o = Outcome(s, w)
    BY <2>4 DEF Outcome, Fine
  <2>5. QED
    BY <2>1, <2>2, <2>3, <2>4 DEF Broadcast
<1>6. CASE msg.dest # s.id /\ msg.dest # BROADCAST
  <2>1. o \in Relay(n, s, msg, w)
    BY <1>6 DEF Processed
  <2>2. msg.type # "FIND_PARENT"
    BY <1>6 DEF MayHear
  <2>3. CASE o \in transportRouteMessage(n, t, Hopped(msg), msg.last, w)
    BY <1>3, <2>2, <2>3, Passing, RoutingFine
  <2>4. CASE o = Outcome(s, w)
    BY <2>4 DEF Outcome, Fine
  <2>5. QED
    BY <2>1, <2>3, <2>4 DEF Relay, t
<1>7. QED
  BY <1>4, <1>5, <1>6

-----------------------------------------------------------------------------
\* The steps.

(* What was sound stays so when a station gets an id.                       *)
LEMMA Widening ==
  ASSUME NEW K, NEW L, \A x \in Station : K[x] # AUTO => L[x] = K[x]
  PROVE  /\ \A w \in Air(K) : w \in Air(L)
         /\ \A s : \A n \in Station :
              Sound(n, K, s) /\ (L[n] # AUTO => s.id = L[n]) => Sound(n, L, s)
<1>1. \A x : Others(x, K) \subseteq Others(x, L)
  <2> SUFFICES ASSUME NEW x, NEW y \in Station \ {x}, K[y] # AUTO
      PROVE  K[y] \in Others(x, L)
    BY DEF Others
  <2>1. QED
    BY DEF Others
<1>2. ASSUME NEW x, NEW m, MayHear(x, K, m) PROVE MayHear(x, L, m)
  <2>1. m.type = "FIND_PARENT_RESPONSE" =>
          \E y \in Station : /\ m.sender = L[y] /\ m.sender # AUTO
                             /\ m.sender = m.dest => m.sender \in Others(y, L)
    BY <1>1, <1>2 DEF MayHear
  <2>2. QED
    BY <1>1, <1>2, <2>1 DEF MayHear
<1>3. \A w \in Air(K) : w \in Air(L)
  BY <1>2 DEF Air
<1>4. ASSUME NEW n \in Station, NEW s, Sound(n, K, s), L[n] # AUTO => s.id = L[n]
      PROVE  Sound(n, L, s)
  <2>1. Linked(n, K, s) => Linked(n, L, s)
    BY <1>1 DEF Linked
  <2>2. Waiting(n, K, s) => Waiting(n, L, s)
    BY <1>1 DEF Waiting
  <2>3. QED
    BY <1>4, <2>1, <2>2 DEF Sound
<1>5. QED
  BY <1>3, <1>4

(* The result of a ping and the time of a check may be forgotten.           *)
LEMMA Forgetting ==
  ASSUME NEW n, NEW ids, NEW s, Sound(n, ids, s)
  PROVE  /\ Sound(n, ids, Forgotten(s)) /\ Forgotten(s) \in State
         /\ Forgotten(s).waits = s.waits /\ Forgotten(s).id = s.id
<1> DEFINE p == s.pong /\ Pinging(s)
           r == IF Pinging(s) THEN s.response ELSE INVALID
           c == s.recent /\ s.sm = "ok"
           t == Forgotten(s)
<1>1. s \in State
  BY DEF Sound
<1>2. p \in BOOLEAN /\ c \in BOOLEAN /\ r \in 0 .. INVALID
  BY <1>1, Ids DEF State, INVALID
<1>3. t = [s EXCEPT !.pong = p, !.response = r, !.recent = c]
  BY <1>1 DEF Forgotten, State
<1>4. s.response \in 1 .. INVALID => r \in 1 .. INVALID
  BY Ids DEF INVALID
<1> HIDE DEF p, r, c, t
<1>5. /\ t \in State /\ t.sm = s.sm /\ t.id = s.id /\ t.active = s.active
      /\ t.waits = s.waits /\ t.parent = s.parent /\ t.distance = s.distance
      /\ t.response = r
  BY <1>1, <1>2, <1>3 DEF State
<1>6. (Waiting(n, ids, s) => Waiting(n, ids, t)) /\ (Pinging(s) => Pinging(t))
  BY <1>5 DEF Waiting, Pinging
<1>7. Linked(n, ids, s) => Linked(n, ids, t)
  BY <1>4, <1>5 DEF Linked
<1>8. Sound(n, ids, t)
  BY <1>5, <1>6, <1>7 DEF Sound
<1>9. QED
  BY <1>5, <1>8 DEF t

(* A step whose outcome is sound keeps the invariant.                       *)
LEMMA Stepping ==
  ASSUME TransportInv, NEW n \in Station, NEW o, Fine(n, Names, o),
         node' = [node EXCEPT ![n] = Forgotten(o.s)], inbox' = o.w.inbox,
         faults' = o.w.faults, far' = far, Len(node'[n].waits) <= MaxWaits
  PROVE  TransportInv'
<1>1. /\ Sound(n, Names, o.s) /\ o.w \in Air(Names)
      /\ node \in [Station -> State] /\ far \in FarNodes
      /\ \A x \in Station : Sound(x, Names, node[x]) /\ Len(node[x].waits) <= MaxWaits
  BY DEF Fine, TransportInv
<1>2. /\ Sound(n, Names, Forgotten(o.s)) /\ Forgotten(o.s) \in State
      /\ Forgotten(o.s).id = o.s.id
  BY <1>1, Forgetting
<1>3. node' \in [Station -> State]
  BY <1>1, <1>2
<1>4. node'[n] = Forgotten(o.s) /\ \A x \in Station : x # n => node'[x] = node[x]
  BY <1>1
<1>5. \A x \in Station : Names[x] # AUTO => Names'[x] = Names[x]
  <2>1. ASSUME NEW x \in Station, Names[x] # AUTO PROVE Names'[x] = Names[x]
    <3>1. Names'[x] = node'[x].id /\ Names[x] = node[x].id
      BY DEF Names
    <3>2. CASE x = n
      BY <1>1, <1>2, <1>4, <2>1, <3>1, <3>2 DEF Sound
    <3>3. CASE x # n
      BY <1>4, <3>1, <3>3
    <3>4. QED
      BY <3>2, <3>3
  <2>2. QED
    BY <2>1
<1>6. World' \in Air(Names')
  <2>1. World' = o.w
    BY <1>1 DEF World, Air
  <2>2. QED
    BY <1>1, <1>5, <2>1, Widening
<1>7. ASSUME NEW x \in Station PROVE Sound(x, Names', node'[x]) /\ Len(node'[x].waits) <= MaxWaits
  <2>1. Sound(x, Names, node'[x]) /\ Len(node'[x].waits) <= MaxWaits
    BY <1>1, <1>2, <1>4
  <2>2. Names'[x] # AUTO => node'[x].id = Names'[x]
    BY DEF Names
  <2>3. QED
    BY <1>5, <2>1, <2>2, Widening
<1>8. QED
  BY <1>1, <1>3, <1>6, <1>7 DEF TransportInv

(* A handler whose outcomes are all sound, and wait within the bound.       *)
LEMMA Handling ==
  ASSUME TransportInv, NEW n \in Station, NEW outcomes, Step(n, outcomes),
         \A o \in outcomes : Fine(n, Names, o) /\ Len(o.s.waits) <= MaxWaits
  PROVE  TransportInv'
<1>1. PICK o \in outcomes :
        /\ node' = [node EXCEPT ![n] = Forgotten(o.s)]
        /\ inbox' = o.w.inbox /\ faults' = o.w.faults /\ far' = far
  BY DEF Step
<1>2. Fine(n, Names, o) /\ Len(o.s.waits) <= MaxWaits
  OBVIOUS
<1>3. node'[n] = Forgotten(o.s) /\ Forgotten(o.s).waits = o.s.waits
  BY <1>1, <1>2, Forgetting DEF TransportInv, Fine
<1>4. QED
  BY <1>1, <1>2, <1>3, Stepping

(* ... and one whose action keeps to the bound itself.                      *)
LEMMA Guarded ==
  ASSUME TransportInv, NEW n \in Station, NEW outcomes, Step(n, outcomes),
         \A o \in outcomes : Fine(n, Names, o), Len(node'[n].waits) <= MaxWaits
  PROVE  TransportInv'
<1>1. PICK o \in outcomes :
        /\ node' = [node EXCEPT ![n] = Forgotten(o.s)]
        /\ inbox' = o.w.inbox /\ faults' = o.w.faults /\ far' = far
  BY DEF Step
<1>2. QED
  BY <1>1, Stepping

(* Where a handler begins.                                                 *)
LEMMA Beginning ==
  ASSUME TransportInv, NEW n \in Node
  PROVE  /\ n \in Station /\ n # GATEWAY /\ World \in Air(Names)
         /\ Sound(n, Names, node[n]) /\ node[n] \in State /\ node[n].id = Names[n]
         /\ node[n].id \in Node \cup {AUTO}
         /\ node[n].waits \in Seq(Id \cup {PRESENT}) /\ Len(node[n].waits) <= MaxWaits
         /\ Waiting(n, Names, node[n]) /\ Linked(n, Names, node[n])
<1>1. n \in Station /\ n # GATEWAY
  BY Ids DEF Station
<1>2. Sound(n, Names, node[n]) /\ Len(node[n].waits) <= MaxWaits /\ World \in Air(Names)
  BY <1>1 DEF TransportInv
<1>3. node[n] \in State /\ node[n].waits \in Seq(Id \cup {PRESENT})
  BY <1>2 DEF Sound, State
<1>4. QED
  BY <1>1, <1>2, <1>3 DEF Sound, Linked, Names

(* A wait that runs out costs at most a fault (MyTransport.cpp:222-224).    *)
LEMMA RunningOut ==
  ASSUME TransportInv, NEW w \in RunOut
  PROVE  w \in Air(Names)
<1> DEFINE k == IF Quiet THEN 0 ELSE 1
<1>1. w = [World EXCEPT !.faults = @ + k] /\ w.faults <= MaxFaults
  BY DEF RunOut
<1>2. k \in {0, 1}
  OBVIOUS
<1> HIDE DEF k
<1>3. World \in Air(Names) /\ World = [inbox |-> inbox, faults |-> faults]
  BY DEF TransportInv, World
<1>4. inbox \in [Station -> Seq(Message)] /\ faults \in 0 .. MaxFaults
  BY <1>3 DEF Air
<1>5. w = [inbox |-> inbox, faults |-> faults + k]
  BY <1>1, <1>3
<1>6. faults + k \in 0 .. MaxFaults
  BY <1>1, <1>2, <1>4, <1>5, Ids
<1>7. QED
  BY <1>3, <1>4, <1>5, <1>6 DEF Air

(* The id is known: the gateway is pinged, or another ping is under way and *)
(* the search begins again (MyTransport.cpp:156-171).                       *)
LEMMA IdKnownKeeps ==
  ASSUME TransportInv, NEW n \in Node, IdKnown(n)
  PROVE  TransportInv'
<1> DEFINE s == Entered(node[n], "uplink")
           t == PingSent(s, UPLINK)
           outs == IF s.active THEN stParentTransition(n, s, World)
                   ELSE Ping(n, s, UPLINK, World)
<1>1. /\ n \in Station /\ n # GATEWAY /\ World \in Air(Names)
      /\ Sound(n, Names, node[n]) /\ node[n] \in State /\ node[n].id = Names[n]
      /\ node[n].id \in Node \cup {AUTO}
      /\ Waiting(n, Names, node[n]) /\ Linked(n, Names, node[n])
  BY Beginning
<1>2. /\ node[n].sm = "id" /\ node[n].id # AUTO /\ Step(n, outs)
      /\ Len(node'[n].waits) <= MaxWaits
  BY DEF IdKnown, Updates
<1>3. Unlinked(node[n]) /\ node[n].parent # AUTO
  BY <1>1, <1>2, LinkedLater DEF Linked
<1>4. /\ s \in State /\ s.id = node[n].id /\ s.sm = "uplink" /\ s.waits = node[n].waits
      /\ s.active = node[n].active /\ s.response = node[n].response
      /\ s.parent = node[n].parent /\ s.distance = node[n].distance
  BY <1>1, Entering
<1> HIDE DEF s
<1>5. Waiting(n, Names, s) /\ (Pinging(node[n]) => Pinging(s)) /\ Unlinked(s)
  BY <1>1, <1>3, <1>4, WaitingSame DEF Unlinked
<1>6. ASSUME s.active, NEW o \in stParentTransition(n, s, World) PROVE Fine(n, Names, o)
  <2>1. Pinging(s)
    BY <1>1, <1>4, <1>5, <1>6 DEF Sound
  <2>2. s.response \in 1 .. INVALID
    BY <1>1, <1>4 DEF Linked
  <2>3. QED
    BY <1>1, <1>4, <1>5, <1>6, <2>1, <2>2, Searching
<1>7. ASSUME ~s.active, NEW o \in Ping(n, s, UPLINK, World) PROVE Fine(n, Names, o)
  <2>1. INVALID \in 0 .. INVALID /\ INVALID \in 1 .. INVALID
    BY Ids DEF INVALID
  <2>2. UPLINK \in Id \cup {PRESENT} /\ UPLINK # PRESENT
    BY Ids DEF UPLINK, Id, PRESENT, GATEWAY
  <2>3. t.waits = <<UPLINK>> \o s.waits /\ t.sm = s.sm /\ t.id = s.id /\ t.parent = s.parent
    BY <1>4 DEF State, PingSent
  <2> HIDE DEF t
  <2>4. t.waits \in Seq(Id \cup {PRESENT}) /\ Waiting(n, Names, t) /\ Pinging(t)
    <3>1. /\ s.id # AUTO /\ s.parent # AUTO
          /\ UPLINK \in Others(n, Names) \cup {AUTO, UPLINK, PRESENT}
      BY <1>2, <1>3, <1>4
    <3>2. QED
      BY <1>4, <1>5, <2>2, <2>3, <3>1, Pushing
  <2>5. t \in State /\ t.distance = s.distance /\ t.response = INVALID
    BY <1>4, <2>1, <2>3, <2>4 DEF State, PingSent, t
  <2>6. Linked(n, Names, t)
    BY <1>1, <1>2, <1>3, <1>4, <2>1, <2>3, <2>5 DEF Linked
  <2>7. Sound(n, Names, t)
    BY <1>1, <1>4, <2>3, <2>4, <2>5, <2>6 DEF Sound
  <2>8. QED
    BY <1>1, <1>4, <1>7, <2>7, PingFine DEF t
<1>8. \A o \in outs : Fine(n, Names, o)
  BY <1>6, <1>7
<1> HIDE DEF outs
<1>9. QED
  BY <1>1, <1>2, <1>8, Guarded

(* The steps of the state machine, in the loop and in the wait of a         *)
(* presentation (MyTransport.cpp:101-204, 226-228).                         *)
LEMMA UpdateSMKeeps ==
  ASSUME TransportInv, NEW n \in Node, UpdateSM(n)
  PROVE  TransportInv'
<1>a. /\ n \in Station /\ n # GATEWAY /\ World \in Air(Names)
      /\ Sound(n, Names, node[n]) /\ node[n] \in State /\ node[n].id = Names[n]
      /\ node[n].id \in Node \cup {AUTO} /\ Len(node[n].waits) <= MaxWaits
      /\ Waiting(n, Names, node[n]) /\ Linked(n, Names, node[n])
      /\ node[n].active => Pinging(node[n])
      /\ node[n].response \in 1 .. INVALID
  BY Beginning DEF Sound, Linked
<1> USE <1>a
<1>0. node[n].sm \notin {"uplink", "failure"} => Unlinked(node[n])
  BY LinkedLater
<1>1. CASE ParentFound(n)
  <2>1. PICK w \in RunOut : Step(n, stIDTransition(n, node[n], w))
    BY <1>1 DEF ParentFound
  <2>2. \A o \in stIDTransition(n, node[n], w) : Fine(n, Names, o) /\ o.s.waits = node[n].waits
    BY <1>1, RunningOut, AskingForId DEF ParentFound, Updates
  <2>3. QED
    BY <2>1, <2>2, Handling
<1>2. CASE ParentRetry(n)
  <2>1. PICK w \in RunOut : Step(n, stParentTransition(n, node[n], w))
    BY <1>2 DEF ParentRetry
  <2>2. \A o \in stParentTransition(n, node[n], w) :
          Fine(n, Names, o) /\ o.s.waits = node[n].waits
    <3>1. w \in Air(Names)
      BY RunningOut
    <3>2. Unlinked(node[n])
      BY <1>0, <1>2 DEF ParentRetry, Updates
    <3>3. QED
      BY <3>1, <3>2, Searching
  <2>3. QED
    BY <2>1, <2>2, Handling
<1>3. CASE ParentFail(n)
  <2>1. PICK w \in RunOut : Step(n, stFailureTransition(n, node[n], w))
    BY <1>3 DEF ParentFail
  <2>2. \A o \in stFailureTransition(n, node[n], w) :
          Fine(n, Names, o) /\ o.s.waits = node[n].waits
    BY RunningOut, Failing
  <2>3. QED
    BY <2>1, <2>2, Handling
<1>4. CASE IdKnown(n)
  BY <1>4, IdKnownKeeps
<1>5. CASE IdRetry(n)
  <2>1. PICK w \in RunOut : Step(n, stIDTransition(n, node[n], w))
    BY <1>5 DEF IdRetry
  <2>2. \A o \in stIDTransition(n, node[n], w) : Fine(n, Names, o) /\ o.s.waits = node[n].waits
    <3>1. node[n].sm = "id" /\ w \in Air(Names)
      BY <1>5, RunningOut DEF IdRetry, Updates
    <3>2. node[n].parent # AUTO
      BY <3>1 DEF Linked
    <3>3. QED
      BY <3>1, <3>2, AskingForId
  <2>3. QED
    BY <2>1, <2>2, Handling
<1>6. CASE IdFail(n)
  <2>1. PICK w \in RunOut : Step(n, stFailureTransition(n, node[n], w))
    BY <1>6 DEF IdFail
  <2>2. \A o \in stFailureTransition(n, node[n], w) :
          Fine(n, Names, o) /\ o.s.waits = node[n].waits
    BY RunningOut, Failing
  <2>3. QED
    BY <2>1, <2>2, Handling
<1>7. CASE UplinkLost(n)
  <2>1. Step(n, stParentTransition(n, node[n], World))
    BY <1>7 DEF UplinkLost
  <2>2. \A o \in stParentTransition(n, node[n], World) :
          Fine(n, Names, o) /\ o.s.waits = node[n].waits
    <3>1. Unlinked(node[n])
      BY <1>0, <1>7 DEF UplinkLost, Updates
    <3>2. QED
      BY <3>1, Searching
  <2>3. QED
    BY <2>1, <2>2, Handling
<1>8. CASE StartedAnew(n)
  <2>1. Step(n, stInitTransition(n, node[n], World)) /\ node[n].waits = <<>>
    BY <1>8 DEF StartedAnew
  <2>2. \A o \in stInitTransition(n, node[n], World) : Fine(n, Names, o) /\ o.s.waits = <<>>
    BY <2>1, Starting
  <2>3. QED
    BY <2>1, <2>2, Handling
<1>9. QED
  BY <1>1, <1>2, <1>3, <1>4, <1>5, <1>6, <1>7, <1>8 DEF UpdateSM

(* The sanity check of a repeater fails (MyTransport.cpp:622-631).          *)
LEMMA SanityFailsKeeps ==
  ASSUME TransportInv, NEW n \in Node, SanityFails(n)
  PROVE  TransportInv'
<1> DEFINE w == [World EXCEPT !.faults = @ + 1]
<1>1. /\ n \in Station /\ World \in Air(Names) /\ Sound(n, Names, node[n])
      /\ Len(node[n].waits) <= MaxWaits
  BY Beginning
<1>2. Step(n, stFailureTransition(n, node[n], w)) /\ faults < MaxFaults
  BY DEF SanityFails, Fault
<1>3. w \in Air(Names)
  BY <1>1, <1>2, Paying
<1> HIDE DEF w
<1>4. \A o \in stFailureTransition(n, node[n], w) :
        Fine(n, Names, o) /\ o.s.waits = node[n].waits
  BY <1>1, <1>3, Failing
<1>5. QED
  BY <1>1, <1>2, <1>4, Handling

LEMMA WaitingOver ==
  ASSUME TransportInv, NEW n, NEW w \in WaitOver(n)
  PROVE  w \in Air(Names)
  BY RunningOut DEF WaitOver, TransportInv

(* A ping that returns leaves the waits around it (MyTransport.cpp:375-394). *)
LEMMA Returning ==
  ASSUME TransportInv, NEW n \in Node, node[n].waits # <<>>,
         Head(node[n].waits) # PRESENT
  PROVE  LET s == Returned(node[n])
         IN  /\ Sound(n, Names, s) /\ s.id = Names[n] /\ s.id # AUTO /\ s.active = FALSE
             /\ s.response \in 1 .. INVALID /\ Len(s.waits) <= MaxWaits
             /\ Head(node[n].waits) \in Others(n, Names) \cup {AUTO, UPLINK}
             /\ Head(node[n].waits) \in Id
             /\ Head(node[n].waits) = UPLINK => Unlinked(s) /\ s.parent # AUTO
<1> DEFINE s == Returned(node[n])
           asker == Head(node[n].waits)
<1>1. /\ n \in Station /\ n # GATEWAY /\ node[n] \in State /\ node[n].id = Names[n]
      /\ Sound(n, Names, node[n])
      /\ node[n].waits \in Seq(Id \cup {PRESENT}) /\ Len(node[n].waits) <= MaxWaits
      /\ Waiting(n, Names, node[n]) /\ Linked(n, Names, node[n])
  BY Beginning
<1>2. 1 \in DOMAIN node[n].waits /\ asker = node[n].waits[1] /\ asker \in Id \cup {PRESENT}
  BY <1>1
<1>3. /\ asker \in Others(n, Names) \cup {AUTO, UPLINK, PRESENT} /\ node[n].id # AUTO
      /\ asker = UPLINK => node[n].parent # AUTO
  BY <1>1, <1>2 DEF Waiting
<1>4. /\ s.waits = Tail(node[n].waits) /\ s.sm = node[n].sm /\ s.id = node[n].id
      /\ s.parent = node[n].parent
  BY <1>1 DEF Returned, State
<1>5. /\ s.waits \in Seq(Id \cup {PRESENT}) /\ Len(s.waits) <= Len(node[n].waits)
      /\ Waiting(n, Names, s) /\ (asker = UPLINK => Unlinked(s))
  <2> HIDE DEF s
  <2>1. QED
    BY <1>1, <1>4, Popping
<1>6. /\ s \in State /\ s.active = FALSE /\ s.distance = node[n].distance
      /\ s.response = node[n].response
  BY <1>1, <1>4, <1>5 DEF Returned, State
<1> HIDE DEF s, asker
<1>7. Linked(n, Names, s)
  BY <1>1, <1>4, <1>6 DEF Linked
<1>8. Sound(n, Names, s)
  BY <1>1, <1>4, <1>5, <1>6, <1>7 DEF Sound
<1>9. Len(s.waits) <= MaxWaits
  <2>1. Len(s.waits) \in Nat /\ Len(node[n].waits) \in Nat
    BY <1>1, <1>5
  <2>2. QED
    BY <1>1, <1>5, <2>1, Ids
<1>10. s.response \in 1 .. INVALID
  BY <1>7 DEF Linked
<1>11. asker # PRESENT /\ asker \in Id
  BY <1>2 DEF asker
<1>12. QED
  BY <1>1, <1>3, <1>4, <1>5, <1>6, <1>8, <1>9, <1>10, <1>11 DEF s, asker

(* transportWait() returns to stUplinkTransition(): the node is ready, or   *)
(* looks for another parent (MyTransport.cpp:156-171, 250-273, 375-394).    *)
LEMMA UplinkCheckedKeeps ==
  ASSUME TransportInv, NEW n \in Node, UplinkChecked(n)
  PROVE  TransportInv'
<1> DEFINE s == Returned(node[n])
           outs(w) == IF s.response # INVALID THEN {Outcome(Entered(Checked(s), "ok"), w)}
                      ELSE stParentTransition(n, s, w)
<1>1. n \in Station /\ n # GATEWAY /\ node[n].id = Names[n]
  BY Beginning
<1>2. PICK w \in WaitOver(n) : Step(n, outs(w))
  BY DEF UplinkChecked
<1>3. node[n].waits # <<>> /\ Head(node[n].waits) = UPLINK /\ UPLINK # PRESENT
  BY DEF UplinkChecked, UPLINK, PRESENT, GATEWAY
<1>4. /\ Sound(n, Names, s) /\ s.id = Names[n] /\ s.id # AUTO /\ s.active = FALSE
      /\ s.response \in 1 .. INVALID /\ Len(s.waits) <= MaxWaits
      /\ Unlinked(s) /\ s.parent # AUTO
  BY <1>3, Returning
<1> HIDE DEF s
<1>5. s \in State /\ Waiting(n, Names, s) /\ Linked(n, Names, s)
  BY <1>1, <1>4 DEF Sound
<1>6. w \in Air(Names)
  BY WaitingOver
<1>7. ASSUME NEW o \in outs(w) PROVE Fine(n, Names, o) /\ o.s.waits = s.waits
  <2>1. CASE s.response # INVALID
    <3> DEFINE c == Checked(s)
               t == Entered(c, "ok")
    <3>1. /\ c \in State /\ c.id = s.id /\ c.active = FALSE /\ c.waits = s.waits
          /\ c.parent = s.parent /\ c.distance = s.response /\ c.response = s.response
      BY <1>4, <1>5 DEF Checked, State
    <3> HIDE DEF c
    <3>2. /\ t \in State /\ t.sm = "ok" /\ t.id = s.id /\ t.active = FALSE
          /\ t.waits = s.waits /\ t.parent = s.parent /\ t.distance = s.response
          /\ t.response = s.response
      BY <3>1, Entering
    <3>3. o = Outcome(t, w)
      BY <2>1 DEF c
    <3> HIDE DEF t
    <3>4. Waiting(n, Names, t)
      BY <1>4, <1>5, <3>2, WaitingSame
    <3>5. Linked(n, Names, t)
      BY <1>4, <1>5, <2>1, <3>2 DEF Linked
    <3>6. Sound(n, Names, t)
      BY <1>1, <1>4, <3>2, <3>4, <3>5 DEF Sound
    <3>7. QED
      BY <1>6, <3>2, <3>3, <3>6 DEF Outcome, Fine
  <2>2. CASE s.response = INVALID
    <3>1. o \in stParentTransition(n, s, w)
      BY <2>2
    <3>2. s.id \in Node \cup {AUTO}
      BY <1>5 DEF Linked
    <3>3. QED
      BY <1>4, <1>5, <1>6, <3>1, <3>2, Searching
  <2>3. QED
    BY <2>1, <2>2
<1> HIDE DEF outs
<1>8. QED
  BY <1>1, <1>2, <1>4, <1>7, Handling

(* transportWait() returns to the answer to a search: the innermost asker   *)
(* is answered, if the gateway is (MyTransport.cpp:250-273, 375-394,        *)
(* 556-563).                                                               *)
LEMMA AskerCheckedKeeps ==
  ASSUME TransportInv, NEW n \in Node, AskerChecked(n)
  PROVE  TransportInv'
<1> DEFINE s == Returned(node[n])
           asker == Head(node[n].waits)
           outs(w) == IF s.response # INVALID THEN FindParentResponse(n, Checked(s), asker, w)
                      ELSE {Outcome(s, w)}
<1>1. n \in Station /\ n # GATEWAY /\ node[n].id = Names[n]
  BY Beginning
<1>2. PICK w \in WaitOver(n) : Step(n, outs(w))
  BY DEF AskerChecked
<1>3. node[n].waits # <<>> /\ asker # UPLINK /\ asker # PRESENT
  BY DEF AskerChecked
<1>4. /\ Sound(n, Names, s) /\ s.id = Names[n] /\ s.id # AUTO /\ s.active = FALSE
      /\ s.response \in 1 .. INVALID /\ Len(s.waits) <= MaxWaits
      /\ asker \in Others(n, Names) \cup {AUTO} /\ asker \in Id
  <2> HIDE DEF s
  <2>1. Head(node[n].waits) # PRESENT /\ Head(node[n].waits) # UPLINK
    BY <1>3
  <2>2. QED
    BY <1>3, <2>1, Returning DEF s
<1>5. w \in Air(Names)
  BY WaitingOver
<1> HIDE DEF s, asker
<1>6. s \in State /\ Waiting(n, Names, s) /\ Linked(n, Names, s)
  BY <1>1, <1>4 DEF Sound
<1>7. ASSUME NEW o \in outs(w) PROVE Fine(n, Names, o) /\ o.s.waits = s.waits
  <2>1. CASE s.response # INVALID
    <3> DEFINE c == Checked(s)
    <3>1. /\ c \in State /\ c.sm = s.sm /\ c.id = s.id /\ c.active = FALSE
          /\ c.waits = s.waits /\ c.parent = s.parent /\ c.distance = s.response
          /\ c.response = s.response
      BY <1>4, <1>6 DEF Checked, State
    <3>2. o \in FindParentResponse(n, c, asker, w)
      BY <2>1
    <3> HIDE DEF c
    <3>3. Waiting(n, Names, c)
      BY <1>6, <3>1 DEF Waiting
    <3>4. Linked(n, Names, c)
      BY <1>4, <1>6, <2>1, <3>1 DEF Linked
    <3>5. Sound(n, Names, c)
      BY <1>1, <1>4, <3>1, <3>3, <3>4 DEF Sound
    <3>6. QED
      BY <1>1, <1>4, <1>5, <3>1, <3>2, <3>5, Answering
  <2>2. CASE s.response = INVALID
    <3>1. o = Outcome(s, w)
      BY <2>2
    <3>2. QED
      BY <1>4, <1>5, <3>1 DEF Outcome, Fine
  <2>3. QED
    BY <2>1, <2>2
<1> HIDE DEF outs
<1>8. QED
  BY <1>1, <1>2, <1>4, <1>7, Handling

(* wait() returns, and with it presentNode() (MySensorsCore.cpp:199-221).   *)
LEMMA PresentedKeeps ==
  ASSUME TransportInv, NEW n \in Node, Presented(n)
  PROVE  TransportInv'
<1> DEFINE s(p) == [node[n] EXCEPT !.waits = Tail(@), !.pong = p]
<1>1. /\ n \in Station /\ n # GATEWAY /\ World \in Air(Names) /\ node[n] \in State
      /\ Sound(n, Names, node[n])
      /\ node[n].waits \in Seq(Id \cup {PRESENT}) /\ Len(node[n].waits) <= MaxWaits
      /\ Waiting(n, Names, node[n]) /\ Linked(n, Names, node[n])
  BY Beginning
<1>2. /\ node[n].waits # <<>> /\ Head(node[n].waits) = PRESENT
      /\ Step(n, {Outcome(s(p), World) : p \in {node[n].pong, FALSE}})
  BY DEF Presented
<1>3. ASSUME NEW p \in {node[n].pong, FALSE}
      PROVE  Sound(n, Names, s(p)) /\ Len(s(p).waits) <= MaxWaits
  <2>1. p \in BOOLEAN
    BY <1>1 DEF State
  <2>2. /\ s(p).waits = Tail(node[n].waits) /\ s(p).sm = node[n].sm
        /\ s(p).id = node[n].id /\ s(p).parent = node[n].parent
    BY <1>1 DEF State
  <2>3. /\ s(p).waits \in Seq(Id \cup {PRESENT}) /\ Len(s(p).waits) <= Len(node[n].waits)
        /\ Waiting(n, Names, s(p)) /\ (Pinging(node[n]) => Pinging(s(p)))
    <3> HIDE DEF s
    <3>1. QED
      BY <1>1, <1>2, <2>2, Popping
  <2>4. /\ s(p) \in State /\ s(p).active = node[n].active
        /\ s(p).distance = node[n].distance /\ s(p).response = node[n].response
    BY <1>1, <2>1, <2>2, <2>3 DEF State
  <2> HIDE DEF s
  <2>5. Linked(n, Names, s(p))
    BY <1>1, <2>2, <2>4 DEF Linked
  <2>6. Sound(n, Names, s(p))
    BY <1>1, <2>2, <2>3, <2>4, <2>5 DEF Sound
  <2>7. Len(s(p).waits) <= MaxWaits
    <3>1. Len(s(p).waits) \in Nat /\ Len(node[n].waits) \in Nat
      BY <1>1, <2>3
    <3>2. QED
      BY <1>1, <2>3, <3>1, Ids
  <2>8. QED
    BY <2>6, <2>7
<1> HIDE DEF s
<1>4. \A o \in {Outcome(s(p), World) : p \in {node[n].pong, FALSE}} :
        Fine(n, Names, o) /\ Len(o.s.waits) <= MaxWaits
  <2> DEFINE end(p) == Outcome(s(p), World)
  <2>1. \A p \in {node[n].pong, FALSE} :
          Fine(n, Names, end(p)) /\ Len(end(p).s.waits) <= MaxWaits
    <3> SUFFICES ASSUME NEW p \in {node[n].pong, FALSE}
                 PROVE  Fine(n, Names, end(p)) /\ Len(end(p).s.waits) <= MaxWaits
      OBVIOUS
    <3>1. Sound(n, Names, s(p)) /\ Len(s(p).waits) <= MaxWaits
      BY <1>3
    <3>2. end(p).s = s(p) /\ end(p).w = World
      BY DEF Outcome
    <3> HIDE DEF end
    <3>3. QED
      BY <1>1, <3>1, <3>2 DEF Fine
  <2> HIDE DEF end
  <2>2. \A o \in {end(p) : p \in {node[n].pong, FALSE}} :
          Fine(n, Names, o) /\ Len(o.s.waits) <= MaxWaits
    BY <2>1, Zenon
  <2>3. QED
    BY <2>2 DEF end
<1>5. QED
  BY <1>1, <1>2, <1>4, Handling

(* The sketch sends (MyTransport.cpp:347-356).                             *)
LEMMA ReportKeeps ==
  ASSUME TransportInv, NEW n \in Node, Report(n)
  PROVE  TransportInv'
<1> DEFINE m == Built(node[n], "SET", GATEWAY, 0)
           outs == transportRouteMessage(n, node[n], m, node[n].id, World)
<1>1. /\ n \in Station /\ Sound(n, Names, node[n]) /\ node[n] \in State
      /\ node[n].id = Names[n] /\ World \in Air(Names)
      /\ Len(node[n].waits) <= MaxWaits
  BY Beginning
<1>2. Step(n, outs)
  BY DEF Report
<1>3. m \in Message /\ MaySend(n, Names, m)
  <2>1. GATEWAY \in Id /\ 0 \in (0 .. INVALID) \cup Id /\ "SET" \in MessageType
    BY Ids DEF Id, INVALID, MessageType
  <2>2. QED
    BY <1>1, <2>1, Sendable
<1> HIDE DEF m
<1>4. \A o \in outs : Fine(n, Names, o) /\ o.s.waits = node[n].waits
  BY <1>1, <1>3, RoutingFine
<1> HIDE DEF outs
<1>5. QED
  BY <1>1, <1>2, <1>4, Handling

(* The controller asks a node to present itself                             *)
(* (MyGatewayTransport.cpp:25-63).                                         *)
LEMMA AskPresentationKeeps ==
  ASSUME TransportInv, NEW n \in Asked, AskPresentation(n)
  PROVE  TransportInv'
<1> DEFINE s == node[GATEWAY]
           m == Built(s, "PRESENTATION", n, 0)
           w == [World EXCEPT !.faults = @ + 1]
           outs == transportRouteMessage(GATEWAY, s, m, GATEWAY, w)
<1>1. /\ GATEWAY \in Station /\ Sound(GATEWAY, Names, s) /\ Len(s.waits) <= MaxWaits
      /\ World \in Air(Names)
  BY Ids DEF TransportInv
<1>2. s \in State /\ s.id = Names[GATEWAY]
  BY <1>1 DEF Sound, Names
<1>3. Step(GATEWAY, outs) /\ faults < MaxFaults
  BY DEF AskPresentation, Fault
<1>4. w \in Air(Names)
  BY <1>1, <1>3, Paying
<1>5. m \in Message /\ MaySend(GATEWAY, Names, m)
  <2>1. n \in Id /\ 0 \in (0 .. INVALID) \cup Id /\ "PRESENTATION" \in MessageType
    BY Ids DEF Id, INVALID, MessageType, Station
  <2>2. QED
    BY <1>1, <1>2, <2>1, Sendable
<1> HIDE DEF m, w
<1>6. \A o \in outs : Fine(GATEWAY, Names, o) /\ o.s.waits = s.waits
  BY <1>1, <1>4, <1>5, RoutingFine
<1> HIDE DEF outs
<1>7. QED
  BY <1>1, <1>3, <1>6, Handling

(* A node restarts, at any moment: its waits end, nothing is on its way to  *)
(* it, and its id is in the EEPROM (MyTransport.cpp:41-83, 235-239).        *)
LEMMA NodeRestartsKeeps ==
  ASSUME TransportInv, NEW n \in Node, NodeRestarts(n)
  PROVE  TransportInv'
<1> DEFINE s == Rebooted(node[n])
           w == [inbox |-> [inbox EXCEPT ![n] = <<>>], faults |-> faults + 1]
           v == [World EXCEPT !.inbox[n] = <<>>]
<1>1. /\ n \in Station /\ n # GATEWAY /\ node[n] \in State /\ node[n].id = Names[n]
      /\ node[n].id \in Node \cup {AUTO}
      /\ World \in Air(Names) /\ Linked(n, Names, node[n])
  BY Beginning
<1>2. Step(n, stInitTransition(n, s, w)) /\ faults < MaxFaults
  BY DEF NodeRestarts, Fault
<1>3. /\ s \in State /\ s.id = node[n].id /\ s.waits = <<>>
      /\ s.response = node[n].response
  <2>1. 0 \in 0 .. 15 /\ <<>> \in Seq(Id \cup {PRESENT})
    OBVIOUS
  <2>2. QED
    BY <1>1, <2>1 DEF Rebooted, State
<1>4. s.response \in 1 .. INVALID
  BY <1>1, <1>3 DEF Linked
<1>5. w \in Air(Names)
  <2>1. v \in Air(Names)
    BY <1>1, Emptied
  <2>2. v = [inbox |-> [inbox EXCEPT ![n] = <<>>], faults |-> faults]
    BY DEF World
  <2>3. faults + 1 \in 0 .. MaxFaults
    BY <1>1, <1>2, Paying
  <2> HIDE DEF v
  <2>4. w.inbox = v.inbox /\ w.faults \in 0 .. MaxFaults
    BY <2>2, <2>3
  <2>5. QED
    BY <2>1, <2>4 DEF Air
<1> HIDE DEF s, w
<1>6. \A o \in stInitTransition(n, s, w) : Fine(n, Names, o) /\ o.s.waits = <<>>
  BY <1>1, <1>3, <1>4, <1>5, Starting
<1>7. Len(<<>>) <= MaxWaits
  BY Ids
<1>8. QED
  BY <1>1, <1>2, <1>6, <1>7, Handling

(* A message is taken out of the FIFO and handled, also inside a wait       *)
(* (MyTransport.cpp:359-373, 622-653).                                     *)
LEMMA ProcessKeeps ==
  ASSUME TransportInv, NEW n \in Station, Process(n)
  PROVE  TransportInv'
<1> DEFINE msg == Head(inbox[n])
           s == [node[n] EXCEPT !.pong = (msg.type = "PONG")]
           w == [inbox |-> [inbox EXCEPT ![n] = Tail(@)], faults |-> faults]
<1>1. PICK o \in Processed(n, s, msg, w) :
        /\ node' = [node EXCEPT ![n] = Forgotten(o.s)]
        /\ inbox' = o.w.inbox /\ faults' = o.w.faults /\ far' = far
  BY DEF Process, Step
<1>2. Len(node'[n].waits) <= MaxWaits /\ inbox[n] # <<>>
  BY DEF Process
<1>3. /\ inbox \in [Station -> Seq(Message)] /\ faults \in 0 .. MaxFaults
      /\ \A x \in Station : /\ Len(inbox[x]) <= RxFifo
                            /\ \A i \in DOMAIN inbox[x] : MayHear(x, Names, inbox[x][i])
  BY DEF TransportInv, World, Air
<1>4. inbox[n] \in Seq(Message) /\ 1 \in DOMAIN inbox[n] /\ msg = inbox[n][1]
  BY <1>2, <1>3
<1>5. msg \in Message /\ MayHear(n, Names, msg)
  BY <1>3, <1>4
<1>6. Sound(n, Names, s) /\ s.id = Names[n]
  <2>1. Sound(n, Names, node[n]) /\ node[n] \in State
    BY DEF TransportInv, Sound
  <2>2. (msg.type = "PONG") \in BOOLEAN
    OBVIOUS
  <2> HIDE DEF msg
  <2>3. /\ s \in State /\ s.sm = node[n].sm /\ s.id = node[n].id
        /\ s.active = node[n].active /\ s.waits = node[n].waits
        /\ s.parent = node[n].parent /\ s.distance = node[n].distance
        /\ s.response = node[n].response
    BY <2>1, <2>2 DEF State
  <2> HIDE DEF s
  <2>4. s.id = Names[n]
    BY <2>3 DEF Names
  <2>5. QED
    BY <2>1, <2>3, <2>4, SoundSame
<1>7. w \in Air(Names)
  <2> DEFINE rest == [inbox EXCEPT ![n] = Tail(inbox[n])]
  <2>1. w = [inbox |-> rest, faults |-> faults]
    OBVIOUS
  <2>2. /\ Tail(inbox[n]) \in Seq(Message) /\ Len(Tail(inbox[n])) <= RxFifo
        /\ \A i \in DOMAIN Tail(inbox[n]) :
             i + 1 \in DOMAIN inbox[n] /\ Tail(inbox[n])[i] = inbox[n][i + 1]
    BY <1>2, <1>3, <1>4, Ids
  <2>3. rest \in [Station -> Seq(Message)]
    BY <1>3, <2>2
  <2>4. \A x \in Station : rest[x] = IF x = n THEN Tail(inbox[n]) ELSE inbox[x]
    BY <1>3
  <2> HIDE DEF rest
  <2>5. \A x \in Station : /\ Len(rest[x]) <= RxFifo
                           /\ \A i \in DOMAIN rest[x] : MayHear(x, Names, rest[x][i])
    BY <1>3, <2>2, <2>4
  <2> HIDE DEF w
  <2>6. QED
    BY <1>3, <2>1, <2>3, <2>5 DEF Air
<1> HIDE DEF msg, s, w
<1>8. Fine(n, Names, o)
  BY <1>1, <1>5, <1>6, <1>7, Processing
<1>9. QED
  BY <1>1, <1>2, <1>8, Stepping

(* The uplink of a node is checked again after CHKUPL_INTERVAL              *)
(* (MyTransport.cpp:250-254).                                              *)
LEMMA CheckAgesKeeps ==
  ASSUME TransportInv, NEW n \in Node, CheckAges(n)
  PROVE  TransportInv'
<1>1. /\ n \in Station /\ Sound(n, Names, node[n]) /\ node[n] \in State
      /\ Len(node[n].waits) <= MaxWaits /\ World \in Air(Names)
  BY Beginning
<1> DEFINE s == [node[n] EXCEPT !.recent = FALSE]
<1>2. /\ node \in [Station -> State] /\ node' = [node EXCEPT ![n] = s]
      /\ inbox' = inbox /\ faults' = faults /\ far' = far
  BY DEF CheckAges, TransportInv
<1>3. /\ s \in State /\ s.sm = node[n].sm /\ s.id = node[n].id
      /\ s.active = node[n].active /\ s.waits = node[n].waits
      /\ s.parent = node[n].parent /\ s.distance = node[n].distance
      /\ s.response = node[n].response
  BY <1>1 DEF State
<1> HIDE DEF s
<1>4. Sound(n, Names, s) /\ Len(s.waits) <= MaxWaits
  BY <1>1, <1>3, SoundSame
<1>5. Names' = Names /\ World' = World
  BY <1>1, <1>2, <1>3 DEF Names, World
<1>6. \A x \in Station : Sound(x, Names, node'[x]) /\ Len(node'[x].waits) <= MaxWaits
  BY <1>2, <1>4 DEF TransportInv
<1>7. node' \in [Station -> State]
  BY <1>2, <1>3
<1>8. QED
  BY <1>2, <1>5, <1>6, <1>7 DEF TransportInv

(* The gateway stops and starts, and keeps its id (MyTransport.cpp:58-67).  *)
LEMMA GatewayKeeps ==
  ASSUME TransportInv, GatewayStops \/ GatewayStarts
  PROVE  TransportInv'
<1> DEFINE on == [node[GATEWAY] EXCEPT !.sm = "ok", !.listening = TRUE]
           off == [node[GATEWAY] EXCEPT !.sm = "failure", !.listening = FALSE]
<1>1. /\ GATEWAY \in Station /\ Sound(GATEWAY, Names, node[GATEWAY])
      /\ node[GATEWAY] \in State /\ Len(node[GATEWAY].waits) <= MaxWaits
      /\ node \in [Station -> State] /\ World \in Air(Names) /\ far \in FarNodes
  BY Ids DEF TransportInv
<1>2. PICK s \in {on, off} : node' = [node EXCEPT ![GATEWAY] = s]
  BY <1>1 DEF GatewayStops, GatewayStarts
<1>3. /\ s \in State /\ s.id = node[GATEWAY].id /\ s.active = node[GATEWAY].active
      /\ s.waits = node[GATEWAY].waits
  BY <1>1 DEF State
<1> HIDE DEF on, off
<1>4. Sound(GATEWAY, Names, s)
  BY <1>1, <1>3 DEF Sound, Pinging
<1>5. Names' = Names
  BY <1>1, <1>2, <1>3 DEF Names
<1>6. World' \in Air(Names)
  <2>1. CASE GatewayStarts
    BY <1>1, <2>1 DEF GatewayStarts, World
  <2>2. CASE GatewayStops
    <3> DEFINE v == [World EXCEPT !.inbox[GATEWAY] = <<>>]
    <3>1. v \in Air(Names)
      BY <1>1, Emptied
    <3>2. v = [inbox |-> [inbox EXCEPT ![GATEWAY] = <<>>], faults |-> faults]
      BY DEF World
    <3>3. /\ inbox' = [inbox EXCEPT ![GATEWAY] = <<>>] /\ faults' = faults + 1
          /\ faults < MaxFaults
      BY <2>2 DEF GatewayStops, Fault
    <3>4. faults + 1 \in 0 .. MaxFaults
      BY <1>1, <3>3, Paying
    <3>5. faults' \in 0 .. MaxFaults
      BY <3>3, <3>4
    <3> HIDE DEF v
    <3>6. World' = [inbox |-> v.inbox, faults |-> faults']
      BY <3>2, <3>3 DEF World
    <3>7. QED
      BY <3>1, <3>5, <3>6 DEF Air
  <2>3. QED
    BY <2>1, <2>2
<1>7. \A x \in Station : Sound(x, Names, node'[x]) /\ Len(node'[x].waits) <= MaxWaits
  BY <1>1, <1>2, <1>3, <1>4 DEF TransportInv
<1>8. node' \in [Station -> State] /\ far' = far
  BY <1>1, <1>2, <1>3 DEF GatewayStops, GatewayStarts
<1>9. QED
  BY <1>1, <1>5, <1>6, <1>7, <1>8 DEF TransportInv

LEMMA RangeChangesKeeps ==
  ASSUME TransportInv, RangeChanges
  PROVE  TransportInv'
<1>1. /\ node' = node /\ inbox' = inbox /\ far' \in FarNodes
      /\ faults' = faults + 1 /\ faults < MaxFaults
  BY DEF RangeChanges, Fault
<1>2. World \in Air(Names)
  BY DEF TransportInv
<1>3. faults' \in 0 .. MaxFaults
  BY <1>1, <1>2, Paying
<1>4. Names' = Names /\ World' = [inbox |-> inbox, faults |-> faults']
  BY <1>1 DEF Names, World
<1>5. World' \in Air(Names)
  BY <1>2, <1>3, <1>4 DEF Air, World
<1>6. QED
  BY <1>1, <1>4, <1>5 DEF TransportInv

-----------------------------------------------------------------------------

(* The invariant: all is sound from the start on, and every step keeps it.  *)
THEOREM TransportSound == Spec => []TransportInv
<1>1. Init => TransportInv
  <2> SUFFICES ASSUME Init PROVE TransportInv
    OBVIOUS
  <2>1. /\ node = [n \in Station |-> Start(n)] /\ inbox = [n \in Station |-> <<>>]
        /\ far \in FarNodes /\ faults = 0
    BY DEF Init
  <2>2. ASSUME NEW n \in Station
        PROVE  /\ Start(n) \in State /\ Start(n).id \in {n, AUTO} /\ Start(n).waits = <<>>
               /\ Start(n).active = FALSE
               /\ n = GATEWAY => Start(n).id = n
               /\ n # GATEWAY => /\ Start(n).sm = "failure" /\ Start(n).parent = AUTO
                                 /\ Start(n).distance = INVALID
                                 /\ Start(n).response = INVALID
    <3>1. /\ n \in Id /\ AUTO \in Id /\ GATEWAY \in Id /\ INVALID \in 0 .. INVALID
          /\ 0 \in 0 .. INVALID /\ 0 \in 0 .. 15 /\ <<>> \in Seq(Id \cup {PRESENT})
          /\ [x \in Station |-> AUTO] \in [Station -> Id] /\ (n = GATEWAY) \in BOOLEAN
      BY Ids DEF Id, INVALID
    <3>2. n = GATEWAY => n \notin Dynamic
      BY Ids
    <3>3. Start(n) \in State
      BY <3>1 DEF Start, State
    <3>4. QED
      BY <3>2, <3>3 DEF Start
  <2>3. ASSUME NEW n \in Station PROVE Sound(n, Names, node[n]) /\ Len(node[n].waits) <= MaxWaits
    <3>1. node[n] = Start(n) /\ Names[n] = node[n].id
      BY <2>1 DEF Names
    <3>2. INVALID \in 1 .. INVALID /\ Len(<<>>) <= MaxWaits
      BY Ids DEF INVALID
    <3>3. node[n] = Start(n)
      BY <3>1
    <3>4. node[n].waits = <<>>
      BY <2>2, <3>3
    <3>5. Waiting(n, Names, node[n])
      <4>1. DOMAIN node[n].waits = {}
        BY <3>4
      <4>2. QED
        BY <4>1 DEF Waiting
    <3>6. ASSUME n # GATEWAY PROVE Linked(n, Names, node[n])
      <4>1. node[n].id \in {n, AUTO} /\ n \in Node
        BY <2>2, <3>3, <3>6, Ids
      <4>2. /\ node[n].parent = AUTO /\ node[n].distance = INVALID
            /\ node[n].response = INVALID /\ node[n].sm = "failure"
        BY <2>2, <3>3, <3>6
      <4>3. QED
        BY <3>2, <4>1, <4>2 DEF Linked
    <3>7. QED
      BY <2>2, <3>1, <3>2, <3>5, <3>6 DEF Sound
  <2>4. World \in Air(Names)
    <3>1. /\ inbox \in [Station -> Seq(Message)] /\ faults \in 0 .. MaxFaults
          /\ \A x \in Station : Len(inbox[x]) <= RxFifo /\ DOMAIN inbox[x] = {}
      BY <2>1, Ids
    <3>2. QED
      BY <3>1 DEF World, Air
  <2>5. node \in [Station -> State]
    BY <2>1, <2>2
  <2>6. QED
    BY <2>1, <2>3, <2>4, <2>5 DEF TransportInv
<1>2. TransportInv /\ [Next]_vars => TransportInv'
  <2> SUFFICES ASSUME TransportInv, [Next]_vars PROVE TransportInv'
    OBVIOUS
  <2>1. ASSUME NEW n \in Node, NodeStep(n) PROVE TransportInv'
    <3>1. CASE Returns(n)
      BY <3>1, UplinkCheckedKeeps, AskerCheckedKeeps, PresentedKeeps DEF Returns
    <3>2. QED
      BY <2>1, <3>1, UpdateSMKeeps, SanityFailsKeeps, ReportKeeps, CheckAgesKeeps,
         NodeRestartsKeeps DEF NodeStep
  <2>2. ASSUME NEW n \in Station, Process(n) PROVE TransportInv'
    BY <2>2, ProcessKeeps
  <2>3. ASSUME NEW n \in Asked, AskPresentation(n) PROVE TransportInv'
    BY <2>3, AskPresentationKeeps
  <2>4. CASE UNCHANGED vars
    BY <2>4 DEF vars, TransportInv, Names, World
  <2>5. QED
    BY <2>1, <2>2, <2>3, <2>4, GatewayKeeps, RangeChangesKeeps DEF Next
<1>3. QED
  BY <1>1, <1>2, PTL DEF Spec

(* Every station, message and counter keeps its type, with any number of    *)
(* nodes and faults (MyTransport.h:65-77).                                 *)
THEOREM TransportTypeOK == Spec => []TypeOK
<1>1. TransportInv => TypeOK
  BY DEF TransportInv, TypeOK, Sound, Air, World
<1>2. QED
  BY <1>1, TransportSound, PTL

(* The parent of a node is another station, a node is ready only with an    *)
(* id, a parent and a distance, and the check of the uplink never returns   *)
(* into another search: with any number of nodes and of nodes that ask for  *)
(* their id, whatever is handled inside the waits                           *)
(* (MyTransport.cpp:86-171, 481-503, 546-570; MySensorsCore.cpp:423-437).   *)
THEOREM TransportLinkSound == Spec => []LinkSound
<1>1. TransportInv => LinkSound
  <2> SUFFICES ASSUME TransportInv, NEW n \in Node
      PROVE  ParentIsReal(n) /\ ReadyIsLinked(n) /\ CheckIsCurrent(n)
    BY DEF LinkSound
  <2>1. Waiting(n, Names, node[n]) /\ Linked(n, Names, node[n])
    BY Beginning
  <2>2. ParentIsReal(n)
    BY <2>1 DEF ParentIsReal, Linked, Names, Others
  <2>3. ReadyIsLinked(n)
    <3>1. \A d \in 1 .. INVALID : d # INVALID => d \in 1 .. MAX_HOPS
      BY Ids DEF INVALID
    <3>2. QED
      BY <2>1, <3>1 DEF ReadyIsLinked, Ready, Linked
  <2>4. CheckIsCurrent(n)
    <3>1. UPLINK # PRESENT
      BY DEF UPLINK, PRESENT, GATEWAY
    <3>2. QED
      BY <2>1, <3>1 DEF CheckIsCurrent, Waiting
  <2>5. QED
    BY <2>2, <2>3, <2>4
<1>2. QED
  BY <1>1, TransportSound, PTL

=============================================================================
