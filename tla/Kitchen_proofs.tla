--------------------------- MODULE Kitchen_proofs ---------------------------
(***************************************************************************)
(* Proofs about the lights of the kitchen, for any number of channels, any *)
(* colour depth and any set of payloads that the assumptions allow: what   *)
(* was last reported of a light is what its channels are doing.            *)
(***************************************************************************)
EXTENDS Kitchen, TLAPS

-----------------------------------------------------------------------------
\* One channel.

(* fade() heads for its value from the colour shown (LEDFader.cpp:78-109). *)
LEMMA FadeToFacts ==
  ASSUME NEW ch \in ChannelState, NEW v \in Color
  PROVE  /\ FadeTo(ch, v) \in ChannelState
         /\ FadeTo(ch, v).target = v
         /\ FadeTo(ch, v).color = ch.color
BY DEF FadeTo, AtRest, ChannelState

(* set_value() shows its value (LEDFader.cpp:29-36).                       *)
LEMMA SetToFacts ==
  ASSUME NEW ch \in ChannelState, NEW v \in Color
  PROVE  SetTo(ch, v) \in ChannelState /\ SetTo(ch, v).color = v
BY DEF SetTo, AtRest, ChannelState

(* update() keeps the target and moves the colour towards it               *)
(* (LEDFader.cpp:128-169).                                                 *)
LEMMA UpdatedFacts ==
  ASSUME NEW ch \in ChannelState, NEW u \in Updated(ch)
  PROVE  /\ u \in ChannelState
         /\ u.target = ch.target
         /\ u.color \in Between(ch.color, ch.target)
<1> USE MaxColorAssumption DEF Color
<1>1. ch.color \in Between(ch.color, ch.target) /\ ch.target \in Between(ch.color, ch.target)
  BY DEF ChannelState, Between
<1>2. CASE ~ch.fading
  BY <1>1, <1>2 DEF Updated
<1>3. CASE ch.fading /\ u = AtRest(ch.target)
  BY <1>1, <1>3 DEF AtRest, ChannelState
<1>4. CASE ch.fading /\ u # AtRest(ch.target)
  <2>1. PICK c \in Between(ch.color, ch.target) : u = [ch EXCEPT !.color = c]
    BY <1>4 DEF Updated
  <2>2. c \in Color
    BY DEF Between
  <2>3. QED
    BY <2>1, <2>2 DEF ChannelState
<1>5. QED
  BY <1>2, <1>3, <1>4

(* A colour between two ends that moves towards one of them stays between. *)
LEMMA BetweenStays ==
  ASSUME NEW a \in Color, NEW b \in Color, NEW c \in Between(a, b),
         NEW d \in Between(c, a) \cup Between(c, b)
  PROVE  d \in Between(a, b) /\ d \in Between(b, a)
BY MaxColorAssumption DEF Between, Color

-----------------------------------------------------------------------------

(* The types the proofs rest on: of the lights and of the limits.          *)
LightTypes ==
  /\ leds \in [Channel -> ChannelState]
  /\ trans_run \in [LedType -> Transition]
  /\ reported \in [LedType -> BOOLEAN]
  /\ lit_by \in [LedType -> Source]
  /\ storage \in [Source -> [Channel -> Color]]

(* The three invariants are proved together: switching a light needs its   *)
(* limits, and the course of a transition needs that only a running one    *)
(* turns back.                                                             *)
KitchenInv ==
  /\ LightTypes
  /\ OffMeansDark
  /\ TransitionOnCourse
  /\ LitAtLimit

LEMMA TypeOfChannel ==
  \A c \in Channel : TypeOf(c) \in LedType
BY DEF TypeOf, LedType

(* Nothing but the lights and the limits matters for the invariant.        *)
LEMMA KitchenUntouched ==
  ASSUME KitchenInv, UNCHANGED lights, UNCHANGED storage
  PROVE  KitchenInv'
BY DEF KitchenInv, LightTypes, OffMeansDark, TransitionOnCourse, LitAtLimit, lights, Heads

(* Every switch of the sketch keeps the invariant when a light reported    *)
(* off gets dark and a light reported on gets one of its limits            *)
(* (LEDs.cpp:69-99).                                                       *)
LEMMA SwitchKeeps ==
  ASSUME KitchenInv,
         storage' \in [Source -> [Channel -> Color]],
         NEW types \in SUBSET LedType,
         NEW value \in [Channel -> Color],
         NEW status \in [LedType -> BOOLEAN],
         NEW source \in Source,
         SwitchLights(types, value, status, source),
         \A t \in types : ~status[t] => \A c \in Channels(t) : value[c] = 0,
         \A t \in types : status[t] => \A c \in Channels(t) : value[c] = storage'[source][c],
         \A t \in LedType \ types, s \in Source : \A c \in Channels(t) :
           storage'[s][c] = storage[s][c]
  PROVE  KitchenInv'
<1>1. LightTypes'
  <2>1. leds' \in [Channel -> ChannelState]
    BY FadeToFacts DEF SwitchLights, KitchenInv, LightTypes
  <2>2. trans_run' \in [LedType -> Transition]
    <3>1. \A tr \in Transition : [tr EXCEPT !.running = FALSE] \in Transition
      BY DEF Transition
    <3>2. QED
      BY <3>1 DEF SwitchLights, KitchenInv, LightTypes
  <2>3. reported' \in [LedType -> BOOLEAN]
    BY DEF SwitchLights, KitchenInv, LightTypes
  <2>4. lit_by' \in [LedType -> Source]
    BY DEF SwitchLights, LitByAfter, Unlit, Source, KitchenInv, LightTypes
  <2>5. QED
    BY <2>1, <2>2, <2>3, <2>4 DEF LightTypes
<1>2. ASSUME NEW t \in types
      PROVE  /\ ~trans_run'[t].running
             /\ reported'[t] = status[t]
             /\ status[t] => lit_by'[t] = source
             /\ \A c \in Channels(t) : leds'[c].target = value[c]
  <2>1. ~trans_run'[t].running
    BY DEF SwitchLights, KitchenInv, LightTypes, Transition
  <2>2. reported'[t] = status[t]
    BY DEF SwitchLights
  <2>3. ASSUME NEW c \in Channels(t) PROVE leds'[c].target = value[c]
    BY FadeToFacts DEF SwitchLights, KitchenInv, LightTypes, Channels
  <2>4. status[t] => lit_by'[t] = source
    BY DEF SwitchLights, LitByAfter
  <2>5. QED
    BY <2>1, <2>2, <2>3, <2>4
<1>3. ASSUME NEW t \in LedType \ types
      PROVE  /\ trans_run'[t] = trans_run[t]
             /\ reported'[t] = reported[t]
             /\ lit_by'[t] = lit_by[t] /\ lit_by[t] \in Source
             /\ \A c \in Channels(t) : leds'[c] = leds[c]
  BY DEF SwitchLights, LitByAfter, Channels, KitchenInv, LightTypes
<1>4. OffMeansDark'
  <2> SUFFICES ASSUME NEW t \in LedType, ~reported'[t]
               PROVE  ~trans_run'[t].running /\ \A c \in Channels(t) : leds'[c].target = 0
    BY DEF OffMeansDark, Heads, AllOff, Channels
  <2>1. CASE t \in types
    BY <1>2, <2>1
  <2>2. CASE t \notin types
    BY <1>3, <2>2 DEF KitchenInv, OffMeansDark, Heads, AllOff, Channels
  <2>3. QED
    BY <2>1, <2>2
<1>5. TransitionOnCourse'
  <2> SUFFICES ASSUME NEW t \in LedType, trans_run'[t].running
               PROVE  LET tr == trans_run'[t]
                      IN  /\ \A c \in Channels(t) : leds'[c].target = Destination(tr)[c]
                          /\ \A c \in Channels(t) : leds'[c].color \in Between(tr.start[c], tr.stop[c])
                          /\ ~tr.is_loop => tr.direction
    BY DEF TransitionOnCourse, Heads
  <2>1. t \notin types
    BY <1>2
  <2>2. QED
    BY <1>3, <2>1 DEF KitchenInv, TransitionOnCourse, Heads
<1>6. LitAtLimit'
  <2> SUFFICES ASSUME NEW t \in LedType, reported'[t], ~trans_run'[t].running
               PROVE  \A c \in Channels(t) : leds'[c].target = storage'[lit_by'[t]][c]
    BY DEF LitAtLimit, Heads
  <2>1. CASE t \in types
    BY <1>2, <2>1
  <2>2. CASE t \notin types
    BY <1>3, <2>2 DEF KitchenInv, LitAtLimit, Heads
  <2>3. QED
    BY <2>1, <2>2
<1>7. QED
  BY <1>1, <1>4, <1>5, <1>6 DEF KitchenInv

(* A transition that is started heads for its end from its start           *)
(* (LEDs.cpp:111-131).                                                     *)
LEMMA StartKeeps ==
  ASSUME KitchenInv, UNCHANGED storage,
         NEW t \in LedType,
         NEW start \in [Channel -> Color], NEW stop \in [Channel -> Color],
         NEW is_loop \in BOOLEAN,
         StartTransition(t, start, stop, is_loop)
  PROVE  KitchenInv'
<1>1. trans_run'[t] = [running |-> TRUE, is_loop |-> is_loop, direction |-> TRUE,
                       start |-> start, stop |-> stop]
  BY DEF StartTransition, KitchenInv, LightTypes
<1>2. reported'[t] = TRUE
  BY DEF StartTransition, KitchenInv, LightTypes
<1>3. ASSUME NEW c \in Channels(t)
      PROVE  leds'[c].target = stop[c] /\ leds'[c].color = start[c]
  <2>1. leds[c] \in ChannelState /\ start[c] \in Color /\ stop[c] \in Color
    BY DEF KitchenInv, LightTypes, Channels
  <2>2. leds'[c] = FadeTo(SetTo(leds[c], start[c]), stop[c])
    BY DEF StartTransition, Channels
  <2>3. SetTo(leds[c], start[c]) \in ChannelState /\ SetTo(leds[c], start[c]).color = start[c]
    BY <2>1, SetToFacts
  <2>4. QED
    BY <2>1, <2>2, <2>3, FadeToFacts
<1>4. ASSUME NEW o \in LedType, o # t
      PROVE  /\ trans_run'[o] = trans_run[o]
             /\ reported'[o] = reported[o]
             /\ lit_by'[o] = lit_by[o]
             /\ \A c \in Channels(o) : leds'[c] = leds[c]
  BY <1>4 DEF StartTransition, KitchenInv, LightTypes, Channels
<1>5. LightTypes'
  <2>1. leds' \in [Channel -> ChannelState]
    BY SetToFacts, FadeToFacts DEF StartTransition, KitchenInv, LightTypes
  <2>2. trans_run' \in [LedType -> Transition]
    BY DEF StartTransition, KitchenInv, LightTypes, Transition
  <2>3. reported' \in [LedType -> BOOLEAN]
    BY DEF StartTransition, KitchenInv, LightTypes
  <2>4. lit_by' \in [LedType -> Source]
    BY DEF StartTransition, Unlit, Source, KitchenInv, LightTypes
  <2>5. QED
    BY <2>1, <2>2, <2>3, <2>4 DEF LightTypes, KitchenInv
<1>6. OffMeansDark'
  BY <1>2, <1>4 DEF OffMeansDark, KitchenInv, Heads, AllOff
<1>7. TransitionOnCourse'
  <2> SUFFICES ASSUME NEW o \in LedType, trans_run'[o].running
               PROVE  LET tr == trans_run'[o]
                      IN  /\ \A c \in Channels(o) : leds'[c].target = Destination(tr)[c]
                          /\ \A c \in Channels(o) : leds'[c].color \in Between(tr.start[c], tr.stop[c])
                          /\ ~tr.is_loop => tr.direction
    BY DEF TransitionOnCourse, Heads
  <2>1. CASE o = t
    <3>1. ASSUME NEW c \in Channels(t) PROVE start[c] \in Between(start[c], stop[c])
      BY MaxColorAssumption DEF Between, Color, Channels
    <3>2. QED
      BY <1>1, <1>3, <2>1, <3>1 DEF Destination
  <2>2. CASE o # t
    BY <1>4, <2>2 DEF KitchenInv, TransitionOnCourse, Heads
  <2>3. QED
    BY <2>1, <2>2
<1>8. LitAtLimit'
  <2> SUFFICES ASSUME NEW o \in LedType, reported'[o], ~trans_run'[o].running
               PROVE  \A c \in Channels(o) : leds'[c].target = storage'[lit_by'[o]][c]
    BY DEF LitAtLimit, Heads
  <2>1. o # t
    BY <1>1
  <2>2. QED
    BY <1>4, <2>1 DEF KitchenInv, LitAtLimit, Heads
<1>9. QED
  BY <1>5, <1>6, <1>7, <1>8 DEF KitchenInv

(* An iteration of the LEDs moves every channel on its way, and turns back *)
(* a loop whose channels have all arrived (LEDs.cpp:40-48,143-168).        *)
LEMMA LedsProcessKeeps ==
  ASSUME KitchenInv, NEW u \in Updates, LedsProcess(u)
  PROVE  KitchenInv'
<1>1. \A c \in Channel : /\ u[c] \in ChannelState
                         /\ u[c].target = leds[c].target
                         /\ u[c].color \in Between(leds[c].color, leds[c].target)
  BY UpdatedFacts DEF Updates, KitchenInv, LightTypes
<1>2. ASSUME NEW tr \in Transition
      PROVE  /\ [tr EXCEPT !.direction = ~@] \in Transition
             /\ [tr EXCEPT !.direction = ~@].running = tr.running
             /\ [tr EXCEPT !.direction = ~@].is_loop = tr.is_loop
             /\ [tr EXCEPT !.direction = ~@].start = tr.start
             /\ [tr EXCEPT !.direction = ~@].stop = tr.stop
             /\ Destination([tr EXCEPT !.direction = ~@]) = Origin(tr)
  BY DEF Transition, Destination, Origin
<1> DEFINE To(t) == Destination(trans_run[t])
           From(t) == Origin(trans_run[t])
<1>0. ASSUME NEW t \in LedType, NEW c \in Channel
      PROVE  /\ trans_run[t] \in Transition
             /\ To(t)[c] \in Color
             /\ From(t)[c] \in Color
  BY DEF KitchenInv, LightTypes, Transition, Destination, Origin
<1>3. ASSUME NEW t \in LedType, TurnsBack(t, u)
      PROVE  /\ trans_run'[t] = [trans_run[t] EXCEPT !.direction = ~@]
             /\ \A c \in Channels(t) :
                  /\ leds'[c].target = From(t)[c]
                  /\ leds'[c].color = To(t)[c]
  <2>1. ASSUME NEW c \in Channels(t)
        PROVE  /\ leds'[c].target = From(t)[c]
               /\ leds'[c].color = To(t)[c]
    <3>1. leds'[c] = FadeTo(SetTo(u[c], To(t)[c]), From(t)[c])
      BY <1>3 DEF LedsProcess, Channels
    <3>2. u[c] \in ChannelState /\ To(t)[c] \in Color /\ From(t)[c] \in Color
      BY <1>1, <1>0 DEF Channels
    <3>3. SetTo(u[c], To(t)[c]) \in ChannelState /\ SetTo(u[c], To(t)[c]).color = To(t)[c]
      BY <3>2, SetToFacts
    <3>4. QED
      BY <3>1, <3>2, <3>3, FadeToFacts
  <2>2. trans_run'[t] = [trans_run[t] EXCEPT !.direction = ~@]
    BY <1>3 DEF LedsProcess
  <2>3. QED
    BY <2>1, <2>2
<1>4. ASSUME NEW t \in LedType, ~TurnsBack(t, u)
      PROVE  trans_run'[t] = trans_run[t] /\ \A c \in Channels(t) : leds'[c] = u[c]
  BY <1>4 DEF LedsProcess, Channels
<1>5. LightTypes'
  <2>1. ASSUME NEW c \in Channel PROVE leds'[c] \in ChannelState
    <3>1. To(TypeOf(c))[c] \in Color /\ From(TypeOf(c))[c] \in Color
      BY <1>0, TypeOfChannel
    <3>2. QED
      BY <1>1, <3>1, SetToFacts, FadeToFacts DEF LedsProcess
  <2>2. leds' \in [Channel -> ChannelState]
    BY <2>1 DEF LedsProcess
  <2>3. trans_run' \in [LedType -> Transition]
    BY <1>2 DEF LedsProcess, KitchenInv, LightTypes
  <2>4. QED
    BY <2>2, <2>3 DEF LedsProcess, KitchenInv, LightTypes
<1>6. OffMeansDark'
  <2> SUFFICES ASSUME NEW t \in LedType, ~reported'[t]
               PROVE  ~trans_run'[t].running /\ \A c \in Channels(t) : leds'[c].target = 0
    BY DEF OffMeansDark, Heads, AllOff, Channels
  <2>1. ~trans_run[t].running /\ \A c \in Channels(t) : leds[c].target = 0
    BY DEF LedsProcess, KitchenInv, OffMeansDark, Heads, AllOff, Channels
  <2>2. ~TurnsBack(t, u)
    BY <2>1 DEF TurnsBack
  <2>3. QED
    BY <1>1, <1>4, <2>1, <2>2 DEF Channels
<1>7. TransitionOnCourse'
  <2> SUFFICES ASSUME NEW t \in LedType, trans_run'[t].running
               PROVE  LET tr == trans_run'[t]
                      IN  /\ \A c \in Channels(t) : leds'[c].target = Destination(tr)[c]
                          /\ \A c \in Channels(t) : leds'[c].color \in Between(tr.start[c], tr.stop[c])
                          /\ ~tr.is_loop => tr.direction
    BY DEF TransitionOnCourse, Heads
  <2> DEFINE tr == trans_run[t]
  <2>1. tr \in Transition
    BY DEF KitchenInv, LightTypes
  <2>2. tr.running
    BY <1>2, <1>3, <1>4, <2>1
  <2>3. /\ \A c \in Channels(t) : leds[c].target = Destination(tr)[c]
        /\ \A c \in Channels(t) : leds[c].color \in Between(tr.start[c], tr.stop[c])
        /\ ~tr.is_loop => tr.direction
    BY <2>2 DEF KitchenInv, TransitionOnCourse, Heads
  <2>4. CASE TurnsBack(t, u)
    <3>1. tr.is_loop
      BY <2>4 DEF TurnsBack
    <3>2. ASSUME NEW c \in Channels(t)
          PROVE  Destination(tr)[c] \in Between(tr.start[c], tr.stop[c])
      BY <2>1, MaxColorAssumption DEF Transition, Destination, Between, Color, Channels
    <3>3. /\ trans_run'[t].start = tr.start
          /\ trans_run'[t].stop = tr.stop
          /\ trans_run'[t].is_loop = tr.is_loop
          /\ Destination(trans_run'[t]) = Origin(tr)
      BY <1>2, <1>3, <2>1, <2>4
    <3>4. \A c \in Channels(t) : /\ leds'[c].target = Origin(tr)[c]
                                 /\ leds'[c].color = Destination(tr)[c]
      BY <1>3, <2>4
    <3>5. QED
      BY <3>1, <3>2, <3>3, <3>4
  <2>5. CASE ~TurnsBack(t, u)
    <3>1. ASSUME NEW c \in Channels(t)
          PROVE  u[c].color \in Between(tr.start[c], tr.stop[c])
      <4>1. tr.start[c] \in Color /\ tr.stop[c] \in Color
        BY <2>1 DEF Transition, Channels
      <4>2. Destination(tr)[c] \in {tr.start[c], tr.stop[c]}
        BY DEF Destination
      <4>3. u[c].color \in Between(leds[c].color, Destination(tr)[c])
        BY <1>1, <2>3 DEF Channels
      <4>4. QED
        BY <2>3, <4>1, <4>2, <4>3, BetweenStays
    <3>2. QED
      BY <1>1, <1>4, <2>3, <2>5, <3>1 DEF Channels
  <2>6. QED
    BY <2>4, <2>5
<1>8. LitAtLimit'
  <2> SUFFICES ASSUME NEW t \in LedType, reported'[t], ~trans_run'[t].running
               PROVE  \A c \in Channels(t) : leds'[c].target = storage'[lit_by'[t]][c]
    BY DEF LitAtLimit, Heads
  <2>1. ~TurnsBack(t, u)
    <3> SUFFICES ASSUME TurnsBack(t, u) PROVE FALSE
      OBVIOUS
    <3>1. trans_run[t] \in Transition
      BY DEF KitchenInv, LightTypes
    <3>2. trans_run'[t].running = trans_run[t].running
      BY <1>2, <1>3, <3>1
    <3>3. QED
      BY <3>2 DEF TurnsBack
  <2>2. reported[t] /\ ~trans_run[t].running
    BY <1>4, <2>1 DEF LedsProcess
  <2>3. \A c \in Channels(t) : leds[c].target = storage[lit_by[t]][c]
    BY <2>2 DEF KitchenInv, LitAtLimit, Heads
  <2>4. QED
    BY <1>1, <1>4, <2>1, <2>3 DEF LedsProcess, Channels
<1>9. QED
  BY <1>5, <1>6, <1>7, <1>8 DEF KitchenInv

-----------------------------------------------------------------------------

(* The record has a first byte, where the version stands.                  *)
LEMMA AddressZero == NodeIdAddress \in Address /\ NodeIdAddress # ParentIdAddress
<1>1. ColorOrder \in Seq({ColorOrder[i] : i \in DOMAIN ColorOrder} \cup {WhiteChannel})
  BY KitchenAssumption
<1>2. Len(ChannelOrder) = Len(ColorOrder) + 1
  BY <1>1 DEF ChannelOrder
<1>3. Size \in Nat
  BY <1>1, <1>2 DEF Size
<1>4. QED
  BY <1>3 DEF Address, NodeIdAddress, ParentIdAddress

(* The invariant with what the next start reads: the cell of the version.  *)
StartInv == KitchenInv /\ NodeIdAddress \in DOMAIN eeprom

(* At every start the limits are the largest ones: the node id stands      *)
(* where the version of the record is looked for (Storage.cpp:44-62).      *)
LEMMA LoadedAtStart ==
  ASSUME NEW cells, NodeIdAddress \in DOMAIN cells
  PROVE  /\ Loaded(AfterBegin(cells)) \in [Source -> [Channel -> Color]]
         /\ NodeIdAddress \in DOMAIN AfterBegin(cells)
<1>1. /\ AfterBegin(cells)[NodeIdAddress] = MY_NODE_ID
      /\ NodeIdAddress \in DOMAIN AfterBegin(cells)
  BY AddressZero DEF AfterBegin
<1>2. Loaded(AfterBegin(cells)) = [s \in Source |-> [c \in Channel |-> MaxColor]]
  BY <1>1, KitchenAssumption DEF Loaded, NodeIdAddress
<1>3. MaxColor \in Color
  BY MaxColorAssumption DEF Color
<1>4. QED
  BY <1>1, <1>2, <1>3

(* A node that was just switched on has every light off, reported off and  *)
(* at no transition (LEDs.cpp:29-38).                                      *)
LEMMA StartedInv ==
  ASSUME leds = [c \in Channel |-> AtRest(0)],
         trans_run = [t \in LedType |-> NoTransition],
         reported = [t \in LedType |-> FALSE],
         lit_by = [t \in LedType |-> Unlit],
         storage \in [Source -> [Channel -> Color]]
  PROVE  KitchenInv
<1>1. 0 \in Color
  BY MaxColorAssumption DEF Color
<1>2. AtRest(0) \in ChannelState /\ NoTransition \in Transition
  BY <1>1 DEF AtRest, ChannelState, NoTransition, Transition
<1>3. LightTypes
  BY <1>2 DEF LightTypes, Unlit, Source
<1>4. OffMeansDark
  <2>1. AtRest(0).target = 0 /\ ~NoTransition.running
    BY DEF AtRest, NoTransition
  <2>2. QED
    BY <2>1 DEF OffMeansDark, Heads, AllOff, Channels
<1>5. TransitionOnCourse /\ LitAtLimit
  BY DEF TransitionOnCourse, LitAtLimit, NoTransition
<1>6. QED
  BY <1>3, <1>4, <1>5 DEF KitchenInv

(* Saving and showing a new limit keeps the invariant                      *)
(* (Networking.cpp:33-49).                                                 *)
LEMMA SetLimitKeeps ==
  ASSUME KitchenInv, NEW t \in LedType, NEW source \in Source,
         NEW color \in [Channel -> Color], SetLimit(t, source, color)
  PROVE  KitchenInv' /\ NodeIdAddress \in DOMAIN eeprom'
<1>1. storage' = [storage EXCEPT ![source] =
                    [c \in Channel |-> IF TypeOf(c) = t THEN color[c] ELSE @[c]]]
  BY DEF SetLimit
<1>2. storage' \in [Source -> [Channel -> Color]]
  BY <1>1 DEF KitchenInv, LightTypes
<1>3. \A c \in Channels(t) : color[c] = storage'[source][c]
  BY <1>1 DEF Channels, KitchenInv, LightTypes
<1>4. ASSUME NEW o \in LedType \ {t}, NEW s \in Source, NEW c \in Channels(o)
      PROVE  storage'[s][c] = storage[s][c]
  BY <1>1 DEF Channels, KitchenInv, LightTypes
<1>5. SwitchLights({t}, color, BothStatus(TRUE), source)
  BY DEF SetLimit
<1>6. BothStatus(TRUE) \in [LedType -> BOOLEAN] /\ BothStatus(TRUE)[t]
  BY DEF BothStatus
<1>7. KitchenInv'
  <2> DEFINE types == {t}
             status == BothStatus(TRUE)
  <2>1. types \in SUBSET LedType /\ status \in [LedType -> BOOLEAN] /\ SwitchLights(types, color, status, source)
    BY <1>5, <1>6
  <2>2. \A x \in types : ~status[x] => \A c \in Channels(x) : color[c] = 0
    BY <1>6
  <2>3. \A x \in types : status[x] => \A c \in Channels(x) : color[c] = storage'[source][c]
    BY <1>3
  <2>4. \A o \in LedType \ types, s \in Source : \A c \in Channels(o) : storage'[s][c] = storage[s][c]
    BY <1>4
  <2> HIDE DEF types, status
  <2>5. QED
    BY <1>2, <2>1, <2>2, <2>3, <2>4, SwitchKeeps
<1>8. DOMAIN eeprom' = Address
  BY DEF SetLimit, Image
<1>9. QED
  BY <1>7, <1>8, AddressZero

(* Both callbacks of the button keep the invariant: each switches both     *)
(* lights to a limit or off (Kitchen.ino:62-113).                          *)
LEMMA ButtonKeeps ==
  ASSUME KitchenInv, button_mode \in ButtonMode, ButtonProcess
  PROVE  KitchenInv'
<1>1. UNCHANGED storage /\ storage' \in [Source -> [Channel -> Color]]
  BY DEF ButtonProcess, KitchenInv, LightTypes
<1>2. storage["Button"] \in [Channel -> Color] /\ "Button" \in Source /\ AllOff \in [Channel -> Color]
  BY MaxColorAssumption DEF Source, AllOff, Color, KitchenInv, LightTypes
<1>8. ASSUME NEW value \in [Channel -> Color], NEW status \in [LedType -> BOOLEAN],
             SwitchLights(LedType, value, status, "Button"),
             \A t \in LedType : \A c \in Channels(t) :
               value[c] = IF status[t] THEN storage["Button"][c] ELSE 0
      PROVE  KitchenInv'
  <2>1. \A t \in LedType : ~status[t] => \A c \in Channels(t) : value[c] = 0
    BY <1>8
  <2>2. \A t \in LedType : status[t] =>
          \A c \in Channels(t) : value[c] = storage'["Button"][c]
    BY <1>8, <1>1, <1>2
  <2>3. LedType \in SUBSET LedType /\ LedType \ LedType = {}
    OBVIOUS
  <2>4. QED
    BY <1>1, <1>2, <1>8, <2>1, <2>2, <2>3, SwitchKeeps
<1>3. CASE on_btn_short_release
  <2> DEFINE on == ~is_stored_equal("Button")
             value == IF on THEN storage["Button"] ELSE AllOff
  <2>1. SwitchLights(LedType, value, BothStatus(on), "Button")
    BY <1>3 DEF on_btn_short_release
  <2>2. BothStatus(on) \in [LedType -> BOOLEAN] /\ \A t \in LedType : BothStatus(on)[t] = on
    BY DEF BothStatus, is_stored_equal
  <2>3. value \in [Channel -> Color]
    BY <1>2
  <2>4. \A t \in LedType : \A c \in Channels(t) :
          value[c] = IF BothStatus(on)[t] THEN storage["Button"][c] ELSE 0
    BY <2>2 DEF AllOff, Channels
  <2> HIDE DEF on, value
  <2>5. QED
    BY <1>8, <2>1, <2>2, <2>3, <2>4
<1>4. CASE on_btn_long_press
  <2> DEFINE value == [c \in Channel |->
                         IF TypeOf(c) \in LitIn(button_mode) THEN storage["Button"][c] ELSE 0]
             status == [t \in LedType |-> t \in LitIn(button_mode)]
  <2>1. SwitchLights(LedType, value, status, "Button")
    BY <1>4 DEF on_btn_long_press
  <2>2. status \in [LedType -> BOOLEAN]
    OBVIOUS
  <2>3. value \in [Channel -> Color]
    BY <1>2, MaxColorAssumption DEF Color
  <2>4. \A t \in LedType : \A c \in Channels(t) :
          value[c] = IF status[t] THEN storage["Button"][c] ELSE 0
    BY DEF Channels
  <2> HIDE DEF value, status
  <2>5. QED
    BY <1>8, <2>1, <2>2, <2>3, <2>4
<1>5. CASE UNCHANGED lights
  BY <1>1, <1>5, KitchenUntouched
<1>6. on_btn_short_release \/ on_btn_long_press \/ UNCHANGED lights
  BY DEF ButtonProcess
<1>7. QED
  BY <1>3, <1>4, <1>5, <1>6

(* A message for one light keeps the invariant (Networking.cpp:65-137).    *)
LEMMA ReceiveKeeps ==
  ASSUME StartInv, Receive
  PROVE  StartInv'
<1>1. ASSUME NEW t \in LedType, NEW on \in BOOLEAN, ReceiveLight(t, on)
      PROVE  StartInv'
  <2> DEFINE types == {t}
             value == IF on THEN storage["External"] ELSE AllOff
             status == BothStatus(on)
  <2>1. SwitchLights(types, value, status, "External") /\ UNCHANGED <<storage, eeprom>>
    BY <1>1 DEF ReceiveLight
  <2>2. /\ storage' \in [Source -> [Channel -> Color]]
        /\ types \in SUBSET LedType
        /\ status \in [LedType -> BOOLEAN]
    BY <2>1 DEF BothStatus, StartInv, KitchenInv, LightTypes
  <2>3. value \in [Channel -> Color]
    BY MaxColorAssumption DEF StartInv, KitchenInv, LightTypes, Source, AllOff, Color
  <2>4. \A x \in types : ~status[x] => \A c \in Channels(x) : value[c] = 0
    BY DEF BothStatus, AllOff, Channels
  <2>5. /\ "External" \in Source
        /\ \A x \in types : status[x] =>
             \A c \in Channels(x) : value[c] = storage'["External"][c]
    BY <2>1 DEF BothStatus, Source
  <2>6. \A o \in LedType \ types, s \in Source : \A c \in Channels(o) : storage'[s][c] = storage[s][c]
    BY <2>1
  <2> HIDE DEF types, value, status
  <2>7. KitchenInv'
    BY <2>1, <2>2, <2>3, <2>4, <2>5, <2>6, SwitchKeeps DEF StartInv
  <2>8. QED
    BY <2>1, <2>7 DEF StartInv
<1>2. ASSUME NEW t \in LedType, NEW p \in Payloads[t], ReceiveVar1(t, p)
      PROVE  StartInv'
  <2> DEFINE command == parse_command(p, errno)
  <2>1. p.start.color \in [Channel -> Color] /\ p.stop.color \in [Channel -> Color]
    BY PayloadAssumption
  <2>2. CASE SetLimit(t, "External", p.start.color) \/ SetLimit(t, "Button", p.start.color)
    BY <2>1, <2>2, SetLimitKeeps DEF Source, StartInv
  <2>3. CASE /\ StartTransition(t, p.start.color, p.stop.color, command = "TRANSITION_LOOP")
             /\ UNCHANGED <<storage, eeprom, saved>>
    <3>1. (command = "TRANSITION_LOOP") \in BOOLEAN
      OBVIOUS
    <3> HIDE DEF command
    <3>2. KitchenInv'
      BY <2>1, <2>3, <3>1, StartKeeps DEF StartInv
    <3>3. QED
      BY <2>3, <3>2 DEF StartInv
  <2>4. CASE UNCHANGED <<lights, storage, eeprom, saved>>
    BY <2>4, KitchenUntouched DEF StartInv
  <2>5. QED
    BY <1>2, <2>2, <2>3, <2>4 DEF ReceiveVar1
<1>3. QED
  BY <1>1, <1>2 DEF Receive

(* The mode of the button is one of its three modes (Kitchen.ino:16-23).   *)
ButtonModeOK == button_mode \in ButtonMode

LEMMA KitchenButtonMode == Spec => []ButtonModeOK
<1>1. Init => ButtonModeOK
  BY DEF Init, ButtonMode, ButtonModeOK
<1>2. ASSUME [Next]_vars, ~ButtonProcess, ~Restart PROVE button_mode' = button_mode
  BY <1>2 DEF Next, vars, Receive, ReceiveLight, ReceiveVar1, LedsStep, LedsProcess,
              TransportInit
<1>3. ASSUME ButtonModeOK, ButtonProcess PROVE ButtonModeOK'
  <2>1. button_mode' \in {button_mode, NextMode(button_mode)}
    BY <1>3 DEF ButtonProcess, on_btn_short_release, on_btn_long_press
  <2>2. QED
    BY <1>3, <2>1 DEF ButtonModeOK, NextMode, ButtonMode
<1>4. Restart => ButtonModeOK'
  BY DEF Restart, ButtonModeOK, ButtonMode
<1>5. ButtonModeOK /\ [Next]_vars => ButtonModeOK'
  BY <1>2, <1>3, <1>4 DEF ButtonModeOK
<1>6. QED
  BY <1>1, <1>5, PTL DEF Spec

(* What every step of the node preserves.                                  *)
LEMMA KitchenInvariant == Spec => []StartInv
<1>1. Init => StartInv
  <2> SUFFICES ASSUME Init PROVE StartInv
    OBVIOUS
  <2>1. NodeIdAddress \in DOMAIN Erased
    BY AddressZero DEF Erased
  <2>2. KitchenInv
    BY <2>1, LoadedAtStart, StartedInv DEF Init
  <2>3. QED
    BY <2>1, <2>2, LoadedAtStart DEF Init, StartInv
<1>2. StartInv /\ ButtonModeOK /\ [Next]_vars => StartInv'
  <2> SUFFICES ASSUME StartInv, button_mode \in ButtonMode, [Next]_vars PROVE StartInv'
    BY DEF ButtonModeOK
  <2>1. CASE Receive
    BY <2>1, ReceiveKeeps
  <2>2. CASE ButtonProcess
    <3>1. UNCHANGED eeprom
      BY <2>2 DEF ButtonProcess
    <3>2. QED
      BY <2>2, <3>1, ButtonKeeps DEF StartInv
  <2>3. CASE LedsStep
    <3>1. PICK u \in Updates : LedsProcess(u)
      BY <2>3 DEF LedsStep
    <3>2. UNCHANGED eeprom
      BY <3>1 DEF LedsProcess
    <3>3. QED
      BY <3>1, <3>2, LedsProcessKeeps DEF StartInv
  <2>4. CASE TransportInit
    <3>1. UNCHANGED lights /\ UNCHANGED storage
      BY <2>4 DEF TransportInit
    <3>2. NodeIdAddress \in DOMAIN eeprom'
      BY <2>4 DEF TransportInit, StartInv
    <3>3. QED
      BY <3>1, <3>2, KitchenUntouched DEF StartInv
  <2>5. CASE Restart
    <3>1. /\ storage' \in [Source -> [Channel -> Color]]
          /\ NodeIdAddress \in DOMAIN eeprom'
      BY <2>5, LoadedAtStart DEF Restart, StartInv
    <3>2. /\ leds' = [c \in Channel |-> AtRest(0)]
          /\ trans_run' = [t \in LedType |-> NoTransition]
          /\ reported' = [t \in LedType |-> FALSE]
          /\ lit_by' = [t \in LedType |-> Unlit]
      BY <2>5 DEF Restart
    <3>3. KitchenInv'
      <4>1. 0 \in Color
        BY MaxColorAssumption DEF Color
      <4>2. AtRest(0) \in ChannelState /\ NoTransition \in Transition
        BY <4>1 DEF AtRest, ChannelState, NoTransition, Transition
      <4>3. LightTypes'
        BY <3>1, <3>2, <4>2 DEF LightTypes, Unlit, Source
      <4>4. AtRest(0).target = 0 /\ ~NoTransition.running
        BY DEF AtRest, NoTransition
      <4>5. OffMeansDark'
        BY <3>2, <4>4 DEF OffMeansDark, Heads, AllOff, Channels
      <4>6. TransitionOnCourse' /\ LitAtLimit'
        BY <3>2, <4>4 DEF TransitionOnCourse, LitAtLimit
      <4>7. QED
        BY <4>3, <4>5, <4>6 DEF KitchenInv
    <3>4. QED
      BY <3>1, <3>3 DEF StartInv
  <2>6. CASE UNCHANGED vars
    <3>1. UNCHANGED lights /\ UNCHANGED storage /\ UNCHANGED eeprom
      BY <2>6 DEF vars
    <3>2. QED
      BY <3>1, KitchenUntouched DEF StartInv
  <2>7. QED
    BY <2>1, <2>2, <2>3, <2>4, <2>5, <2>6 DEF Next
<1>3. QED
  BY <1>1, <1>2, KitchenButtonMode, PTL DEF Spec

(* A light last reported off is dark or getting dark, and no transition    *)
(* will light it again (LEDs.cpp:83-131, Kitchen.ino:70-113).              *)
THEOREM KitchenOffMeansDark == Spec => []OffMeansDark
<1>1. StartInv => OffMeansDark
  BY DEF StartInv, KitchenInv
<1>2. QED
  BY <1>1, KitchenInvariant, PTL

(* A running transition is on its course, with all channels of its light   *)
(* between its two ends (LEDs.cpp:116-168).                                *)
THEOREM KitchenTransitionOnCourse == Spec => []TransitionOnCourse
<1>1. StartInv => TransitionOnCourse
  BY DEF StartInv, KitchenInv
<1>2. QED
  BY <1>1, KitchenInvariant, PTL

(* A light reported on, at no transition, goes to the limit of whoever lit *)
(* it, as it is now (Networking.cpp:33-49,79-89).                          *)
THEOREM KitchenLitAtLimit == Spec => []LitAtLimit
<1>1. StartInv => LitAtLimit
  BY DEF StartInv, KitchenInv
<1>2. QED
  BY <1>1, KitchenInvariant, PTL

(* The lights change their colours with the updates of the channels alone, *)
(* also in the iteration in which a loop turns back (LEDs.cpp:40-67).      *)
LEMMA LedsProcessColors ==
  ASSUME KitchenInv, NEW u \in Updates, LedsProcess(u), NEW c \in Channel
  PROVE  leds'[c].color = u[c].color
<1> DEFINE t == TypeOf(c)
           to == Destination(trans_run[t])[c]
           from == Origin(trans_run[t])[c]
<1>1. t \in LedType /\ c \in Channels(t)
  BY TypeOfChannel DEF Channels
<1>2. u[c] \in ChannelState
  BY UpdatedFacts DEF Updates, KitchenInv, LightTypes
<1>3. CASE TurnsBack(t, u)
  <2>1. u[c].color = to
    BY <1>1, <1>3 DEF TurnsBack
  <2>2. to \in Color /\ from \in Color
    BY <1>1 DEF KitchenInv, LightTypes, Transition, Destination, Origin
  <2>3. leds'[c] = FadeTo(SetTo(u[c], to), from)
    BY <1>3 DEF LedsProcess
  <2>4. SetTo(u[c], to) \in ChannelState /\ SetTo(u[c], to).color = to
    BY <1>2, <2>2, SetToFacts
  <2>5. QED
    BY <2>1, <2>2, <2>3, <2>4, FadeToFacts
<1>4. CASE ~TurnsBack(t, u)
  BY <1>4 DEF LedsProcess
<1>5. QED
  BY <1>3, <1>4

(* A loop turns back without a jump, in whatever order its channels arrive *)
(* (LEDs.cpp:40-67,143-168).                                               *)
THEOREM KitchenNoJump == Spec => NoJump
<1>1. KitchenInv =>
        [pc = "leds" /\ trans_run' # trans_run =>
           \A u \in Updates : LedsProcess(u) =>
             \A c \in Channel : leds'[c].color = u[c].color]_vars
  BY LedsProcessColors
<1>2. StartInv => KitchenInv
  BY DEF StartInv
<1>3. QED
  BY <1>1, <1>2, KitchenInvariant, PTL DEF Spec, NoJump

-----------------------------------------------------------------------------
\* The record in the EEPROM.

(* The channels stand one after the other in the order of the record.      *)
LEMMA OrderFacts ==
  /\ Size \in Nat /\ DOMAIN ChannelOrder = 1 .. Size
  /\ \A i \in 1 .. Size : ChannelOrder[i] \in Channel
  /\ \A c \in Channel : \E i \in 1 .. Size : ChannelOrder[i] = c
<1>1. ColorOrder \in Seq({ColorOrder[i] : i \in DOMAIN ColorOrder} \cup {WhiteChannel})
  BY KitchenAssumption
<1>2. /\ ChannelOrder \in Seq({ColorOrder[i] : i \in DOMAIN ColorOrder} \cup {WhiteChannel})
      /\ Len(ChannelOrder) \in Nat
  BY <1>1 DEF ChannelOrder
<1>3. DOMAIN ChannelOrder = 1 .. Len(ChannelOrder)
  BY <1>2
<1>4. QED
  BY <1>2, <1>3 DEF Size, Channel

(* Every cell behind the version belongs to a channel of a source ...      *)
LEMMA CellOwner ==
  ASSUME NEW a \in Address, a # 0
  PROVE  SourceAt(a) \in Source /\ ChannelAt(a) \in Channel
<1>1. a \in Nat /\ a >= 1 /\ a <= 2 * Size /\ Size \in Nat
  BY OrderFacts DEF Address
<1>2. (IF a <= Size THEN a ELSE a - Size) \in 1 .. Size
  BY <1>1
<1>3. ChannelAt(a) \in Channel
  BY <1>2, OrderFacts DEF ChannelAt
<1>4. QED
  BY <1>3 DEF SourceAt, Source

(* ... and every channel of either source has a cell (Types.h:37-41).       *)
LEMMA CellOf ==
  ASSUME NEW s \in Source, NEW c \in Channel
  PROVE  /\ AddressOf(s, c) \in Address /\ AddressOf(s, c) # NodeIdAddress
         /\ SourceAt(AddressOf(s, c)) = s /\ ChannelAt(AddressOf(s, c)) = c
<1>1. PICK i \in 1 .. Size : ChannelOrder[i] = c
  BY OrderFacts
<1>2. /\ i \in Nat /\ i >= 1 /\ i <= Size /\ Size \in Nat
      /\ i \in Address \ {0} /\ Size + i \in Address \ {0}
      /\ ~(Size + i <= Size) /\ (Size + i) - Size = i
  BY OrderFacts DEF Address
<1>3. SourceAt(i) = "External" /\ ChannelAt(i) = c
  BY <1>1, <1>2 DEF SourceAt, ChannelAt
<1>4. SourceAt(Size + i) = "Button" /\ ChannelAt(Size + i) = c
  BY <1>1, <1>2 DEF SourceAt, ChannelAt
<1>5. \E a \in Address \ {0} : SourceAt(a) = s /\ ChannelAt(a) = c
  BY <1>2, <1>3, <1>4 DEF Source
<1>6. QED
  BY <1>5 DEF AddressOf, NodeIdAddress

(* What is written is read back (Storage.cpp:30-42).                       *)
LEMMA ImageHolds ==
  ASSUME NEW st \in [Source -> [Channel -> Color]]
  PROVE  /\ Image(st) \in [Address -> Nat]
         /\ \A s \in Source, c \in Channel : Image(st)[AddressOf(s, c)] = st[s][c]
<1>1. ASSUME NEW a \in Address
      PROVE  (IF a = 0 THEN STORAGE_VERSION ELSE st[SourceAt(a)][ChannelAt(a)]) \in Nat
  <2>1. CASE a = 0
    BY <2>1, KitchenAssumption
  <2>2. CASE a # 0
    <3>1. st[SourceAt(a)][ChannelAt(a)] \in Color
      BY <2>2, CellOwner
    <3>2. QED
      BY <2>2, <3>1, MaxColorAssumption DEF Color
  <2>3. QED
    BY <2>1, <2>2
<1>2. Image(st) \in [Address -> Nat]
  BY <1>1 DEF Image
<1>3. ASSUME NEW s \in Source, NEW c \in Channel
      PROVE  Image(st)[AddressOf(s, c)] = st[s][c]
  BY CellOf DEF Image, NodeIdAddress
<1>4. QED
  BY <1>2, <1>3

(* A limit goes to RAM and EEPROM together, and between two starts the     *)
(* transport writes only the byte of its node id, which is no limit's.     *)
RecordInv == eeprom \in [Address -> Nat] /\ EepromHoldsLimits

LEMMA RecordKeeps ==
  ASSUME StartInv, StartInv', RecordInv, [Next]_vars
  PROVE  RecordInv'
<1>1. CASE UNCHANGED <<eeprom, storage, saved>>
  BY <1>1 DEF RecordInv, EepromHoldsLimits
<1>2. ASSUME NEW t \in LedType, NEW source \in Source, NEW color, SetLimit(t, source, color)
      PROVE  RecordInv'
  <2>1. eeprom' = Image(storage') /\ storage' \in [Source -> [Channel -> Color]]
    BY <1>2 DEF SetLimit, StartInv, KitchenInv, LightTypes
  <2>2. QED
    BY <2>1, ImageHolds DEF RecordInv, EepromHoldsLimits
<1>3. CASE TransportInit
  <2>1. eeprom' = [eeprom EXCEPT ![NodeIdAddress] = MY_NODE_ID] /\ UNCHANGED <<storage, saved>>
    BY <1>3 DEF TransportInit
  <2>2. eeprom' \in [Address -> Nat]
    BY <2>1, KitchenAssumption DEF RecordInv
  <2>3. \A s \in Source, c \in Channel : eeprom'[AddressOf(s, c)] = eeprom[AddressOf(s, c)]
    BY <2>1, CellOf DEF RecordInv
  <2>4. QED
    BY <2>1, <2>2, <2>3 DEF RecordInv, EepromHoldsLimits
<1>4. CASE Restart
  <2>1. eeprom' \in [Address -> Nat] /\ saved' = FALSE
    BY <1>4, KitchenAssumption, MaxColorAssumption DEF Restart, AfterBegin, RecordInv
  <2>2. QED
    BY <2>1 DEF RecordInv, EepromHoldsLimits
<1>5. CASE Receive
  <2>1. ASSUME NEW t \in LedType, NEW p \in Payloads[t], ReceiveVar1(t, p) PROVE RecordInv'
    BY <1>1, <1>2, <2>1 DEF ReceiveVar1, Source
  <2>2. ASSUME NEW t \in LedType, NEW on \in BOOLEAN, ReceiveLight(t, on) PROVE RecordInv'
    BY <1>1, <2>2 DEF ReceiveLight
  <2>3. QED
    BY <1>5, <2>1, <2>2 DEF Receive
<1>6. CASE ButtonProcess \/ LedsStep \/ UNCHANGED vars
  BY <1>1, <1>6 DEF ButtonProcess, LedsStep, LedsProcess, vars
<1>7. QED
  BY <1>3, <1>4, <1>5, <1>6 DEF Next

LEMMA RecordInvariant == Spec => []RecordInv
<1>1. Init => RecordInv
  <2> SUFFICES ASSUME Init PROVE RecordInv
    OBVIOUS
  <2>1. eeprom \in [Address -> Nat] /\ saved = FALSE
    BY KitchenAssumption, MaxColorAssumption DEF Init, AfterBegin, Erased
  <2>2. QED
    BY <2>1 DEF RecordInv, EepromHoldsLimits
<1>2. QED
  BY <1>1, RecordKeeps, KitchenInvariant, PTL DEF Spec

(* What was saved since power on is in the EEPROM, for any number of       *)
(* channels and any sequence of messages, button presses and restarts of   *)
(* the transport (Storage.cpp:30-42).                                      *)
THEOREM KitchenEepromHoldsLimits == Spec => []EepromHoldsLimits
<1>1. RecordInv => EepromHoldsLimits
  BY DEF RecordInv
<1>2. QED
  BY <1>1, RecordInvariant, PTL

(* The main loop, the button and errno keep their types.                   *)
LoopTypes ==
  /\ pc \in {"process", "leds"}
  /\ errno \in BOOLEAN
  /\ press \in Status
  /\ saved \in BOOLEAN

LEMMA LoopTypesKept == LoopTypes /\ [Next]_vars => LoopTypes'
<1> SUFFICES ASSUME LoopTypes, [Next]_vars PROVE LoopTypes'
  OBVIOUS
<1>1. CASE Receive
  <2>1. ASSUME NEW t \in LedType, NEW on \in BOOLEAN, ReceiveLight(t, on) PROVE LoopTypes'
    BY <2>1 DEF ReceiveLight, LoopTypes
  <2>2. ASSUME NEW t \in LedType, NEW p \in Payloads[t], ReceiveVar1(t, p) PROVE LoopTypes'
    <3>1. errno' \in BOOLEAN
      BY <2>2 DEF ReceiveVar1, ErrnoAfter, LoopTypes
    <3>2. saved' \in BOOLEAN /\ pc' = pc /\ press' = press
      BY <2>2 DEF ReceiveVar1, SetLimit, LoopTypes
    <3>3. QED
      BY <3>1, <3>2 DEF LoopTypes
  <2>3. QED
    BY <1>1, <2>1, <2>2 DEF Receive
<1>2. CASE ButtonProcess
  <2>1. press' \in Status
    BY <1>2 DEF ButtonProcess, Polled, Status, LoopTypes
  <2>2. QED
    BY <1>2, <2>1 DEF ButtonProcess, LoopTypes
<1>3. CASE LedsStep \/ TransportInit \/ UNCHANGED vars
  BY <1>3 DEF LedsStep, LedsProcess, TransportInit, vars, LoopTypes
<1>4. CASE Restart
  BY <1>4 DEF Restart, Status, LoopTypes
<1>5. QED
  BY <1>1, <1>2, <1>3, <1>4 DEF Next

(* Everything the node keeps has its type: no cell, limit or colour leaves *)
(* its range (Types.h:37-41, LEDs.cpp:15-20).                               *)
THEOREM KitchenTypeOK == Spec => []TypeOK
<1>1. Init => LoopTypes
  BY DEF Init, LoopTypes, Status
<1>2. StartInv /\ ButtonModeOK /\ RecordInv /\ LoopTypes => TypeOK
  BY DEF StartInv, KitchenInv, LightTypes, ButtonModeOK, RecordInv, LoopTypes, TypeOK
<1>3. QED
  BY <1>1, <1>2, LoopTypesKept, KitchenInvariant, KitchenButtonMode, RecordInvariant, PTL
  DEF Spec
=============================================================================
