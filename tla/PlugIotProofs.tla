--------------------------- MODULE PlugIotProofs ---------------------------
(***************************************************************************)
(* The IOT mode, for any queue of events and any number of outages.        *)
(*                                                                         *)
(* What the node believes lags behind what the link is by the events that  *)
(* are still to be handled.  The invariants say which event makes up for   *)
(* each difference; once all are handled none is left.                     *)
(***************************************************************************)
EXTENDS PlugIot, SequenceTheorems, TLAPS

Latest == queue[Len(queue)]

(* The latest event tells what the link is; once it is handled             *)
(* WiFi_IsConnected does.                                                  *)
LinkNews ==
    CASE queue # <<>> -> (Latest = "ip") <=> (link = "up")
      [] queue = <<>> /\ ep = "wifi" -> (event = "ip") <=> (link = "up")
      [] OTHER -> wifi <=> (link = "up")

Handled ==
    /\ ep \in {"flag", "steps"} => (wifi <=> (event = "ip"))
    /\ ep = "flag" => event # "ip"

(* An event that clears _MqttCon_IsConnected is to come.                   *)
Telling == queue # <<>> \/ ep = "flag" \/ (ep = "wifi" /\ event # "ip")

FlagTold == flag /\ link # "up" => late \/ Telling
SuccessTold == c = "success" /\ ~ cleared /\ link # "up" => Telling

FlagInv == LinkNews /\ Handled /\ FlagTold /\ SuccessTold

(* Step 0 is left by WiFi.begin, which must find a link it can start or    *)
(* one that the library has started; then step 1 waits for that link.      *)
(* What is in the way is a status the last loss left as it was, or a begin *)
(* that failed.                                                            *)
StatusTold ==
    ep # "idle" /\ event # "ip" /\ status /\ queue = <<>> => link = "off" /\ event = "expired"
RefusedIsOff == refused => link = "off"
ZeroStarts ==
    EventsDone /\ steps = 0 =>
        link # "up" /\ (status => link = "off" /\ event = "expired")
BeginAtZero == c = "begin" /\ ~ wrote => steps = 0
StartedJoins == c = "started" /\ ~ wrote /\ EventsDone => link = "joining" \/ GivenUp
OneWaits == steps = 1 => c = "idle"
OneJoins == steps = 1 /\ ~ lost /\ EventsDone => link = "joining" \/ GivenUp

StepInv ==
    /\ StatusTold /\ RefusedIsOff
    /\ ZeroStarts /\ BeginAtZero /\ StartedJoins
    /\ OneWaits /\ OneJoins

-----------------------------------------------------------------------------
(* Sequences of events.                                                    *)
LEMMA EventAppended ==
    ASSUME NEW q \in Seq(Events), NEW e \in Events
    PROVE  /\ Append(q, e) \in Seq(Events) /\ Append(q, e) # <<>>
           /\ Len(Append(q, e)) = Len(q) + 1
           /\ Append(q, e)[Len(Append(q, e))] = e
  BY AppendProperties, EmptySeq

LEMMA EventTaken ==
    ASSUME NEW q \in Seq(Events), q # <<>>
    PROVE  /\ Head(q) \in Events /\ Tail(q) \in Seq(Events)
           /\ Len(Tail(q)) = Len(q) - 1 /\ Len(q) \in Nat
           /\ Tail(q) = <<>> => Head(q) = q[Len(q)]
           /\ Tail(q) # <<>> => Tail(q)[Len(Tail(q))] = q[Len(q)]
  <1>1. /\ Head(q) \in Events /\ Tail(q) \in Seq(Events)
        /\ Len(Tail(q)) = Len(q) - 1
        /\ \A i \in 1 .. Len(Tail(q)) : Tail(q)[i] = q[i + 1]
    BY HeadTailProperties
  <1>2. Len(q) \in Nat \ {0} /\ Len(<<>>) = 0
    BY EmptySeq
  <1>3. Tail(q) # <<>> => Len(Tail(q)) \in 1 .. Len(Tail(q))
    BY <1>1, EmptySeq
  <1>4. Tail(q) = <<>> => Len(q) = 1
    BY <1>1, <1>2
  <1>5. Head(q) = q[1]
    OBVIOUS
  <1> QED
    BY <1>1, <1>2, <1>3, <1>4, <1>5

-----------------------------------------------------------------------------
(* The types.                                                              *)
LEMMA InitTyped == Init => TypeOK
  <1> SUFFICES ASSUME Init
               PROVE  TypeOK
    OBVIOUS
  <1>1. queue \in Seq(Events) /\ Len(queue) <= MaxQueue
    BY IotAssumption, EmptySeq DEF Init
  <1>2. turns \in 0 .. MaxTurns /\ event \in Events
    BY IotAssumption DEF Init, Events
  <1>3. /\ ap \in BOOLEAN /\ broker \in BOOLEAN /\ status \in BOOLEAN /\ first \in BOOLEAN
        /\ wifi \in BOOLEAN /\ flag \in BOOLEAN /\ session \in BOOLEAN
        /\ wrote \in BOOLEAN /\ cleared \in BOOLEAN /\ lost \in BOOLEAN /\ late \in BOOLEAN
        /\ refused \in BOOLEAN
    BY DEF Init
  <1>4. steps \in 0 .. 3 /\ link = "off" /\ ep = "idle" /\ c = "idle"
    BY DEF Init
  <1> QED
    BY <1>1, <1>2, <1>3, <1>4 DEF TypeOK

LEMMA NextTyped == TypeOK /\ [Next]_vars => TypeOK'
  <1> SUFFICES ASSUME TypeOK, [Next]_vars
               PROVE  TypeOK'
    OBVIOUS
  <1> USE IotAssumption DEF TypeOK, drv, lib, app, hist
  <1>1. ASSUME TurnOff \/ TurnOn
        PROVE  TypeOK'
    <2>1. ap' \in BOOLEAN /\ broker' \in BOOLEAN
      BY <1>1 DEF TurnOff, TurnOn
    <2>2. turns' \in 0 .. MaxTurns
      BY <1>1 DEF TurnOff, TurnOn
    <2> QED
      BY <1>1, <2>1, <2>2 DEF TurnOff, TurnOn
  <1>2. ASSUME LinkUp
        PROVE  TypeOK'
    <2>1. "ip" \in Events
      BY DEF Events
    <2>2. queue' \in Seq(Events) /\ Len(queue') <= MaxQueue
      BY <1>2, <2>1, EventAppended, LenProperties DEF LinkUp
    <2> QED
      BY <1>2, <2>2 DEF LinkUp
  <1>3. ASSUME NEW reason \in Lost, LinkFails(reason)
        PROVE  TypeOK'
    <2>1. reason \in Events
      BY DEF Events
    <2>2. queue' \in Seq(Events) /\ Len(queue') <= MaxQueue
      BY <1>3, <2>1, EventAppended, LenProperties DEF LinkFails
    <2> QED
      BY <1>3, <2>2 DEF LinkFails
  <1>4. ASSUME Library
        PROVE  TypeOK'
    <2>1. /\ event' \in Events /\ Tail(queue) \in Seq(Events)
          /\ Len(Tail(queue)) = Len(queue) - 1 /\ Len(queue) \in Nat
      BY <1>4, EventTaken DEF Library
    <2>2. "leave" \in Events
      BY DEF Events, Lost
    <2>3. /\ Append(Tail(queue), "leave") \in Seq(Events)
          /\ Len(Append(Tail(queue), "leave")) = Len(queue)
      BY <2>1, <2>2, EventAppended
    <2>4. queue' \in Seq(Events) /\ Len(queue') <= MaxQueue
      BY <1>4, <2>1, <2>3 DEF Library, Reconnect
    <2>5. link' \in {"off", "joining", "up"} /\ status' \in BOOLEAN /\ refused' \in BOOLEAN
      BY <1>4 DEF Library, Reconnect, Join
    <2>6. first' \in BOOLEAN
      BY <1>4 DEF Library
    <2> QED
      BY <1>4, <2>1, <2>4, <2>5, <2>6 DEF Library
  <1>5. ASSUME EventWifi \/ EventFlag \/ EventSteps
        PROVE  TypeOK'
    <2>1. wifi' \in BOOLEAN /\ flag' \in BOOLEAN /\ wrote' \in BOOLEAN /\ cleared' \in BOOLEAN
      BY <1>5 DEF EventWifi, EventFlag, EventSteps
    <2>2. ep' \in {"idle", "wifi", "flag", "steps"} /\ steps' \in 0 .. 3
      BY <1>5 DEF EventWifi, EventFlag, EventSteps
    <2> QED
      BY <1>5, <2>1, <2>2 DEF EventWifi, EventFlag, EventSteps
  <1>6. ASSUME Check \/ WiFiStart \/ Started \/ ServerSet
        PROVE  TypeOK'
    <2>1. CASE Check
      <3>0. steps \in {0, 2, 3}
        BY <2>1 DEF Check
      <3>1. c' \in {"begin", "server", "test"} /\ wrote' = FALSE
        <4>1. CASE steps = 0
          BY <2>1, <4>1 DEF Check
        <4>2. CASE steps = 2
          BY <2>1, <4>2 DEF Check
        <4>3. CASE steps = 3
          BY <2>1, <4>3 DEF Check
        <4> QED
          BY <3>0, <4>1, <4>2, <4>3
      <3>3. c' \in {"begin", "server", "test"} /\ wrote' \in BOOLEAN
        BY <3>1
      <3>2. UNCHANGED <<drv, link, queue, lib, app, session, cleared, lost, late, refused>>
        BY <2>1 DEF Check
      <3> QED
        BY <3>2, <3>3
    <2>2. CASE WiFiStart
      <3>1. link' \in {"off", "joining", "up"} /\ c' = "started" /\ refused' \in BOOLEAN
        BY <2>2 DEF WiFiStart, BeginNetwork, Join
      <3> QED
        BY <2>2, <3>1 DEF WiFiStart
    <2>3. CASE Started \/ ServerSet
      <3>1. lost' \in BOOLEAN /\ steps' \in 0 .. 3 /\ c' = "idle"
        BY <2>3 DEF Started, ServerSet, Mark
      <3> QED
        BY <2>3, <3>1 DEF Started, ServerSet, Mark
    <2> QED
      BY <1>6, <2>1, <2>2, <2>3
  <1>7. ASSUME MqttConnect \/ MqttFlag
        PROVE  TypeOK'
    <2>1. CASE MqttConnect
      <3>1. c' \in {"idle", "success", "failure"} /\ session' \in BOOLEAN /\ cleared' \in BOOLEAN
        BY <2>1 DEF MqttConnect
      <3>2. UNCHANGED <<drv, link, queue, lib, app, wrote, lost, late, refused>>
        BY <2>1 DEF MqttConnect
      <3> QED
        BY <3>1, <3>2
    <2>2. CASE MqttFlag
      <3>1. c' = "idle" /\ flag' \in BOOLEAN /\ late' \in BOOLEAN
        BY <2>2 DEF MqttFlag
      <3> QED
        BY <2>2, <3>1 DEF MqttFlag
    <2> QED
      BY <1>7, <2>1, <2>2
  <1>8. ASSUME SessionDies
        PROVE  TypeOK'
    <2>1. session' \in BOOLEAN /\ UNCHANGED <<drv, link, queue, lib, app, c, hist>>
      BY <1>8 DEF SessionDies
    <2> QED
      BY <2>1
  <1>9. ASSUME UNCHANGED vars
        PROVE  TypeOK'
    BY <1>9 DEF vars
  <1> QED
    BY <1>1, <1>2, <1>3, <1>4, <1>5, <1>6, <1>7, <1>8, <1>9 DEF Next, EventTask, Checker

(* Queue, flags and steps keep their types for every bound of the queue:   *)
(* IOT__Checker never meets a step it does not know (iot.h:160-173).       *)
THEOREM IotTyped == Spec => []TypeOK
  BY InitTyped, NextTyped, PTL DEF Spec

-----------------------------------------------------------------------------
(* The flags.                                                              *)
LEMMA InitFlags == Init => FlagInv
  BY DEF Init, FlagInv, LinkNews, Handled, FlagTold, SuccessTold

LEMMA NextFlags == TypeOK /\ FlagInv /\ [Next]_vars => FlagInv'
  <1> SUFFICES ASSUME TypeOK, FlagInv, [Next]_vars
               PROVE  FlagInv'
    OBVIOUS
  <1> USE DEF FlagInv, LinkNews, Handled, FlagTold, SuccessTold, Telling, Latest,
              drv, lib, app, hist
  <1>1. ASSUME TurnOff \/ TurnOn
        PROVE  FlagInv'
    BY <1>1 DEF TurnOff, TurnOn
  <1>2. ASSUME LinkUp
        PROVE  FlagInv'
    <2>1. queue' # <<>> /\ Latest' = "ip"
      BY <1>2, EventAppended DEF LinkUp, TypeOK, Events
    <2> QED
      BY <1>2, <2>1 DEF LinkUp
  <1>3. ASSUME NEW reason \in Lost, LinkFails(reason)
        PROVE  FlagInv'
    <2>1. queue' # <<>> /\ Latest' = reason /\ reason # "ip"
      BY <1>3, EventAppended DEF LinkFails, TypeOK, Events, Lost
    <2> QED
      BY <1>3, <2>1 DEF LinkFails
  <1>4. ASSUME Library
        PROVE  FlagInv'
    <2>1. /\ queue # <<>> /\ Tail(queue) \in Seq(Events)
          /\ Tail(queue) = <<>> => event' = Latest
          /\ Tail(queue) # <<>> => Tail(queue)[Len(Tail(queue))] = Latest
      BY <1>4, EventTaken DEF Library, TypeOK
    <2>0. ep' = "wifi" /\ UNCHANGED <<wifi, flag, c, cleared, late>>
      BY <1>4 DEF Library
    <2>2. CASE event' \in Lost /\ Reconnects(event')
      <3>1. Reconnect /\ link' # "up"
        BY <1>4, <2>2 DEF Library, Reconnect, Join
      <3>2. CASE queue' = Append(Tail(queue), "leave")
        <4>1. "leave" \in Events
          BY DEF Events, Lost
        <4>2. queue' # <<>> /\ Latest' = "leave"
          BY <2>1, <3>2, <4>1, EventAppended
        <4> QED
          BY <2>0, <3>1, <4>2
      <3>3. CASE link # "up" /\ queue' = Tail(queue)
        <4>1. LinkNews'
          BY <2>0, <2>1, <3>1, <3>3
        <4> QED
          BY <2>0, <2>1, <2>2, <3>1, <3>3, <4>1 DEF Lost
      <3> QED
        BY <3>1, <3>2, <3>3 DEF Reconnect
    <2>3. CASE ~ (event' \in Lost /\ Reconnects(event'))
      <3>1. queue' = Tail(queue) /\ link' = link
        BY <1>4, <2>3 DEF Library
      <3>2. LinkNews'
        BY <2>0, <2>1, <3>1
      <3> QED
        BY <2>0, <2>1, <3>1, <3>2
    <2> QED
      BY <2>2, <2>3
  <1>5. ASSUME EventWifi
        PROVE  FlagInv'
    BY <1>5 DEF EventWifi, TypeOK
  <1>6. ASSUME EventFlag \/ EventSteps
        PROVE  FlagInv'
    BY <1>6 DEF EventFlag, EventSteps
  <1>7. ASSUME Check \/ WiFiStart \/ Started \/ ServerSet
        PROVE  FlagInv'
    BY <1>7 DEF Check, WiFiStart, BeginNetwork, Join, Started, ServerSet, Mark, TypeOK
  <1>8. ASSUME MqttConnect
        PROVE  FlagInv'
    BY <1>8 DEF MqttConnect
  <1>9. ASSUME MqttFlag
        PROVE  FlagInv'
    BY <1>9 DEF MqttFlag, TypeOK
  <1>10. ASSUME SessionDies
         PROVE  FlagInv'
    BY <1>10 DEF SessionDies
  <1>11. ASSUME UNCHANGED vars
         PROVE  FlagInv'
    BY <1>11 DEF vars
  <1> QED
    BY <1>1, <1>2, <1>3, <1>4, <1>5, <1>6, <1>7, <1>8, <1>9, <1>10, <1>11
    DEF Next, EventTask, Checker

(* However the three threads interleave: once the events of the wifi       *)
(* library are handled, WiFi_IsConnected is what the link is, and          *)
(* _MqttCon_IsConnected is set without a link only by a Mqtt__Connect that *)
(* was overtaken (iot.h:10-20 against 143-146).                            *)
THEOREM FlagsAreHonest == Spec => []FlagsHonest
  <1>1. TypeOK /\ FlagInv => FlagsHonest
    BY DEF TypeOK, FlagInv, LinkNews, FlagTold, Telling, FlagsHonest, EventsDone
  <1> QED
    BY <1>1, InitTyped, NextTyped, InitFlags, NextFlags, PTL DEF Spec

-----------------------------------------------------------------------------
(* The steps.                                                              *)
LEMMA InitSteps == Init => StepInv
  BY DEF Init, StepInv, StatusTold, RefusedIsOff, ZeroStarts, BeginAtZero, StartedJoins,
              OneWaits, OneJoins

LEMMA NextSteps == TypeOK /\ FlagInv /\ StepInv /\ [Next]_vars => StepInv'
  <1> SUFFICES ASSUME TypeOK, FlagInv, StepInv, [Next]_vars
               PROVE  StepInv'
    OBVIOUS
  <1> USE DEF StepInv, StatusTold, RefusedIsOff, ZeroStarts, BeginAtZero, StartedJoins,
              OneWaits, OneJoins, GivenUp, EventsDone, drv, lib, app, hist
  <1>1. ASSUME TurnOff \/ TurnOn
        PROVE  StepInv'
    BY <1>1 DEF TurnOff, TurnOn
  <1>2. ASSUME LinkUp
        PROVE  StepInv'
    <2>1. queue' # <<>>
      BY <1>2, EventAppended DEF LinkUp, TypeOK, Events
    <2> QED
      BY <1>2, <2>1 DEF LinkUp
  <1>3. ASSUME NEW reason \in Lost, LinkFails(reason)
        PROVE  StepInv'
    <2>1. queue' # <<>>
      BY <1>3, EventAppended DEF LinkFails, TypeOK, Events, Lost
    <2> QED
      BY <1>3, <2>1 DEF LinkFails
  <1>4. ASSUME Library
        PROVE  StepInv'
    <2>1. event' # "ip" /\ status' => link' = "off" /\ event' = "expired"
      BY <1>4 DEF Library, Reconnects, Reconnect, Lost, TypeOK, Events
    <2>2. ep' = "wifi" /\ UNCHANGED <<steps, c, wrote, lost>>
      BY <1>4 DEF Library
    <2>3. refused' => link' = "off"
      BY <1>4 DEF Library, Reconnect, Join
    <2> QED
      BY <2>1, <2>2, <2>3
  <1>5. ASSUME EventWifi
        PROVE  StepInv'
    BY <1>5 DEF EventWifi, TypeOK
  <1>6. ASSUME EventFlag
        PROVE  StepInv'
    BY <1>6 DEF EventFlag
  <1>7. ASSUME EventSteps
        PROVE  StepInv'
    <2>1. steps' = 0 /\ queue = <<>> =>
              link # "up" /\ (status => link = "off" /\ event = "expired")
      BY <1>7 DEF EventSteps, FlagInv, LinkNews, Handled, TypeOK
    <2>2. wrote' /\ ep' = "idle" /\ steps' \in {0, 2}
      BY <1>7 DEF EventSteps
    <2> QED
      BY <1>7, <2>1, <2>2 DEF EventSteps
  <1>8. ASSUME Check
        PROVE  StepInv'
    BY <1>8 DEF Check, TypeOK
  <1>9. ASSUME WiFiStart
        PROVE  StepInv'
    BY <1>9 DEF WiFiStart, BeginNetwork, Join, TypeOK
  <1>10. ASSUME Started \/ ServerSet
         PROVE  StepInv'
    BY <1>10 DEF Started, ServerSet, Mark, TypeOK
  <1>11. ASSUME MqttConnect \/ MqttFlag
         PROVE  StepInv'
    BY <1>11 DEF MqttConnect, MqttFlag
  <1>12. ASSUME SessionDies
         PROVE  StepInv'
    BY <1>12 DEF SessionDies
  <1>13. ASSUME UNCHANGED vars
         PROVE  StepInv'
    BY <1>13 DEF vars
  <1> QED
    BY <1>1, <1>2, <1>3, <1>4, <1>5, <1>6, <1>7, <1>8, <1>9, <1>10, <1>11, <1>12, <1>13
    DEF Next, EventTask, Checker

(* The wait of step 1 for an event has no limit, and needs none but in two *)
(* cases: the checker wrote 1 over an event's step (iot.h:160-163), or the *)
(* station is left off by a begin that failed or by the library's begin    *)
(* after an expired authentication, which the status stops                 *)
(* (WiFiSTA.cpp:314, 261).                                                 *)
THEOREM OneIsAnswered == Spec => []NoStall
  <1>1. StepInv => NoStall
    BY DEF StepInv, OneJoins, NoStall
  <1> QED
    BY <1>1, InitTyped, NextTyped, InitFlags, NextFlags, InitSteps, NextSteps, PTL DEF Spec
=============================================================================
