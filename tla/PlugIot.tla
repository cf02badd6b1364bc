------------------------------ MODULE PlugIot ------------------------------
(***************************************************************************)
(* The IOT mode (iot.h): a station of a wifi network that keeps a session  *)
(* with an MQTT broker.                                                    *)
(*                                                                         *)
(* Three threads write _MqttCon_Steps or _MqttCon_IsConnected, with no     *)
(* lock: the checker, a task that runs every second; the event task of the *)
(* wifi library, which takes the events of the driver from a queue, does   *)
(* the library's own part and calls IOT__WiFiEvent; and the loop, which    *)
(* lets the client find out that its session is dead.  Every read and      *)
(* write of a variable two of them share is a step of its own.             *)
(*                                                                         *)
(* The driver (esp_wifi) and the client (PubSubClient) are not part of the *)
(* repository: LinkUp, LinkFails and the session stand for them.           *)
(***************************************************************************)
EXTENDS Integers, Sequences

CONSTANTS MaxQueue,   \* bound: events of the driver not yet handled
          MaxTurns    \* bound: how often the access point or broker turns off

ASSUME IotAssumption == MaxQueue \in Nat /\ MaxTurns \in Nat

(* Got an address; lost the link for a reason the library reconnects on,   *)
(* for one of these, an expired authentication, that leaves its status     *)
(* alone, because the station left, or for another reason.                 *)
Lost == {"retry", "expired", "leave", "other"}
Events == {"ip"} \cup Lost

VARIABLES
    ap, broker,   \* the access point and the broker can be reached
    turns,        \* how often one of them was turned off
    link,         \* the driver: off, joining, up
    queue,        \* its events
    event, ep,    \* the event in hand, and how far its handling is
    status,       \* the library: its status is WL_CONNECTED
    first,        \* first_connect
    wifi,         \* WiFi_IsConnected
    steps,        \* _MqttCon_Steps
    flag,         \* _MqttCon_IsConnected
    c,            \* how far the checker is
    session       \* the client has a session

VARIABLES
    wrote,        \* an event wrote steps since the checker read them
    cleared,      \* an event cleared flag since the client connected
    lost,         \* the checker overwrote steps an event had written
    refused,      \* the last begin failed and left the link off
    late          \* the checker set flag after an event had cleared it

drv == <<ap, broker, turns>>
lib == <<event, ep, status, first>>
app == <<wifi, steps, flag>>
hist == <<wrote, cleared, lost, late, refused>>
vars == <<drv, link, queue, lib, app, c, session, hist>>

-----------------------------------------------------------------------------
(***************************************************************************)
(* The world.                                                              *)
(***************************************************************************)
TurnOff ==
    /\ turns < MaxTurns /\ turns' = turns + 1
    /\ \/ ap /\ ap' = FALSE /\ broker' = broker
       \/ broker /\ broker' = FALSE /\ ap' = ap
    /\ UNCHANGED <<link, queue, lib, app, c, session, hist>>

TurnOn ==
    /\ ~ (ap /\ broker)
    /\ ap' = TRUE /\ broker' = TRUE
    /\ UNCHANGED <<turns, link, queue, lib, app, c, session, hist>>

LinkUp ==
    /\ link = "joining" /\ ap /\ Len(queue) < MaxQueue
    /\ link' = "up"
    /\ queue' = Append(queue, "ip")
    /\ UNCHANGED <<drv, lib, app, c, session, hist>>

(* A station that is joined or joining finds the access point gone, or is  *)
(* turned away by it.                                                      *)
LinkFails(reason) ==
    /\ link # "off" /\ ~ ap /\ Len(queue) < MaxQueue
    /\ link' = "off"
    /\ queue' = Append(queue, reason)
    /\ UNCHANGED <<drv, lib, app, c, session, hist>>

(* The station is off and told to join: it does, or one of the calls of    *)
(* the driver fails, which ends begin with WL_CONNECT_FAILED.              *)
Join ==
    \/ link' = "joining" /\ refused' = FALSE
    \/ link' = "off" /\ refused' = TRUE

(* WiFi.begin of the network: nothing when the library says connected, and *)
(* a link that is up or joining stays what it is.                          *)
BeginNetwork ==
    IF status \/ link # "off" THEN link' = link /\ refused' = FALSE ELSE Join

-----------------------------------------------------------------------------
(***************************************************************************)
(* The event task: _eventCallback of the library, then IOT__WiFiEvent.     *)
(***************************************************************************)
Reconnects(reason) ==
    reason # "leave" /\ (first \/ reason \in {"retry", "expired"})

(* disconnect() and begin() without a network: a link that came up in the  *)
(* meantime is given up, with an event of its own, one that was joining    *)
(* with or without.  A station whose status says connected is not told to  *)
(* join again.                                                             *)
Reconnect ==
    /\ \/ link # "off" /\ queue' = Append(Tail(queue), "leave")
       \/ link # "up" /\ queue' = Tail(queue)
    /\ IF status' THEN link' = "off" /\ refused' = FALSE ELSE Join

(* The library's part: its status, and the reconnect.                      *)
Library ==
    /\ ep = "idle" /\ queue # <<>>
    /\ event' = Head(queue)
    /\ status' = IF event' = "expired" THEN status ELSE event' = "ip"
    /\ ep' = "wifi"
    /\ IF event' \in Lost /\ Reconnects(event')
       THEN Reconnect
       ELSE queue' = Tail(queue) /\ UNCHANGED <<link, refused>>
    /\ first' = (first /\ event' \in {"ip", "leave"})
    /\ UNCHANGED <<drv, app, c, session, wrote, cleared, lost, late>>

(* Mutant: a lost link does not clear _MqttCon_IsConnected.                *)
EventWifiOnly ==
    /\ ep = "wifi"
    /\ wifi' = (event = "ip")
    /\ ep' = "steps"
    /\ UNCHANGED <<drv, link, queue, event, status, first, steps, flag, c, session, hist>>

EventWifi ==
    /\ ep = "wifi"
    /\ wifi' = (event = "ip")
    /\ ep' = IF event = "ip" THEN "steps" ELSE "flag"
    /\ UNCHANGED <<drv, link, queue, event, status, first, steps, flag, c, session, hist>>

EventFlag ==
    /\ ep = "flag"
    /\ flag' = FALSE /\ cleared' = TRUE
    /\ ep' = "steps"
    /\ UNCHANGED <<drv, link, queue, event, status, first, wifi, steps, c, session,
                   wrote, lost, late, refused>>

(* Mutant: an address counts only while the step waits for it.             *)
EventStepsIfOne ==
    /\ ep = "steps"
    /\ steps' = IF event # "ip" THEN 0 ELSE IF steps = 1 THEN 2 ELSE steps
    /\ wrote' = (wrote \/ steps' # steps)
    /\ ep' = "idle"
    /\ UNCHANGED <<drv, link, queue, event, status, first, wifi, flag, c, session,
                   cleared, lost, late, refused>>

(* Mutant: a lost link is left to the library.                             *)
EventStepsOne ==
    /\ ep = "steps"
    /\ steps' = IF event = "ip" THEN 2 ELSE 1
    /\ wrote' = TRUE
    /\ ep' = "idle"
    /\ UNCHANGED <<drv, link, queue, event, status, first, wifi, flag, c, session,
                   cleared, lost, late, refused>>

EventSteps ==
    /\ ep = "steps"
    /\ steps' = IF event = "ip" THEN 2 ELSE 0
    /\ wrote' = TRUE
    /\ ep' = "idle"
    /\ UNCHANGED <<drv, link, queue, event, status, first, wifi, flag, c, session,
                   cleared, lost, late, refused>>

-----------------------------------------------------------------------------
(***************************************************************************)
(* IOT__Checker.  What it does depends on the step it read; the step it    *)
(* writes after that does not depend on what the step is by then.          *)
(***************************************************************************)
Check ==
    /\ c = "idle" /\ steps # 1
    /\ c' = CASE steps = 0 -> "begin" [] steps = 2 -> "server" [] steps = 3 -> "test"
    /\ wrote' = FALSE
    /\ UNCHANGED <<drv, link, queue, lib, app, session, cleared, lost, late, refused>>

(* IOT__WiFiStart does not look at what begin returns.                     *)
WiFiStart ==
    /\ c = "begin" /\ c' = "started"
    /\ BeginNetwork
    /\ UNCHANGED <<drv, queue, lib, app, session, wrote, cleared, lost, late>>

(* Mutant: the checker counts steps.                                       *)
MarkAdds(from, n) ==
    /\ c = from /\ c' = "idle"
    /\ steps' = steps + n
    /\ lost' = (lost \/ wrote)
    /\ UNCHANGED <<drv, link, queue, lib, wifi, flag, session, wrote, cleared, late, refused>>

Mark(from, n) ==
    /\ c = from /\ c' = "idle"
    /\ steps' = n
    /\ lost' = (lost \/ wrote)
    /\ UNCHANGED <<drv, link, queue, lib, wifi, flag, session, wrote, cleared, late, refused>>

Started == Mark("started", 1)
ServerSet == Mark("server", 3)

(* Mqtt__Connect, up to the outcome of connect().  A client that says it   *)
(* is connected is left alone, and so is the flag.                         *)
MqttConnect ==
    /\ c = "test"
    /\ IF session
       THEN c' = "idle" /\ session' = session
       ELSE /\ session' = (link = "up" /\ broker)
            /\ c' = IF session' THEN "success" ELSE "failure"
    /\ cleared' = FALSE
    /\ UNCHANGED <<drv, link, queue, lib, app, wrote, lost, late, refused>>

MqttFlag ==
    /\ c \in {"success", "failure"} /\ c' = "idle"
    /\ flag' = (c = "success")
    /\ late' = (c = "success" /\ cleared)
    /\ UNCHANGED <<drv, link, queue, lib, wifi, steps, session, wrote, cleared, lost, refused>>

(* IOT__Loop lets the client answer for its session while the flag is set. *)
(* A session whose peer is gone dies, noticed at some time, and so does    *)
(* one that is kept by nobody: the broker hears nothing from it.           *)
SessionDies ==
    /\ session /\ (link # "up" \/ ~ broker \/ ~ flag)
    /\ session' = FALSE
    /\ UNCHANGED <<drv, link, queue, lib, app, c, hist>>

-----------------------------------------------------------------------------
(* What IOT__Setup leaves, with its task enabled.                          *)
Init ==
    /\ ap \in BOOLEAN /\ broker = TRUE /\ turns = 0
    /\ link = "off" /\ queue = <<>>
    /\ event = "ip" /\ ep = "idle" /\ status = FALSE /\ first = TRUE
    /\ wifi = FALSE /\ steps = 0 /\ flag = FALSE
    /\ c = "idle" /\ session = FALSE
    /\ wrote = FALSE /\ cleared = FALSE /\ lost = FALSE /\ late = FALSE /\ refused = FALSE

EventTask == Library \/ EventWifi \/ EventFlag \/ EventSteps

Checker == Check \/ WiFiStart \/ Started \/ ServerSet \/ MqttConnect \/ MqttFlag

Next ==
    \/ TurnOff \/ TurnOn \/ LinkUp \/ SessionDies
    \/ \E reason \in Lost : LinkFails(reason)
    \/ EventTask
    \/ Checker

(* The tasks go on; the driver brings a link up that can come up, or says  *)
(* that it cannot; a dead session is noticed.                              *)
Fairness ==
    /\ WF_vars(EventTask) /\ WF_vars(Checker)
    /\ WF_vars(LinkUp) /\ WF_vars(\E reason \in Lost : LinkFails(reason))
    /\ WF_vars(SessionDies)

Spec == Init /\ [][Next]_vars /\ Fairness

-----------------------------------------------------------------------------
(* Types; the step is one of the four IOT__Checker knows.                  *)
TypeOK ==
    /\ ap \in BOOLEAN /\ broker \in BOOLEAN /\ turns \in 0 .. MaxTurns
    /\ link \in {"off", "joining", "up"}
    /\ queue \in Seq(Events) /\ Len(queue) <= MaxQueue
    /\ event \in Events /\ ep \in {"idle", "wifi", "flag", "steps"}
    /\ status \in BOOLEAN /\ first \in BOOLEAN /\ wifi \in BOOLEAN
    /\ steps \in 0 .. 3 /\ flag \in BOOLEAN /\ session \in BOOLEAN
    /\ c \in {"idle", "begin", "started", "server", "test", "success", "failure"}
    /\ wrote \in BOOLEAN /\ cleared \in BOOLEAN
    /\ lost \in BOOLEAN /\ late \in BOOLEAN /\ refused \in BOOLEAN

EventsDone == queue = <<>> /\ ep = "idle"

(* Nobody joins a station whose last begin failed, nor one that lost its   *)
(* link to an expired authentication while the status said connected.      *)
GivenUp == link = "off" /\ (refused \/ (event = "expired" /\ status))

(* Step 1 waits for an event of the driver, without a limit: while the     *)
(* step is 1 one is to come, unless the station is given up, or the        *)
(* checker wrote 1 over what an event had written (iot.h:160-163 against   *)
(* 140 and 146).                                                           *)
NoStall ==
    (steps = 1 /\ c = "idle" /\ EventsDone /\ ~ lost) => link = "joining" \/ GivenUp

(* Once its events are handled WiFi_IsConnected is what the link is, and   *)
(* _MqttCon_IsConnected is not set without one, unless Mqtt__Connect set   *)
(* it after the event that cleared it.                                     *)
FlagsHonest ==
    EventsDone =>
        /\ wifi = (link = "up")
        /\ (flag /\ link # "up") => late

(* With an access point and a broker that stay, the node is connected in   *)
(* the end, and stays so, unless the checker overwrote a step or the       *)
(* station is given up.                                                    *)
Reaches ==
    (<>[](ap /\ broker) /\ []~ lost) => (<>[](flag /\ session) \/ <>[]GivenUp)
=============================================================================
