----------------------------- MODULE PlugRelay ------------------------------
(***************************************************************************)
(* One switched line of the plug: the state the button task and the task   *)
(* that delivers network frames share, and everything they do to it        *)
(* (dvc.h, dvcbutton.h, Tools__DvcAddressLoad), on top of the settings     *)
(* store of PlugEeprom.                                                    *)
(*                                                                         *)
(* "manual" is Manual__Loop, and before it starts, the part of setup()     *)
(* that runs Manual__Setup.  "net" is whichever task calls                 *)
(* Dvc__AnalyzeData: IOT__Loop or the mesh callbacks; in config_panel mode *)
(* it is the task that runs Config__Setup, and no frame arrives.  (setup() *)
(* of this commit has the calls that start IOT and mesh commented out: the *)
(* frames are those of a build that starts one of them.)  No lock protects *)
(* what they share, so a read and the write that depends on it are         *)
(* separate steps.                                                         *)
(***************************************************************************)
EXTENDS Integers, Sequences

CONSTANTS Inbox,   \* the data strings net can be handed: sequences of frames
          Fresh,   \* the EEPROM images a device can be first powered with
          Keys,    \* what is done at the key: "press", "learn", "config"
          BlobMayFail,  \* whether NVS can refuse a blob
          ConfigBlinks, \* blinks before the change to config mode: 9 in the code
          FindBlinks    \* toggles of an "I'm here" frame: 6 in the code

Task == {"manual", "net"}

(* The cells of the EEPROM that belong to the line (definitions.h EP_*_S)   *)
LAST == 0
MODE == 1
LOCK == 2
ADDR == 3
SUB == 4
CHAN == 5
TYPE == 6
SERIAL == 7
START == 8
CellCount == 9

(* Start modes as Tools__Memory_StrSet stores them.                        *)
Normal == 0
ConfigPanel == 9

T_Light == 0
T_Siren == 8
T_RemoteRelay == 9
Lamp == {T_Light, T_Siren}

Byte == 0 .. 255
Id == [addr : Byte, sub : Byte, chan : Byte]
F0 == {"F0learn", "F0save", "F0blink", "F0return"}
Fn == F0 \cup {"F1", "F2", "F4", "scene", "other"}

(* A frame after the conversions from hex: the function code with the      *)
(* sub-function that selects the code path, the identity it addresses, its *)
(* value byte, the request/response byte and the type byte of F0.          *)
Frame == [fn : Fn, to : Id, val : Byte, io : Byte, type : Byte]

(* An entry of _Dvc_Relay.                                                 *)
Record == [addr : Byte, sub : Byte, chan : Byte, type : Byte, lock : BOOLEAN]

ASSUME InboxAssumption == Inbox \subseteq Seq(Frame) \ {<<>>}
ASSUME FreshAssumption == Fresh \subseteq [0 .. CellCount - 1 -> Byte]
ASSUME KeysAssumption == Keys \subseteq {"press", "learn", "config"}
ASSUME FailAssumption == BlobMayFail \in BOOLEAN
ASSUME BlinkAssumption ==
    ConfigBlinks \in Nat /\ FindBlinks \in Nat /\ FindBlinks % 2 = 0

VARIABLES led,      \* _Dvc_Led[0]
          relay,    \* _Dvc_Relay[0]
          barcode,  \* _Dvc_HasBarcode
          learn,    \* _Dvc_IsEnableSetAddress
          panel,    \* _Started_ConfigPanel
          coil,     \* W_RelayON[0] and W_RelayOFF[0]
          held,     \* _Dvc_RelayTimeout[0] is counting a hold time
          pc, reg, ret, \* each task's control point, local copy of led, return point
          rest,     \* net: the part of Data that is still to be parsed
          cnt,      \* each task's blink counter
          driven,   \* history: the last direction the coil was pulsed in
          reported, \* history: the last state handed to Tools__ModbusSend
          owed,     \* history: what the last change of led still misses
          solo      \* history: the task whose command nobody has overlapped

VARIABLES data, dirty, flash, nvs, mpc, todo, each, snap, raced, alone

(* Each Memo* call made here stores one byte of one cell.                  *)
ByteStore(cell, byte) == [ws |-> <<<<cell, byte>>>>, each |-> FALSE]

E == INSTANCE PlugEeprom WITH
        Thread <- Task, Size <- CellCount,
        Call <- {ByteStore(cell, byte) : cell \in 0 .. CellCount - 1, byte \in Byte}

memory  == <<data, dirty, flash, nvs, mpc, todo, each, snap, raced, alone>>
line    == <<relay, barcode, learn, panel>>
output  == <<coil, held, driven>>
control == <<pc, reg, ret, cnt>>
history == <<owed, solo>>
vars == <<led, line, output, control, rest, reported, history, memory>>

Goto(t, l) == pc' = [pc EXCEPT ![t] = l]
(* A local that is dead is put back to its first value.                    *)
Return(t)  == Goto(t, ret[t]) /\ ret' = [ret EXCEPT ![t] = "idle"]

(* Control moves on, and a called function is told where to return to.     *)
Jump(t, here, there, then) ==
    /\ pc[t] = here
    /\ Goto(t, there)
    /\ ret' = [ret EXCEPT ![t] = then]
    /\ UNCHANGED <<led, line, output, reg, cnt, rest, reported, history, memory>>

(* MemoWriteByte is called, once the task's previous call has returned.    *)
StoreByte(t, here, cell, byte, there) ==
    /\ pc[t] = here
    /\ E!Invoke(t, ByteStore(cell, byte))
    /\ Goto(t, there)
    /\ UNCHANGED <<led, line, output, reg, ret, cnt, rest, reported, history>>

(* The task's last store call has returned.                                *)
Await(t, here, there) ==
    /\ pc[t] = here
    /\ mpc[t] = "idle"
    /\ Goto(t, there)
    /\ UNCHANGED <<led, line, output, reg, ret, cnt, rest, reported, history, memory>>

(* What DvcAddressLoad reads at boot: an address that was never written    *)
(* becomes light 81 of address 1.                                          *)
RelayFrom(image) ==
    LET virgin == image[TYPE] = 255 /\ image[SUB] = 255 /\ image[ADDR] = 255
    IN  [addr |-> IF virgin THEN 1 ELSE image[ADDR],
         sub  |-> IF virgin THEN 0 ELSE image[SUB],
         chan |-> IF virgin THEN 81 ELSE image[CHAN],
         type |-> IF virgin THEN T_Light ELSE image[TYPE],
         lock |-> image[LOCK] = 1]

IdInUse == [addr |-> relay.addr, sub |-> relay.sub, chan |-> relay.chan]
IsMine(f) == f.to = IdInUse

----------------------------------------------------------------------------
(* Leaving and entering idle: whether commands overlap is recorded, the    *)
(* program itself keeps no such state.                                     *)

Begin(t) ==
    LET others == \E u \in Task \ {t} : pc[u] # "idle"
    IN  /\ pc[t] = "idle"
        /\ solo' = IF others THEN {} ELSE {t}
        /\ owed' = IF others THEN {"drive", "report"} ELSE owed

----------------------------------------------------------------------------
(* _Dvc_Led[i] = !_Dvc_Led[i], a read and a write.                         *)

FlipRead(t) ==
    /\ pc[t] = "flip"
    /\ reg' = [reg EXCEPT ![t] = led]
    /\ Goto(t, "flipped")
    /\ UNCHANGED <<led, line, output, ret, cnt, rest, reported, history, memory>>

FlipWrite(t) ==
    /\ pc[t] = "flipped"
    /\ led' = 1 - reg[t]
    /\ reg' = [reg EXCEPT ![t] = 0]
    /\ Return(t)
    /\ UNCHANGED <<line, output, cnt, rest, reported, history, memory>>

----------------------------------------------------------------------------
(* Dvc__RelayControl                                                       *)

(* The type selects the pulse; a lamp's direction is read from led.        *)
ControlType(t) ==
    /\ pc[t] = "control"
    /\ reg' = [reg EXCEPT ![t] = led]
    /\ Goto(t, IF relay.type \in Lamp THEN "pulse"
               ELSE IF relay.type = T_RemoteRelay THEN "remote" ELSE "persist")
    /\ UNCHANGED <<led, line, output, ret, cnt, rest, reported, history, memory>>

Pulse(t) ==
    /\ pc[t] = "pulse"
    /\ coil' = IF reg[t] = 1 THEN [coil EXCEPT !.on = "up"] ELSE [coil EXCEPT !.off = "up"]
    /\ driven' = reg[t]
    /\ Goto(t, "release")
    /\ UNCHANGED <<led, line, held, reg, ret, cnt, rest, reported, history, memory>>

(* Mutant: the line to release is chosen by led as it is after the delay.  *)
ReleaseByLed(t) ==
    /\ pc[t] = "release"
    /\ coil' = IF led = 1 THEN [coil EXCEPT !.on = "down"] ELSE [coil EXCEPT !.off = "down"]
    /\ Goto(t, "persist")
    /\ UNCHANGED <<led, line, held, driven, reg, ret, cnt, rest, reported, history, memory>>

Release(t) ==
    /\ pc[t] = "release"
    /\ coil' = IF reg[t] = 1 THEN [coil EXCEPT !.on = "down"] ELSE [coil EXCEPT !.off = "down"]
    /\ Goto(t, "persist")
    /\ UNCHANGED <<led, line, held, driven, reg, ret, cnt, rest, reported, history, memory>>

Remote(t) ==
    /\ pc[t] = "remote"
    /\ coil' = [coil EXCEPT !.on = "up"]
    /\ driven' = 1
    /\ Goto(t, "remoteLed")
    /\ UNCHANGED <<led, line, held, reg, ret, cnt, rest, reported, history, memory>>

RemoteLed(t) ==
    /\ pc[t] = "remoteLed"
    /\ led' = 1
    /\ Goto(t, "remoteRelease")
    /\ UNCHANGED <<line, output, reg, ret, cnt, rest, reported, history, memory>>

RemoteRelease(t) ==
    /\ pc[t] = "remoteRelease"
    /\ coil' = [coil EXCEPT !.on = "down"]
    /\ held' = TRUE
    /\ Goto(t, "persist")
    /\ UNCHANGED <<led, line, driven, reg, ret, cnt, rest, reported, history, memory>>

(* MemoWriteByte(EP_LASTDVCMODE_S, _Dvc_Led): the argument is read first.  *)
PersistRead(t) ==
    /\ pc[t] = "persist"
    /\ reg' = [reg EXCEPT ![t] = led]
    /\ Goto(t, "persistCall")
    /\ UNCHANGED <<led, line, output, ret, cnt, rest, reported, history, memory>>

PersistCall(t) ==
    /\ pc[t] = "persistCall"
    /\ E!Invoke(t, ByteStore(LAST, reg[t]))
    /\ reg' = [reg EXCEPT ![t] = 0]
    /\ Goto(t, "persisted")
    /\ UNCHANGED <<led, line, output, ret, cnt, rest, reported, history>>

Persisted(t) ==
    /\ pc[t] = "persisted"
    /\ mpc[t] = "idle"
    /\ Return(t)
    /\ owed' = IF t \in solo THEN owed \ {"drive"} ELSE owed
    /\ UNCHANGED <<led, line, output, reg, cnt, rest, reported, solo, memory>>

----------------------------------------------------------------------------
(* Dvc__SendData: the state handed on is the one led has now; the button   *)
(* and the boot report of a remote relay always say "on".                  *)

SendData(t, here, state) ==
    /\ pc[t] = here
    /\ reported' = state
    /\ owed' = IF t \in solo THEN owed \ {"report"} ELSE owed
    /\ UNCHANGED <<led, line, output, reg, cnt, rest, solo, memory>>

(* Mutant: only a remote relay's report carries led.                       *)
ByTypeSwapped == IF relay.type = T_RemoteRelay THEN led ELSE 1

ByType == IF relay.type = T_RemoteRelay THEN 1 ELSE led

FrameReport == SendData("net", "send", led) /\ Goto("net", "frame") /\ UNCHANGED ret
KeyReport   == SendData("manual", "keySend", ByType) /\ Goto("manual", "idle") /\ UNCHANGED ret

(* Dvc__Senario_Runing persists led a second time after its report.        *)
SceneReport ==
    /\ SendData("net", "sceneSend", led)
    /\ Goto("net", "persist")
    /\ ret' = [ret EXCEPT !["net"] = "frame"]

(* The last step of Manual__Setup: Manual__Loop is created, setup() goes   *)
(* on to start the network.                                                *)
BootReport ==
    /\ SendData("manual", "bootSend", ByType)
    /\ pc' = [t \in Task |-> IF t = "net" /\ panel THEN "panelSetup" ELSE "idle"]
    /\ UNCHANGED ret

----------------------------------------------------------------------------
(* The button task: Manual__Loop.                                          *)

ButtonPress ==
    /\ "press" \in Keys
    /\ Begin("manual")
    /\ Goto("manual", "flip")
    /\ ret' = [ret EXCEPT !["manual"] = "pressed"]
    /\ UNCHANGED <<led, line, output, reg, cnt, rest, reported, memory>>

ButtonPressed == Jump("manual", "pressed", "control", "keySend")

(* Three seconds: Manual__EnableSetAddressLine opens the learn window.     *)
LearnOpen ==
    /\ "learn" \in Keys
    /\ Begin("manual")
    /\ learn' = TRUE
    /\ Goto("manual", "learning")
    /\ UNCHANGED <<led, relay, barcode, panel, output, reg, ret, cnt, rest, reported, memory>>

(* Ten seconds after the release, or as soon as a frame was learned.       *)
LearnClose ==
    /\ pc["manual"] = "learning"
    /\ learn' = FALSE
    /\ Goto("manual", "idle")
    /\ UNCHANGED <<led, relay, barcode, panel, output, reg, ret, cnt, rest, reported, history, memory>>

(* The key is held on: Manual_SwichToConfig blinks the led, leaves it on,  *)
(* and stores the other start mode.  led is not driven nor stored, and the *)
(* restart it asks for is the scheduler's: it may come at any later step,  *)
(* which PowerCut includes, or not at all.                                 *)
SwitchToConfig ==
    /\ "config" \in Keys
    /\ pc["manual"] = "learning"
    /\ cnt' = [cnt EXCEPT !["manual"] = ConfigBlinks + 1]
    /\ Goto("manual", "switch")
    /\ owed' = {"drive", "report"}
    /\ UNCHANGED <<led, line, output, reg, ret, rest, reported, solo, memory>>

SwitchBlink ==
    /\ pc["manual"] = "switch"
    /\ cnt' = [cnt EXCEPT !["manual"] = @ - 1]
    /\ cnt["manual"] > 0
    /\ led' = IF cnt["manual"] = 1 THEN 0 ELSE led
    /\ Goto("manual", "flip")
    /\ ret' = [ret EXCEPT !["manual"] = "switch"]
    /\ UNCHANGED <<line, output, reg, rest, reported, history, memory>>

SwitchStore ==
    /\ cnt["manual"] = 0
    /\ StoreByte("manual", "switch", START, IF panel THEN Normal ELSE ConfigPanel, "switched")

SwitchDone == Await("manual", "switched", "learning")

(* In config_panel mode the loop blinks led while nobody touches the key.  *)
PanelBlink ==
    /\ panel
    /\ pc["manual"] = "idle"
    /\ Goto("manual", "flip")
    /\ ret' = [ret EXCEPT !["manual"] = "idle"]
    /\ owed' = {"drive", "report"}
    /\ UNCHANGED <<led, line, output, reg, cnt, rest, reported, solo, memory>>

----------------------------------------------------------------------------
(* The network task: Dvc__AnalyzeData.                                     *)

Receive(d) ==
    /\ ~panel
    /\ Begin("net")
    /\ rest' = d
    /\ Goto("net", "analyze")
    /\ UNCHANGED <<led, line, output, reg, ret, cnt, reported, memory>>

(* In the learn window only the first frame is looked at, without its CRC, *)
(* and the rest is dropped whatever it is.                                 *)
Learnable(f) == f.fn = "F0learn" /\ f.type \in Lamp \cup {T_RemoteRelay}

Analyze ==
    /\ pc["net"] = "analyze"
    /\ IF learn
       THEN /\ Goto("net", IF Learnable(Head(rest)) THEN "learnAddr" ELSE "idle")
            /\ rest' = IF Learnable(Head(rest)) THEN <<Head(rest)>> ELSE <<>>
       ELSE /\ Goto("net", "frame")
            /\ UNCHANGED rest
    /\ UNCHANGED <<led, line, output, reg, ret, cnt, reported, history, memory>>

(* Manual__SetAddressLine: four MemoWriteByte calls, each committed, then  *)
(* the RAM record.                                                         *)
(* Mutant: the type is stored first.                                       *)
LearnAddrTypeFirst == StoreByte("net", "learnAddr", TYPE, Head(rest).type, "learnSub")

LearnAddr == StoreByte("net", "learnAddr", ADDR, Head(rest).to.addr, "learnSub")
LearnSub  == StoreByte("net", "learnSub", SUB, Head(rest).to.sub, "learnChan")
LearnChan == StoreByte("net", "learnChan", CHAN, Head(rest).to.chan, "learnType")
LearnType == StoreByte("net", "learnType", TYPE, Head(rest).type, "learned")

(* Mutant: the channel of the record in RAM is forgotten.                  *)
LearnedNoChannel ==
    /\ pc["net"] = "learned"
    /\ mpc["net"] = "idle"
    /\ LET f == Head(rest)
       IN  relay' = [relay EXCEPT !.addr = f.to.addr, !.sub = f.to.sub, !.type = f.type]
    /\ learn' = FALSE
    /\ rest' = <<>>
    /\ Goto("net", "idle")
    /\ UNCHANGED <<led, barcode, panel, output, reg, ret, cnt, reported, history, memory>>

Learned ==
    /\ pc["net"] = "learned"
    /\ mpc["net"] = "idle"
    /\ LET f == Head(rest)
       IN  relay' = [addr |-> f.to.addr, sub |-> f.to.sub, chan |-> f.to.chan,
                     type |-> f.type, lock |-> relay.lock]
    /\ learn' = FALSE
    /\ rest' = <<>>
    /\ Goto("net", "idle")
    /\ UNCHANGED <<led, barcode, panel, output, reg, ret, cnt, reported, history, memory>>

----------------------------------------------------------------------------
(* The frame loop.  Head(rest) is Data2, Tail(rest) what is left of Data.  *)

InFrame(fn) ==
    /\ pc["net"] = "frame"
    /\ rest # <<>>
    /\ Head(rest).fn = fn

NextFrame == Goto("net", "frame") /\ rest' = Tail(rest)

FramesDone ==
    /\ pc["net"] = "frame"
    /\ rest = <<>>
    /\ Goto("net", "idle")
    /\ UNCHANGED <<led, line, output, reg, ret, cnt, rest, reported, history, memory>>

(* A frame whose CRC fails, that addresses another line, or whose function *)
(* does nothing here, is dropped (a matching custom code is a "scene").    *)
(* F4 has no length rule in the splitter: it takes all that follows into   *)
(* its CRC, so it is only accepted as the last frame.  Some F0 make        *)
(* Dvc__AnalyzeData return: a bind request of type 0 or 1, a serial number *)
(* of another product, a search for another serial number.                 *)
Returning(f) == f.fn \in {"F4", "F0return"}

Ignored(f) ==
    \/ f.fn \in {"F0learn", "F0return", "other"}
    \/ f.fn = "F1" /\ ~IsMine(f) /\ f.to.chan # 255
    \/ f.fn = "F2" /\ ~IsMine(f)
    \/ f.fn = "F4" /\ (~IsMine(f) \/ relay.lock \/ Len(rest) > 1)
    \/ f.fn = "F0save" /\ barcode
    \/ f.fn = "scene" /\ (relay.type # T_Light \/ f.val \notin {0, 1, 2})

FrameIgnored ==
    /\ pc["net"] = "frame"
    /\ rest # <<>>
    /\ Ignored(Head(rest))
    /\ Goto("net", "frame")
    /\ rest' = IF Returning(Head(rest)) THEN <<>> ELSE Tail(rest)
    /\ UNCHANGED <<led, line, output, reg, ret, cnt, reported, history, memory>>

(* F2, F4 and a scene tell a lamp to be on or off: led is assigned and     *)
(* Dvc__RelayControl runs.  F4 and a scene report always, F2 only requests *)
(* (IO = 0), so that a report stays owed otherwise.                        *)

AfterF2(f) == IF f.io = 0 THEN "send" ELSE "frame"

LampSet(state, then) ==
    /\ led' = state
    /\ rest' = Tail(rest)
    /\ Goto("net", "control")
    /\ ret' = [ret EXCEPT !["net"] = then]
    /\ owed' = IF then = "frame" THEN owed \cup {"report"} ELSE owed
    /\ UNCHANGED <<line, output, reg, cnt, reported, solo, memory>>

OnOff(f) == f.val \in {0, 255}
State(f) == IF f.val = 255 THEN 1 ELSE 0

(* Nothing to do but the answer.                                           *)
OnlyAnswer(then) ==
    /\ rest' = Tail(rest)
    /\ Goto("net", then)
    /\ UNCHANGED <<led, line, output, reg, ret, cnt, reported, history, memory>>

F2Lamp ==
    /\ InFrame("F2")
    /\ IsMine(Head(rest))
    /\ relay.type \in Lamp
    /\ OnOff(Head(rest))
    /\ LampSet(State(Head(rest)), AfterF2(Head(rest)))

F2Nothing ==
    /\ InFrame("F2")
    /\ IsMine(Head(rest))
    /\ relay.type # T_RemoteRelay
    /\ relay.type \in Lamp => ~OnOff(Head(rest))
    /\ OnlyAnswer(AfterF2(Head(rest)))

(* A remote relay is pulsed on by any value but 0.                         *)
F2RemoteOn ==
    /\ InFrame("F2")
    /\ IsMine(Head(rest))
    /\ relay.type = T_RemoteRelay
    /\ Head(rest).val # 0
    /\ rest' = Tail(rest)
    /\ Goto("net", "control")
    /\ ret' = [ret EXCEPT !["net"] = AfterF2(Head(rest))]
    /\ UNCHANGED <<led, line, output, reg, cnt, reported, history, memory>>

(* Switched off, its state is neither stored nor its hold time stopped.    *)
F2RemoteOff ==
    /\ InFrame("F2")
    /\ IsMine(Head(rest))
    /\ relay.type = T_RemoteRelay
    /\ Head(rest).val = 0
    /\ led' = 0
    /\ rest' = Tail(rest)
    /\ Goto("net", "remoteOff")
    /\ ret' = [ret EXCEPT !["net"] = AfterF2(Head(rest))]
    /\ owed' = {"drive", "report"}
    /\ UNCHANGED <<line, output, reg, cnt, reported, solo, memory>>

RemoteOffPulse ==
    /\ pc["net"] = "remoteOff"
    /\ coil' = [coil EXCEPT !.off = "up"]
    /\ driven' = 0
    /\ Goto("net", "remoteOffRelease")
    /\ UNCHANGED <<led, line, held, reg, ret, cnt, rest, reported, history, memory>>

(* Mutant: the off line is left active.                                    *)
RemoteOffReleaseForgotten ==
    /\ pc["net"] = "remoteOffRelease"
    /\ Return("net")
    /\ UNCHANGED <<led, line, output, reg, cnt, rest, reported, history, memory>>

RemoteOffRelease ==
    /\ pc["net"] = "remoteOffRelease"
    /\ coil' = [coil EXCEPT !.off = "down"]
    /\ Return("net")
    /\ UNCHANGED <<led, line, held, driven, reg, cnt, rest, reported, history, memory>>

(* F4 obeys the lock and switches lights only.                             *)
F4Accepted ==
    /\ InFrame("F4")
    /\ ~Ignored(Head(rest))

F4Light ==
    /\ F4Accepted
    /\ relay.type = T_Light
    /\ OnOff(Head(rest))
    /\ LampSet(State(Head(rest)), "send")

F4Nothing ==
    /\ F4Accepted
    /\ relay.type = T_Light => ~OnOff(Head(rest))
    /\ OnlyAnswer("send")

(* Dvc__Senario_Runing for this line: set off, set on, or toggle.          *)
SceneSet ==
    /\ InFrame("scene")
    /\ ~Ignored(Head(rest))
    /\ Head(rest).val \in {0, 1}
    /\ LampSet(Head(rest).val, "sceneSend")

SceneToggle ==
    /\ InFrame("scene")
    /\ ~Ignored(Head(rest))
    /\ Head(rest).val = 2
    /\ rest' = Tail(rest)
    /\ Goto("net", "flip")
    /\ ret' = [ret EXCEPT !["net"] = "sceneFlipped"]
    /\ UNCHANGED <<led, line, output, reg, cnt, reported, history, memory>>

(* Mutant: the toggled line is reported, not driven.                       *)
SceneFlippedOnly == Jump("net", "sceneFlipped", "sceneSend", "idle")

SceneFlipped == Jump("net", "sceneFlipped", "control", "sceneSend")

(* F1 locks and unlocks the line.  The value is read from `Data', which by *)
(* now holds what follows the frame: nothing, or the next frame, whose     *)
(* sixth byte is the value of an F1, the IO of an F0, the length else; the *)
(* val of a frame that means nothing is what it has there.                 *)
LockValue(after) ==
    IF after = <<>> THEN 0
    ELSE IF Head(after).fn \in {"F1", "other"} THEN Head(after).val
    ELSE IF Head(after).fn \in F0 THEN Head(after).io
    ELSE 2

(* The answer to a request is also built in `Data': the first four bytes   *)
(* of what followed, IO 17, its sixth byte and a checksum that is right.   *)
(* So an F1 stays one.  An F2 has the checksum for its value; if it is not *)
(* for this line, the new text may be a custom code.  An F4 has it for its *)
(* mode and value, and the channel it lists, which is missing, reads as 0. *)
(* An F0 finds nothing left of its data.  What failed for its checksum, a  *)
(* custom code too, may be any of these now.                               *)
Becomes(g) ==
    CASE g.fn \in F0 -> {"other"}
      [] g.fn = "F1" -> {"F1"}
      [] g.fn = "F2" -> IF IsMine(g) THEN {"F2"} ELSE {"F2", "scene"}
      [] g.fn = "F4" -> {"F4", "scene", "other"}
      [] OTHER -> {"F1", "F2", "F4", "scene", "other"}

(* The values of a checksum that F2, F4 and scenes tell apart.             *)
Checksum == {0, 1, 2, 255}

Rebuilt(g) ==
    {[fn |-> fn,
      to |-> IF fn = "F4" THEN [g.to EXCEPT !.chan = 0] ELSE g.to,
      val |-> IF fn = "F1" THEN g.val ELSE crc,
      io |-> 17, type |-> g.type] : fn \in Becomes(g), crc \in Checksum}

(* Mutant: the answer is built in `Data' from the frame itself, unmarked.  *)
AfterLockSame(f, after) == IF f.to.chan = 255 \/ f.io # 0 THEN {after} ELSE {<<f>>}

(* What `Data' may be then: as long as one frame.  Built from nothing it   *)
(* has no function code.                                                   *)
AfterLock(f, after) ==
    IF f.to.chan = 255 \/ f.io # 0 THEN {after}
    ELSE IF after = <<>> THEN {<<>>}
    ELSE {<<g>> : g \in Rebuilt(Head(after))}

LockStore ==
    /\ InFrame("F1")
    /\ ~Ignored(Head(rest))
    /\ LockValue(Tail(rest)) \in {0, 255}
    /\ LET bit == IF LockValue(Tail(rest)) = 255 THEN 1 ELSE 0
       IN  /\ E!Invoke("net", ByteStore(LOCK, bit))
           /\ reg' = [reg EXCEPT !["net"] = bit]
    /\ Goto("net", "locking")
    /\ UNCHANGED <<led, line, output, ret, cnt, rest, reported, history>>

Locked ==
    /\ pc["net"] = "locking"
    /\ mpc["net"] = "idle"
    /\ relay' = [relay EXCEPT !.lock = (reg["net"] = 1)]
    /\ reg' = [reg EXCEPT !["net"] = 0]
    /\ rest' \in AfterLock(Head(rest), Tail(rest))
    /\ Goto("net", "frame")
    /\ UNCHANGED <<led, barcode, learn, panel, output, ret, cnt, reported, history, memory>>

LockNothing ==
    /\ InFrame("F1")
    /\ ~Ignored(Head(rest))
    /\ LockValue(Tail(rest)) \notin {0, 255}
    /\ rest' \in AfterLock(Head(rest), Tail(rest))
    /\ Goto("net", "frame")
    /\ UNCHANGED <<led, line, output, reg, ret, cnt, reported, history, memory>>

(* F0 mode 1, a serial number for a device that has none: the number is    *)
(* stored, the address erased in the store and then in RAM, the led blinks.*)
SaveSerial ==
    /\ InFrame("F0save")
    /\ ~barcode
    /\ E!Invoke("net", ByteStore(SERIAL, 1))
    /\ Goto("net", "saveAddr")
    /\ UNCHANGED <<led, line, output, reg, ret, cnt, rest, reported, history>>

SaveAddr ==
    /\ pc["net"] = "saveAddr"
    /\ mpc["net"] = "idle"
    /\ barcode' = TRUE
    /\ E!Invoke("net", ByteStore(ADDR, 255))
    /\ Goto("net", "saveSub")
    /\ UNCHANGED <<led, relay, learn, panel, output, reg, ret, cnt, rest, reported, history>>

SaveSub  == StoreByte("net", "saveSub", SUB, 255, "saveChan")
SaveChan == StoreByte("net", "saveChan", CHAN, 255, "saved")

Saved ==
    /\ pc["net"] = "saved"
    /\ mpc["net"] = "idle"
    /\ relay' = [relay EXCEPT !.addr = 255, !.sub = 255, !.chan = 255]
    /\ cnt' = [cnt EXCEPT !["net"] = FindBlinks]
    /\ Goto("net", "blink")
    /\ UNCHANGED <<led, barcode, learn, panel, output, reg, ret, rest, reported, history, memory>>

(* F0 mode 19, "I'm here": six toggles.                                    *)
BlinkStart ==
    /\ InFrame("F0blink")
    /\ cnt' = [cnt EXCEPT !["net"] = FindBlinks]
    /\ Goto("net", "blink")
    /\ UNCHANGED <<led, line, output, reg, ret, rest, reported, history, memory>>

Blink ==
    /\ pc["net"] = "blink"
    /\ cnt["net"] > 0
    /\ cnt' = [cnt EXCEPT !["net"] = @ - 1]
    /\ Goto("net", "flip")
    /\ ret' = [ret EXCEPT !["net"] = "blink"]
    /\ UNCHANGED <<led, line, output, reg, rest, reported, history, memory>>

BlinkDone ==
    /\ pc["net"] = "blink"
    /\ cnt["net"] = 0
    /\ NextFrame
    /\ UNCHANGED <<led, line, output, reg, ret, cnt, reported, history, memory>>

----------------------------------------------------------------------------
(* Power and boot.                                                         *)

(* RAM as the boot leaves it when Manual__Setup is about to run: globals   *)
(* have their initial values (the coil flags start true), setup() has read *)
(* the start mode and the address.  The line of setup() that reads the     *)
(* serial number is commented out, so no device has a barcode after a boot.*)
BootRam(image) ==
    [relay |-> RelayFrom(image), barcode |-> FALSE,
     panel |-> image[START] = ConfigPanel]

PowerCut ==
    /\ E!PowerCut
    /\ led' = 0
    /\ relay' = BootRam(flash).relay
    /\ barcode' = BootRam(flash).barcode
    /\ panel' = BootRam(flash).panel
    /\ learn' = FALSE
    /\ coil' = [on |-> "boot", off |-> "boot"]
    /\ held' = FALSE
    /\ driven' = 2
    /\ reported' = 2
    /\ pc' = [manual |-> "bootMode", net |-> "off"]
    /\ reg' = [t \in Task |-> 0]
    /\ ret' = [t \in Task |-> "idle"]
    /\ cnt' = [t \in Task |-> 0]
    /\ rest' = <<>>
    /\ owed' = {"drive", "report"}
    /\ solo' = {"manual"}

(* Mutant: the byte of the last state is taken for a state.                *)
BootModeRaw ==
    /\ pc["manual"] = "bootMode"
    /\ data[MODE] \in {0, 1, 2}
    /\ led' = CASE data[MODE] = 1 -> 0 [] data[MODE] = 2 -> 1 [] data[MODE] = 0 -> data[LAST]
    /\ Goto("manual", "bootType")
    /\ UNCHANGED <<line, output, reg, ret, cnt, rest, reported, history, memory>>

(* Manual__Setup: what led is after power returns is set by the mode cell; *)
(* a mode that was never written becomes 0, "as it was", for the next time.*)
BootMode ==
    /\ pc["manual"] = "bootMode"
    /\ data[MODE] \in {0, 1, 2}
    /\ led' = CASE data[MODE] = 1 -> 0
                 [] data[MODE] = 2 -> 1
                 [] data[MODE] = 0 -> IF data[LAST] = 0 THEN 0 ELSE 1
    /\ Goto("manual", "bootType")
    /\ UNCHANGED <<line, output, reg, ret, cnt, rest, reported, history, memory>>

BootModeStore ==
    /\ data[MODE] \notin {0, 1, 2}
    /\ StoreByte("manual", "bootMode", MODE, 0, "bootModeStored")

BootModeStored == Await("manual", "bootModeStored", "bootType")

BootType ==
    /\ pc["manual"] = "bootType"
    /\ led' = IF relay.type \in Lamp THEN led ELSE 0
    /\ IF relay.type = T_RemoteRelay
       THEN Goto("manual", "bootSend") /\ UNCHANGED ret
       ELSE Goto("manual", "control") /\ ret' = [ret EXCEPT !["manual"] = "bootSend"]
    /\ UNCHANGED <<line, output, reg, cnt, rest, reported, history, memory>>

(* Config__Setup sets the start mode back to normal first of all.          *)
PanelSetup  == StoreByte("net", "panelSetup", START, Normal, "panelStored")
PanelStored == Await("net", "panelStored", "idle")

(* The store works on behind the call a task is waiting for.               *)
StoreStep(t) ==
    /\ E!Progress(t)
    /\ UNCHANGED <<led, line, output, control, rest, reported, history>>

----------------------------------------------------------------------------
InitFrom(image) ==
    /\ E!InitFrom(image)
    /\ led = 0
    /\ relay = BootRam(image).relay
    /\ barcode = BootRam(image).barcode
    /\ panel = BootRam(image).panel
    /\ learn = FALSE
    /\ coil = [on |-> "boot", off |-> "boot"]
    /\ held = FALSE
    /\ driven = 2
    /\ reported = 2
    /\ pc = [manual |-> "bootMode", net |-> "off"]
    /\ reg = [t \in Task |-> 0]
    /\ ret = [t \in Task |-> "idle"]
    /\ cnt = [t \in Task |-> 0]
    /\ rest = <<>>
    /\ owed = {"drive", "report"}
    /\ solo = {"manual"}

Init == \E image \in Fresh : InitFrom(image)

Control(t) ==
    \/ FlipRead(t)
    \/ FlipWrite(t)
    \/ ControlType(t)
    \/ Pulse(t)
    \/ Release(t)
    \/ Remote(t)
    \/ RemoteLed(t)
    \/ RemoteRelease(t)
    \/ PersistRead(t)
    \/ PersistCall(t)
    \/ Persisted(t)
    \/ StoreStep(t)

Boot ==
    \/ BootMode
    \/ BootModeStore
    \/ BootModeStored
    \/ BootType
    \/ BootReport

(* What a person does at the key, and the steps Manual__Loop then takes.   *)
Key ==
    \/ ButtonPress
    \/ LearnOpen
    \/ SwitchToConfig
    \/ PanelBlink

Manual ==
    \/ ButtonPressed
    \/ KeyReport
    \/ LearnClose
    \/ SwitchBlink
    \/ SwitchStore
    \/ SwitchDone

Learn ==
    \/ LearnAddr
    \/ LearnSub
    \/ LearnChan
    \/ LearnType
    \/ Learned

Switch ==
    \/ F2Lamp
    \/ F2Nothing
    \/ F2RemoteOn
    \/ F2RemoteOff
    \/ RemoteOffPulse
    \/ RemoteOffRelease
    \/ F4Light
    \/ F4Nothing
    \/ SceneSet
    \/ SceneToggle
    \/ SceneFlipped
    \/ SceneReport
    \/ FrameReport

Maintain ==
    \/ LockStore
    \/ Locked
    \/ LockNothing
    \/ SaveSerial
    \/ SaveAddr
    \/ SaveSub
    \/ SaveChan
    \/ Saved
    \/ BlinkStart
    \/ Blink
    \/ BlinkDone

Net ==
    \/ Analyze
    \/ FrameIgnored
    \/ FramesDone
    \/ Learn
    \/ Switch
    \/ Maintain
    \/ PanelSetup
    \/ PanelStored

Next ==
    \/ \E t \in Task : Control(t)
    \/ Boot
    \/ Key
    \/ Manual
    \/ \E d \in Inbox : Receive(d)
    \/ Net
    \/ PowerCut

Spec == Init /\ [][Next]_vars

(* The scheduler preempts, both tasks sleep between their commands, so     *)
(* each keeps going, and the NVS mutex serves its waiters; nobody is       *)
(* obliged to press the key, to send a frame or to cut the power.          *)
Fairness ==
    /\ \A t \in Task : WF_vars(Control(t)) /\ SF_vars(E!SetBlob(t) /\ StoreStep(t))
    /\ WF_vars(Boot)
    /\ WF_vars(Manual)
    /\ WF_vars(Net)

FairSpec == Spec /\ Fairness

----------------------------------------------------------------------------
(* Properties.                                                             *)

Label ==
    {"off", "idle", "flip", "flipped", "control", "pulse", "release",
     "remote", "remoteLed", "remoteRelease", "persist", "persistCall",
     "persisted", "keySend", "bootMode", "bootModeStored", "bootType",
     "bootSend", "pressed", "learning", "switch", "switched",
     "analyze", "learnAddr", "learnSub", "learnChan", "learnType", "learned",
     "frame", "send", "sceneSend", "sceneFlipped", "remoteOff",
     "remoteOffRelease", "locking", "saveAddr", "saveSub", "saveChan",
     "saved", "blink", "panelSetup", "panelStored"}

Flag == {"boot", "up", "down"}

LineOK ==
    /\ led \in {0, 1}
    /\ relay \in Record
    /\ barcode \in BOOLEAN /\ learn \in BOOLEAN /\ panel \in BOOLEAN
    /\ coil \in [on : Flag, off : Flag]
    /\ held \in BOOLEAN
    /\ pc \in [Task -> Label] /\ ret \in [Task -> Label]
    /\ reg \in [Task -> {0, 1}]
    /\ cnt \in [Task -> Nat]
    /\ rest \in Seq(Frame)
    /\ driven \in 0 .. 2 /\ reported \in 0 .. 2
    /\ owed \subseteq {"drive", "report"}
    /\ solo \subseteq Task

TypeOK == LineOK /\ E!TypeOK

Settled == \A t \in Task : pc[t] = "idle"

(* Once no command is in progress, the coil was last pulsed in the         *)
(* direction led shows and the store's image holds the same state, unless  *)
(* the commands that ran last overlapped or led was blinked.  (dvc.h       *)
(* Dvc__AnalyzeData and Dvc__RelayControl, dvcbutton.h)                    *)
Coherent ==
    Settled /\ "drive" \notin owed /\ relay.type \in Lamp
        => driven = led /\ data[LAST] = led

(* ... and flash holds it too, so that a power cut brings it back, unless  *)
(* store calls overlapped since power-on or the last blob call failed.     *)
Durable ==
    Settled /\ "drive" \notin owed /\ relay.type \in Lamp /\ ~raced /\ ~dirty
        => flash[LAST] = led

(* ... and the last state reported to the network is the one led shows.    *)
Reported ==
    Settled /\ "report" \notin owed /\ relay.type \in Lamp => reported = led

(* A coil line is only ever active while some task is inside the pulse     *)
(* that raised it, so it is never left energised, however the pulses of    *)
(* the two tasks interleave.  (dvc.h Dvc__RelayControl)                    *)
PulsingOn(t)  == pc[t] \in {"remoteLed", "remoteRelease"} \/ (pc[t] = "release" /\ reg[t] = 1)
PulsingOff(t) == pc[t] = "remoteOffRelease" \/ (pc[t] = "release" /\ reg[t] = 0)
CoilReleased ==
    /\ coil.on = "up" => \E t \in Task : PulsingOn(t)
    /\ coil.off = "up" => \E t \in Task : PulsingOff(t)

(* The address in use is the one a restart would load from the image,      *)
(* except while it is being rewritten, and except after a serial number    *)
(* was given to a device whose type cell was never written: it answers to  *)
(* 255/255/255 until it restarts as light 81 of address 1.                 *)
Rewriting ==
    pc["net"] \in {"learnSub", "learnChan", "learnType", "learned",
                    "saveSub", "saveChan", "saved", "locking"}
Unaddressed == relay.addr = 255 /\ relay.sub = 255 /\ data[TYPE] = 255
RecordIsStored == ~Rewriting /\ ~Unaddressed => relay = RelayFrom(data)

(* The type is the last byte of a learned address to reach flash: with no  *)
(* overlapping store calls, a power cut in the middle of learning never    *)
(* leaves the new type on an address that is still partly the old one.     *)
(* (dvcbutton.h Manual__SetAddressLine)                                    *)
Learning == pc["net"] \in {"learnSub", "learnChan", "learnType", "learned"}
IdIn(image) == [addr |-> image[ADDR], sub |-> image[SUB], chan |-> image[CHAN]]
TypeCommitsLast ==
    /\ ~raced /\ ~dirty /\ Learning
    /\ flash[TYPE] = Head(rest).type
    /\ Head(rest).type # relay.type
    => IdIn(flash) = Head(rest).to

(* Every frame string is worked off, even though the answer to a lock      *)
(* frame is put back into the string that is being parsed.                 *)
FramesFinish == pc["net"] = "analyze" ~> pc["net"] \in {"idle", "off"}

(* dvc.h:80 "Lock=255 & Unlock=0": a lock frame locks the line.            *)
LockFrameLocks ==
    [][pc["net"] = "locking" /\ pc'["net"] = "frame" /\ Head(rest).val = 255
        => relay'.lock]_vars

(* dvcbutton.h:130 "Relay Remote Time": the hold time of a remote relay    *)
(* runs out.                                                               *)
HoldExpires == held ~> ~held
=============================================================================
