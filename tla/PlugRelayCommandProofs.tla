----------------------- MODULE PlugRelayCommandProofs -----------------------
(***************************************************************************)
(* What commands leave behind, for every set of frames, keys and images:   *)
(* the coil, the image, flash and the last report show what led shows,     *)
(* unless the commands that ran last overlapped or led was blinked.        *)
(***************************************************************************)
EXTENDS PlugRelayRecordProofs

Quiet(t) == pc[t] \in {"off", "idle"} \cup PanelLabel
Both == {"drive", "report"}

(* A task that commands alone finds the other one quiet, and what led owes *)
(* is everything while it is blinked, booted or commanded by two tasks.    *)
PanelQuiet == panel => Quiet("net") /\ "net" \notin solo
SoloAlone == \A t \in solo : \A u \in Task \ {t} : Quiet(u)
WindowHeld ==
    learn => \/ pc["manual"] \in {"learning"} \cup Switching
             \/ pc["manual"] \in Flipping /\ ret["manual"] = "switch"
OwesAll ==
    \/ solo = {}
    \/ pc["net"] \in Offing
    \/ pc["manual"] \in Switching \cup (BootLabel \ {"bootSend"})
    \/ pc["manual"] \in Flipping /\ ret["manual"] \in {"idle", "switch"}
OwesReport ==
    \/ pc["manual"] = "bootSend"
    \/ pc["manual"] \in Driving /\ ret["manual"] = "bootSend"

SoloInv ==
    /\ PanelQuiet
    /\ SoloAlone
    /\ WindowHeld
    /\ pc["net"] \in LearnLabel => solo = {}
    /\ OwesAll => owed = Both
    /\ OwesReport => "report" \in owed

(* While an "I'm here" frame blinks led, every other toggle is undone.     *)
OddCount(t) == cnt[t] % 2 = 1
Inverted(t) ==
    \/ pc[t] = "blink" /\ OddCount(t)
    \/ pc[t] \in Flipping /\ ret[t] = "blink" /\ ~OddCount(t)
Shown(t) == IF Inverted(t) THEN 1 - led ELSE led

(* Where a lone task is in its command, and what it has done of it.        *)
Progressed(t) ==
    /\ pc[t] \in {"flipped", "pulse", "persistCall"} => reg[t] = led
    /\ pc[t] \in {"release", "persist", "persistCall", "persisted", "sceneSend"}
          => driven = led
    /\ pc[t] = "persisted" =>
          IF mpc[t] = "store" THEN todo[t] = <<<<LAST, led>>>> ELSE data[LAST] = led
    /\ pc[t] \notin Remoting \cup Offing
Commanding(t) ==
    \/ pc[t] \in Driving \cup {"pressed", "sceneFlipped"}
    \/ pc[t] \in Flipping /\ ret[t] \in {"pressed", "sceneFlipped"}
Synced(t) == driven = Shown(t) /\ data[LAST] = driven
Reporting(t) ==
    \/ pc[t] \in {"pressed", "sceneFlipped", "send", "sceneSend", "keySend"}
    \/ pc[t] \in Flipping /\ ret[t] \in {"pressed", "sceneFlipped"}
    \/ pc[t] \in Driving /\ ret[t] # "frame"
Told(t) == reported = Shown(t)

Obeyed(t) ==
    /\ Progressed(t)
    /\ "drive" \notin owed => Commanding(t) \/ Synced(t)
    /\ "report" \notin owed => Reporting(t) \/ Told(t)

CommandInv == relay.type \in Lamp => \A t \in solo : Obeyed(t)

-----------------------------------------------------------------------------
(***************************************************************************)
(* Who commands alone.                                                     *)
(***************************************************************************)
LEMMA SoloMoves ==
    ASSUME LineInv, SoloInv, NEW a \in Task, ~Quiet(a), solo' = solo, panel' = panel,
           \A u \in Task \ {a} : pc'[u] = pc[u]
    PROVE  solo \subseteq {a} /\ PanelQuiet' /\ SoloAlone'
  <1>1. solo \subseteq {a}
    BY DEF LineInv, LineOK, SoloInv, SoloAlone
  <1>2. panel => a # "net"
    BY DEF SoloInv, PanelQuiet
  <1> QED
    BY <1>1, <1>2 DEF SoloInv, PanelQuiet, SoloAlone, Quiet, Task

LEMMA ControlSolo ==
    ASSUME LineInv, Shape, SoloInv, NEW t \in Task, Control(t)
    PROVE  SoloInv'
  <1>0. /\ pc \in [Task -> Label] /\ ret \in [Task -> Label] /\ Task = {"manual", "net"}
        /\ solo \subseteq Task /\ owed \subseteq Both
    BY DEF LineInv, LineOK, Task, Both
  <1>1. CASE StoreStep(t)
    BY <1>1 DEF StoreStep, SoloInv, PanelQuiet, SoloAlone, WindowHeld, OwesAll, OwesReport,
       Quiet, control, history, line
  <1>2. CASE ~StoreStep(t)
    <2>1. /\ pc[t] \in Flipping \cup Driving /\ solo' = solo /\ panel' = panel /\ learn' = learn
          /\ \A u \in Task \ {t} : pc'[u] = pc[u] /\ ret'[u] = ret[u]
      BY <1>0, <1>2 DEF Control, FlipRead, FlipWrite, ControlType, Pulse, Release, Remote,
         RemoteLed, RemoteRelease, PersistRead, PersistCall, Persisted, Goto, Return,
         Flipping, Driving, Remoting, history, line
    <2>2. ~Quiet(t)
      BY <2>1 DEF Quiet, PanelLabel, Flipping, Driving, Remoting
    <2>3. solo \subseteq {t} /\ PanelQuiet' /\ SoloAlone'
      BY <2>1, <2>2, SoloMoves
    <2>4. owed' = owed \/ (t \in solo /\ owed' = owed \ {"drive"} /\ pc[t] = "persisted"
                             /\ pc'[t] = ret[t])
      BY <1>0, <1>2 DEF Control, FlipRead, FlipWrite, ControlType, Pulse, Release, Remote,
         RemoteLed, RemoteRelease, PersistRead, PersistCall, Persisted, Return, Goto, history
    <2>5. \/ pc[t] \in Flipping /\ pc'[t] \in Flipping /\ ret'[t] = ret[t]
          \/ pc[t] \in Driving /\ pc'[t] \in Driving /\ ret'[t] = ret[t]
          \/ pc[t] \in Flipping \cup Driving /\ pc'[t] = ret[t] /\ ret'[t] = "idle"
      BY <1>0, <1>2 DEF Control, FlipRead, FlipWrite, ControlType, Pulse, Release, Remote,
         RemoteLed, RemoteRelease, PersistRead, PersistCall, Persisted, Goto, Return,
         Flipping, Driving, Remoting
    <2>6. CASE t = "net"
      <3>1. pc'["net"] \notin LearnLabel \cup Offing
        BY <1>0, <2>5, <2>6 DEF Shape, NetShape, LearnLabel, Offing, Flipping, Driving,
           Remoting
      <3>2. pc["manual"] \notin Flipping \cup Driving \cup Switching \cup BootLabel
            \/ solo = {}
        BY <1>0, <2>3, <2>6 DEF SoloInv, SoloAlone, Quiet, PanelLabel, Flipping, Driving,
           Remoting, Switching, BootLabel
      <3> QED
        BY <1>0, <2>1, <2>3, <2>4, <2>6, <3>1, <3>2
        DEF SoloInv, WindowHeld, OwesAll, OwesReport, Both
    <2>7. CASE t = "manual"
      <3>1. pc["net"] \notin Offing \/ solo = {}
        BY <1>0, <2>2, <2>3, <2>7 DEF SoloInv, SoloAlone, Quiet, PanelLabel, Offing
      <3>2. ret["manual"] \in {"idle", "pressed", "switch", "keySend", "bootSend"}
            /\ (pc["manual"] \in Flipping => ret["manual"] \in {"idle", "pressed", "switch"})
            /\ (pc["manual"] \in Driving => ret["manual"] \in {"keySend", "bootSend"})
        BY DEF Shape, ManualShape
      <3>3. WindowHeld'
        BY <2>1, <2>5, <2>7, <3>2 DEF SoloInv, WindowHeld, Flipping, Driving, Remoting,
           Switching
      <3>4. (OwesAll => owed = Both)'
        BY <1>0, <2>1, <2>3, <2>4, <2>5, <2>7, <3>1, <3>2
        DEF SoloInv, OwesAll, Both, Flipping, Driving, Remoting, Switching, BootLabel
      <3>5. (OwesReport => "report" \in owed)'
        BY <1>0, <2>1, <2>4, <2>5, <2>7, <3>2
        DEF SoloInv, OwesReport, Flipping, Driving, Remoting
      <3> QED
        BY <1>0, <2>1, <2>3, <2>7, <3>3, <3>4, <3>5 DEF SoloInv
    <2> QED
      BY <1>0, <2>6, <2>7
  <1> QED
    BY <1>1, <1>2

(* A task that leaves idle commands alone if the other one is idle too.    *)
LEMMA BeginSolo ==
    ASSUME LineInv, Shape, SoloInv, NEW a \in Task, Begin(a), panel' = panel,
           \A u \in Task \ {a} : pc'[u] = pc[u] /\ ret'[u] = ret[u], a = "net" => ~panel,
           a = "net" => pc'["net"] \notin LearnLabel \cup Offing /\ learn' = learn,
           a = "manual" => \/ learn' = learn
                           \/ pc'["manual"] = "learning",
           a = "manual" => /\ pc'["manual"] \in {"flip", "learning"}
                           /\ pc'["manual"] = "flip" => ret'["manual"] = "pressed"
    PROVE  SoloInv'
  <1>0. /\ Task = {"manual", "net"} /\ solo \subseteq Task /\ owed \subseteq Both
        /\ pc[a] = "idle"
    BY DEF LineInv, LineOK, Task, Both, Begin
  <1>1. CASE \E u \in Task \ {a} : pc[u] # "idle"
    <2>1. solo' = {} /\ owed' = Both
      BY <1>1 DEF Begin, Both
    <2>2. PanelQuiet'
      BY <1>0, <2>1 DEF SoloInv, PanelQuiet, Quiet
    <2>3. WindowHeld'
      BY <1>0 DEF SoloInv, WindowHeld, Flipping, Switching
    <2> QED
      BY <2>1, <2>2, <2>3 DEF SoloInv, SoloAlone, OwesAll, OwesReport, Both
  <1>2. CASE \A u \in Task \ {a} : pc[u] = "idle"
    <2>1. solo' = {a} /\ owed' = owed
      BY <1>2 DEF Begin
    <2>2. \A u \in Task \ {a} : pc'[u] = "idle"
      BY <1>2
    <2>3. PanelQuiet'
      BY <1>0, <2>1, <2>2 DEF SoloInv, PanelQuiet, Quiet
    <2>4. SoloAlone'
      BY <2>1, <2>2 DEF SoloAlone, Quiet
    <2>5. WindowHeld'
      BY <1>0 DEF SoloInv, WindowHeld, Flipping, Switching
    <2>6. ~OwesAll' /\ ~OwesReport'
      BY <1>0, <2>1, <2>2 DEF OwesAll, OwesReport, Offing, Switching, BootLabel, Flipping,
         Driving, Remoting
    <2>7. pc'["net"] \notin LearnLabel
      BY <1>0, <2>2 DEF LearnLabel
    <2> QED
      BY <2>1, <2>3, <2>4, <2>5, <2>6, <2>7 DEF SoloInv
  <1> QED
    BY <1>1, <1>2

LEMMA ManualSolo ==
    ASSUME LineInv, Shape, SoloInv, Boot \/ Key \/ Manual
    PROVE  SoloInv'
  <1>0. /\ pc \in [Task -> Label] /\ ret \in [Task -> Label] /\ Task = {"manual", "net"}
        /\ solo \subseteq Task /\ owed \subseteq Both
    BY DEF LineInv, LineOK, Task, Both
  <1>1. CASE ButtonPress \/ LearnOpen
    <2>1. /\ Begin("manual") /\ panel' = panel
          /\ \A u \in Task \ {"manual"} : pc'[u] = pc[u] /\ ret'[u] = ret[u]
          /\ learn' = learn \/ pc'["manual"] = "learning"
          /\ pc'["manual"] \in {"flip", "learning"}
          /\ pc'["manual"] = "flip" => ret'["manual"] = "pressed"
      BY <1>0, <1>1 DEF ButtonPress, LearnOpen, Goto, line
    <2>2. "manual" # "net" /\ "manual" \in Task
      BY <1>0
    <2> HIDE DEF Task
    <2> QED
      BY <2>1, <2>2, BeginSolo
  <1>2. CASE PanelBlink
    <2>1. /\ pc["manual"] = "idle" /\ pc'["manual"] = "flip" /\ ret'["manual"] = "idle"
          /\ pc'["net"] = pc["net"] /\ panel /\ panel' = panel /\ learn' = learn
          /\ owed' = Both /\ solo' = solo
      BY <1>0, <1>2 DEF PanelBlink, Goto, line, Both
    <2>2. Quiet("net") /\ "net" \notin solo
      BY <2>1 DEF SoloInv, PanelQuiet
    <2>3. PanelQuiet' /\ SoloAlone'
      BY <1>0, <2>1, <2>2 DEF PanelQuiet, SoloAlone, Quiet
    <2>4. pc'["net"] \notin LearnLabel
      BY <2>1, <2>2 DEF Quiet, PanelLabel, LearnLabel
    <2> QED
      BY <2>1, <2>3, <2>4 DEF SoloInv, WindowHeld, OwesAll, OwesReport, Both, Flipping,
         Switching
  <1>3. CASE BootReport
    <2>1. /\ pc["manual"] = "bootSend" /\ pc["net"] = "off" /\ pc'["manual"] = "idle"
          /\ pc'["net"] = IF panel THEN "panelSetup" ELSE "idle"
          /\ panel' = panel /\ learn' = learn /\ solo' = solo
          /\ owed' = IF "manual" \in solo THEN owed \ {"report"} ELSE owed
      BY <1>0, <1>3 DEF BootReport, SendData, LineInv, NetOff, Booting, line
    <2>2. ~Quiet("manual")
      BY <2>1 DEF Quiet, PanelLabel
    <2>3. "net" \notin solo
      BY <1>0, <2>2 DEF SoloInv, SoloAlone
    <2>4. PanelQuiet' /\ SoloAlone'
      BY <1>0, <2>1, <2>3 DEF PanelQuiet, SoloAlone, Quiet, PanelLabel
    <2>5. WindowHeld'
      BY <2>1 DEF SoloInv, WindowHeld, Switching, Flipping
    <2> QED
      BY <1>0, <2>1, <2>3, <2>4, <2>5 DEF SoloInv, OwesAll, OwesReport, Both, LearnLabel,
         Offing, Switching, BootLabel, Flipping, Driving, Remoting
  <1>4. CASE ~(ButtonPress \/ LearnOpen \/ PanelBlink \/ BootReport)
    <2>1. /\ pc["manual"] \in {"bootMode", "bootModeStored", "bootType", "pressed", "keySend",
                                "learning", "switch", "switched"}
          /\ solo' = solo /\ panel' = panel /\ pc'["net"] = pc["net"]
      BY <1>0, <1>4 DEF Boot, Key, Manual, BootMode, BootModeStore, BootModeStored, BootType,
         SwitchToConfig, ButtonPressed, KeyReport, LearnClose, SwitchBlink, SwitchStore,
         SwitchDone, Await, Jump, SendData, StoreByte, Goto, history, line
    <2>2. ~Quiet("manual")
      BY <2>1 DEF Quiet, PanelLabel
    <2>3. solo \subseteq {"manual"} /\ PanelQuiet' /\ SoloAlone'
      BY <1>0, <2>1, <2>2, SoloMoves
    <2>4. pc["net"] \notin Offing \/ solo = {}
      BY <1>0, <2>2, <2>3 DEF SoloInv, SoloAlone, Quiet, PanelLabel, Offing
    <2>5. WindowHeld'
      BY <1>0, <1>4 DEF SoloInv, WindowHeld, Boot, Key, Manual, BootMode, BootModeStore,
         BootModeStored, BootType, SwitchToConfig, ButtonPressed, KeyReport, LearnClose,
         SwitchBlink, SwitchStore, SwitchDone, Await, Jump, SendData, StoreByte, Goto, line,
         Switching, Flipping
    <2>6. (OwesAll => owed = Both)' /\ (OwesReport => "report" \in owed)'
      <3>1. CASE BootMode \/ BootModeStore \/ BootModeStored \/ BootType
        <4>1. owed = Both /\ owed' = owed
          BY <2>1, <3>1 DEF SoloInv, OwesAll, BootLabel, BootMode, BootModeStore,
             BootModeStored, BootType, Await, StoreByte, history
        <4> QED
          BY <4>1 DEF Both
      <3>2. CASE SwitchToConfig \/ SwitchBlink \/ SwitchStore \/ SwitchDone
        <4>1. owed' = Both
          BY <2>1, <3>2 DEF SoloInv, OwesAll, Switching, SwitchToConfig, SwitchBlink,
             SwitchStore, SwitchDone, Await, StoreByte, history, Both
        <4> QED
          BY <4>1 DEF Both
      <3>3. CASE ButtonPressed \/ KeyReport \/ LearnClose
        <4>1. /\ pc'["manual"] \in {"control", "idle"}
              /\ pc'["manual"] = "control" => ret'["manual"] = "keySend"
              /\ owed' = owed \/ "manual" \in solo
          BY <1>0, <3>3 DEF ButtonPressed, KeyReport, LearnClose, Jump, SendData, Goto,
             history
        <4> QED
          BY <1>0, <2>1, <2>4, <4>1 DEF SoloInv, OwesAll, OwesReport, Switching, BootLabel,
             Flipping, Driving, Remoting, Both
      <3> QED
        BY <1>4, <3>1, <3>2, <3>3 DEF Boot, Key, Manual
    <2> QED
      BY <2>1, <2>3, <2>5, <2>6 DEF SoloInv
  <1> QED
    BY <1>1, <1>2, <1>3, <1>4

LEMMA NetSolo ==
    ASSUME LineInv, Shape, SoloInv, Net
    PROVE  SoloInv'
  <1>0. /\ pc \in [Task -> Label] /\ ret \in [Task -> Label] /\ Task = {"manual", "net"}
        /\ solo \subseteq Task /\ owed \subseteq Both
        /\ ret["net"] \in {"idle", "sceneFlipped", "blink", "send", "frame", "sceneSend"}
    BY DEF LineInv, LineOK, Task, Both, Shape, NetShape
  <1>1. CASE PanelSetup \/ PanelStored
    <2>1. /\ pc["net"] \in PanelLabel /\ pc'["net"] \in PanelLabel \cup {"idle"}
          /\ pc'["manual"] = pc["manual"] /\ ret' = ret /\ solo' = solo /\ owed' = owed
          /\ panel' = panel /\ learn' = learn
      BY <1>0, <1>1 DEF PanelSetup, PanelStored, StoreByte, Await, Goto, PanelLabel, history,
         line
    <2>2. PanelQuiet' /\ SoloAlone'
      BY <1>0, <2>1 DEF SoloInv, PanelQuiet, SoloAlone, Quiet
    <2> QED
      BY <2>1, <2>2 DEF SoloInv, WindowHeld, OwesAll, OwesReport, LearnLabel, Offing,
         PanelLabel
  <1>2. CASE ~(PanelSetup \/ PanelStored)
    <2>1. /\ pc["net"] \notin {"off", "idle"} \cup PanelLabel
          /\ pc'["manual"] = pc["manual"] /\ ret'["manual"] = ret["manual"]
          /\ solo' = solo /\ panel' = panel /\ learn' \in {learn, FALSE}
      <3>1. CASE Analyze \/ FrameIgnored \/ FramesDone \/ Learn
        BY <1>0, <3>1 DEF Analyze, FrameIgnored, FramesDone, Learn, LearnAddr, LearnSub,
           LearnChan, LearnType, Learned, StoreByte, Goto, history, line, PanelLabel
      <3>2. CASE Switch
        BY <1>0, <3>2 DEF Switch, F2Lamp, F2Nothing, F2RemoteOn, F2RemoteOff, RemoteOffPulse,
           RemoteOffRelease, F4Light, F4Nothing, SceneSet, SceneToggle, SceneFlipped,
           SceneReport, FrameReport, F4Accepted, InFrame, LampSet, OnlyAnswer, Jump,
           SendData, Goto, Return, history, line, PanelLabel
      <3>3. CASE BlinkStart \/ Blink \/ BlinkDone
        BY <1>0, <3>3 DEF BlinkStart, Blink, BlinkDone, InFrame, NextFrame, Goto, history,
           line, PanelLabel
      <3>5. CASE LockStore
        BY <1>0, <3>5 DEF LockStore, InFrame, Goto, history, line, PanelLabel
      <3>7. CASE LockNothing
        BY <1>0, <3>7 DEF LockNothing, InFrame, Goto, history, line, PanelLabel
      <3>6. CASE Locked
        BY <1>0, <3>6 DEF Locked, Goto, history, PanelLabel
      <3>4. CASE SaveSerial \/ SaveAddr \/ SaveSub \/ SaveChan \/ Saved
        BY <1>0, <3>4 DEF SaveSerial, SaveAddr, SaveSub, SaveChan, Saved, InFrame,
           StoreByte, Goto, history, line, PanelLabel
      <3> QED
        BY <1>2, <3>1, <3>2, <3>3, <3>4, <3>5, <3>6, <3>7 DEF Net, Maintain
    <2>2. ~Quiet("net")
      BY <2>1 DEF Quiet
    <2>3. solo \subseteq {"net"} /\ PanelQuiet' /\ SoloAlone'
      BY <1>0, <2>1, <2>2, SoloMoves
    <2>4. WindowHeld'
      BY <2>1 DEF SoloInv, WindowHeld
    <2>5. \/ solo = {}
          \/ pc["manual"] \notin Switching \cup BootLabel \cup Flipping \cup Driving
      BY <1>0, <2>2, <2>3 DEF SoloInv, SoloAlone, Quiet, PanelLabel, Switching, BootLabel,
         Flipping, Driving, Remoting
    <2>6. \/ owed' = owed
          \/ owed' = owed \cup {"report"}
          \/ owed' = owed \ {"report"} /\ "net" \in solo
                /\ pc'["net"] \notin Offing
          \/ owed' = Both
      <3>1. CASE Analyze \/ FrameIgnored \/ FramesDone \/ Learn
        BY <3>1 DEF Analyze, FrameIgnored, FramesDone, Learn, LearnAddr, LearnSub,
           LearnChan, LearnType, Learned, StoreByte, history
      <3>2. CASE Switch
        BY <1>0, <3>2 DEF Switch, F2Lamp, F2Nothing, F2RemoteOn, F2RemoteOff, RemoteOffPulse,
           RemoteOffRelease, F4Light, F4Nothing, SceneSet, SceneToggle, SceneFlipped,
           SceneReport, FrameReport, LampSet, OnlyAnswer, Jump, SendData, Goto, history,
           Both, Offing
      <3>3. CASE Maintain
        BY <3>3 DEF Maintain, LockStore, Locked, LockNothing, SaveSerial, SaveAddr,
           SaveSub, SaveChan, Saved, BlinkStart, Blink, BlinkDone, StoreByte, history
      <3> QED
        BY <1>2, <3>1, <3>2, <3>3 DEF Net
    <2>7. pc'["net"] \in Offing => owed' = Both
      <3>1. CASE RemoteOffPulse \/ F2RemoteOff
        BY <1>0, <3>1 DEF RemoteOffPulse, F2RemoteOff, SoloInv, OwesAll, Offing, Both,
           history
      <3>2. CASE Switch /\ ~(RemoteOffPulse \/ F2RemoteOff)
        BY <1>0, <3>2 DEF Switch, F2Lamp, F2Nothing, F2RemoteOn, AfterF2,
           RemoteOffRelease, F4Light, F4Nothing, SceneSet, SceneToggle, SceneFlipped,
           SceneReport, FrameReport, LampSet, OnlyAnswer, Jump, SendData, Goto, Return,
           Offing
      <3>3. CASE Analyze \/ FrameIgnored \/ FramesDone \/ Learn
        BY <1>0, <3>3 DEF Analyze, FrameIgnored, FramesDone, Learn, LearnAddr, LearnSub,
           LearnChan, LearnType, Learned, StoreByte, Goto, Offing
      <3>4. CASE Maintain
        BY <1>0, <3>4 DEF Maintain, LockStore, Locked, LockNothing, SaveSerial, SaveAddr,
           SaveSub, SaveChan, Saved, BlinkStart, Blink, BlinkDone, NextFrame, StoreByte,
           Goto, Offing
      <3> QED
        BY <1>2, <3>1, <3>2, <3>3, <3>4 DEF Net
    <2>8. (OwesAll => owed = Both)' /\ (OwesReport => "report" \in owed)'
      <3>1. solo = {} => owed = Both
        BY DEF SoloInv, OwesAll
      <3>2. pc["manual"] = "bootSend" => solo = {}
        BY <2>5 DEF BootLabel
      <3>3. solo = {} => owed' = Both
        BY <2>6, <3>1 DEF Both
      <3> QED
        BY <2>1, <2>5, <2>7, <3>2, <3>3 DEF OwesAll, OwesReport, Both
    <2>9. pc'["net"] \in LearnLabel => solo = {}
      <3>1. CASE Analyze
        <4>1. ASSUME learn
              PROVE  ~Quiet("manual")
          BY <4>1 DEF SoloInv, WindowHeld, Quiet, PanelLabel, Switching, Flipping
        <4>2. learn => solo = {}
          BY <1>0, <2>3, <4>1 DEF SoloInv, SoloAlone
        <4> QED
          BY <1>0, <3>1, <4>2 DEF Analyze, Goto, LearnLabel
      <3>2. CASE Learn
        BY <3>2 DEF Learn, LearnAddr, LearnSub, LearnChan, LearnType, Learned, StoreByte,
           SoloInv, LearnLabel
      <3>3. CASE FrameIgnored \/ FramesDone \/ Maintain
        BY <1>0, <3>3 DEF FrameIgnored, FramesDone, Maintain, LockStore, Locked, LockNothing,
           SaveSerial, SaveAddr, SaveSub, SaveChan, Saved, BlinkStart, Blink, BlinkDone,
           NextFrame, StoreByte, Goto, LearnLabel
      <3>4. CASE Switch
        BY <1>0, <3>4 DEF Switch, F2Lamp, F2Nothing, F2RemoteOn, F2RemoteOff, AfterF2,
           RemoteOffPulse, RemoteOffRelease, F4Light, F4Nothing, SceneSet, SceneToggle,
           SceneFlipped, SceneReport, FrameReport, LampSet, OnlyAnswer, Jump, SendData,
           Goto, Return, LearnLabel
      <3> QED
        BY <1>2, <3>1, <3>2, <3>3, <3>4 DEF Net
    <2> QED
      BY <2>1, <2>3, <2>4, <2>8, <2>9 DEF SoloInv
  <1> QED
    BY <1>1, <1>2

LEMMA NextSolo == LineInv /\ Shape /\ SoloInv /\ [Next]_vars => SoloInv'
  <1> SUFFICES ASSUME LineInv, Shape, SoloInv, [Next]_vars
               PROVE  SoloInv'
    OBVIOUS
  <1>1. ASSUME NEW t \in Task, Control(t)
        PROVE  SoloInv'
    BY <1>1, ControlSolo
  <1>2. Boot \/ Key \/ Manual \/ Net => SoloInv'
    BY ManualSolo, NetSolo
  <1>3. ASSUME NEW d \in Inbox, Receive(d)
        PROVE  SoloInv'
    <2>1. /\ Begin("net") /\ panel' = panel /\ ~panel /\ learn' = learn
          /\ \A u \in Task \ {"net"} : pc'[u] = pc[u] /\ ret'[u] = ret[u]
          /\ pc'["net"] = "analyze"
      BY <1>3 DEF Receive, Goto, line, LineInv, LineOK, Task
    <2>2. "net" # "manual" /\ "net" \in Task /\ pc'["net"] \notin LearnLabel \cup Offing
      BY <2>1 DEF Task, LearnLabel, Offing
    <2> QED
      BY <2>1, <2>2, BeginSolo
  <1>4. CASE PowerCut
    BY <1>4 DEF PowerCut, SoloInv, PanelQuiet, SoloAlone, WindowHeld, OwesAll, OwesReport,
       Quiet, Both, Task, LearnLabel
  <1>5. CASE UNCHANGED vars
    BY <1>5 DEF vars, control, line, history, SoloInv, PanelQuiet, SoloAlone, WindowHeld,
       OwesAll, OwesReport, Quiet
  <1> QED
    BY <1>1, <1>2, <1>3, <1>4, <1>5 DEF Next

LEMMA InitSolo == Init => SoloInv
  BY DEF Init, InitFrom, SoloInv, PanelQuiet, SoloAlone, WindowHeld, OwesAll, OwesReport,
     Quiet, Both, Task, LearnLabel

-----------------------------------------------------------------------------
(***************************************************************************)
(* What a lone command has done.                                           *)
(***************************************************************************)
LEMMA CommandMoves ==
    ASSUME LineInv, SoloInv, CommandInv, NEW a \in Task, ~Quiet(a), solo' = solo,
           relay'.type = relay.type,
           relay.type \in Lamp /\ a \in solo /\ Obeyed(a) => Obeyed(a)'
    PROVE  CommandInv'
  <1>1. solo \subseteq {a}
    BY DEF LineInv, LineOK, SoloInv, SoloAlone
  <1> QED
    BY <1>1 DEF CommandInv

(* The store works on: only the byte of a finished drive shows.            *)
LEMMA StoreCommands ==
    ASSUME JointInv, CallInv, SoloInv, CommandInv, NEW t \in Task, StoreStep(t)
    PROVE  CommandInv'
  <1>0. /\ E!Progress(t) /\ solo' = solo /\ relay' = relay /\ pc' = pc /\ ret' = ret
        /\ reg' = reg /\ cnt' = cnt /\ led' = led /\ owed' = owed /\ driven' = driven
        /\ reported' = reported
    BY DEF StoreStep, control, line, history, output
  <1>1. /\ \A u \in Task \ {t} : mpc'[u] = mpc[u] /\ todo'[u] = todo[u]
        /\ mpc[t] # "idle" /\ mpc'[t] # "store" /\ pc[t] \in Calling
        /\ \/ \E b \in Byte : Stores(t, CellOf(pc[t]), b)
           \/ mpc[t] # "store" /\ data' = data
    BY <1>0, ProgressEffect DEF CallInv, CallOK
  <1> SUFFICES ASSUME relay.type \in Lamp, NEW s \in solo, Obeyed(s)
               PROVE  Obeyed(s)'
    BY <1>0 DEF CommandInv
  <1>2. s \in Task /\ LAST \in 0 .. CellCount - 1
    BY CellsInImage DEF JointInv, LineInv, LineOK
  <1>3. CASE pc[t] = "persisted"
    <2>1. s = t
      BY <1>2, <1>3 DEF SoloInv, SoloAlone, Quiet, PanelLabel
    <2>2. data'[LAST] = led
      <3>1. CASE mpc[t] # "store" /\ data' = data
        BY <1>3, <2>1, <3>1 DEF Obeyed, Progressed
      <3>2. ASSUME NEW b \in Byte, Stores(t, LAST, b)
            PROVE  data'[LAST] = led
        <4>1. mpc[t] = "store" /\ todo[t] = <<<<LAST, b>>>> /\ data'[LAST] = b
          BY <1>2, <3>2 DEF Stores
        <4>2. todo[t] = <<<<LAST, led>>>>
          BY <1>3, <2>1, <4>1 DEF Obeyed, Progressed
        <4>3. b = led
          BY <4>1, <4>2
        <4> QED
          BY <4>1, <4>3
      <3> QED
        BY <1>1, <1>3, <3>1, <3>2, CellsOf
    <2>3. Progressed(t)' /\ Commanding(t)'
      BY <1>0, <1>1, <1>3, <2>1, <2>2 DEF Obeyed, Progressed, Commanding, Driving
    <2> QED
      BY <1>0, <2>1, <2>3 DEF Obeyed, Reporting, Told, Shown, Inverted, OddCount
  <1>4. CASE pc[t] # "persisted"
    <2>1. CellOf(pc[t]) # LAST
      BY <1>1, <1>4, CellsOf, CellsApart DEF Calling, LearnLabel, SaveLabel, RecordCells,
         LAST, MODE, START, SERIAL
    <2>2. data'[LAST] = data[LAST]
      BY <1>1, <1>2, <2>1 DEF Stores
    <2>3. pc[s] = "persisted" => s # t
      BY <1>4
    <2>4. Progressed(s)'
      BY <1>0, <1>1, <1>2, <2>2, <2>3 DEF Obeyed, Progressed
    <2> QED
      BY <1>0, <2>2, <2>4 DEF Obeyed, Commanding, Synced, Reporting, Told, Shown, Inverted,
         OddCount
  <1> QED
    BY <1>3, <1>4

LEMMA ControlCommands ==
    ASSUME JointInv, Shape, CallInv, SoloInv, CommandInv, NEW t \in Task, Control(t)
    PROVE  CommandInv'
  <1>0. /\ pc \in [Task -> Label] /\ ret \in [Task -> Label] /\ reg \in [Task -> {0, 1}]
        /\ led \in {0, 1} /\ solo \subseteq Task /\ LineInv
        /\ mpc \in [Task -> EP!Phase]
    BY StoreTyped DEF JointInv, LineInv, LineOK
  <1>1. CASE StoreStep(t)
    BY <1>1, StoreCommands
  <1>2. CASE ~StoreStep(t)
    <2>1. /\ pc[t] \in Flipping \cup Driving /\ solo' = solo /\ relay' = relay /\ cnt' = cnt
      BY <1>2 DEF Control, FlipRead, FlipWrite, ControlType, Pulse, Release, Remote,
         RemoteLed, RemoteRelease, PersistRead, PersistCall, Persisted, Flipping, Driving,
         Remoting, history, line
    <2>2. ~Quiet(t)
      BY <2>1 DEF Quiet, PanelLabel, Flipping, Driving, Remoting
    <2> SUFFICES ASSUME relay.type \in Lamp, t \in solo, Obeyed(t)
                 PROVE  Obeyed(t)'
      BY <1>0, <2>1, <2>2, CommandMoves
    <2>3. /\ pc[t] \in Flipping => ret[t] \in {"idle", "pressed", "switch", "sceneFlipped", "blink"}
          /\ pc[t] \in Flipping /\ ret[t] \in {"idle", "switch"} => t = "manual"
          /\ pc[t] \in Driving => ret[t] \in {"keySend", "bootSend", "send", "frame", "sceneSend"}
          /\ pc[t] \in Driving /\ ret[t] = "bootSend" => t = "manual"
      BY DEF Shape, ManualShape, NetShape, Task
    <2>4. CASE FlipRead(t)
      <3>1. /\ pc[t] = "flip" /\ pc'[t] = "flipped" /\ ret' = ret /\ reg'[t] = led
            /\ led' = led /\ owed' = owed /\ driven' = driven /\ reported' = reported
            /\ data' = data
        BY <1>0, <2>4 DEF FlipRead, Goto, history, output, memory
      <3>2. Shown(t)' = Shown(t)
        BY <2>1, <3>1 DEF Shown, Inverted, OddCount, Flipping
      <3>3. Progressed(t)'
        BY <3>1 DEF Progressed, Remoting, Offing
      <3>4. (Commanding(t) => Commanding(t)') /\ (Reporting(t) => Reporting(t)')
        BY <3>1 DEF Commanding, Reporting, Flipping, Driving, Remoting
      <3> QED
        BY <3>1, <3>2, <3>3, <3>4 DEF Obeyed, Synced, Told
    <2>5. CASE FlipWrite(t)
      <3>1. /\ pc[t] = "flipped" /\ pc'[t] = ret[t] /\ ret'[t] = "idle" /\ reg[t] = led
            /\ led' = 1 - led /\ owed' = owed /\ driven' = driven /\ reported' = reported
            /\ data' = data
        BY <1>0, <2>5 DEF FlipWrite, Return, Goto, Obeyed, Progressed, history, output, memory
      <3>2. pc'[t] \in {"idle", "pressed", "switch", "sceneFlipped", "blink"}
        BY <2>3, <3>1 DEF Flipping
      <3>3. pc'[t] \in {"idle", "switch"} => owed = {"drive", "report"}
        BY <2>3, <3>1 DEF SoloInv, OwesAll, Flipping, Both
      <3>4. pc'[t] = "blink" => Shown(t)' = Shown(t)
        BY <1>0, <2>1, <3>1 DEF Shown, Inverted, OddCount, Flipping
      <3>5. pc'[t] = "blink" => ~Commanding(t) /\ ~Reporting(t)
        BY <3>1 DEF Commanding, Reporting, Flipping, Driving, Remoting
      <3>6. pc'[t] \in {"pressed", "sceneFlipped"} => Commanding(t)' /\ Reporting(t)'
        BY DEF Commanding, Reporting
      <3>7. Progressed(t)'
        BY <3>2 DEF Progressed, Remoting, Offing
      <3> QED
        BY <3>1, <3>2, <3>3, <3>4, <3>5, <3>6, <3>7 DEF Obeyed, Synced, Told
    <2>6. CASE ~FlipRead(t) /\ ~FlipWrite(t) /\ ~Persisted(t)
      <3>1. /\ pc[t] \in Driving /\ pc'[t] \in Driving /\ ret' = ret /\ led' = led
            /\ owed' = owed /\ reported' = reported
        BY <1>0, <1>2, <2>6 DEF Control, ControlType, Pulse, Release, Remote, RemoteLed,
           RemoteRelease, PersistRead, PersistCall, Goto, Driving, Remoting, Obeyed,
           Progressed, history
      <3>2. Commanding(t)' /\ (Reporting(t) => Reporting(t)')
        BY <3>1 DEF Commanding, Reporting, Driving, Remoting, Flipping
      <3>3. Told(t) => Told(t)'
        BY <3>1 DEF Told, Shown, Inverted, Driving, Remoting, Flipping
      <3>4. Progressed(t)'
        <4>1. CASE ControlType(t) \/ Pulse(t) \/ Release(t) \/ PersistRead(t)
          BY <1>0, <3>1, <4>1 DEF ControlType, Pulse, Release, PersistRead, Goto, Obeyed,
             Progressed, output, Remoting, Offing
        <4>2. CASE Remote(t) \/ RemoteLed(t) \/ RemoteRelease(t)
          BY <4>2 DEF Remote, RemoteLed, RemoteRelease, Obeyed, Progressed, Remoting
        <4>3. CASE PersistCall(t)
          <5>1. pc[t] = "persistCall" /\ pc'[t] = "persisted" /\ driven' = driven
                /\ reg[t] = led /\ driven = led /\ led' = led
            BY <1>0, <3>1, <4>3 DEF PersistCall, Goto, Obeyed, Progressed, output
          <5>2. mpc'[t] = "store" /\ todo'[t] = <<<<LAST, reg[t]>>>>
            <6>1. E!Invoke(t, ByteStore(LAST, reg[t]))
              BY <4>3 DEF PersistCall
            <6> QED
              BY <6>1, InvokeEffect
          <5> QED
            BY <5>1, <5>2 DEF Progressed, Remoting, Offing
        <4> QED
          BY <1>2, <2>6, <4>1, <4>2, <4>3 DEF Control
      <3> QED
        BY <3>1, <3>2, <3>3, <3>4 DEF Obeyed
    <2>7. CASE Persisted(t)
      <3>1. /\ pc[t] = "persisted" /\ pc'[t] = ret[t] /\ ret'[t] = "idle" /\ led' = led
            /\ owed' = owed \ {"drive"} /\ driven' = driven /\ reported' = reported
            /\ data' = data /\ data[LAST] = led /\ driven = led
        BY <1>0, <2>7 DEF Persisted, Return, Goto, Obeyed, Progressed, output, memory
      <3>2. pc'[t] \in {"keySend", "bootSend", "send", "frame", "sceneSend"}
        BY <2>3, <3>1 DEF Driving
      <3>3. Progressed(t)'
        BY <3>1, <3>2 DEF Progressed, Remoting, Offing
      <3>4. Shown(t) = led /\ Shown(t)' = led
        BY <3>1, <3>2 DEF Shown, Inverted, Flipping
      <3>5. Synced(t)'
        BY <3>1, <3>4 DEF Synced
      <3>6. "report" \notin owed' => Reporting(t)' \/ Told(t)'
        <4>1. pc'[t] = "bootSend" => "report" \in owed
          BY <2>3, <3>1 DEF SoloInv, OwesReport, Driving
        <4>2. pc'[t] = "frame" => ~Reporting(t)
          BY <3>1 DEF Reporting, Flipping
        <4>3. pc'[t] \in {"keySend", "send", "sceneSend"} => Reporting(t)'
          BY DEF Reporting
        <4> QED
          BY <3>1, <3>2, <3>4, <4>1, <4>2, <4>3 DEF Obeyed, Told
      <3> QED
        BY <3>3, <3>5, <3>6 DEF Obeyed
    <2> QED
      BY <2>4, <2>5, <2>6, <2>7
  <1> QED
    BY <1>1, <1>2

(* A task that leaves idle for a command of its own.                       *)
LEMMA BeginCommands ==
    ASSUME LineInv, SoloInv, CommandInv, NEW a \in Task, Begin(a),
           pc'[a] \in {"flip", "learning", "analyze"},
           relay' = relay, led' = led, driven' = driven, reported' = reported, data' = data,
           pc'[a] = "flip" => ret'[a] = "pressed"
    PROVE  CommandInv'
  <1>1. CASE \E u \in Task \ {a} : pc[u] # "idle"
    <2>1. solo' = {}
      BY <1>1 DEF Begin
    <2> QED
      BY <2>1 DEF CommandInv
  <1>2. CASE \A u \in Task \ {a} : pc[u] = "idle"
    <2>1. solo' = {a} /\ owed' = owed /\ pc[a] = "idle"
      BY <1>2 DEF Begin
    <2> SUFFICES ASSUME relay.type \in Lamp
                 PROVE  Obeyed(a)'
      BY <2>1 DEF CommandInv
    <2>2. CASE solo = {}
      BY <2>1, <2>2 DEF SoloInv, OwesAll, Both, Obeyed, Progressed, Remoting, Offing
    <2>3. CASE solo # {}
      <3>1. PICK s \in solo : Obeyed(s)
        BY <2>3 DEF CommandInv
      <3>2. s \in Task
        BY DEF LineInv, LineOK
      <3>3. pc[s] = "idle"
        BY <1>2, <2>1, <3>2
      <3>4. ~Commanding(s) /\ ~Reporting(s) /\ Shown(s) = led
        BY <3>3 DEF Commanding, Reporting, Shown, Inverted, Driving, Remoting, Flipping
      <3>5. /\ "drive" \notin owed => driven = led /\ data[LAST] = driven
            /\ "report" \notin owed => reported = led
        BY <3>1, <3>4 DEF Obeyed, Synced, Told
      <3>6. Shown(a)' = led /\ Progressed(a)'
        BY DEF Shown, Inverted, Flipping, Progressed, Remoting, Offing
      <3> QED
        BY <2>1, <3>5, <3>6 DEF Obeyed, Synced, Told
    <2> QED
      BY <2>2, <2>3
  <1> QED
    BY <1>1, <1>2

LEMMA ManualCommands ==
    ASSUME JointInv, Shape, CallInv, SoloInv, CommandInv, Boot \/ Key \/ Manual
    PROVE  CommandInv'
  <1>0. /\ pc \in [Task -> Label] /\ ret \in [Task -> Label] /\ Task = {"manual", "net"}
        /\ solo \subseteq Task /\ LineInv
    BY DEF JointInv, LineInv, LineOK, Task
  <1>1. CASE ButtonPress \/ LearnOpen
    <2>1. /\ Begin("manual") /\ pc'["manual"] \in {"flip", "learning", "analyze"}
          /\ relay' = relay /\ led' = led /\ driven' = driven /\ reported' = reported
          /\ data' = data
          /\ pc'["manual"] = "flip" => ret'["manual"] = "pressed"
      BY <1>0, <1>1 DEF ButtonPress, LearnOpen, Goto, line, output, memory
    <2>2. "manual" \in Task
      BY <1>0
    <2> QED
      BY <1>0, <2>1, <2>2, BeginCommands
  <1>2. CASE PanelBlink
    <2>1. /\ pc["manual"] = "idle" /\ pc'["manual"] = "flip" /\ panel
          /\ owed' = Both /\ solo' = solo /\ relay' = relay
      BY <1>0, <1>2 DEF PanelBlink, Goto, line, Both
    <2>2. solo \subseteq {"manual"}
      BY <1>0, <2>1 DEF SoloInv, PanelQuiet
    <2>3. Obeyed("manual")'
      BY <2>1 DEF Obeyed, Progressed, Remoting, Offing, Both
    <2> QED
      BY <2>1, <2>2, <2>3 DEF CommandInv
  <1>3. CASE ~(ButtonPress \/ LearnOpen \/ PanelBlink)
    <2>1. /\ pc["manual"] \in {"bootMode", "bootModeStored", "bootType", "bootSend", "pressed",
                                "keySend", "learning", "switch", "switched"}
          /\ solo' = solo /\ relay' = relay
      BY <1>0, <1>3 DEF Boot, Key, Manual, BootMode, BootModeStore, BootModeStored, BootType,
         BootReport, SwitchToConfig, ButtonPressed, KeyReport, LearnClose, SwitchBlink,
         SwitchStore, SwitchDone, Await, Jump, SendData, StoreByte, Goto, history, line
    <2>2. ~Quiet("manual")
      BY <2>1 DEF Quiet, PanelLabel
    <2>3. /\ Task = {"manual", "net"} /\ "manual" \in Task
      BY <1>0
    <2> SUFFICES ASSUME relay.type \in Lamp, "manual" \in solo, Obeyed("manual")
                 PROVE  Obeyed("manual")'
      BY <1>0, <2>1, <2>2, <2>3, CommandMoves
    <2>4. CASE BootMode \/ BootModeStore \/ BootModeStored \/ BootType
      <3>1. owed' = Both /\ pc'["manual"] \in {"bootModeStored", "bootType", "bootSend", "control"}
        BY <1>0, <2>1, <2>4 DEF SoloInv, OwesAll, BootLabel, BootMode, BootModeStore,
           BootModeStored, BootType, Await, StoreByte, Goto, history
      <3> QED
        BY <3>1 DEF Obeyed, Progressed, Remoting, Offing, Both
    <2>5. CASE SwitchToConfig \/ SwitchBlink \/ SwitchStore \/ SwitchDone
      <3>1. owed' = Both /\ pc'["manual"] \in {"switch", "flip", "switched", "learning"}
        BY <1>0, <2>1, <2>5 DEF SoloInv, OwesAll, Switching, SwitchToConfig, SwitchBlink,
           SwitchStore, SwitchDone, Await, StoreByte, Goto, history, Both
      <3> QED
        BY <3>1 DEF Obeyed, Progressed, Remoting, Offing, Both
    <2>6. CASE ButtonPressed
      <3>1. pc'["manual"] = "control" /\ ret'["manual"] = "keySend"
        BY <1>0, <2>6 DEF ButtonPressed, Jump, Goto
      <3> QED
        BY <3>1 DEF Obeyed, Progressed, Commanding, Reporting, Driving, Remoting, Offing
    <2>7. CASE LearnClose \/ KeyReport \/ BootReport
      <3>1. /\ pc["manual"] \in {"learning", "keySend", "bootSend"} /\ pc'["manual"] = "idle"
            /\ led' = led /\ driven' = driven /\ data' = data
            /\ \/ owed' = owed \ {"report"} /\ reported' = led
               \/ pc["manual"] = "learning" /\ owed' = owed /\ reported' = reported
        <4>1. ByType = led
          BY DEF ByType, Lamp, T_Light, T_Siren, T_RemoteRelay
        <4> QED
          BY <1>0, <2>7, <4>1 DEF LearnClose, KeyReport, BootReport, SendData, Goto, output,
             history, memory
      <3>2. ~Commanding("manual") /\ (pc["manual"] = "learning" => ~Reporting("manual"))
        BY <3>1 DEF Commanding, Reporting, Driving, Remoting, Flipping
      <3>3. Shown("manual") = led /\ Shown("manual")' = led /\ Progressed("manual")'
        BY <3>1 DEF Shown, Inverted, Flipping, Progressed, Remoting, Offing
      <3> QED
        BY <3>1, <3>2, <3>3 DEF Obeyed, Synced, Told
    <2> QED
      BY <1>3, <2>4, <2>5, <2>6, <2>7 DEF Boot, Key, Manual
  <1> QED
    BY <1>1, <1>2, <1>3

(* A step after which the network task has nothing to drive and led is     *)
(* what it was.                                                            *)
LEMMA StillObeyed ==
    ASSUME Obeyed("net"), ~Commanding("net"), ~Reporting("net"),
           pc'["net"] \notin {"flipped", "pulse", "persistCall", "release", "persist",
                              "persisted", "sceneSend"} \cup Remoting \cup Offing,
           Shown("net")' = Shown("net"), driven' = driven, reported' = reported,
           data' = data, owed' = owed
    PROVE  Obeyed("net")'
  BY DEF Obeyed, Progressed, Synced, Told

LEMMA EvenStart == \A n : n = FindBlinks => ~(n % 2 = 1)
  BY BlinkAssumption

LEMMA OddStep == \A n \in Nat : n > 0 => (n % 2 = 1 <=> ~((n - 1) % 2 = 1))
  OBVIOUS

LEMMA MaintainCommands ==
    ASSUME JointInv, Shape, SoloInv, CommandInv,
           Maintain \/ Analyze \/ FrameIgnored \/ FramesDone
    PROVE  CommandInv'
  <1>0. /\ pc \in [Task -> Label] /\ ret \in [Task -> Label] /\ cnt \in [Task -> Nat]
        /\ "net" \in Task /\ LineInv
    BY DEF JointInv, LineInv, LineOK, Task
  <1>1. /\ pc["net"] \in {"analyze", "frame", "locking", "blink"} \cup SaveLabel
        /\ solo' = solo /\ owed' = owed /\ driven' = driven /\ reported' = reported
        /\ led' = led
    BY DEF Maintain, LockStore, Locked, LockNothing, SaveSerial, SaveAddr, SaveSub, SaveChan,
       Saved, BlinkStart, Blink, BlinkDone, Analyze, FrameIgnored, FramesDone, InFrame,
       StoreByte, history, output, SaveLabel
  <1>2. data' = data
    <2>1. CASE LockStore \/ SaveSerial \/ SaveAddr \/ SaveSub \/ SaveChan
      <3>1. \E c, b : E!Invoke("net", ByteStore(c, b))
        BY <2>1 DEF LockStore, SaveSerial, SaveAddr, SaveSub, SaveChan, StoreByte
      <3> QED
        BY <3>1, NetInvoke
    <2>2. CASE ~(LockStore \/ SaveSerial \/ SaveAddr \/ SaveSub \/ SaveChan)
      BY <2>2 DEF Maintain, Locked, LockNothing, Saved, BlinkStart, Blink, BlinkDone, Analyze,
         FrameIgnored, FramesDone, memory
    <2> QED
      BY <2>1, <2>2
  <1>3. relay'.type = relay.type
    <2>1. relay \in Record
      BY DEF JointInv, LineInv, LineOK
    <2>2. CASE Locked \/ Saved
      BY <2>1, <2>2 DEF Locked, Saved, Record
    <2>3. CASE ~(Locked \/ Saved)
      BY <2>3 DEF Maintain, LockStore, LockNothing, SaveSerial, SaveAddr, SaveSub, SaveChan,
         BlinkStart, Blink, BlinkDone, Analyze, FrameIgnored, FramesDone, StoreByte, line
    <2> QED
      BY <2>2, <2>3
  <1>4. ~Quiet("net") /\ ~Commanding("net") /\ ~Reporting("net")
    BY <1>1 DEF Quiet, PanelLabel, Commanding, Reporting, Driving, Remoting, Flipping,
       SaveLabel
  <1>5. pc'["net"] \in {"idle", "frame", "locking", "learnAddr", "blink", "flip"} \cup SaveLabel
    BY <1>0 DEF Maintain, LockStore, Locked, LockNothing, SaveSerial, SaveAddr, SaveSub,
       SaveChan, Saved, BlinkStart, Blink, BlinkDone, Analyze, FrameIgnored, FramesDone,
       NextFrame, StoreByte, Goto, SaveLabel
  <1>6. Shown("net")' = Shown("net")
    <2>1. pc["net"] # "blink" => Shown("net") = led
      BY <1>1 DEF Shown, Inverted, Flipping, SaveLabel
    <2>2. CASE Saved \/ BlinkStart
      <3>1. pc["net"] # "blink" /\ pc'["net"] = "blink" /\ cnt'["net"] = FindBlinks
        BY <1>0, <2>2 DEF Saved, BlinkStart, InFrame, Goto
      <3>2. ~Inverted("net")'
        BY <3>1, EvenStart DEF Inverted, OddCount, Flipping
      <3> QED
        BY <1>1, <2>1, <3>1, <3>2 DEF Shown
    <2>3. CASE Blink
      <3>1. /\ pc["net"] = "blink" /\ pc'["net"] = "flip" /\ ret'["net"] = "blink"
            /\ cnt["net"] \in Nat /\ cnt["net"] > 0 /\ cnt'["net"] = cnt["net"] - 1
        BY <1>0, <2>3 DEF Blink, Goto
      <3>2. Inverted("net") <=> OddCount("net")
        BY <3>1 DEF Inverted, Flipping
      <3>3. Inverted("net")' <=> ~OddCount("net")'
        BY <3>1 DEF Inverted, Flipping
      <3>4. OddCount("net") <=> ~OddCount("net")'
        BY <3>1, OddStep DEF OddCount
      <3> QED
        BY <1>1, <3>2, <3>3, <3>4 DEF Shown
    <2>4. CASE BlinkDone
      <3>1. pc["net"] = "blink" /\ cnt["net"] = 0 /\ pc'["net"] = "frame"
        BY <1>0, <2>4 DEF BlinkDone, NextFrame, Goto
      <3>2. ~Inverted("net") /\ ~Inverted("net")'
        BY <3>1 DEF Inverted, OddCount, Flipping
      <3> QED
        BY <1>1, <3>2 DEF Shown
    <2>5. CASE ~(Saved \/ BlinkStart \/ Blink \/ BlinkDone)
      <3>1. pc["net"] # "blink" /\ pc'["net"] \notin {"blink", "flip"}
        BY <1>0, <2>5 DEF Maintain, LockStore, Locked, LockNothing, SaveSerial, SaveAddr,
           SaveSub, SaveChan, Analyze, FrameIgnored, FramesDone, InFrame, StoreByte, Goto
      <3>2. ~Inverted("net")'
        BY <1>5, <3>1 DEF Inverted, Flipping, SaveLabel
      <3> QED
        BY <1>1, <2>1, <3>1, <3>2 DEF Shown
    <2> QED
      BY <2>2, <2>3, <2>4, <2>5
  <1>7. pc'["net"] \notin {"flipped", "pulse", "persistCall", "release", "persist",
                           "persisted", "sceneSend"} \cup Remoting \cup Offing
    BY <1>5 DEF Remoting, Offing, SaveLabel
  <1>8. Obeyed("net") => Obeyed("net")'
    BY <1>1, <1>2, <1>4, <1>6, <1>7, StillObeyed
  <1> QED
    BY <1>0, <1>1, <1>3, <1>4, <1>8, CommandMoves

LEMMA SwitchCommands ==
    ASSUME JointInv, Shape, SoloInv, CommandInv, Switch
    PROVE  CommandInv'
  <1>0. /\ pc \in [Task -> Label] /\ ret \in [Task -> Label] /\ "net" \in Task /\ LineInv
    BY DEF JointInv, LineInv, LineOK, Task
  <1>1. /\ pc["net"] \in {"frame", "sceneFlipped", "sceneSend", "send"} \cup Offing
        /\ solo' = solo /\ relay' = relay
    BY DEF Switch, F2Lamp, F2Nothing, F2RemoteOn, F2RemoteOff, RemoteOffPulse,
       RemoteOffRelease, F4Light, F4Nothing, SceneSet, SceneToggle, SceneFlipped, SceneReport,
       FrameReport, F4Accepted, InFrame, LampSet, OnlyAnswer, Jump, SendData, Offing, line,
       history
  <1>2. ~Quiet("net")
    BY <1>1 DEF Quiet, PanelLabel, Offing
  <1> SUFFICES ASSUME relay.type \in Lamp, Obeyed("net"), "net" \in solo
               PROVE  Obeyed("net")'
    BY <1>0, <1>1, <1>2, CommandMoves
  <1>3. ~F2RemoteOn /\ ~F2RemoteOff
    BY DEF F2RemoteOn, F2RemoteOff, Lamp, T_Light, T_Siren, T_RemoteRelay
  <1>4. ~RemoteOffPulse /\ ~RemoteOffRelease
    BY DEF RemoteOffPulse, RemoteOffRelease, Obeyed, Progressed, Offing
  <1>5. CASE F2Lamp \/ F4Light \/ SceneSet
    <2>1. /\ pc'["net"] = "control"
          /\ ret'["net"] = "frame" => "report" \in owed'
      BY <1>0, <1>5 DEF F2Lamp, F4Light, SceneSet, LampSet, Goto
    <2> QED
      BY <2>1 DEF Obeyed, Progressed, Commanding, Reporting, Driving, Remoting, Offing
  <1>6. CASE SceneToggle \/ SceneFlipped
    <2>1. \/ pc'["net"] = "flip" /\ ret'["net"] = "sceneFlipped"
          \/ pc'["net"] = "control" /\ ret'["net"] = "sceneSend"
      BY <1>0, <1>6 DEF SceneToggle, SceneFlipped, Jump, Goto
    <2> QED
      BY <2>1 DEF Obeyed, Progressed, Commanding, Reporting, Driving, Remoting, Offing,
         Flipping
  <1>7. CASE F2Nothing \/ F4Nothing
    <2>1. /\ pc["net"] = "frame" /\ pc'["net"] \in {"send", "frame"} /\ led' = led
          /\ driven' = driven /\ reported' = reported /\ data' = data /\ owed' = owed
      BY <1>0, <1>7 DEF F2Nothing, F4Nothing, F4Accepted, InFrame, OnlyAnswer, AfterF2, Goto,
         output, history, memory
    <2>2. Shown("net") = led /\ Shown("net")' = led
      BY <2>1 DEF Shown, Inverted, Flipping
    <2>3. ~Commanding("net") /\ ~Reporting("net")
      BY <2>1 DEF Commanding, Reporting, Driving, Remoting, Flipping
    <2> QED
      BY <2>1, <2>2, <2>3, StillObeyed DEF Remoting, Offing
  <1>8. CASE SceneReport \/ FrameReport
    <2>1. /\ led' = led /\ driven' = driven /\ data' = data /\ reported' = led
          /\ owed' = owed \ {"report"}
          /\ \/ pc["net"] = "sceneSend" /\ pc'["net"] = "persist"
             \/ pc["net"] = "send" /\ pc'["net"] = "frame"
      BY <1>0, <1>8 DEF SceneReport, FrameReport, SendData, Goto, output, memory
    <2>2. Shown("net") = led /\ Shown("net")' = led
      BY <2>1 DEF Shown, Inverted, Flipping
    <2>3. Progressed("net")'
      BY <2>1 DEF Obeyed, Progressed, Remoting, Offing
    <2>4. ~Commanding("net")
      BY <2>1 DEF Commanding, Driving, Remoting, Flipping
    <2> QED
      BY <2>1, <2>2, <2>3, <2>4 DEF Obeyed, Synced, Told
  <1> QED
    BY <1>3, <1>4, <1>5, <1>6, <1>7, <1>8 DEF Switch

LEMMA PanelCommands ==
    ASSUME JointInv, SoloInv, CommandInv, PanelSetup \/ PanelStored
    PROVE  CommandInv'
  <1>0. pc \in [Task -> Label] /\ Task = {"manual", "net"} /\ solo \subseteq Task
    BY DEF JointInv, LineInv, LineOK, Task
  <1>1. /\ pc["net"] \in PanelLabel /\ pc'["net"] \in PanelLabel \cup {"idle"}
        /\ pc'["manual"] = pc["manual"] /\ ret' = ret /\ reg' = reg /\ cnt' = cnt
        /\ solo' = solo /\ owed' = owed /\ led' = led /\ driven' = driven
        /\ reported' = reported /\ relay' = relay
    BY <1>0 DEF PanelSetup, PanelStored, StoreByte, Await, Goto, PanelLabel, output, history,
       line
  <1>2. data' = data /\ mpc'["manual"] = mpc["manual"] /\ todo'["manual"] = todo["manual"]
    <2>1. CASE PanelSetup
      BY <1>0, <2>1, InvokeEffect DEF PanelSetup, StoreByte
    <2>2. CASE PanelStored
      BY <2>2 DEF PanelStored, Await, memory
    <2> QED
      BY <2>1, <2>2
  <1>3. Obeyed("manual") => Obeyed("manual")'
    BY <1>1, <1>2 DEF Obeyed, Progressed, Commanding, Synced, Reporting, Told, Shown, Inverted,
       OddCount
  <1>4. Obeyed("net") => Obeyed("net")'
    <2>1. ~Commanding("net") /\ ~Reporting("net") /\ Shown("net") = led /\ Shown("net")' = led
      BY <1>1 DEF Commanding, Reporting, Shown, Inverted, Driving, Remoting, Flipping,
         PanelLabel
    <2>2. Progressed("net")'
      BY <1>1 DEF Progressed, Remoting, Offing, PanelLabel
    <2> QED
      BY <1>1, <1>2, <2>1, <2>2 DEF Obeyed, Synced, Told
  <1> QED
    BY <1>0, <1>1, <1>3, <1>4 DEF CommandInv

LEMMA NetCommands ==
    ASSUME JointInv, Shape, SoloInv, CommandInv, Net
    PROVE  CommandInv'
  <1>1. CASE Learn
    <2>1. pc["net"] \in LearnLabel /\ solo' = solo
      BY <1>1 DEF Learn, LearnAddr, LearnSub, LearnChan, LearnType, Learned, StoreByte,
         LearnLabel, history
    <2> QED
      BY <2>1 DEF SoloInv, CommandInv
  <1> QED
    BY <1>1, MaintainCommands, SwitchCommands, PanelCommands DEF Net

LEMMA NextCommands ==
    JointInv /\ Shape /\ CallInv /\ SoloInv /\ CommandInv /\ [Next]_vars => CommandInv'
  <1> SUFFICES ASSUME JointInv, Shape, CallInv, SoloInv, CommandInv, [Next]_vars
               PROVE  CommandInv'
    OBVIOUS
  <1>1. ASSUME NEW t \in Task, Control(t)
        PROVE  CommandInv'
    BY <1>1, ControlCommands
  <1>2. Boot \/ Key \/ Manual \/ Net => CommandInv'
    BY ManualCommands, NetCommands
  <1>3. ASSUME NEW d \in Inbox, Receive(d)
        PROVE  CommandInv'
    <2>1. /\ Begin("net") /\ pc'["net"] = "analyze" /\ relay' = relay /\ led' = led
          /\ driven' = driven /\ reported' = reported /\ data' = data /\ LineInv
      BY <1>3 DEF Receive, Goto, line, output, memory, JointInv, LineInv, LineOK, Task
    <2>2. "net" \in Task
      BY DEF Task
    <2> QED
      BY <2>1, <2>2, BeginCommands
  <1>4. CASE PowerCut
    <2>1. solo' = {"manual"} /\ owed' = Both /\ pc'["manual"] = "bootMode"
      BY <1>4 DEF PowerCut, Both
    <2> QED
      BY <2>1 DEF CommandInv, Obeyed, Progressed, Remoting, Offing, Both
  <1>5. CASE UNCHANGED vars
    BY <1>5 DEF vars, control, line, output, history, memory, CommandInv, Obeyed, Progressed,
       Commanding, Synced, Reporting, Told, Shown, Inverted, OddCount
  <1> QED
    BY <1>1, <1>2, <1>3, <1>4, <1>5 DEF Next

CommandSafe == JointInv /\ Shape /\ CallInv /\ SoloInv /\ CommandInv

LEMMA CommandSafeAlways == Spec => []CommandSafe
  <1>1. Init => CommandInv
    BY DEF Init, InitFrom, CommandInv, Obeyed, Progressed, Remoting, Offing, Both
  <1>2. Init => CommandSafe
    BY <1>1, InitJoint, InitShape, InitCalls, InitSolo DEF CommandSafe
  <1>3. CommandSafe /\ [Next]_vars => CommandSafe'
    <2>1. JointInv => LineInv
      BY DEF JointInv
    <2> QED
      BY <2>1, NextJoint, NextShape, NextCalls, NextSolo, NextCommands DEF CommandSafe
  <1> QED
    BY <1>2, <1>3, PTL DEF Spec

(* Once every command has ended, what led owes no more has been done.      *)
LEMMA CommandEnds ==
    ASSUME CommandSafe, Settled, relay.type \in Lamp
    PROVE  /\ "drive" \notin owed => driven = led /\ data[LAST] = led
           /\ "report" \notin owed => reported = led
  <1>1. CASE solo = {}
    BY <1>1 DEF CommandSafe, SoloInv, OwesAll, Both
  <1>2. CASE solo # {}
    <2>1. PICK s \in solo : Obeyed(s)
      BY <1>2 DEF CommandSafe, CommandInv
    <2>2. s \in Task
      BY DEF CommandSafe, JointInv, LineInv, LineOK
    <2>3. pc[s] = "idle"
      BY <2>2 DEF Settled
    <2>4. ~Commanding(s) /\ ~Reporting(s) /\ Shown(s) = led
      BY <2>3 DEF Commanding, Reporting, Shown, Inverted, Driving, Remoting, Flipping
    <2> QED
      BY <2>1, <2>4 DEF Obeyed, Synced, Told
  <1> QED
    BY <1>1, <1>2

(* Whatever mix of key presses, F2, F4, scene and "I'm here" frames comes, *)
(* once no command is in progress the coil was last pulsed in the          *)
(* direction led shows and the image holds that state, unless the last     *)
(* commands overlapped or led was blinked.  (dvc.h Dvc__AnalyzeData and    *)
(* Dvc__RelayControl, dvcbutton.h)                                         *)
THEOREM CoilFollowsLed == Spec => []Coherent
  <1>1. CommandSafe => Coherent
    BY CommandEnds DEF Coherent
  <1> QED
    BY <1>1, CommandSafeAlways, PTL

(* ... and flash holds it, so that a power cut brings it back, as long as  *)
(* no store calls overlapped and the last blob call did not fail.          *)
(* (dvc.h Dvc__RelayControl, EEPROM2.cpp commit)                           *)
THEOREM StateSurvives == Spec => []Durable
  <1>1. CommandSafe => Durable
    <2> SUFFICES ASSUME CommandSafe, Settled, "drive" \notin owed, relay.type \in Lamp,
                        ~raced, ~dirty
                 PROVE  flash[LAST] = led
      BY DEF Durable
    <2>1. \A t \in Task : mpc[t] = "idle"
      BY CallIdle DEF CommandSafe, Settled, Calling, LearnLabel, SaveLabel
    <2>2. flash = data
      BY <2>1 DEF CommandSafe, JointInv, EP!StoreInv, EP!DirtyTruthful
    <2> QED
      BY <2>2, CommandEnds
  <1> QED
    BY <1>1, CommandSafeAlways, PTL

(* ... and the network was last told the state led shows, unless the last  *)
(* commands overlapped, led was blinked, or led was set by a frame that is *)
(* itself an answer.  (dvc.h Dvc__SendData, dvcbutton.h)                   *)
THEOREM NetworkIsTold == Spec => []Reported
  <1>1. CommandSafe => Reported
    BY CommandEnds DEF Reported
  <1> QED
    BY <1>1, CommandSafeAlways, PTL
=============================================================================
