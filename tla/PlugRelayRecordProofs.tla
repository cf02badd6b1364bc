----------------------- MODULE PlugRelayRecordProofs -----------------------
(***************************************************************************)
(* The address record of the line, for every set of frames, keys and       *)
(* images: RAM answers to the address a restart would load, and the type   *)
(* is the last byte of a learned address to reach flash.                   *)
(***************************************************************************)
EXTENDS PlugRelayProofs

(* The labels of each task, and what a called function may return to.      *)
Flipping == {"flip", "flipped"}
Remoting == {"remote", "remoteLed", "remoteRelease"}
Driving == {"control", "pulse", "release", "persist", "persistCall", "persisted"}
             \cup Remoting
Offing == {"remoteOff", "remoteOffRelease"}
Switching == {"switch", "switched"}
BootLabel == {"bootMode", "bootModeStored", "bootType", "bootSend"}
LearnLabel == {"learnAddr", "learnSub", "learnChan", "learnType", "learned"}
SaveLabel == {"saveAddr", "saveSub", "saveChan", "saved"}
PanelLabel == {"panelSetup", "panelStored"}
ManualLabel ==
    {"idle", "pressed", "keySend", "learning"}
      \cup Flipping \cup Driving \cup Switching \cup BootLabel
NetLabel ==
    {"off", "idle", "analyze", "frame", "send", "sceneSend", "sceneFlipped", "locking", "blink"}
      \cup Flipping \cup Driving \cup Offing \cup LearnLabel \cup SaveLabel \cup PanelLabel

ManualShape ==
    /\ pc["manual"] \in ManualLabel
    /\ ret["manual"] \in {"idle", "pressed", "switch", "keySend", "bootSend"}
    /\ pc["manual"] \in Flipping => ret["manual"] \in {"idle", "pressed", "switch"}
    /\ pc["manual"] \in Driving => ret["manual"] \in {"keySend", "bootSend"}

NetShape ==
    /\ pc["net"] \in NetLabel
    /\ ret["net"] \in {"idle", "sceneFlipped", "blink", "send", "frame", "sceneSend"}
    /\ pc["net"] \in Flipping => ret["net"] \in {"sceneFlipped", "blink"}
    /\ pc["net"] \in Driving => ret["net"] \in {"send", "frame", "sceneSend"}
    /\ pc["net"] \in Offing => ret["net"] \in {"send", "frame"}

(* Where a task may have a store call under way, and the cell it stores.   *)
Calling == {"persisted", "bootModeStored", "switched", "panelStored", "locking"}
             \cup (LearnLabel \ {"learnAddr"}) \cup SaveLabel
CellOf(l) ==
    CASE l = "persisted" -> LAST
      [] l = "bootModeStored" -> MODE
      [] l \in {"switched", "panelStored"} -> START
      [] l = "saveAddr" -> SERIAL
      [] l = "locking" -> LOCK
      [] l \in {"learnSub", "saveSub"} -> ADDR
      [] l \in {"learnChan", "saveChan"} -> SUB
      [] l \in {"learnType", "saved"} -> CHAN
      [] l = "learned" -> TYPE

CallOK(t) ==
    /\ each[t] = FALSE
    /\ mpc[t] = "store" => \E b \in Byte : todo[t] = <<<<CellOf(pc[t]), b>>>>
    /\ mpc[t] # "store" => todo[t] = <<>>
    /\ mpc[t] # "idle" => pc[t] \in Calling
CallInv == \A t \in Task : CallOK(t)

(* The network task's last call is still to store v in c, or has.          *)
Put(c, v) == IF mpc["net"] = "store" THEN todo["net"] = <<<<c, v>>>> ELSE data[c] = v

LearnProgress ==
    LET l == pc["net"]
        f == Head(rest)
    IN  /\ l \in LearnLabel => f.type \in Lamp \cup {T_RemoteRelay}
        /\ l = "learnSub" => Put(ADDR, f.to.addr)
        /\ l \in {"learnChan", "learnType", "learned"} => data[ADDR] = f.to.addr
        /\ l = "learnChan" => Put(SUB, f.to.sub)
        /\ l \in {"learnType", "learned"} => data[SUB] = f.to.sub
        /\ l = "learnType" => Put(CHAN, f.to.chan)
        /\ l = "learned" => data[CHAN] = f.to.chan /\ Put(TYPE, f.type)

SaveProgress ==
    LET l == pc["net"]
    IN  /\ l = "saveSub" => Put(ADDR, 255)
        /\ l \in {"saveChan", "saved"} => data[ADDR] = 255
        /\ l = "saveChan" => Put(SUB, 255)
        /\ l = "saved" => data[SUB] = 255 /\ Put(CHAN, 255)

LockKept ==
    IF pc["net"] = "locking" THEN Put(LOCK, reg["net"])
                             ELSE relay.lock = (data[LOCK] = 1)

TypeKept ==
    \/ pc["net"] = "learned" /\ mpc["net"] # "store"
    \/ data[TYPE] = 255
    \/ relay.type = data[TYPE]

Moving == {"learnSub", "learnChan", "learnType", "learned", "saveSub", "saveChan", "saved"}
SameId ==
    LET r == RelayFrom(data)
    IN  relay.addr = r.addr /\ relay.sub = r.sub /\ relay.chan = r.chan /\ relay.type = r.type
IdKept == pc["net"] \notin Moving => Unaddressed \/ SameId

RecordInv == LearnProgress /\ SaveProgress /\ LockKept /\ TypeKept /\ IdKept

-----------------------------------------------------------------------------
(***************************************************************************)
(* The labels.                                                             *)
(***************************************************************************)
Shape == ManualShape /\ NetShape

LEMMA ControlShape ==
    ASSUME LineInv, Shape, NEW t \in Task, Control(t)
    PROVE  Shape'
  <1> USE DEF LineInv, LineOK, Shape, ManualShape, NetShape, Goto, Return, Task, control,
              ManualLabel, NetLabel, Flipping, Driving, Remoting, Offing, Switching,
              BootLabel, LearnLabel, SaveLabel, PanelLabel
  <1>1. CASE FlipRead(t)
    BY <1>1 DEF FlipRead
  <1>2. CASE FlipWrite(t)
    BY <1>2 DEF FlipWrite
  <1>3. CASE ControlType(t)
    BY <1>3 DEF ControlType
  <1>4. CASE Pulse(t)
    BY <1>4 DEF Pulse
  <1>5. CASE Release(t)
    BY <1>5 DEF Release
  <1>6. CASE Remote(t)
    BY <1>6 DEF Remote
  <1>7. CASE RemoteLed(t)
    BY <1>7 DEF RemoteLed
  <1>8. CASE RemoteRelease(t)
    BY <1>8 DEF RemoteRelease
  <1>9. CASE PersistRead(t)
    BY <1>9 DEF PersistRead
  <1>10. CASE PersistCall(t)
    BY <1>10 DEF PersistCall
  <1>11. CASE Persisted(t)
    BY <1>11 DEF Persisted
  <1>12. CASE StoreStep(t)
    BY <1>12 DEF StoreStep
  <1> QED
    BY <1>1, <1>2, <1>3, <1>4, <1>5, <1>6, <1>7, <1>8, <1>9, <1>10, <1>11,
       <1>12 DEF Control

LEMMA ManualStepShape ==
    ASSUME LineInv, Shape, Boot \/ Key \/ Manual
    PROVE  Shape'
  <1> USE DEF LineInv, LineOK, Shape, ManualShape, NetShape, Goto, Task,
              StoreByte, Await, Jump, SendData, Begin,
              ManualLabel, NetLabel, Flipping, Driving, Remoting, Offing, Switching,
              BootLabel, LearnLabel, SaveLabel, PanelLabel
  <1>1. CASE BootMode \/ BootModeStore \/ BootModeStored
    BY <1>1 DEF BootMode, BootModeStore, BootModeStored
  <1>2. CASE BootType
    BY <1>2 DEF BootType
  <1>3. CASE BootReport
    BY <1>3 DEF BootReport
  <1>4. CASE Key
    BY <1>4 DEF Key, ButtonPress, LearnOpen, SwitchToConfig, PanelBlink
  <1>5. CASE ButtonPressed \/ KeyReport \/ LearnClose
    BY <1>5 DEF ButtonPressed, KeyReport, LearnClose
  <1>6. CASE SwitchBlink \/ SwitchStore \/ SwitchDone
    BY <1>6 DEF SwitchBlink, SwitchStore, SwitchDone
  <1> QED
    BY <1>1, <1>2, <1>3, <1>4, <1>5, <1>6 DEF Boot, Manual

LEMMA NetStepShape ==
    ASSUME LineInv, Shape, Net
    PROVE  Shape'
  <1> USE DEF LineInv, LineOK, Shape, ManualShape, NetShape, Goto, Task,
              StoreByte, Await, Jump, SendData, InFrame, NextFrame, LampSet, OnlyAnswer,
              AfterF2, Return,
              ManualLabel, NetLabel, Flipping, Driving, Remoting, Offing, Switching,
              BootLabel, LearnLabel, SaveLabel, PanelLabel
  <1>1. CASE Analyze \/ FrameIgnored \/ FramesDone \/ PanelSetup \/ PanelStored
    BY <1>1 DEF Analyze, FrameIgnored, FramesDone, PanelSetup, PanelStored
  <1>2. CASE Learn
    BY <1>2 DEF Learn, LearnAddr, LearnSub, LearnChan, LearnType, Learned
  <1>3. CASE F2Lamp \/ F2Nothing \/ F2RemoteOn \/ F2RemoteOff
    BY <1>3 DEF F2Lamp, F2Nothing, F2RemoteOn, F2RemoteOff
  <1>4. CASE RemoteOffPulse \/ RemoteOffRelease \/ F4Light \/ F4Nothing
    BY <1>4 DEF RemoteOffPulse, RemoteOffRelease, F4Light, F4Nothing, F4Accepted
  <1>5. CASE SceneSet \/ SceneToggle \/ SceneFlipped \/ SceneReport \/ FrameReport
    BY <1>5 DEF SceneSet, SceneToggle, SceneFlipped, SceneReport, FrameReport
  <1>6. CASE LockStore \/ Locked \/ LockNothing \/ BlinkStart \/ Blink \/ BlinkDone
    BY <1>6 DEF LockStore, Locked, LockNothing, BlinkStart, Blink, BlinkDone
  <1>7. CASE SaveSerial \/ SaveAddr \/ SaveSub \/ SaveChan \/ Saved
    BY <1>7 DEF SaveSerial, SaveAddr, SaveSub, SaveChan, Saved
  <1> QED
    BY <1>1, <1>2, <1>3, <1>4, <1>5, <1>6, <1>7 DEF Net, Switch, Maintain

LEMMA NextShape == LineInv /\ Shape /\ [Next]_vars => Shape'
  <1> SUFFICES ASSUME LineInv, Shape, [Next]_vars
               PROVE  Shape'
    OBVIOUS
  <1>1. ASSUME NEW t \in Task, Control(t)
        PROVE  Shape'
    BY <1>1, ControlShape
  <1>2. Boot \/ Key \/ Manual \/ Net => Shape'
    BY ManualStepShape, NetStepShape
  <1>3. ASSUME NEW d \in Inbox, Receive(d)
        PROVE  Shape'
    BY <1>3 DEF Receive, Begin, Goto, Shape, ManualShape, NetShape, NetLabel, Flipping,
       Driving, Remoting, Offing, LineInv, LineOK, Task
  <1>4. CASE PowerCut
    BY <1>4 DEF PowerCut, Shape, ManualShape, NetShape, ManualLabel, NetLabel, Flipping,
       Driving, Remoting, Offing, BootLabel, Task
  <1>5. CASE UNCHANGED vars
    BY <1>5 DEF vars, control, Shape, ManualShape, NetShape
  <1> QED
    BY <1>1, <1>2, <1>3, <1>4, <1>5 DEF Next

LEMMA InitShape == Init => Shape
  BY DEF Init, InitFrom, Shape, ManualShape, NetShape, ManualLabel, NetLabel, Flipping,
     Driving, Remoting, Offing, BootLabel, Task

-----------------------------------------------------------------------------
(***************************************************************************)
(* The store calls.                                                        *)
(***************************************************************************)
LEMMA CellsOf ==
    /\ CellOf("persisted") = LAST /\ CellOf("bootModeStored") = MODE
    /\ CellOf("switched") = START /\ CellOf("panelStored") = START
    /\ CellOf("saveAddr") = SERIAL /\ CellOf("locking") = LOCK
    /\ CellOf("learnSub") = ADDR /\ CellOf("saveSub") = ADDR
    /\ CellOf("learnChan") = SUB /\ CellOf("saveChan") = SUB
    /\ CellOf("learnType") = CHAN /\ CellOf("saved") = CHAN
    /\ CellOf("learned") = TYPE
    /\ \A l \in Calling : CellOf(l) \in 0 .. CellCount - 1
  BY DEF CellOf, Calling, LearnLabel, SaveLabel,
     LAST, MODE, LOCK, ADDR, SUB, CHAN, TYPE, SERIAL, START, CellCount

LEMMA StoreTyped ==
    ASSUME JointInv
    PROVE  /\ data \in [0 .. CellCount - 1 -> Byte] /\ flash \in [0 .. CellCount - 1 -> Byte]
           /\ \A x \in 0 .. CellCount - 1 : data[x] \in Byte
           /\ mpc \in [Task -> EP!Phase] /\ todo \in [Task -> Seq(EP!Request)]
           /\ each \in [Task -> BOOLEAN]
           /\ raced \in BOOLEAN /\ dirty \in BOOLEAN
  BY DEF JointInv, EP!StoreInv, EP!TypeInv, EP!TypeOK, EP!Image

LEMMA InvokeEffect ==
    ASSUME JointInv, NEW t \in Task, NEW c, NEW b, E!Invoke(t, ByteStore(c, b))
    PROVE  /\ mpc[t] = "idle" /\ mpc'[t] = "store" /\ todo'[t] = <<<<c, b>>>>
           /\ each'[t] = FALSE
           /\ \A u \in Task \ {t} : mpc'[u] = mpc[u] /\ todo'[u] = todo[u] /\ each'[u] = each[u]
           /\ UNCHANGED <<data, dirty, flash>>
           /\ \A u \in Task \ {t} : mpc[u] # "idle" => raced'
           /\ raced => raced'
  BY StoreTyped DEF E!Invoke, ByteStore, E!Busy

(* A step of a call under way: it stores its byte, or it has.              *)
Stores(t, c, b) ==
    /\ mpc[t] = "store" /\ todo[t] = <<<<c, b>>>> /\ todo'[t] = <<>>
    /\ \A x \in 0 .. CellCount - 1 : data'[x] = IF x = c THEN b ELSE data[x]
    /\ flash' = flash /\ dirty' = dirty

LEMMA ProgressEffect ==
    ASSUME JointInv, CallInv, NEW t \in Task, E!Progress(t)
    PROVE  /\ \A u \in Task \ {t} : mpc'[u] = mpc[u] /\ todo'[u] = todo[u]
           /\ each' = each /\ raced' = raced
           /\ mpc[t] # "idle" /\ mpc'[t] # "store" /\ todo'[t] = <<>>
           /\ \/ \E b \in Byte : Stores(t, CellOf(pc[t]), b)
              \/ mpc[t] # "store" /\ data' = data /\ mpc'[t] # "mark"
  <1>0. /\ mpc \in [Task -> EP!Phase] /\ todo \in [Task -> Seq(EP!Request)]
        /\ data \in [0 .. CellCount - 1 -> Byte]
    BY StoreTyped
  <1>1. each[t] = FALSE
    BY DEF CallInv, CallOK
  <1>2. CASE E!Store(t)
    <2>1. mpc[t] = "store" /\ pc[t] \in Calling
      BY <1>2 DEF E!Store, CallInv, CallOK
    <2>2. PICK b \in Byte : todo[t] = <<<<CellOf(pc[t]), b>>>>
      BY <2>1 DEF CallInv, CallOK
    <2> DEFINE c == CellOf(pc[t])
    <2>3. c \in 0 .. CellCount - 1
      BY <2>1, CellsOf
    <2> HIDE DEF c
    <2>4. Head(todo[t])[1] = c /\ Head(todo[t])[2] = b /\ Tail(todo[t]) = <<>>
      BY <2>2 DEF c
    <2>5. \A x \in 0 .. CellCount - 1 : data'[x] = IF x = c THEN b ELSE data[x]
      <3>1. data' = IF c >= CellCount \/ data[c] = b THEN data ELSE [data EXCEPT ![c] = b]
        BY <1>2, <2>4 DEF E!Store
      <3>2. ~(c >= CellCount)
        BY <2>3 DEF CellCount
      <3> QED
        BY <1>0, <2>3, <3>1, <3>2
    <2>6. todo'[t] = <<>> /\ mpc'[t] \in {"mark", "test"}
      BY <1>0, <1>1, <1>2, <2>4 DEF E!Store, E!AfterStore
    <2>7. /\ UNCHANGED <<flash, dirty, each, raced>>
          /\ \A u \in Task \ {t} : mpc'[u] = mpc[u] /\ todo'[u] = todo[u]
      BY <1>0, <1>2 DEF E!Store, E!ghosts
    <2>8. Stores(t, c, b)
      BY <2>1, <2>2, <2>5, <2>6, <2>7 DEF Stores, c
    <2> QED
      BY <2>1, <2>6, <2>7, <2>8 DEF c
  <1>3. CASE ~E!Store(t)
    <2>1. /\ E!Mark(t) \/ E!CommitTest(t) \/ E!SetBlob(t) \/ E!Publish(t)
               \/ E!PublishFails(t) \/ E!Clear(t)
      BY <1>3 DEF E!Progress
    <2>2. mpc[t] \notin {"idle", "store"}
      BY <2>1 DEF E!Mark, E!CommitTest, E!SetBlob, E!Publish, E!PublishFails, E!Clear
    <2>3. todo[t] = <<>>
      BY <2>2 DEF CallInv, CallOK
    <2>4. mpc'[t] \notin {"store", "mark"}
      BY <1>0, <1>1, <2>1, <2>3 DEF E!Mark, E!CommitTest, E!SetBlob, E!Publish,
         E!PublishFails, E!Clear, E!AfterStore, E!AfterCommit
    <2>5. /\ todo' = todo /\ each' = each /\ raced' = raced /\ data' = data
          /\ \A u \in Task \ {t} : mpc'[u] = mpc[u]
      BY <1>0, <2>1 DEF E!Mark, E!CommitTest, E!SetBlob, E!Publish, E!PublishFails,
         E!Clear, E!call, E!ghosts
    <2> QED
      BY <2>2, <2>3, <2>4, <2>5
  <1> QED
    BY <1>2, <1>3

LEMMA CallIdle ==
    ASSUME CallInv, NEW t \in Task, pc[t] \notin Calling
    PROVE  mpc[t] = "idle"
  BY DEF CallInv, CallOK

(* A task with no call under way moves on.                                 *)
LEMMA CallElsewhere ==
    ASSUME CallInv, UNCHANGED memory, NEW a \in Task, mpc[a] = "idle",
           \A u \in Task \ {a} : pc'[u] = pc[u]
    PROVE  CallInv'
  BY DEF CallInv, CallOK, memory

(* A task calls MemoWriteByte.                                             *)
LEMMA CallBegins ==
    ASSUME JointInv, CallInv, NEW a \in Task, NEW c, NEW b \in Byte,
           E!Invoke(a, ByteStore(c, b)), pc'[a] \in Calling, CellOf(pc'[a]) = c,
           \A u \in Task \ {a} : pc'[u] = pc[u]
    PROVE  CallInv'
  <1>0. /\ mpc'[a] = "store" /\ todo'[a] = <<<<c, b>>>> /\ each'[a] = FALSE
        /\ \A u \in Task \ {a} : mpc'[u] = mpc[u] /\ todo'[u] = todo[u] /\ each'[u] = each[u]
    BY InvokeEffect
  <1>1. CallOK(a)'
    BY <1>0 DEF CallOK
  <1>2. ASSUME NEW u \in Task \ {a}
        PROVE  CallOK(u)'
    <2>1. CallOK(u)
      BY DEF CallInv
    <2>2. /\ mpc'[u] = mpc[u] /\ todo'[u] = todo[u] /\ each'[u] = each[u]
          /\ pc'[u] = pc[u]
      BY <1>0
    <2> QED
      BY <2>1, <2>2 DEF CallOK
  <1> QED
    BY <1>1, <1>2 DEF CallInv

LEMMA CallWorks ==
    ASSUME JointInv, CallInv, NEW t \in Task, StoreStep(t)
    PROVE  CallInv'
  <1>1. E!Progress(t) /\ pc' = pc
    BY DEF StoreStep, control
  <1>2. CallOK(t)'
    BY <1>1, ProgressEffect DEF CallInv, CallOK
  <1>3. ASSUME NEW u \in Task \ {t}
        PROVE  CallOK(u)'
    BY <1>1, <1>3, ProgressEffect DEF CallInv, CallOK
  <1> QED
    BY <1>2, <1>3 DEF CallInv

LEMMA BytesStored ==
    ASSUME JointInv
    PROVE  /\ \A t \in Task : reg[t] \in Byte
           /\ 0 \in Byte /\ 1 \in Byte /\ 255 \in Byte /\ Normal \in Byte /\ ConfigPanel \in Byte
           /\ rest # <<>> => /\ Head(rest).to.addr \in Byte /\ Head(rest).to.sub \in Byte
                             /\ Head(rest).to.chan \in Byte /\ Head(rest).type \in Byte
                             /\ Head(rest).to \in Id
  <1>1. \A t \in Task : reg[t] \in {0, 1}
    BY DEF JointInv, LineInv, LineOK
  <1>2. ASSUME rest # <<>>
        PROVE  Head(rest) \in Frame
    BY <1>2, FrameTail DEF JointInv, LineInv, LineOK
  <1>3. rest # <<>> => Head(rest).to \in Id
    BY <1>2 DEF Frame
  <1> QED
    BY <1>1, <1>3, BytesInUse, FrameTail DEF JointInv, LineInv, LineOK

LEMMA ControlCalls ==
    ASSUME JointInv, CallInv, NEW t \in Task, Control(t)
    PROVE  CallInv'
  <1>0. pc \in [Task -> Label]
    BY DEF JointInv, LineInv, LineOK
  <1>1. CASE StoreStep(t)
    BY <1>1, CallWorks
  <1>2. CASE PersistCall(t)
    <2>1. pc'[t] = "persisted" /\ \A u \in Task \ {t} : pc'[u] = pc[u]
      BY <1>0, <1>2 DEF PersistCall, Goto
    <2>2. E!Invoke(t, ByteStore(LAST, reg[t])) /\ reg[t] \in Byte
      BY <1>2, BytesStored DEF PersistCall
    <2> QED
      BY <2>1, <2>2, CallBegins, CellsOf DEF Calling
  <1>3. CASE ~StoreStep(t) /\ ~PersistCall(t)
    <2>1. UNCHANGED memory /\ \A u \in Task \ {t} : pc'[u] = pc[u]
      BY <1>0, <1>3 DEF Control, FlipRead, FlipWrite, ControlType, Pulse, Release, Remote,
         RemoteLed, RemoteRelease, PersistRead, Persisted, Goto, Return
    <2>2. pc[t] \notin Calling \/ mpc[t] = "idle"
      BY <1>3 DEF Control, FlipRead, FlipWrite, ControlType, Pulse, Release, Remote,
         RemoteLed, RemoteRelease, PersistRead, Persisted, Calling, LearnLabel, SaveLabel
    <2>3. mpc[t] = "idle"
      BY <2>2, CallIdle
    <2> QED
      BY <2>1, <2>3, CallElsewhere
  <1> QED
    BY <1>1, <1>2, <1>3

LEMMA ManualCalls ==
    ASSUME JointInv, CallInv, Boot \/ Key \/ Manual
    PROVE  CallInv'
  <1>0. pc \in [Task -> Label] /\ "manual" \in Task /\ Task = {"manual", "net"}
    BY DEF JointInv, LineInv, LineOK, Task
  <1>1. CASE BootModeStore
    <2>1. pc'["manual"] = "bootModeStored" /\ \A u \in Task \ {"manual"} : pc'[u] = pc[u]
      BY <1>0, <1>1 DEF BootModeStore, StoreByte, Goto
    <2>2. E!Invoke("manual", ByteStore(MODE, 0)) /\ 0 \in Byte
      BY <1>1, BytesStored DEF BootModeStore, StoreByte
    <2> QED
      BY <1>0, <2>1, <2>2, CallBegins, CellsOf DEF Calling
  <1>2. CASE SwitchStore
    <2> DEFINE b == IF panel THEN Normal ELSE ConfigPanel
    <2>1. pc'["manual"] = "switched" /\ \A u \in Task \ {"manual"} : pc'[u] = pc[u]
      BY <1>0, <1>2 DEF SwitchStore, StoreByte, Goto
    <2>2. E!Invoke("manual", ByteStore(START, b)) /\ b \in Byte
      BY <1>2, BytesStored DEF SwitchStore, StoreByte
    <2> HIDE DEF b
    <2> QED
      BY <1>0, <2>1, <2>2, CallBegins, CellsOf DEF Calling
  <1>3. CASE BootReport
    <2>1. pc["manual"] = "bootSend" /\ pc["net"] = "off"
      BY <1>3 DEF BootReport, SendData, JointInv, LineInv, NetOff, Booting
    <2>2. \A t \in Task : mpc[t] = "idle"
      BY <1>0, <2>1, CallIdle DEF Calling, LearnLabel, SaveLabel
    <2>3. UNCHANGED memory
      BY <1>3 DEF BootReport, SendData
    <2> QED
      BY <2>2, <2>3 DEF CallInv, CallOK, memory
  <1>4. CASE \/ BootMode \/ BootModeStored \/ BootType \/ Key \/ ButtonPressed
             \/ KeyReport \/ LearnClose \/ SwitchBlink \/ SwitchDone
    <2>1. UNCHANGED memory /\ \A u \in Task \ {"manual"} : pc'[u] = pc[u]
      BY <1>0, <1>4 DEF BootMode, BootModeStored, BootType, Key, ButtonPress, LearnOpen,
         SwitchToConfig, PanelBlink, ButtonPressed, KeyReport, LearnClose, SwitchBlink,
         SwitchDone, Await, Jump, SendData, Begin, Goto
    <2>2. pc["manual"] \notin Calling \/ mpc["manual"] = "idle"
      BY <1>4 DEF BootMode, BootModeStored, BootType, Key, ButtonPress, LearnOpen,
         SwitchToConfig, PanelBlink, ButtonPressed, KeyReport, LearnClose, SwitchBlink,
         SwitchDone, Await, Jump, SendData, Begin, Calling, LearnLabel, SaveLabel
    <2>3. mpc["manual"] = "idle"
      BY <1>0, <2>2, CallIdle
    <2> QED
      BY <1>0, <2>1, <2>3, CallElsewhere
  <1> QED
    BY <1>1, <1>2, <1>3, <1>4 DEF Boot, Manual

LEMMA NetCalls ==
    ASSUME JointInv, CallInv, Net
    PROVE  CallInv'
  <1>0. pc \in [Task -> Label] /\ "net" \in Task
    BY DEF JointInv, LineInv, LineOK, Task
  <1> DEFINE Calls(l, b) ==
        /\ E!Invoke("net", ByteStore(CellOf(l), b)) /\ b \in Byte
        /\ pc'["net"] = l /\ l \in Calling
        /\ \A u \in Task \ {"net"} : pc'[u] = pc[u]
  <1>1. ASSUME NEW l, NEW b, Calls(l, b)
        PROVE  CallInv'
    BY <1>0, <1>1, CallBegins
  <1>2. CASE LearnAddr \/ LearnSub \/ LearnChan \/ LearnType
    <2>1. rest # <<>>
      BY <1>2 DEF JointInv, LineInv, FramePending, Working, LearnAddr, LearnSub, LearnChan,
         LearnType, StoreByte
    <2>2. LearnAddr => Calls("learnSub", Head(rest).to.addr)
      BY <1>0, <2>1, BytesStored, CellsOf DEF LearnAddr, StoreByte, Goto, Calling, LearnLabel
    <2>3. LearnSub => Calls("learnChan", Head(rest).to.sub)
      BY <1>0, <2>1, BytesStored, CellsOf DEF LearnSub, StoreByte, Goto, Calling, LearnLabel
    <2>4. LearnChan => Calls("learnType", Head(rest).to.chan)
      BY <1>0, <2>1, BytesStored, CellsOf DEF LearnChan, StoreByte, Goto, Calling, LearnLabel
    <2>5. LearnType => Calls("learned", Head(rest).type)
      BY <1>0, <2>1, BytesStored, CellsOf DEF LearnType, StoreByte, Goto, Calling, LearnLabel
    <2> HIDE DEF Calls
    <2> QED
      BY <1>1, <1>2, <2>2, <2>3, <2>4, <2>5
  <1>3. CASE LockStore
    <2> DEFINE bit == IF LockValue(Tail(rest)) = 255 THEN 1 ELSE 0
    <2>1. Calls("locking", bit)
      BY <1>0, <1>3, BytesStored, CellsOf DEF LockStore, Goto, Calling
    <2> HIDE DEF Calls, bit
    <2> QED
      BY <1>1, <2>1
  <1>4. CASE SaveSerial \/ SaveAddr \/ SaveSub \/ SaveChan \/ PanelSetup
    <2>1. SaveSerial => Calls("saveAddr", 1)
      BY <1>0, BytesStored, CellsOf DEF SaveSerial, Goto, Calling, SaveLabel
    <2>2. SaveAddr => Calls("saveSub", 255)
      BY <1>0, BytesStored, CellsOf DEF SaveAddr, Goto, Calling, SaveLabel
    <2>3. SaveSub => Calls("saveChan", 255)
      BY <1>0, BytesStored, CellsOf DEF SaveSub, StoreByte, Goto, Calling, SaveLabel
    <2>4. SaveChan => Calls("saved", 255)
      BY <1>0, BytesStored, CellsOf DEF SaveChan, StoreByte, Goto, Calling, SaveLabel
    <2>5. PanelSetup => Calls("panelStored", Normal)
      BY <1>0, BytesStored, CellsOf DEF PanelSetup, StoreByte, Goto, Calling
    <2> HIDE DEF Calls
    <2> QED
      BY <1>1, <1>4, <2>1, <2>2, <2>3, <2>4, <2>5
  <1>5. CASE \/ Analyze \/ FrameIgnored \/ FramesDone \/ PanelStored \/ Learned \/ Switch
             \/ Locked \/ LockNothing \/ BlinkStart \/ Blink \/ BlinkDone \/ Saved
    <2>1. UNCHANGED memory /\ \A u \in Task \ {"net"} : pc'[u] = pc[u]
      BY <1>0, <1>5 DEF Analyze, FrameIgnored, FramesDone, PanelStored, Learned, Locked,
         LockNothing, BlinkStart, Blink, BlinkDone, Saved, Switch, F2Lamp, F2Nothing,
         F2RemoteOn, F2RemoteOff, RemoteOffPulse, RemoteOffRelease, F4Light, F4Nothing,
         SceneSet, SceneToggle, SceneFlipped, SceneReport, FrameReport,
         LampSet, OnlyAnswer, Jump, SendData, Await, Return, NextFrame, Goto
    <2>2. pc["net"] \notin Calling \/ mpc["net"] = "idle"
      BY <1>5 DEF Analyze, FrameIgnored, FramesDone, PanelStored, Learned, Locked,
         LockNothing, BlinkStart, Blink, BlinkDone, Saved, Switch, F2Lamp, F2Nothing,
         F2RemoteOn, F2RemoteOff, RemoteOffPulse, RemoteOffRelease, F4Light, F4Nothing,
         SceneSet, SceneToggle, SceneFlipped, SceneReport, FrameReport, F4Accepted,
         InFrame, Jump, SendData, Await, Calling, LearnLabel, SaveLabel
    <2>3. mpc["net"] = "idle"
      BY <1>0, <2>2, CallIdle
    <2> QED
      BY <1>0, <2>1, <2>3, CallElsewhere
  <1> QED
    BY <1>2, <1>3, <1>4, <1>5 DEF Net, Learn, Maintain

LEMMA NextCalls == JointInv /\ CallInv /\ [Next]_vars => CallInv'
  <1> SUFFICES ASSUME JointInv, CallInv, [Next]_vars
               PROVE  CallInv'
    OBVIOUS
  <1>1. ASSUME NEW t \in Task, Control(t)
        PROVE  CallInv'
    BY <1>1, ControlCalls
  <1>2. Boot \/ Key \/ Manual \/ Net => CallInv'
    BY ManualCalls, NetCalls
  <1>3. ASSUME NEW d \in Inbox, Receive(d)
        PROVE  CallInv'
    <2>1. pc["net"] = "idle" /\ UNCHANGED memory /\ \A u \in Task \ {"net"} : pc'[u] = pc[u]
      BY <1>3 DEF Receive, Begin, Goto, JointInv, LineInv, LineOK
    <2>2. "net" \in Task /\ mpc["net"] = "idle"
      BY <2>1, CallIdle DEF Task, Calling, LearnLabel, SaveLabel
    <2> QED
      BY <2>1, <2>2, CallElsewhere
  <1>4. CASE PowerCut
    BY <1>4 DEF PowerCut, E!PowerCut, CallInv, CallOK
  <1>5. CASE UNCHANGED vars
    BY <1>5 DEF vars, control, memory, CallInv, CallOK
  <1> QED
    BY <1>1, <1>2, <1>3, <1>4, <1>5 DEF Next

LEMMA InitCalls == Init => CallInv
  BY DEF Init, InitFrom, E!InitFrom, CallInv, CallOK

-----------------------------------------------------------------------------
(***************************************************************************)
(* The record.                                                             *)
(***************************************************************************)
RecordCells == {LOCK, ADDR, SUB, CHAN, TYPE}
Special == {"locking"} \cup LearnLabel \cup (SaveLabel \ {"saveAddr"})

LEMMA CellsApart ==
    /\ RecordCells \subseteq 0 .. CellCount - 1
    /\ LAST \notin RecordCells /\ MODE \notin RecordCells /\ START \notin RecordCells
    /\ SERIAL \notin RecordCells
    /\ LOCK # ADDR /\ LOCK # SUB /\ LOCK # CHAN /\ LOCK # TYPE /\ ADDR # SUB /\ ADDR # CHAN
    /\ ADDR # TYPE /\ SUB # CHAN /\ SUB # TYPE /\ CHAN # TYPE
  BY DEF RecordCells, LAST, MODE, LOCK, ADDR, SUB, CHAN, TYPE, SERIAL, START, CellCount

LEMMA SameRecord ==
    ASSUME \A x \in RecordCells : data'[x] = data[x]
    PROVE  RelayFrom(data') = RelayFrom(data)
  BY DEF RecordCells, RelayFrom

(* Steps that leave the network task where it is, and its calls alone.     *)
LEMMA RecordStill ==
    ASSUME RecordInv, relay' = relay, \A x \in RecordCells : data'[x] = data[x],
           pc'["net"] = pc["net"], rest' = rest, reg'["net"] = reg["net"],
           mpc'["net"] = mpc["net"], todo'["net"] = todo["net"]
    PROVE  RecordInv'
  <1>1. data'[ADDR] = data[ADDR] /\ data'[SUB] = data[SUB] /\ data'[CHAN] = data[CHAN]
        /\ data'[TYPE] = data[TYPE] /\ data'[LOCK] = data[LOCK]
    BY DEF RecordCells
  <1>2. LearnProgress' /\ SaveProgress' /\ LockKept'
    BY <1>1 DEF RecordInv, LearnProgress, SaveProgress, LockKept, Put
  <1>3. TypeKept'
    BY <1>1 DEF RecordInv, TypeKept
  <1>4. IdKept'
    BY <1>1, SameRecord DEF RecordInv, IdKept, SameId, Unaddressed
  <1> QED
    BY <1>2, <1>3, <1>4 DEF RecordInv

(* Steps outside the learning, the saving and the locking.                 *)
LEMMA RecordPlain ==
    ASSUME RecordInv, relay' = relay, \A x \in RecordCells : data'[x] = data[x],
           pc["net"] \notin Special, pc'["net"] \notin Special
    PROVE  RecordInv'
  <1>1. data'[LOCK] = data[LOCK] /\ data'[TYPE] = data[TYPE]
    BY DEF RecordCells
  <1>2. LearnProgress' /\ SaveProgress' /\ LockKept'
    BY <1>1 DEF RecordInv, LearnProgress, SaveProgress, LockKept, Special, LearnLabel,
       SaveLabel
  <1>3. TypeKept'
    BY <1>1 DEF RecordInv, TypeKept, Special, LearnLabel
  <1>4. IdKept'
    BY <1>1, SameRecord DEF RecordInv, IdKept, SameId, Unaddressed, Special, Moving,
       LearnLabel, SaveLabel
  <1> QED
    BY <1>2, <1>3, <1>4 DEF RecordInv

LEMMA RecordWorks ==
    ASSUME JointInv, Shape, CallInv, RecordInv, NEW t \in Task, StoreStep(t)
    PROVE  RecordInv'
  <1>0. /\ E!Progress(t)
        /\ relay' = relay /\ pc' = pc /\ rest' = rest /\ reg' = reg
    BY DEF StoreStep, control, line
  <1>1. /\ \A u \in Task \ {t} : mpc'[u] = mpc[u] /\ todo'[u] = todo[u]
        /\ mpc[t] # "idle" /\ mpc'[t] # "store" /\ todo'[t] = <<>>
        /\ \/ \E b \in Byte : Stores(t, CellOf(pc[t]), b)
           \/ mpc[t] # "store" /\ data' = data
    BY <1>0, ProgressEffect
  <1>2. pc[t] \in Calling
    BY <1>1 DEF CallInv, CallOK
  <1>3. CASE mpc[t] # "store" /\ data' = data
    <2>1. CASE t = "net"
      BY <1>0, <1>1, <1>3, <2>1
      DEF RecordInv, LearnProgress, SaveProgress, LockKept, TypeKept, IdKept, Put,
          SameId, Unaddressed
    <2>2. CASE t = "manual"
      BY <1>0, <1>1, <1>3, <2>2, RecordStill DEF Task
    <2> QED
      BY <2>1, <2>2 DEF Task
  <1>4. ASSUME NEW b \in Byte, Stores(t, CellOf(pc[t]), b)
        PROVE  RecordInv'
    <2> DEFINE c == CellOf(pc[t])
    <2>1. c \in 0 .. CellCount - 1
      BY <1>2, CellsOf
    <2>2. /\ mpc[t] = "store" /\ todo[t] = <<<<c, b>>>>
          /\ \A x \in 0 .. CellCount - 1 : data'[x] = IF x = c THEN b ELSE data[x]
      BY <1>4 DEF Stores
    <2>3. CASE c \notin RecordCells
      <3>1. \A x \in RecordCells : data'[x] = data[x]
        BY <2>2, <2>3, CellsApart
      <3>2. CASE t = "manual"
        BY <1>0, <1>1, <3>1, <3>2, RecordStill DEF Task
      <3>3. CASE t = "net"
        <4>1. pc["net"] \notin Special
          BY <1>2, <2>3, <3>3, CellsOf
          DEF Special, Calling, LearnLabel, SaveLabel, RecordCells, Shape, NetShape
        <4> QED
          BY <1>0, <3>1, <4>1, RecordPlain
      <3> QED
        BY <3>2, <3>3 DEF Task
    <2>4. CASE c \in RecordCells
      <3>1. t = "net"
        <4>1. ASSUME t = "manual"
              PROVE  pc[t] \in {"persisted", "bootModeStored", "switched"}
          BY <1>2, <4>1 DEF Shape, ManualShape, ManualLabel, Calling, LearnLabel,
             SaveLabel, Flipping, Driving, Remoting, Switching, BootLabel
        <4> QED
          BY <2>4, <4>1, CellsOf, CellsApart DEF Task
      <3>2. pc["net"] \in {"locking", "learnSub", "learnChan", "learnType", "learned",
                           "saveSub", "saveChan", "saved"}
        BY <1>2, <2>4, <3>1, CellsOf, CellsApart DEF Calling, LearnLabel, SaveLabel
      <3> HIDE DEF c
      <3>3. ASSUME NEW d, NEW v, c = d, Put(d, v)
            PROVE  b = v /\ data'[d] = v /\ Put(d, v)'
        BY <1>1, <2>1, <2>2, <3>1, <3>3 DEF Put
      <3>4. \A x \in RecordCells \ {c} : data'[x] = data[x]
        BY <2>2, CellsApart
      <3>5. CASE pc["net"] = "locking"
        <4>1. c = LOCK
          BY <3>1, <3>5, CellsOf DEF c
        <4>2. Put(LOCK, reg["net"])'
          BY <1>0, <3>3, <3>5, <4>1 DEF RecordInv, LockKept, Put
        <4>3. data'[ADDR] = data[ADDR] /\ data'[SUB] = data[SUB] /\ data'[CHAN] = data[CHAN]
              /\ data'[TYPE] = data[TYPE]
          BY <3>4, <4>1, CellsApart DEF RecordCells
        <4>4. IdKept' /\ TypeKept'
          BY <1>0, <3>5, <4>3 DEF RecordInv, IdKept, TypeKept, SameId, Unaddressed,
             RelayFrom, Moving
        <4> QED
          BY <1>0, <3>5, <4>2, <4>4 DEF RecordInv, LearnProgress, SaveProgress, LockKept,
             LearnLabel
      <3>6. CASE pc["net"] \in {"learnSub", "learnChan", "learnType", "learned"}
        <4>1. data'[LOCK] = data[LOCK] /\ (c # TYPE => data'[TYPE] = data[TYPE])
          BY <3>1, <3>4, <3>6, CellsOf, CellsApart DEF RecordCells, c
        <4>2. LearnProgress'
          <5>1. CASE pc["net"] = "learnSub"
            BY <1>0, <3>1, <3>3, <5>1, CellsOf DEF RecordInv, LearnProgress, c, Put
          <5>2. CASE pc["net"] = "learnChan"
            <6>1. c = SUB /\ data'[ADDR] = data[ADDR]
              BY <3>1, <3>4, <5>2, CellsOf, CellsApart DEF c, RecordCells
            <6> QED
              BY <1>0, <3>3, <5>2, <6>1 DEF RecordInv, LearnProgress, Put
          <5>3. CASE pc["net"] = "learnType"
            <6>1. c = CHAN /\ data'[ADDR] = data[ADDR] /\ data'[SUB] = data[SUB]
              BY <3>1, <3>4, <5>3, CellsOf, CellsApart DEF c, RecordCells
            <6> QED
              BY <1>0, <3>3, <5>3, <6>1 DEF RecordInv, LearnProgress, Put
          <5>4. CASE pc["net"] = "learned"
            <6>1. c = TYPE /\ data'[ADDR] = data[ADDR] /\ data'[SUB] = data[SUB]
                  /\ data'[CHAN] = data[CHAN]
              BY <3>1, <3>4, <5>4, CellsOf, CellsApart DEF c, RecordCells
            <6> QED
              BY <1>0, <3>3, <5>4, <6>1 DEF RecordInv, LearnProgress, Put
          <5> QED
            BY <3>6, <5>1, <5>2, <5>3, <5>4
        <4>3. TypeKept'
          BY <1>0, <1>1, <2>2, <3>1, <3>6, <4>1, CellsOf, CellsApart DEF RecordInv, TypeKept, c
        <4> QED
          BY <1>0, <3>6, <4>1, <4>2, <4>3
          DEF RecordInv, SaveProgress, LockKept, IdKept, Moving
      <3>7. CASE pc["net"] \in {"saveSub", "saveChan", "saved"}
        <4>1. data'[LOCK] = data[LOCK] /\ data'[TYPE] = data[TYPE]
          BY <3>1, <3>4, <3>7, CellsOf, CellsApart DEF RecordCells, c
        <4>2. SaveProgress'
          <5>1. CASE pc["net"] = "saveSub"
            BY <1>0, <3>1, <3>3, <5>1, CellsOf DEF RecordInv, SaveProgress, c, Put
          <5>2. CASE pc["net"] = "saveChan"
            <6>1. c = SUB /\ data'[ADDR] = data[ADDR]
              BY <3>1, <3>4, <5>2, CellsOf, CellsApart DEF c, RecordCells
            <6> QED
              BY <1>0, <3>3, <5>2, <6>1 DEF RecordInv, SaveProgress, Put
          <5>3. CASE pc["net"] = "saved"
            <6>1. c = CHAN /\ data'[ADDR] = data[ADDR] /\ data'[SUB] = data[SUB]
              BY <3>1, <3>4, <5>3, CellsOf, CellsApart DEF c, RecordCells
            <6> QED
              BY <1>0, <3>3, <5>3, <6>1 DEF RecordInv, SaveProgress, Put
          <5> QED
            BY <3>7, <5>1, <5>2, <5>3
        <4> QED
          BY <1>0, <3>7, <4>1, <4>2
          DEF RecordInv, LearnProgress, LearnLabel, TypeKept, LockKept, IdKept, Moving
      <3> QED
        BY <3>2, <3>5, <3>6, <3>7
    <2> QED
      BY <2>3, <2>4
  <1> QED
    BY <1>1, <1>3, <1>4

LEMMA ControlRecord ==
    ASSUME JointInv, Shape, CallInv, RecordInv, NEW t \in Task, Control(t)
    PROVE  RecordInv'
  <1>0. /\ pc \in [Task -> Label] /\ reg \in [Task -> {0, 1}] /\ ret \in [Task -> Label]
        /\ mpc \in [Task -> EP!Phase]
    BY StoreTyped DEF JointInv, LineInv, LineOK
  <1>1. CASE StoreStep(t)
    BY <1>1, RecordWorks
  <1>2. CASE ~StoreStep(t)
    <2>1. relay' = relay /\ rest' = rest /\ data' = data
      <3>1. CASE PersistCall(t)
        BY <3>1, InvokeEffect DEF PersistCall, line
      <3>2. CASE ~PersistCall(t)
        BY <1>2, <3>2 DEF Control, FlipRead, FlipWrite, ControlType, Pulse, Release, Remote,
           RemoteLed, RemoteRelease, PersistRead, Persisted, line, memory
      <3> QED
        BY <3>1, <3>2
    <2>2. \A u \in Task \ {t} : pc'[u] = pc[u] /\ reg'[u] = reg[u]
      BY <1>0, <1>2 DEF Control, FlipRead, FlipWrite, ControlType, Pulse, Release, Remote,
         RemoteLed, RemoteRelease, PersistRead, PersistCall, Persisted, Goto, Return
    <2>3. \A u \in Task \ {t} : mpc'[u] = mpc[u] /\ todo'[u] = todo[u]
      <3>1. CASE PersistCall(t)
        BY <3>1, InvokeEffect DEF PersistCall
      <3>2. CASE ~PersistCall(t)
        BY <1>2, <3>2 DEF Control, FlipRead, FlipWrite, ControlType, Pulse, Release, Remote,
           RemoteLed, RemoteRelease, PersistRead, Persisted, memory
      <3> QED
        BY <3>1, <3>2
    <2>4. CASE t = "manual"
      BY <2>1, <2>2, <2>3, <2>4, RecordStill DEF Task
    <2>5. CASE t = "net"
      <3>1. pc["net"] \in Flipping \cup Driving
        BY <1>2, <2>5 DEF Control, FlipRead, FlipWrite, ControlType, Pulse, Release, Remote,
           RemoteLed, RemoteRelease, PersistRead, PersistCall, Persisted, Flipping, Driving,
           Remoting
      <3>2. pc'["net"] \in Flipping \cup Driving \cup {ret["net"]}
        BY <1>0, <1>2, <2>5 DEF Control, FlipRead, FlipWrite, ControlType, Pulse, Release,
           Remote, RemoteLed, RemoteRelease, PersistRead, PersistCall, Persisted, Goto,
           Return, Flipping, Driving, Remoting
      <3>3. ret["net"] \in {"idle", "sceneFlipped", "blink", "send", "frame", "sceneSend"}
        BY DEF Shape, NetShape
      <3>4. pc["net"] \notin Special /\ pc'["net"] \notin Special
        BY <3>1, <3>2, <3>3 DEF Special, LearnLabel, SaveLabel, Flipping, Driving, Remoting
      <3> QED
        BY <2>1, <3>4, RecordPlain
    <2> QED
      BY <2>4, <2>5 DEF Task
  <1> QED
    BY <1>1, <1>2

LEMMA ManualRecord ==
    ASSUME JointInv, Shape, CallInv, RecordInv, Boot \/ Key \/ Manual
    PROVE  RecordInv'
  <1>0. pc \in [Task -> Label] /\ Task = {"manual", "net"}
    BY DEF JointInv, LineInv, LineOK, Task
  <1>1. relay' = relay /\ rest' = rest /\ data' = data /\ reg' = reg
        /\ mpc'["net"] = mpc["net"] /\ todo'["net"] = todo["net"]
    <2>1. CASE BootModeStore \/ SwitchStore
      BY <1>0, <2>1, InvokeEffect DEF BootModeStore, SwitchStore, StoreByte, line
    <2>2. CASE ~(BootModeStore \/ SwitchStore)
      BY <2>2 DEF Boot, Key, Manual, BootMode, BootModeStored, BootType, BootReport,
         ButtonPress, LearnOpen, SwitchToConfig, PanelBlink, ButtonPressed, KeyReport,
         LearnClose, SwitchBlink, SwitchDone, Await, Jump, SendData, Begin, line, memory
    <2> QED
      BY <2>1, <2>2
  <1>2. CASE BootReport
    <2>1. pc["net"] = "off" /\ pc'["net"] \in {"idle", "panelSetup"}
      BY <1>0, <1>2 DEF BootReport, SendData, JointInv, LineInv, NetOff, Booting
    <2>2. pc["net"] \notin Special /\ pc'["net"] \notin Special
      BY <2>1 DEF Special, LearnLabel, SaveLabel
    <2> QED
      BY <1>1, <2>2, RecordPlain
  <1>3. CASE ~BootReport
    <2>1. pc'["net"] = pc["net"]
      BY <1>0, <1>3 DEF Boot, Key, Manual, BootMode, BootModeStore, BootModeStored, BootType,
         ButtonPress, LearnOpen, SwitchToConfig, PanelBlink, ButtonPressed, KeyReport,
         LearnClose, SwitchBlink, SwitchStore, SwitchDone, Await, Jump, SendData, Begin,
         StoreByte, Goto
    <2> QED
      BY <1>1, <2>1, RecordStill
  <1> QED
    BY <1>2, <1>3

LEMMA NetInvoke ==
    ASSUME JointInv, NEW c, NEW b, E!Invoke("net", ByteStore(c, b))
    PROVE  mpc["net"] = "idle" /\ mpc'["net"] = "store" /\ data' = data /\ Put(c, b)'
  <1>1. /\ mpc["net"] = "idle" /\ mpc'["net"] = "store" /\ data' = data
        /\ todo'["net"] = <<<<c, b>>>>
    BY InvokeEffect DEF Task
  <1> QED
    BY <1>1 DEF Put

(* The network task's four stores of a learned address, one after another. *)
LEMMA LearnRecord ==
    ASSUME JointInv, Shape, CallInv, RecordInv, Learn
    PROVE  RecordInv'
  <1>0. pc \in [Task -> Label] /\ "net" \in Task /\ relay \in Record
    BY DEF JointInv, LineInv, LineOK, Task
  <1>1. CASE Learned
    <2> DEFINE f == Head(rest)
    <2>1. /\ pc["net"] = "learned" /\ mpc["net"] = "idle" /\ pc'["net"] = "idle"
          /\ relay' = [addr |-> f.to.addr, sub |-> f.to.sub, chan |-> f.to.chan,
                       type |-> f.type, lock |-> relay.lock]
          /\ data' = data
      BY <1>0, <1>1 DEF Learned, Goto, memory
    <2>2. /\ data[ADDR] = f.to.addr /\ data[SUB] = f.to.sub /\ data[CHAN] = f.to.chan
          /\ data[TYPE] = f.type /\ f.type \in Lamp \cup {T_RemoteRelay}
      BY <2>1 DEF RecordInv, LearnProgress, LearnLabel, Put
    <2>3. f.type # 255
      BY <2>2 DEF Lamp, T_Light, T_Siren, T_RemoteRelay
    <2>4. SameId' /\ TypeKept'
      BY <2>1, <2>2, <2>3 DEF SameId, RelayFrom, TypeKept
    <2>5. LockKept'
      BY <2>1 DEF RecordInv, LockKept
    <2> QED
      BY <2>1, <2>4, <2>5 DEF RecordInv, LearnProgress, SaveProgress, IdKept, LearnLabel
  <1>2. CASE LearnAddr \/ LearnSub \/ LearnChan \/ LearnType
    <2> DEFINE f == Head(rest)
    <2>1. /\ mpc["net"] = "idle" /\ mpc'["net"] = "store" /\ data' = data
          /\ LearnAddr => Put(ADDR, f.to.addr)' /\ rest' = rest
          /\ LearnSub => Put(SUB, f.to.sub)' /\ rest' = rest
          /\ LearnChan => Put(CHAN, f.to.chan)' /\ rest' = rest
          /\ LearnType => Put(TYPE, f.type)' /\ rest' = rest
      <3>1. ASSUME LearnAddr
            PROVE  E!Invoke("net", ByteStore(ADDR, f.to.addr)) /\ rest' = rest
        BY <3>1 DEF LearnAddr, StoreByte
      <3>2. ASSUME LearnSub
            PROVE  E!Invoke("net", ByteStore(SUB, f.to.sub)) /\ rest' = rest
        BY <3>2 DEF LearnSub, StoreByte
      <3>3. ASSUME LearnChan
            PROVE  E!Invoke("net", ByteStore(CHAN, f.to.chan)) /\ rest' = rest
        BY <3>3 DEF LearnChan, StoreByte
      <3>4. ASSUME LearnType
            PROVE  E!Invoke("net", ByteStore(TYPE, f.type)) /\ rest' = rest
        BY <3>4 DEF LearnType, StoreByte
      <3> QED
        BY <1>2, <3>1, <3>2, <3>3, <3>4, NetInvoke
    <2>2. relay' = relay /\ rest' = rest
      BY <1>2 DEF LearnAddr, LearnSub, LearnChan, LearnType, StoreByte, line
    <2>3. /\ LearnAddr => pc["net"] = "learnAddr" /\ pc'["net"] = "learnSub"
          /\ LearnSub => pc["net"] = "learnSub" /\ pc'["net"] = "learnChan"
          /\ LearnChan => pc["net"] = "learnChan" /\ pc'["net"] = "learnType"
          /\ LearnType => pc["net"] = "learnType" /\ pc'["net"] = "learned"
      BY <1>0, <1>2 DEF LearnAddr, LearnSub, LearnChan, LearnType, StoreByte, Goto
    <2>4. LearnProgress'
      BY <1>2, <2>1, <2>2, <2>3 DEF RecordInv, LearnProgress, LearnLabel, Put
    <2>5. LockKept' /\ TypeKept'
      BY <1>2, <2>1, <2>2, <2>3 DEF RecordInv, LockKept, TypeKept
    <2> QED
      BY <1>2, <2>3, <2>4, <2>5 DEF RecordInv, SaveProgress, IdKept, Moving
  <1> QED
    BY <1>1, <1>2 DEF Learn

(* A serial number erases the address in the store, then in RAM.           *)
LEMMA SaveRecord ==
    ASSUME JointInv, Shape, CallInv, RecordInv, SaveAddr \/ SaveSub \/ SaveChan \/ Saved
    PROVE  RecordInv'
  <1>0. pc \in [Task -> Label] /\ "net" \in Task /\ relay \in Record
    BY DEF JointInv, LineInv, LineOK, Task
  <1>1. CASE Saved
    <2>1. /\ pc["net"] = "saved" /\ mpc["net"] = "idle" /\ pc'["net"] = "blink"
          /\ relay'.addr = 255 /\ relay'.sub = 255 /\ relay'.chan = 255
          /\ relay'.type = relay.type /\ relay'.lock = relay.lock
          /\ data' = data
      BY <1>0, <1>1 DEF Saved, Goto, memory, Record
    <2>2. data[ADDR] = 255 /\ data[SUB] = 255 /\ data[CHAN] = 255
      BY <2>1 DEF RecordInv, SaveProgress, Put
    <2>3. data[TYPE] = 255 \/ relay.type = data[TYPE]
      BY <2>1 DEF RecordInv, TypeKept
    <2>4. TypeKept' /\ LockKept'
      BY <2>1, <2>3 DEF RecordInv, TypeKept, LockKept
    <2>5. Unaddressed' \/ SameId'
      BY <2>1, <2>2, <2>3 DEF Unaddressed, SameId, RelayFrom
    <2> QED
      BY <2>1, <2>4, <2>5 DEF RecordInv, LearnProgress, SaveProgress, IdKept, LearnLabel
  <1>2. CASE SaveAddr \/ SaveSub \/ SaveChan
    <2>1. /\ mpc["net"] = "idle" /\ mpc'["net"] = "store" /\ data' = data
          /\ SaveAddr => Put(ADDR, 255)'
          /\ SaveSub => Put(SUB, 255)'
          /\ SaveChan => Put(CHAN, 255)'
      <3>1. /\ SaveAddr => E!Invoke("net", ByteStore(ADDR, 255))
            /\ SaveSub => E!Invoke("net", ByteStore(SUB, 255))
            /\ SaveChan => E!Invoke("net", ByteStore(CHAN, 255))
        BY DEF SaveAddr, SaveSub, SaveChan, StoreByte
      <3> QED
        BY <1>2, <3>1, NetInvoke
    <2>2. relay' = relay
      BY <1>2 DEF SaveAddr, SaveSub, SaveChan, StoreByte, line
    <2>3. /\ SaveAddr => pc["net"] = "saveAddr" /\ pc'["net"] = "saveSub"
          /\ SaveSub => pc["net"] = "saveSub" /\ pc'["net"] = "saveChan"
          /\ SaveChan => pc["net"] = "saveChan" /\ pc'["net"] = "saved"
      BY <1>0, <1>2 DEF SaveAddr, SaveSub, SaveChan, StoreByte, Goto
    <2>4. SaveProgress'
      BY <1>2, <2>1, <2>3 DEF RecordInv, SaveProgress, Put
    <2>5. LockKept' /\ TypeKept'
      BY <1>2, <2>1, <2>2, <2>3 DEF RecordInv, LockKept, TypeKept
    <2> QED
      BY <1>2, <2>3, <2>4, <2>5 DEF RecordInv, LearnProgress, LearnLabel, IdKept, Moving
  <1> QED
    BY <1>1, <1>2

(* The lock goes to the store, then to RAM.                                *)
LEMMA LockRecord ==
    ASSUME JointInv, Shape, CallInv, RecordInv, LockStore \/ Locked
    PROVE  RecordInv'
  <1>0. /\ pc \in [Task -> Label] /\ "net" \in Task /\ relay \in Record
        /\ reg \in [Task -> {0, 1}]
    BY DEF JointInv, LineInv, LineOK, Task
  <1>1. CASE LockStore
    <2> DEFINE bit == IF LockValue(Tail(rest)) = 255 THEN 1 ELSE 0
    <2>1. E!Invoke("net", ByteStore(LOCK, bit)) /\ reg'["net"] = bit
      BY <1>0, <1>1 DEF LockStore
    <2> HIDE DEF bit
    <2>2. Put(LOCK, reg["net"])' /\ data' = data
      BY <2>1, NetInvoke DEF Put
    <2>3. pc["net"] = "frame" /\ pc'["net"] = "locking" /\ relay' = relay
      BY <1>0, <1>1 DEF LockStore, InFrame, Goto, line
    <2>4. LockKept'
      BY <2>2, <2>3 DEF LockKept
    <2> QED
      BY <2>2, <2>3, <2>4 DEF RecordInv, LearnProgress, SaveProgress, TypeKept, IdKept,
         SameId, Unaddressed, LearnLabel, Moving
  <1>2. CASE Locked
    <2>1. /\ pc["net"] = "locking" /\ mpc["net"] = "idle" /\ pc'["net"] = "frame"
          /\ relay'.addr = relay.addr /\ relay'.sub = relay.sub /\ relay'.chan = relay.chan
          /\ relay'.type = relay.type /\ relay'.lock = (reg["net"] = 1)
          /\ data' = data
      BY <1>0, <1>2 DEF Locked, Goto, memory, Record
    <2>2. data[LOCK] = reg["net"]
      BY <2>1 DEF RecordInv, LockKept, Put
    <2>3. LockKept'
      BY <2>1, <2>2 DEF LockKept
    <2> QED
      BY <2>1, <2>3 DEF RecordInv, LearnProgress, SaveProgress, TypeKept, IdKept,
         SameId, Unaddressed, LearnLabel, Moving
  <1> QED
    BY <1>1, <1>2

LEMMA NetRecord ==
    ASSUME JointInv, Shape, CallInv, RecordInv, Net
    PROVE  RecordInv'
  <1>0. pc \in [Task -> Label] /\ "net" \in Task
    BY DEF JointInv, LineInv, LineOK, Task
  <1>1. CASE Learn
    BY <1>1, LearnRecord
  <1>2. CASE SaveAddr \/ SaveSub \/ SaveChan \/ Saved
    BY <1>2, SaveRecord
  <1>3. CASE LockStore \/ Locked
    BY <1>3, LockRecord
  <1>4. CASE Analyze
    <2>1. relay' = relay /\ data' = data /\ pc["net"] = "analyze"
      BY <1>4 DEF Analyze, line, memory
    <2>2. CASE pc'["net"] = "learnAddr"
      <3>1. Head(rest') = Head(rest) /\ Learnable(Head(rest))
        BY <1>0, <1>4, <2>2 DEF Analyze, Goto
      <3>2. LearnProgress'
        BY <2>2, <3>1 DEF LearnProgress, Learnable
      <3> QED
        BY <2>1, <2>2, <3>2 DEF RecordInv, SaveProgress, LockKept, TypeKept, IdKept, SameId,
           Unaddressed, Moving
    <2>3. CASE pc'["net"] # "learnAddr"
      <3>1. pc["net"] \notin Special /\ pc'["net"] \notin Special
        BY <1>0, <1>4, <2>3 DEF Analyze, Goto, Special, LearnLabel, SaveLabel
      <3> QED
        BY <2>1, <3>1, RecordPlain
    <2> QED
      BY <2>2, <2>3
  <1>5. CASE Switch
    <2>1. relay' = relay /\ data' = data
      BY <1>5 DEF Switch, F2Lamp, F2Nothing, F2RemoteOn, F2RemoteOff, RemoteOffPulse,
         RemoteOffRelease, F4Light, F4Nothing, SceneSet, SceneToggle, SceneFlipped,
         SceneReport, FrameReport, LampSet, OnlyAnswer, Jump, SendData, line, memory
    <2>2. pc["net"] \in {"frame", "sceneFlipped", "sceneSend", "send"} \cup Offing
      BY <1>5 DEF Switch, F2Lamp, F2Nothing, F2RemoteOn, F2RemoteOff, RemoteOffPulse,
         RemoteOffRelease, F4Light, F4Nothing, SceneSet, SceneToggle, SceneFlipped,
         SceneReport, FrameReport, F4Accepted, InFrame, Jump, SendData, Offing
    <2>3. pc'["net"] \in {"frame", "send", "persist", "control", "flip", ret["net"]} \cup Offing
      BY <1>0, <1>5 DEF Switch, F2Lamp, F2Nothing, F2RemoteOn, F2RemoteOff, RemoteOffPulse,
         RemoteOffRelease, F4Light, F4Nothing, SceneSet, SceneToggle, SceneFlipped,
         SceneReport, FrameReport, LampSet, OnlyAnswer, AfterF2, Jump, SendData, Goto,
         Return, Offing
    <2>4. ret["net"] \in {"idle", "sceneFlipped", "blink", "send", "frame", "sceneSend"}
      BY DEF Shape, NetShape
    <2>5. pc["net"] \notin Special /\ pc'["net"] \notin Special
      BY <2>2, <2>3, <2>4 DEF Special, LearnLabel, SaveLabel, Offing
    <2> QED
      BY <2>1, <2>5, RecordPlain
  <1>6. CASE SaveSerial \/ PanelSetup
    <2>1. relay' = relay /\ data' = data
      BY <1>0, <1>6, InvokeEffect DEF SaveSerial, PanelSetup, StoreByte, line
    <2>2. pc["net"] \notin Special /\ pc'["net"] \notin Special
      BY <1>0, <1>6 DEF SaveSerial, PanelSetup, StoreByte, InFrame, Goto, Special,
         LearnLabel, SaveLabel
    <2> QED
      BY <2>1, <2>2, RecordPlain
  <1>7. CASE \/ FrameIgnored \/ FramesDone \/ LockNothing \/ BlinkStart \/ Blink \/ BlinkDone
             \/ PanelStored
    <2>1. relay' = relay /\ data' = data
      BY <1>7 DEF FrameIgnored, FramesDone, LockNothing, BlinkStart, Blink, BlinkDone,
         PanelStored, Await, line, memory
    <2>2. pc["net"] \notin Special /\ pc'["net"] \notin Special
      BY <1>0, <1>7 DEF FrameIgnored, FramesDone, LockNothing, BlinkStart, Blink, BlinkDone,
         PanelStored, Await, InFrame, NextFrame, Goto, Special, LearnLabel, SaveLabel
    <2> QED
      BY <2>1, <2>2, RecordPlain
  <1> QED
    BY <1>1, <1>2, <1>3, <1>4, <1>5, <1>6, <1>7 DEF Net, Maintain

LEMMA BootRecord ==
    ASSUME NEW image, relay' = RelayFrom(image), data' = image, pc'["net"] = "off"
    PROVE  RecordInv'
  <1>1. SameId' /\ LockKept'
    BY DEF SameId, LockKept, RelayFrom
  <1>2. TypeKept'
    BY DEF TypeKept, RelayFrom
  <1> QED
    BY <1>1, <1>2 DEF RecordInv, LearnProgress, SaveProgress, IdKept, LearnLabel

LEMMA NextRecord == JointInv /\ Shape /\ CallInv /\ RecordInv /\ [Next]_vars => RecordInv'
  <1> SUFFICES ASSUME JointInv, Shape, CallInv, RecordInv, [Next]_vars
               PROVE  RecordInv'
    OBVIOUS
  <1>1. ASSUME NEW t \in Task, Control(t)
        PROVE  RecordInv'
    BY <1>1, ControlRecord
  <1>2. Boot \/ Key \/ Manual \/ Net => RecordInv'
    BY ManualRecord, NetRecord
  <1>3. ASSUME NEW d \in Inbox, Receive(d)
        PROVE  RecordInv'
    <2>1. relay' = relay /\ data' = data /\ pc["net"] = "idle" /\ pc'["net"] = "analyze"
      BY <1>3 DEF Receive, Begin, Goto, line, memory, JointInv, LineInv, LineOK, Task
    <2> QED
      BY <2>1, RecordPlain DEF Special, LearnLabel, SaveLabel
  <1>4. CASE PowerCut
    <2>1. relay' = RelayFrom(flash) /\ data' = flash /\ pc'["net"] = "off"
      BY <1>4 DEF PowerCut, BootRam, E!PowerCut
    <2> QED
      BY <2>1, BootRecord
  <1>5. CASE UNCHANGED vars
    BY <1>5, RecordStill DEF vars, control, line, memory
  <1> QED
    BY <1>1, <1>2, <1>3, <1>4, <1>5 DEF Next

LEMMA InitRecord == Init => RecordInv
  <1> SUFFICES ASSUME NEW image \in Fresh, InitFrom(image)
               PROVE  RecordInv
    BY DEF Init
  <1>1. relay = RelayFrom(image) /\ data = image /\ pc["net"] = "off"
    BY DEF InitFrom, E!InitFrom, BootRam
  <1>2. SameId /\ LockKept /\ TypeKept
    BY <1>1 DEF SameId, LockKept, TypeKept, RelayFrom
  <1> QED
    BY <1>1, <1>2 DEF RecordInv, LearnProgress, SaveProgress, IdKept, LearnLabel

RecordSafe == JointInv /\ Shape /\ CallInv /\ RecordInv

LEMMA RecordSafeAlways == Spec => []RecordSafe
  <1>1. Init => RecordSafe
    BY InitJoint, InitShape, InitCalls, InitRecord DEF RecordSafe
  <1>2. RecordSafe /\ [Next]_vars => RecordSafe'
    <2>1. JointInv => LineInv
      BY DEF JointInv
    <2> QED
      BY <2>1, NextJoint, NextShape, NextCalls, NextRecord DEF RecordSafe
  <1> QED
    BY <1>1, <1>2, PTL DEF Spec

(* The address the line answers to is the one a restart would load from    *)
(* the image, whatever frames arrive in whatever order, except while it is *)
(* being rewritten and except on a device whose type was never stored and  *)
(* whose address a serial number erased.  (dvcbutton.h                     *)
(* Manual__SetAddressLine, dvc.h Dvc__AnalyzeData, Tools__DvcAddressLoad)  *)
THEOREM RecordKept == Spec => []RecordIsStored
  <1>1. RecordSafe => RecordIsStored
    <2> SUFFICES ASSUME RecordSafe, ~Rewriting, ~Unaddressed
                 PROVE  relay = RelayFrom(data)
      BY DEF RecordIsStored
    <2>1. SameId /\ relay.lock = (data[LOCK] = 1)
      BY DEF RecordSafe, RecordInv, IdKept, LockKept, Rewriting, Moving
    <2>2. relay \in Record
      BY DEF RecordSafe, JointInv, LineInv, LineOK
    <2> QED
      BY <2>1, <2>2 DEF SameId, RelayFrom, Record
  <1> QED
    BY <1>1, RecordSafeAlways, PTL

-----------------------------------------------------------------------------
(***************************************************************************)
(* The order in which a learned address reaches flash.  While no store     *)
(* calls overlap, flash is the image a step behind: the type in it is the  *)
(* one in use, or none, until the whole of the new address is there.       *)
(***************************************************************************)
(* What flash may hold of the type while an address is learned.            *)
TypeOrder ==
    \/ flash[TYPE] = 255
    \/ flash[TYPE] = relay.type
    \/ pc["net"] = "learned" /\ IdIn(flash) = Head(rest).to
TypeInFlash == ~raced /\ ~dirty /\ Learning => TypeOrder

(* A step in the middle of learning is a store call of the network task,   *)
(* or it leaves that task where it is.                                     *)
LEMMA LearningSteps ==
    ASSUME RecordSafe, [Next]_vars, Learning'
    PROVE  \/ \E c \in RecordCells, b \in Byte : E!Invoke("net", ByteStore(c, b))
           \/ Learning /\ relay' = relay /\ rest' = rest /\ pc'["net"] = pc["net"]
  <1> DEFINE Calls == \E c \in RecordCells, b \in Byte : E!Invoke("net", ByteStore(c, b))
             Stays == Learning /\ relay' = relay /\ rest' = rest /\ pc'["net"] = pc["net"]
  <1>0. /\ pc \in [Task -> Label] /\ ret \in [Task -> Label] /\ Task = {"manual", "net"}
        /\ JointInv /\ Shape
    BY DEF RecordSafe, JointInv, LineInv, LineOK, Task
  <1>1. ret["net"] \in {"idle", "sceneFlipped", "blink", "send", "frame", "sceneSend"}
    BY <1>0 DEF Shape, NetShape
  <1>2. pc'["net"] \in {"learnSub", "learnChan", "learnType", "learned"}
    BY DEF Learning
  <1>3. ASSUME NEW t \in Task, Control(t)
        PROVE  Stays
    <2>1. relay' = relay /\ rest' = rest
      BY <1>3 DEF Control, FlipRead, FlipWrite, ControlType, Pulse, Release, Remote,
         RemoteLed, RemoteRelease, PersistRead, PersistCall, Persisted, StoreStep, line
    <2>2. pc' = pc \/ \A u \in Task \ {t} : pc'[u] = pc[u]
      BY <1>0, <1>3 DEF Control, FlipRead, FlipWrite, ControlType, Pulse, Release, Remote,
         RemoteLed, RemoteRelease, PersistRead, PersistCall, Persisted, StoreStep, Goto,
         Return, control
    <2>3. CASE StoreStep(t) \/ t = "manual"
      BY <1>0, <2>1, <2>2, <2>3 DEF StoreStep, control, Learning
    <2>4. CASE ~StoreStep(t) /\ t = "net"
      <3>1. pc'["net"] \in Flipping \cup Driving \cup {ret["net"]}
        BY <1>0, <1>3, <2>4 DEF Control, FlipRead, FlipWrite, ControlType, Pulse, Release,
           Remote, RemoteLed, RemoteRelease, PersistRead, PersistCall, Persisted, Goto,
           Return, Flipping, Driving, Remoting
      <3> QED
        BY <1>1, <1>2, <3>1 DEF Flipping, Driving, Remoting
    <2> QED
      BY <1>0, <2>3, <2>4
  <1>4. CASE Boot \/ Key \/ Manual
    <2>1. relay' = relay /\ rest' = rest
      BY <1>4 DEF Boot, Key, Manual, BootMode, BootModeStore, BootModeStored, BootType,
         BootReport, ButtonPress, LearnOpen, SwitchToConfig, PanelBlink, ButtonPressed,
         KeyReport, LearnClose, SwitchBlink, SwitchStore, SwitchDone, Await, Jump, SendData,
         Begin, StoreByte, line
    <2>2. BootReport => pc'["net"] \in {"panelSetup", "idle"}
      BY <1>0 DEF BootReport
    <2>3. pc'["net"] = pc["net"]
      BY <1>0, <1>2, <1>4, <2>2 DEF Boot, Key, Manual, BootMode, BootModeStore,
         BootModeStored, BootType, ButtonPress, LearnOpen, SwitchToConfig, PanelBlink,
         ButtonPressed, KeyReport, LearnClose, SwitchBlink, SwitchStore, SwitchDone, Await,
         Jump, SendData, Begin, StoreByte, Goto
    <2> QED
      BY <2>1, <2>3 DEF Learning
  <1>5. CASE Learn
    <2>1. pc["net"] \in LearnLabel /\ pc'["net"] # "idle" => rest # <<>>
      BY <1>0 DEF JointInv, LineInv, FramePending, Working, LearnLabel
    <2>2. pc["net"] \in LearnLabel
      BY <1>5 DEF Learn, LearnAddr, LearnSub, LearnChan, LearnType, Learned, StoreByte,
         LearnLabel
    <2>3. /\ Head(rest).to.addr \in Byte /\ Head(rest).to.sub \in Byte
          /\ Head(rest).to.chan \in Byte /\ Head(rest).type \in Byte
      BY <1>0, <1>2, <2>1, <2>2, BytesStored
    <2>4. ~Learned
      BY <1>0, <1>2 DEF Learned, Goto
    <2>5. /\ LearnAddr => E!Invoke("net", ByteStore(ADDR, Head(rest).to.addr))
          /\ LearnSub => E!Invoke("net", ByteStore(SUB, Head(rest).to.sub))
          /\ LearnChan => E!Invoke("net", ByteStore(CHAN, Head(rest).to.chan))
          /\ LearnType => E!Invoke("net", ByteStore(TYPE, Head(rest).type))
      BY DEF LearnAddr, LearnSub, LearnChan, LearnType, StoreByte
    <2> QED
      BY <1>5, <2>3, <2>4, <2>5 DEF Learn, RecordCells
  <1>6. ~Analyze /\ ~FrameIgnored /\ ~FramesDone /\ ~PanelSetup /\ ~PanelStored
    BY <1>0, <1>2 DEF Analyze, FrameIgnored, FramesDone, PanelSetup, PanelStored, StoreByte,
       Await, Goto
  <1>7. ~Switch
    BY <1>0, <1>1, <1>2 DEF Switch, F2Lamp, F2Nothing, F2RemoteOn, F2RemoteOff,
       RemoteOffPulse, RemoteOffRelease, F4Light, F4Nothing, SceneSet, SceneToggle,
       SceneFlipped, SceneReport, FrameReport, LampSet, OnlyAnswer, AfterF2, Jump, SendData,
       Goto, Return
  <1>8. ~Maintain
    BY <1>0, <1>2 DEF Maintain, LockStore, Locked, LockNothing, SaveSerial, SaveAddr,
       SaveSub, SaveChan, Saved, BlinkStart, Blink, BlinkDone, StoreByte, NextFrame, Goto
  <1>9. (~\E d \in Inbox : Receive(d)) /\ ~PowerCut
    BY <1>0, <1>2 DEF Receive, PowerCut, Goto
  <1>10. UNCHANGED vars => Stays
    BY DEF vars, control, line, Learning
  <1> QED
    BY <1>3, <1>4, <1>5, <1>6, <1>7, <1>8, <1>9, <1>10 DEF Next, Net

(* What flash holds when no change is only in RAM.                         *)
LEMMA FlashAsStored == RecordSafe /\ Learning /\ flash = data => TypeOrder
  <1> SUFFICES ASSUME RecordSafe, Learning, flash = data
               PROVE  TypeOrder
    OBVIOUS
  <1>0. JointInv /\ TypeKept /\ LearnProgress
    BY DEF RecordSafe, RecordInv
  <1>1. CASE pc["net"] = "learned" /\ mpc["net"] # "store"
    <2>1. rest # <<>>
      BY <1>0, <1>1 DEF JointInv, LineInv, FramePending, Working
    <2>2. Head(rest).to \in Id
      BY <1>0, <2>1, BytesStored
    <2>3. /\ data[ADDR] = Head(rest).to.addr /\ data[SUB] = Head(rest).to.sub
          /\ data[CHAN] = Head(rest).to.chan
      BY <1>0, <1>1 DEF LearnProgress
    <2>4. IdIn(flash) = Head(rest).to
      BY <2>2, <2>3 DEF IdIn, Id
    <2> QED
      BY <1>1, <2>4 DEF TypeOrder
  <1>2. CASE data[TYPE] = 255 \/ relay.type = data[TYPE]
    BY <1>2 DEF TypeOrder
  <1> QED
    BY <1>0, <1>1, <1>2 DEF TypeKept

LEMMA NextTypeInFlash ==
    ASSUME RecordSafe, RecordSafe', TypeInFlash, [Next]_vars
    PROVE  TypeInFlash'
  <1> SUFFICES ASSUME ~raced', ~dirty', Learning'
               PROVE  TypeOrder'
    BY DEF TypeInFlash
  <1>0. /\ JointInv /\ CallInv /\ EP!StoreInv /\ EP!StoreInv' /\ mpc \in [Task -> EP!Phase]
        /\ mpc' \in [Task -> EP!Phase]
    BY DEF RecordSafe, JointInv, EP!StoreInv, EP!TypeInv, EP!TypeOK
  <1>1. CASE \A u \in Task : mpc'[u] # "mark"
    <2>1. flash' = data'
      BY <1>0, <1>1 DEF EP!StoreInv, EP!DirtyTruthful
    <2>2. (RecordSafe /\ Learning /\ flash = data => TypeOrder)'
      BY FlashAsStored, PTL
    <2> QED
      BY <2>1, <2>2
  <1>2. ASSUME NEW u \in Task, mpc'[u] = "mark"
        PROVE  TypeOrder'
    <2>1. [E!Next]_(E!store)
      BY <1>0, NextStores DEF JointInv
    <2>2. ~E!PowerCut
      BY <1>2 DEF E!PowerCut
    <2>3. ASSUME NEW t \in Task, NEW c, E!Invoke(t, c)
          PROVE  mpc[u] = "mark" /\ raced'
      BY <1>0, <1>2, <2>3 DEF E!Invoke, E!Busy
    <2>4. (\E t \in Task : E!Progress(t)) \/ UNCHANGED E!store
      BY <2>1, <2>2, <2>3 DEF E!Next
    <2>5. raced' = raced
      BY <1>0, <2>4, ProgressEffect DEF E!store, E!call, E!ghosts
    <2>6. \A t, v \in Task : mpc[t] # "idle" /\ mpc[v] # "idle" => t = v
      BY <1>0, <2>5 DEF EP!StoreInv, EP!NoRace, EP!Solitary, EP!Busy
    <2>7. Learning /\ relay' = relay /\ rest' = rest /\ pc'["net"] = pc["net"]
      BY <2>3, LearningSteps DEF Task
    <2>8. CASE UNCHANGED E!store
      BY <2>5, <2>7, <2>8 DEF TypeInFlash, TypeOrder, IdIn, E!store
    <2>9. ASSUME NEW t \in Task, E!Progress(t)
          PROVE  TypeOrder'
      <3>1. /\ mpc[t] # "idle" /\ \A v \in Task \ {t} : mpc'[v] = mpc[v]
            /\ \/ \E b \in Byte : Stores(t, CellOf(pc[t]), b)
               \/ mpc'[t] # "mark"
        BY <1>0, <2>9, ProgressEffect
      <3>2. u = t
        BY <1>2, <2>6, <3>1
      <3>3. mpc[t] = "store" /\ flash' = flash /\ dirty' = dirty
        BY <1>2, <3>1, <3>2 DEF Stores
      <3>4. flash = data
        <4>1. \A v \in Task : mpc[v] # "mark"
          BY <2>6, <3>1, <3>3
        <4> QED
          BY <1>0, <2>5, <3>3, <4>1 DEF EP!StoreInv, EP!DirtyTruthful
      <3> QED
        BY <2>7, <3>3, <3>4, FlashAsStored DEF TypeOrder, IdIn
    <2> QED
      BY <2>4, <2>8, <2>9
  <1> QED
    BY <1>1, <1>2

(* The type is the last byte of a learned address to reach flash: for any  *)
(* frames and any image, a power cut in the middle of learning never       *)
(* leaves the new type on an address that is partly the old one, unless    *)
(* store calls overlapped or a change is not committed yet.                *)
(* (dvcbutton.h Manual__SetAddressLine, EEPROM2.cpp commit)                *)
THEOREM TypeIsLast == Spec => []TypeCommitsLast
  <1>1. Init => TypeInFlash
    BY DEF Init, InitFrom, TypeInFlash, Learning, Task
  <1>2. RecordSafe /\ TypeInFlash => TypeCommitsLast
    <2> SUFFICES ASSUME RecordSafe, TypeInFlash, ~raced, ~dirty, Learning,
                        flash[TYPE] = Head(rest).type, Head(rest).type # relay.type
                 PROVE  IdIn(flash) = Head(rest).to
      BY DEF TypeCommitsLast
    <2>1. Head(rest).type \in Lamp \cup {T_RemoteRelay}
      BY DEF RecordSafe, RecordInv, LearnProgress, LearnLabel, Learning
    <2>2. flash[TYPE] # 255
      BY <2>1 DEF Lamp, T_Light, T_Siren, T_RemoteRelay
    <2> QED
      BY <2>2 DEF TypeInFlash, TypeOrder
  <1>3. RecordSafe /\ RecordSafe' /\ TypeInFlash /\ [Next]_vars => TypeInFlash'
    BY NextTypeInFlash
  <1> QED
    BY <1>1, <1>2, <1>3, RecordSafeAlways, PTL DEF Spec
=============================================================================
