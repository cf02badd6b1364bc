--------------------------- MODULE PlugRelayProofs --------------------------
(***************************************************************************)
(* What holds of the switched line for every set of frames, keys and       *)
(* EEPROM images: its state is well typed, the settings store it composes  *)
(* behaves as PlugEeprom says, and no coil line is left energised.         *)
(***************************************************************************)
EXTENDS PlugRelay, SequenceTheorems, TLAPS

(* The frame a control point works on has not been consumed yet, and the   *)
(* only function called while it is kept is the flip of a blink.           *)
Working == {"analyze", "learnAddr", "learnSub", "learnChan", "learnType",
            "learned", "locking", "saveAddr", "saveSub", "saveChan", "saved",
            "blink"}
FramePending ==
    /\ pc["net"] \in Working => rest # <<>>
    /\ ret["net"] \in Working => pc["net"] \in {"flip", "flipped"} /\ rest # <<>>

(* Until Manual__Setup has reported, the network task does not run.        *)
Booting == {"bootMode", "bootModeStored", "bootType", "bootSend"}
NetOff ==
    /\ (pc["manual"] \in Booting \/ ret["manual"] \in Booting) => pc["net"] = "off"
    /\ pc["manual"] \in Booting => ret["manual"] = "idle"

LineInv == LineOK /\ FramePending /\ NetOff

LEMMA FrameTail ==
    ASSUME NEW s \in Seq(Frame), s # <<>>
    PROVE  /\ Head(s) \in Frame
           /\ Head(s).to.addr \in Byte /\ Head(s).to.sub \in Byte
           /\ Head(s).to.chan \in Byte /\ Head(s).type \in Byte
           /\ Head(s).val \in Byte /\ Head(s).fn \in Fn
           /\ Tail(s) \in Seq(Frame)
  <1>1. Head(s) \in Frame /\ Tail(s) \in Seq(Frame)
    BY HeadTailProperties
  <1>2. Head(s).to \in Id
    BY <1>1 DEF Frame
  <1> QED
    BY <1>1, <1>2 DEF Frame, Id

LEMMA ControlTyped ==
    ASSUME LineInv, NEW t \in Task, Control(t)
    PROVE  LineInv'
  <1> USE DEF LineInv, LineOK, FramePending, NetOff, Booting, Label, Goto, Return,
              Task, Flag, Working, line, output, history
  <1>1. CASE FlipRead(t)
    BY <1>1, SMTT(40) DEF FlipRead
  <1>2. CASE FlipWrite(t)
    BY <1>2, SMTT(40) DEF FlipWrite
  <1>3. CASE ControlType(t)
    BY <1>3, SMTT(40) DEF ControlType
  <1>4. CASE Pulse(t)
    BY <1>4, SMTT(40) DEF Pulse
  <1>5. CASE Release(t)
    BY <1>5, SMTT(40) DEF Release
  <1>6. CASE Remote(t)
    BY <1>6, SMTT(40) DEF Remote
  <1>7. CASE RemoteLed(t)
    BY <1>7, SMTT(40) DEF RemoteLed
  <1>8. CASE RemoteRelease(t)
    BY <1>8, SMTT(40) DEF RemoteRelease
  <1>9. CASE PersistRead(t)
    BY <1>9, SMTT(40) DEF PersistRead
  <1>10. CASE PersistCall(t)
    BY <1>10, SMTT(40) DEF PersistCall
  <1>11. CASE Persisted(t)
    BY <1>11, SMTT(40) DEF Persisted
  <1>12. CASE StoreStep(t)
    BY <1>12, SMTT(40) DEF StoreStep, control
  <1> QED
    BY <1>1, <1>2, <1>3, <1>4, <1>5, <1>6, <1>7, <1>8, <1>9, <1>10, <1>11,
       <1>12 DEF Control

LEMMA BootTyped ==
    ASSUME LineInv, Boot
    PROVE  LineInv'
  <1> USE DEF LineInv, LineOK, FramePending, NetOff, Booting, Label, Goto, Task, Flag,
              Working, line, output, history, StoreByte, Await, SendData
  <1>1. CASE BootMode
    BY <1>1, SMTT(40) DEF BootMode
  <1>2. CASE BootModeStore
    BY <1>2, SMTT(40) DEF BootModeStore
  <1>3. CASE BootModeStored
    BY <1>3, SMTT(40) DEF BootModeStored
  <1>4. CASE BootType
    BY <1>4, SMTT(40) DEF BootType
  <1>5. CASE BootReport
    <2>1. pc["manual"] = "bootSend" /\ pc["net"] = "off"
      BY <1>5, SMTT(40) DEF BootReport
    <2>4. ret' = ret /\ ret["net"] \notin Working
      BY <1>5, <2>1, SMTT(40) DEF BootReport
    <2>5. pc'["manual"] = "idle" /\ pc'["net"] \in {"panelSetup", "idle"}
      BY <1>5, SMTT(40) DEF BootReport
    <2>6. ret["manual"] \notin Booting
      BY <1>5, SMTT(40) DEF BootReport
    <2>2. FramePending' /\ NetOff'
      BY <2>4, <2>5, <2>6
    <2>3. LineOK'
      BY <1>5, <2>1, SMTT(40) DEF BootReport, ByType
    <2> QED
      BY <2>2, <2>3
  <1> QED
    BY <1>1, <1>2, <1>3, <1>4, <1>5, SMTT(40) DEF Boot

LEMMA KeyTyped ==
    ASSUME LineInv, Key
    PROVE  LineInv'
  <1> USE DEF LineInv, LineOK, FramePending, NetOff, Booting, Label, Goto, Task, Flag,
              Working, line, output, history, Begin
  <1>1. CASE ButtonPress
    BY <1>1, SMTT(40) DEF ButtonPress
  <1>2. CASE LearnOpen
    BY <1>2, SMTT(40) DEF LearnOpen
  <1>3. CASE SwitchToConfig
    BY <1>3, BlinkAssumption, SMTT(40) DEF SwitchToConfig
  <1>4. CASE PanelBlink
    BY <1>4, SMTT(40) DEF PanelBlink
  <1> QED
    BY <1>1, <1>2, <1>3, <1>4, SMTT(40) DEF Key

LEMMA ManualTyped ==
    ASSUME LineInv, Manual
    PROVE  LineInv'
  <1> USE DEF LineInv, LineOK, FramePending, NetOff, Booting, Label, Goto, Task, Flag,
              Working, line, output, history, Jump, StoreByte, Await, SendData
  <1>1. CASE ButtonPressed
    BY <1>1, SMTT(40) DEF ButtonPressed
  <1>2. CASE KeyReport
    BY <1>2, SMTT(40) DEF KeyReport, ByType
  <1>3. CASE LearnClose
    <2>1. FramePending' /\ NetOff'
      BY <1>3, SMTT(40) DEF LearnClose
    <2>2. LineOK'
      BY <1>3 DEF LearnClose
    <2> QED
      BY <2>1, <2>2, SMTT(40) DEF LineInv
  <1>4. CASE SwitchBlink
    BY <1>4, SMTT(40) DEF SwitchBlink
  <1>5. CASE SwitchStore
    BY <1>5, SMTT(40) DEF SwitchStore
  <1>6. CASE SwitchDone
    BY <1>6, SMTT(40) DEF SwitchDone
  <1> QED
    BY <1>1, <1>2, <1>3, <1>4, <1>5, <1>6, SMTT(40) DEF Manual

LEMMA ReceiveTyped ==
    ASSUME LineInv, NEW d \in Inbox, Receive(d)
    PROVE  LineInv'
  <1>1. d \in Seq(Frame) /\ d # <<>>
    BY InboxAssumption
  <1> QED
    BY <1>1, SMTT(40)
    DEF LineInv, LineOK, FramePending, NetOff, Booting, Label, Goto, Task, Flag, Working,
        line, output, history, Begin, Receive

LEMMA LearnTyped ==
    ASSUME LineInv, Learn
    PROVE  LineInv'
  <1> USE DEF LineInv, LineOK, FramePending, NetOff, Booting, Label, Goto, Task, Flag,
              Working, line, output, history, StoreByte
  <1>1. CASE LearnAddr
    BY <1>1, SMTT(40) DEF LearnAddr
  <1>2. CASE LearnSub
    BY <1>2, SMTT(40) DEF LearnSub
  <1>3. CASE LearnChan
    BY <1>3, SMTT(40) DEF LearnChan
  <1>4. CASE LearnType
    BY <1>4, SMTT(40) DEF LearnType
  <1>5. CASE Learned
    <2>1. Head(rest).to.addr \in Byte /\ Head(rest).to.sub \in Byte
          /\ Head(rest).to.chan \in Byte /\ Head(rest).type \in Byte
      BY <1>5, FrameTail DEF Learned
    <2>2. relay' \in Record
      BY <1>5, <2>1, SMTT(40) DEF Learned, Record
    <2>3. rest' \in Seq(Frame)
      BY <1>5, SMTT(40) DEF Learned
    <2>4. learn' \in BOOLEAN
      BY <1>5 DEF Learned
    <2>5. FramePending' /\ NetOff'
      BY <1>5, SMTT(40) DEF Learned
    <2>6. LineOK'
      BY <1>5, <2>2, <2>3, <2>4, SMTT(40) DEF Learned
    <2> QED
      BY <2>5, <2>6
  <1> QED
    BY <1>1, <1>2, <1>3, <1>4, <1>5, SMTT(40) DEF Learn

LEMMA SwitchTyped ==
    ASSUME LineInv, Switch
    PROVE  LineInv'
  <1> USE DEF LineInv, LineOK, FramePending, NetOff, Booting, Label, Goto, Task, Flag,
              Working, line, output, history, Jump, SendData, InFrame
  <1>0. rest # <<>> => Tail(rest) \in Seq(Frame)
    BY FrameTail
  <1>1. CASE F2Lamp
    BY <1>0, <1>1, SMTT(40) DEF F2Lamp, LampSet, State, AfterF2
  <1>2. CASE F2Nothing
    <2>1. FramePending' /\ NetOff'
      BY <1>0, <1>2, SMTT(40) DEF F2Nothing, OnlyAnswer, AfterF2
    <2>2. LineOK'
      BY <1>0, <1>2, SMTT(40) DEF F2Nothing, OnlyAnswer, AfterF2
    <2> QED
      BY <2>1, <2>2, SMTT(40) DEF LineInv
  <1>3. CASE F2RemoteOn
    BY <1>0, <1>3, SMTT(40) DEF F2RemoteOn, AfterF2
  <1>4. CASE F2RemoteOff
    BY <1>0, <1>4, SMTT(40) DEF F2RemoteOff, AfterF2
  <1>5. CASE RemoteOffPulse
    BY <1>5, SMTT(40) DEF RemoteOffPulse
  <1>6. CASE RemoteOffRelease
    BY <1>6, SMTT(40) DEF RemoteOffRelease, Return
  <1>7. CASE F4Light
    BY <1>0, <1>7, SMTT(40) DEF F4Light, F4Accepted, LampSet, State
  <1>8. CASE F4Nothing
    <2>1. FramePending' /\ NetOff'
      BY <1>0, <1>8, SMTT(40) DEF F4Nothing, F4Accepted, OnlyAnswer
    <2>2. LineOK'
      BY <1>0, <1>8, SMTT(40) DEF F4Nothing, F4Accepted, OnlyAnswer
    <2> QED
      BY <2>1, <2>2, SMTT(40) DEF LineInv
  <1>9. CASE SceneSet
    BY <1>0, <1>9, SMTT(40) DEF SceneSet, LampSet
  <1>10. CASE SceneToggle
    BY <1>0, <1>10, SMTT(40) DEF SceneToggle
  <1>11. CASE SceneFlipped
    BY <1>11, SMTT(40) DEF SceneFlipped
  <1>12. CASE SceneReport
    BY <1>12, SMTT(40) DEF SceneReport
  <1>13. CASE FrameReport
    BY <1>13, SMTT(40) DEF FrameReport
  <1> QED
    BY <1>1, <1>2, <1>3, <1>4, <1>5, <1>6, <1>7, <1>8, <1>9, <1>10, <1>11,
       <1>12, <1>13 DEF Switch

(* What an answer built in `Data' may be is a frame string again.          *)
LEMMA RebuiltTyped ==
    ASSUME NEW g \in Frame
    PROVE  Rebuilt(g) \subseteq Frame
  <1> SUFFICES ASSUME NEW fn \in Becomes(g), NEW crc \in Checksum
               PROVE  [fn |-> fn,
                       to |-> IF fn = "F4" THEN [g.to EXCEPT !.chan = 0] ELSE g.to,
                       val |-> IF fn = "F1" THEN g.val ELSE crc,
                       io |-> 17, type |-> g.type] \in Frame
    BY DEF Rebuilt
  <1>1. fn \in Fn
    BY SMTT(40) DEF Becomes, Fn, F0
  <1>2. crc \in Byte /\ 17 \in Byte /\ 0 \in Byte
    BY DEF Checksum, Byte
  <1>3. g.to \in Id /\ g.val \in Byte /\ g.type \in Byte
    BY DEF Frame
  <1>4. [g.to EXCEPT !.chan = 0] \in Id
    BY <1>2, <1>3 DEF Id
  <1> DEFINE to == IF fn = "F4" THEN [g.to EXCEPT !.chan = 0] ELSE g.to
             val == IF fn = "F1" THEN g.val ELSE crc
  <1>5. to \in Id /\ val \in Byte
    BY <1>2, <1>3, <1>4
  <1> HIDE DEF to, val
  <1>6. [fn |-> fn, to |-> to, val |-> val, io |-> 17, type |-> g.type] \in Frame
    BY <1>1, <1>2, <1>3, <1>5 DEF Frame
  <1> QED
    BY <1>6 DEF to, val

LEMMA AfterLockTyped ==
    ASSUME NEW f \in Frame, NEW after \in Seq(Frame)
    PROVE  AfterLock(f, after) \subseteq Seq(Frame)
  <1>1. <<>> \in Seq(Frame)
    OBVIOUS
  <1>2. ASSUME after # <<>>, NEW g \in Rebuilt(Head(after))
        PROVE  <<g>> \in Seq(Frame)
    <2>1. g \in Frame
      BY <1>2, FrameTail, RebuiltTyped
    <2> QED
      BY <2>1
  <1> QED
    BY <1>1, <1>2 DEF AfterLock

(* Erasing an address, and setting a lock, leave a record.                 *)
LEMMA RecordErased ==
    ASSUME NEW r \in Record
    PROVE  [r EXCEPT !.addr = 255, !.sub = 255, !.chan = 255] \in Record
  <1>1. 255 \in Byte
    BY DEF Byte
  <1>2. ASSUME NEW q \in Record
        PROVE  /\ [q EXCEPT !.addr = 255] \in Record
               /\ [q EXCEPT !.sub = 255] \in Record
               /\ [q EXCEPT !.chan = 255] \in Record
    BY <1>1, SMTT(40) DEF Record
  <1> DEFINE r1 == [r EXCEPT !.addr = 255]
             r2 == [r1 EXCEPT !.sub = 255]
             r3 == [r2 EXCEPT !.chan = 255]
  <1>3. r1 \in Record
    BY <1>2
  <1> HIDE DEF r1
  <1>4. r2 \in Record
    BY <1>2, <1>3
  <1> HIDE DEF r2
  <1>5. r3 \in Record
    BY <1>2, <1>4
  <1> QED
    BY <1>5, SMTT(40) DEF r1, r2

LEMMA MaintainTyped ==
    ASSUME LineInv, Maintain
    PROVE  LineInv'
  <1> USE DEF LineInv, LineOK, FramePending, NetOff, Booting, Label, Goto, Task, Flag,
              Working, line, output, history, StoreByte, InFrame, NextFrame
  <1>0. rest # <<>> => Head(rest) \in Frame /\ Tail(rest) \in Seq(Frame)
    BY FrameTail
  <1>1. CASE LockStore
    BY <1>1, SMTT(40) DEF LockStore
  <1>2. CASE Locked
    <2>1. rest # <<>>
      BY <1>2, SMTT(40) DEF Locked
    <2>2. rest' \in Seq(Frame)
      BY <1>0, <1>2, <2>1, AfterLockTyped DEF Locked
    <2>8. FramePending' /\ NetOff'
      BY <1>2, <2>2, SMTT(40) DEF Locked
    <2>7. relay' \in Record
      BY <1>2 DEF Locked, Record
    <2>9. LineOK'
      BY <1>2, <2>2, <2>7, SMTT(40) DEF Locked
    <2> QED
      BY <2>8, <2>9, SMTT(40) DEF LineInv
  <1>3. CASE LockNothing
    <2>1. rest' \in Seq(Frame)
      BY <1>0, <1>3, AfterLockTyped DEF LockNothing
    <2>8. FramePending' /\ NetOff'
      BY <1>3, <2>1, SMTT(40) DEF LockNothing
    <2>9. LineOK'
      BY <1>3, <2>1, SMTT(40) DEF LockNothing
    <2> QED
      BY <2>8, <2>9, SMTT(40) DEF LineInv
  <1>4. CASE SaveSerial
    BY <1>4, SMTT(40) DEF SaveSerial
  <1>5. CASE SaveAddr
    BY <1>5, SMTT(40) DEF SaveAddr
  <1>6. CASE SaveSub
    BY <1>6, SMTT(40) DEF SaveSub
  <1>11. CASE SaveChan
    BY <1>11, SMTT(40) DEF SaveChan
  <1>7. CASE Saved
    <2>1. relay' \in Record
      BY <1>7, RecordErased DEF Saved
    <2> QED
      BY <1>7, <2>1, BlinkAssumption, SMTT(40) DEF Saved
  <1>8. CASE BlinkStart
    BY <1>8, BlinkAssumption, SMTT(40) DEF BlinkStart
  <1>9. CASE Blink
    BY <1>9, SMTT(40) DEF Blink
  <1>10. CASE BlinkDone
    <2>1. FramePending' /\ NetOff'
      BY <1>0, <1>10, SMTT(40) DEF BlinkDone
    <2>2. LineOK'
      BY <1>0, <1>10, SMTT(40) DEF BlinkDone
    <2> QED
      BY <2>1, <2>2, SMTT(40) DEF LineInv
  <1> QED
    BY <1>1, <1>2, <1>3, <1>4, <1>5, <1>6, <1>7, <1>8, <1>9, <1>10,
       <1>11 DEF Maintain

LEMMA NetTyped ==
    ASSUME LineInv, Net
    PROVE  LineInv'
  <1> USE DEF LineInv, LineOK, FramePending, NetOff, Booting, Label, Goto, Task, Flag,
              Working, line, output, history, StoreByte, Await
  <1>0. rest # <<>> => Head(rest) \in Frame /\ Tail(rest) \in Seq(Frame)
    BY FrameTail
  <1>1. CASE Analyze
    <2>1. <<>> \in Seq(Frame) /\ <<Head(rest)>> \in Seq(Frame)
      BY <1>0, <1>1, SMTT(40) DEF Analyze
    <2>2. rest' \in Seq(Frame)
      BY <1>1, <2>1 DEF Analyze
    <2>5. pc["net"] = "analyze" /\ ret["net"] \notin Working /\ ret' = ret
      BY <1>1, SMTT(40) DEF Analyze
    <2>6. pc'["net"] \in Working => <<Head(rest)>> # <<>> /\ rest' = <<Head(rest)>>
      BY <1>1, SMTT(40) DEF Analyze
    <2>7. pc'["manual"] = pc["manual"] /\ pc["manual"] \notin Booting
          /\ ret["manual"] \notin Booting
      BY <1>1, SMTT(40) DEF Analyze
    <2>3. FramePending' /\ NetOff'
      BY <2>5, <2>6, <2>7, SMTT(40) DEF FramePending, NetOff
    <2>4. LineOK'
      BY <1>1, <2>2, SMTT(40) DEF Analyze
    <2> QED
      BY <2>3, <2>4
  <1>2. CASE FrameIgnored
    <2>1. FramePending' /\ NetOff'
      BY <1>0, <1>2, SMTT(40) DEF FrameIgnored
    <2>2. LineOK'
      BY <1>0, <1>2, SMTT(40) DEF FrameIgnored
    <2> QED
      BY <2>1, <2>2, SMTT(40) DEF LineInv
  <1>3. CASE FramesDone
    BY <1>3, SMTT(40) DEF FramesDone
  <1>4. CASE PanelSetup
    BY <1>4, SMTT(40) DEF PanelSetup
  <1>5. CASE PanelStored
    BY <1>5, SMTT(40) DEF PanelStored
  <1> QED
    BY <1>1, <1>2, <1>3, <1>4, <1>5, LearnTyped, SwitchTyped, MaintainTyped
    DEF Net

LEMMA BootRamTyped ==
    ASSUME NEW image \in [0 .. CellCount - 1 -> Byte]
    PROVE  /\ BootRam(image).relay \in Record
           /\ BootRam(image).barcode \in BOOLEAN
           /\ BootRam(image).panel \in BOOLEAN
  <1>1. \A c \in 0 .. 8 : image[c] \in Byte
    BY DEF CellCount
  <1> QED
    BY <1>1 DEF BootRam, RelayFrom, Record, Byte, ADDR, SUB, CHAN, TYPE, LOCK, T_Light

LEMMA PowerCutTyped ==
    ASSUME LineInv, flash \in E!Image, PowerCut
    PROVE  LineInv'
  <1>1. flash \in [0 .. CellCount - 1 -> Byte]
    BY DEF E!Image
  <1>2. <<>> \in Seq(Frame)
    OBVIOUS
  <1>3. relay' \in Record /\ barcode' \in BOOLEAN /\ panel' \in BOOLEAN
    BY <1>1, BootRamTyped DEF PowerCut
  <1>4. coil' \in [on : Flag, off : Flag]
    BY DEF PowerCut, Flag
  <1>5. pc' \in [Task -> Label] /\ ret' \in [Task -> Label]
    BY DEF PowerCut, Task, Label
  <1>6. FramePending' /\ NetOff'
    BY DEF PowerCut, FramePending, NetOff, Booting, Task, Working
  <1>7. reg' \in [Task -> {0, 1}] /\ cnt' \in [Task -> Nat]
    BY DEF PowerCut
  <1>8. owed' \subseteq {"drive", "report"} /\ solo' \subseteq Task
    BY DEF PowerCut, Task
  <1>9. led' \in {0, 1} /\ driven' \in 0 .. 2 /\ reported' \in 0 .. 2
    BY DEF PowerCut
  <1>10. learn' \in BOOLEAN /\ held' \in BOOLEAN
    BY DEF PowerCut
  <1>11. rest' \in Seq(Frame)
    BY <1>2 DEF PowerCut
  <1> QED
    BY <1>3, <1>4, <1>5, <1>6, <1>7, <1>8, <1>9, <1>10, <1>11 DEF LineInv, LineOK

LEMMA InitTyped == Init => LineInv
  <1> SUFFICES ASSUME NEW image \in Fresh, InitFrom(image)
               PROVE  LineInv
    BY DEF Init
  <1>1. image \in [0 .. CellCount - 1 -> Byte]
    BY FreshAssumption
  <1>2. <<>> \in Seq(Frame)
    OBVIOUS
  <1>3. relay \in Record /\ barcode \in BOOLEAN /\ panel \in BOOLEAN
    BY <1>1, BootRamTyped DEF InitFrom
  <1>4. coil \in [on : Flag, off : Flag]
    BY DEF InitFrom, Flag
  <1>5. pc \in [Task -> Label] /\ ret \in [Task -> Label]
    BY DEF InitFrom, Task, Label
  <1>6. FramePending /\ NetOff
    BY DEF InitFrom, FramePending, NetOff, Booting, Task, Working
  <1>7. reg \in [Task -> {0, 1}] /\ cnt \in [Task -> Nat]
    BY DEF InitFrom
  <1>8. owed \subseteq {"drive", "report"} /\ solo \subseteq Task
    BY DEF InitFrom, Task
  <1>9. led \in {0, 1} /\ driven \in 0 .. 2 /\ reported \in 0 .. 2
    BY DEF InitFrom
  <1>10. learn \in BOOLEAN /\ held \in BOOLEAN
    BY DEF InitFrom
  <1>11. rest \in Seq(Frame)
    BY <1>2 DEF InitFrom
  <1> QED
    BY <1>3, <1>4, <1>5, <1>6, <1>7, <1>8, <1>9, <1>10, <1>11 DEF LineInv, LineOK

----------------------------------------------------------------------------
(* The settings store inside the line is the store of PlugEeprom: whatever *)
(* the tasks do is one of its calls, one of its steps, a power cut or      *)
(* nothing.                                                                *)

EP == INSTANCE PlugEepromProofs WITH
        Thread <- Task, Size <- CellCount,
        Call <- {ByteStore(cell, byte) : cell \in 0 .. CellCount - 1, byte \in Byte}

LEMMA InvokeIsCall ==
    ASSUME NEW t \in Task, NEW cell \in 0 .. CellCount - 1, NEW byte \in Byte,
           E!Invoke(t, ByteStore(cell, byte))
    PROVE  E!Next
  BY DEF E!Next

LEMMA CellsInImage ==
    /\ LAST \in 0 .. CellCount - 1 /\ MODE \in 0 .. CellCount - 1
    /\ LOCK \in 0 .. CellCount - 1 /\ ADDR \in 0 .. CellCount - 1
    /\ SUB \in 0 .. CellCount - 1 /\ CHAN \in 0 .. CellCount - 1
    /\ TYPE \in 0 .. CellCount - 1 /\ SERIAL \in 0 .. CellCount - 1
    /\ START \in 0 .. CellCount - 1
  BY DEF LAST, MODE, LOCK, ADDR, SUB, CHAN, TYPE, SERIAL, START, CellCount

LEMMA BytesInUse ==
    {0, 1, 255, Normal, ConfigPanel} \subseteq Byte
  BY DEF Byte, Normal, ConfigPanel

LEMMA ControlStores ==
    ASSUME LineInv, NEW t \in Task, Control(t)
    PROVE  E!Next \/ UNCHANGED memory
  <1>1. CASE PersistCall(t)
    <2>1. reg[t] \in Byte
      BY BytesInUse DEF LineInv, LineOK
    <2> QED
      BY <1>1, <2>1, CellsInImage, InvokeIsCall DEF PersistCall
  <1>2. CASE StoreStep(t)
    BY <1>2 DEF StoreStep, E!Next
  <1>3. CASE FlipRead(t) \/ FlipWrite(t) \/ ControlType(t) \/ Pulse(t) \/ Release(t)
    BY <1>3 DEF FlipRead, FlipWrite, ControlType, Pulse, Release
  <1>4. CASE Remote(t) \/ RemoteLed(t) \/ RemoteRelease(t) \/ PersistRead(t)
    BY <1>4 DEF Remote, RemoteLed, RemoteRelease, PersistRead
  <1>5. CASE Persisted(t)
    BY <1>5 DEF Persisted
  <1> QED
    BY <1>1, <1>2, <1>3, <1>4, <1>5 DEF Control

LEMMA ManualStores ==
    ASSUME Boot \/ Key \/ Manual
    PROVE  E!Next \/ UNCHANGED memory
  <1> USE DEF Task
  <1>1. CASE BootModeStore
    BY <1>1, CellsInImage, BytesInUse, InvokeIsCall DEF BootModeStore, StoreByte
  <1>2. CASE SwitchStore
    <2>1. (IF panel THEN Normal ELSE ConfigPanel) \in Byte
      BY BytesInUse
    <2> QED
      BY <1>2, <2>1, CellsInImage, InvokeIsCall DEF SwitchStore, StoreByte
  <1>3. CASE BootMode \/ BootModeStored \/ BootType \/ BootReport
    BY <1>3 DEF BootMode, BootModeStored, BootType, BootReport, Await, SendData
  <1>4. CASE Key
    BY <1>4 DEF Key, ButtonPress, LearnOpen, SwitchToConfig, PanelBlink
  <1>5. CASE ButtonPressed \/ KeyReport \/ LearnClose \/ SwitchBlink \/ SwitchDone
    BY <1>5 DEF ButtonPressed, KeyReport, LearnClose, SwitchBlink, SwitchDone,
       Jump, SendData, Await
  <1> QED
    BY <1>1, <1>2, <1>3, <1>4, <1>5 DEF Boot, Manual

LEMMA NetStores ==
    ASSUME LineInv, Net
    PROVE  E!Next \/ UNCHANGED memory
  <1> USE DEF Task
  <1>1. CASE Learn
    <2>1. CASE LearnAddr \/ LearnSub \/ LearnChan \/ LearnType
      <3>1. rest \in Seq(Frame) /\ rest # <<>>
        BY <2>1 DEF LineInv, LineOK, FramePending, Working,
           LearnAddr, LearnSub, LearnChan, LearnType, StoreByte
      <3>2. /\ Head(rest).to.addr \in Byte /\ Head(rest).to.sub \in Byte
            /\ Head(rest).to.chan \in Byte /\ Head(rest).type \in Byte
        BY <3>1, FrameTail
      <3> QED
        BY <2>1, <3>2, CellsInImage, InvokeIsCall
        DEF LearnAddr, LearnSub, LearnChan, LearnType, StoreByte
    <2>2. CASE Learned
      BY <2>2 DEF Learned
    <2> QED
      BY <1>1, <2>1, <2>2 DEF Learn
  <1>2. CASE Switch
    BY <1>2 DEF Switch, F2Lamp, F2Nothing, F2RemoteOn, F2RemoteOff,
       RemoteOffPulse, RemoteOffRelease, F4Light, F4Nothing, SceneSet,
       SceneToggle, SceneFlipped, SceneReport, FrameReport, LampSet,
       OnlyAnswer, Jump, SendData
  <1>3. CASE Maintain
    <2>1. CASE LockStore
      BY <2>1, CellsInImage, BytesInUse, InvokeIsCall DEF LockStore
    <2>2. CASE SaveSerial \/ SaveAddr \/ SaveSub \/ SaveChan
      BY <2>2, CellsInImage, BytesInUse, InvokeIsCall
      DEF SaveSerial, SaveAddr, SaveSub, SaveChan, StoreByte
    <2>3. CASE Locked \/ LockNothing \/ Saved \/ BlinkStart \/ Blink \/ BlinkDone
      BY <2>3 DEF Locked, LockNothing, Saved, BlinkStart, Blink, BlinkDone
    <2> QED
      BY <1>3, <2>1, <2>2, <2>3 DEF Maintain
  <1>4. CASE PanelSetup
    BY <1>4, CellsInImage, BytesInUse, InvokeIsCall DEF PanelSetup, StoreByte
  <1>5. CASE Analyze \/ FrameIgnored \/ FramesDone \/ PanelStored
    BY <1>5 DEF Analyze, FrameIgnored, FramesDone, PanelStored, Await
  <1> QED
    BY <1>1, <1>2, <1>3, <1>4, <1>5 DEF Net

LEMMA NextStores ==
    ASSUME LineInv, [Next]_vars
    PROVE  [E!Next]_(E!store)
  <1>1. UNCHANGED memory => UNCHANGED E!store
    BY DEF memory, E!store, E!call, E!ghosts
  <1>2. ASSUME NEW d \in Inbox, Receive(d)
        PROVE  UNCHANGED memory
    BY <1>2 DEF Receive
  <1>3. PowerCut => E!Next
    BY DEF PowerCut, E!Next
  <1>4. UNCHANGED vars => UNCHANGED memory
    BY DEF vars
  <1> QED
    BY <1>1, <1>2, <1>3, <1>4, ControlStores, ManualStores, NetStores DEF Next

(* E and EP are two instances of the same definitions.                     *)
LEMMA SameStore ==
    /\ E!Init <=> EP!Init
    /\ E!Next <=> EP!Next
    /\ [E!Next]_(E!store) <=> [EP!Next]_(EP!store)
    /\ E!TypeOK <=> EP!TypeOK
    /\ E!DirtyTruthful <=> EP!DirtyTruthful
  <1>1. E!Init <=> EP!Init
    BY DEF E!Init, EP!Init, E!Image, EP!Image, E!InitFrom, EP!InitFrom
  <1>2. E!TypeOK <=> EP!TypeOK
    BY DEF E!TypeOK, EP!TypeOK, E!Image, EP!Image, E!Phase, EP!Phase,
       E!Request, EP!Request
  <1>3. E!DirtyTruthful <=> EP!DirtyTruthful
    BY DEF E!DirtyTruthful, EP!DirtyTruthful
  <1>4. ASSUME NEW t \in Task
        PROVE  E!Progress(t) <=> EP!Progress(t)
    BY DEF E!Progress, EP!Progress, E!Store, EP!Store, E!Mark, EP!Mark,
       E!CommitTest, EP!CommitTest, E!SetBlob, EP!SetBlob, E!Publish, EP!Publish,
       E!PublishFails, EP!PublishFails, E!Clear, EP!Clear, E!AfterStore,
       EP!AfterStore, E!AfterCommit, EP!AfterCommit, E!call, EP!call, E!ghosts, EP!ghosts
  <1>5. ASSUME NEW t \in Task, NEW c
        PROVE  E!Invoke(t, c) <=> EP!Invoke(t, c)
    BY DEF E!Invoke, EP!Invoke, E!Busy, EP!Busy
  <1>6. E!PowerCut <=> EP!PowerCut
    BY DEF E!PowerCut, EP!PowerCut
  <1>7. UNCHANGED E!store <=> UNCHANGED EP!store
    BY DEF E!store, EP!store, E!call, EP!call, E!ghosts, EP!ghosts
  <1>8. E!Next <=> EP!Next
    BY <1>4, <1>5, <1>6 DEF E!Next, EP!Next
  <1> QED
    BY <1>1, <1>2, <1>3, <1>7, <1>8

(* The assumptions PlugEeprom makes hold of the instance.                  *)
LEMMA StoreAssumptions ==
    /\ CellCount \in Nat
    /\ BlobMayFail \in BOOLEAN
    /\ {ByteStore(cell, byte) : cell \in 0 .. CellCount - 1, byte \in Byte}
         \subseteq [ws : Seq(EP!Request) \ {<<>>}, each : BOOLEAN]
  <1>1. CellCount \in Nat /\ BlobMayFail \in BOOLEAN
    BY FailAssumption DEF CellCount
  <1>2. ASSUME NEW cell \in 0 .. CellCount - 1, NEW byte \in Byte
        PROVE  ByteStore(cell, byte) \in [ws : Seq(EP!Request) \ {<<>>}, each : BOOLEAN]
    <2>1. <<cell, byte>> \in EP!Request
      BY <1>1 DEF EP!Request, CellCount
    <2>2. <<<<cell, byte>>>> \in Seq(EP!Request) /\ <<<<cell, byte>>>> # <<>>
      BY <2>1
    <2> QED
      BY <2>2 DEF ByteStore
  <1> QED
    BY <1>1, <1>2

JointInv == LineInv /\ EP!StoreInv

LEMMA InitImage == Init => E!Init
  <1> SUFFICES ASSUME NEW image \in Fresh, InitFrom(image)
               PROVE  E!Init
    BY DEF Init
  <1>1. image \in E!Image /\ E!InitFrom(image)
    BY FreshAssumption DEF InitFrom, E!Image
  <1> QED
    BY <1>1 DEF E!Init

LEMMA InitJoint == Init => JointInv
  <1>1. Init => EP!StoreInv
    BY InitImage, SameStore, EP!InitStoreInv, StoreAssumptions
  <1> QED
    BY <1>1, InitTyped DEF JointInv

LEMMA NextJoint == JointInv /\ [Next]_vars => JointInv'
  <1> SUFFICES ASSUME JointInv, [Next]_vars
               PROVE  JointInv'
    OBVIOUS
  <1>1. LineInv /\ EP!StoreInv
    BY DEF JointInv
  <1>2. [EP!Next]_(EP!store)
    BY <1>1, NextStores, SameStore
  <1>3. EP!StoreInv'
    BY <1>1, <1>2, EP!NextStoreInv, StoreAssumptions
  <1>4. flash \in E!Image
    BY <1>1, SameStore DEF EP!StoreInv, EP!TypeInv, E!TypeOK
  <1>5. ASSUME NEW t \in Task, Control(t)
        PROVE  LineInv'
    BY <1>1, <1>5, ControlTyped
  <1>6. Boot \/ Key \/ Manual \/ Net => LineInv'
    BY <1>1, BootTyped, KeyTyped, ManualTyped, NetTyped
  <1>7. ASSUME NEW d \in Inbox, Receive(d)
        PROVE  LineInv'
    BY <1>1, <1>7, ReceiveTyped
  <1>8. PowerCut => LineInv'
    BY <1>1, <1>4, PowerCutTyped
  <1>9. ASSUME UNCHANGED vars
        PROVE  LineInv'
    <2>1. FramePending' /\ NetOff'
      BY <1>1, <1>9 DEF vars, LineInv, control, FramePending, NetOff
    <2>2. LineOK'
      BY <1>1, <1>9 DEF vars, LineInv, line, output, control, history, LineOK
    <2> QED
      BY <2>1, <2>2 DEF LineInv
  <1> QED
    BY <1>3, <1>5, <1>6, <1>7, <1>8, <1>9 DEF JointInv, Next

(* Every state of the line is well typed, whatever frames arrive, whatever *)
(* image the device starts from and whenever its power is cut.  (dvc.h,    *)
(* dvcbutton.h)                                                            *)
THEOREM LineTyped == Spec => []TypeOK
  <1>1. JointInv => TypeOK
    BY SameStore DEF JointInv, LineInv, EP!StoreInv, EP!TypeInv, TypeOK
  <1> QED
    BY <1>1, InitJoint, NextJoint, PTL DEF Spec

(* The line uses its settings store as PlugEeprom specifies it: every step *)
(* is a store step, a one-byte call, a power cut or none of the store's.   *)
(* (MemoWriteByte in common.h, EEPROM2.cpp)                                *)
THEOREM StoreImplemented == Spec => E!Spec
  <1>1. JointInv /\ [Next]_vars => [E!Next]_(E!store)
    BY NextStores DEF JointInv
  <1> QED
    BY <1>1, InitImage, InitJoint, NextJoint, PTL DEF Spec, E!Spec

(* So a clean flag in the running plug is truthful as well, as long as no  *)
(* two calls have overlapped.  (EEPROM2.cpp write, commit)                 *)
THEOREM LineFlagIsTruthful == Spec => []E!DirtyTruthful
  <1>1. JointInv => E!DirtyTruthful
    BY SameStore DEF JointInv, EP!StoreInv
  <1> QED
    BY <1>1, InitJoint, NextJoint, PTL DEF Spec

----------------------------------------------------------------------------
(* The coil.  Only the task that is inside a pulse holds its line up, and  *)
(* the local copy of led it pulsed by is the one it releases by.           *)

LEMMA ControlReleases ==
    ASSUME LineInv, CoilReleased, NEW t \in Task, Control(t)
    PROVE  CoilReleased'
  <1> USE DEF LineInv, LineOK, CoilReleased, PulsingOn, PulsingOff, Goto, output
  <1>1. CASE FlipRead(t)
    BY <1>1 DEF FlipRead
  <1>2. CASE FlipWrite(t)
    BY <1>2 DEF FlipWrite, Return
  <1>3. CASE ControlType(t)
    BY <1>3 DEF ControlType
  <1>4. CASE Pulse(t)
    BY <1>4 DEF Pulse
  <1>5. CASE Release(t)
    BY <1>5 DEF Release
  <1>6. CASE Remote(t)
    BY <1>6 DEF Remote
  <1>7. CASE RemoteLed(t)
    BY <1>7 DEF RemoteLed
  <1>8. CASE RemoteRelease(t)
    BY <1>8 DEF RemoteRelease
  <1>9. CASE PersistRead(t)
    BY <1>9 DEF PersistRead
  <1>10. CASE PersistCall(t)
    BY <1>10 DEF PersistCall
  <1>11. CASE Persisted(t)
    BY <1>11 DEF Persisted, Return
  <1>12. CASE StoreStep(t)
    BY <1>12 DEF StoreStep, control
  <1> QED
    BY <1>1, <1>2, <1>3, <1>4, <1>5, <1>6, <1>7, <1>8, <1>9, <1>10, <1>11,
       <1>12 DEF Control

(* A step of one task that is outside the pulses and leaves the coil alone *)
(* keeps the pulse the other task may be inside.                           *)
Pulsing == {"remoteLed", "remoteRelease", "release", "remoteOffRelease"}

Moves(a) ==
    /\ pc[a] \notin Pulsing
    /\ coil' = coil
    /\ \A u \in Task \ {a} : pc'[u] = pc[u] /\ reg'[u] = reg[u]

LEMMA MovesRelease ==
    ASSUME CoilReleased, NEW a \in Task, Moves(a)
    PROVE  CoilReleased'
  BY DEF CoilReleased, PulsingOn, PulsingOff, Pulsing, Moves

LEMMA ManualReleases ==
    ASSUME LineInv, CoilReleased, Boot \/ Key \/ Manual
    PROVE  CoilReleased'
  <1> USE DEF LineInv, LineOK, Goto, output, Pulsing, Task, Moves
  <1>1. CASE BootReport
    <2>1. pc["manual"] = "bootSend" /\ pc["net"] = "off" /\ coil' = coil
      BY <1>1 DEF BootReport, SendData, NetOff, Booting
    <2>2. coil.on # "up" /\ coil.off # "up"
      BY <2>1 DEF CoilReleased, PulsingOn, PulsingOff
    <2> QED
      BY <2>1, <2>2 DEF CoilReleased
  <1>2. CASE BootMode \/ BootModeStore \/ BootModeStored \/ BootType
    <2>1. Moves("manual")
      BY <1>2 DEF BootMode, BootModeStore, BootModeStored, BootType, StoreByte, Await
    <2> QED
      BY <2>1, MovesRelease
  <1>3. CASE Key
    <2>1. Moves("manual")
      BY <1>3 DEF Key, ButtonPress, LearnOpen, SwitchToConfig, PanelBlink, Begin
    <2> QED
      BY <2>1, MovesRelease
  <1>4. CASE Manual
    <2>1. ButtonPressed \/ KeyReport \/ LearnClose => Moves("manual")
      BY DEF ButtonPressed, KeyReport, LearnClose, Jump, SendData
    <2>2. SwitchBlink \/ SwitchStore \/ SwitchDone => Moves("manual")
      BY DEF SwitchBlink, SwitchStore, SwitchDone, StoreByte, Await
    <2>3. Moves("manual")
      BY <1>4, <2>1, <2>2 DEF Manual
    <2> QED
      BY <2>3, MovesRelease
  <1> QED
    BY <1>1, <1>2, <1>3, <1>4 DEF Boot

LEMMA NetReleases ==
    ASSUME LineInv, CoilReleased, Net
    PROVE  CoilReleased'
  <1> USE DEF LineInv, LineOK, Goto, output, Pulsing, Task
  <1>1. CASE RemoteOffPulse
    BY <1>1 DEF RemoteOffPulse, CoilReleased, PulsingOn, PulsingOff
  <1>2. CASE RemoteOffRelease
    BY <1>2 DEF RemoteOffRelease, Return, CoilReleased, PulsingOn, PulsingOff
  <1>3. CASE F2Lamp \/ F2Nothing \/ F2RemoteOn \/ F2RemoteOff \/ F4Light \/ F4Nothing
    <2>1. Moves("net")
      BY <1>3 DEF F2Lamp, F2Nothing, F2RemoteOn, F2RemoteOff, F4Light, F4Nothing,
         F4Accepted, InFrame, LampSet, OnlyAnswer, Moves
    <2> QED
      BY <2>1, MovesRelease
  <1>4. CASE SceneSet \/ SceneToggle \/ SceneFlipped \/ SceneReport \/ FrameReport
    <2>1. Moves("net")
      BY <1>4 DEF SceneSet, SceneToggle, SceneFlipped, SceneReport, FrameReport,
         InFrame, LampSet, Jump, SendData, Moves
    <2> QED
      BY <2>1, MovesRelease
  <1>5. CASE Learn
    <2>1. Moves("net")
      BY <1>5 DEF Learn, LearnAddr, LearnSub, LearnChan, LearnType, Learned,
         StoreByte, Moves
    <2> QED
      BY <2>1, MovesRelease
  <1>6. CASE LockStore \/ Locked \/ LockNothing \/ BlinkStart \/ Blink \/ BlinkDone
    <2>1. Moves("net")
      BY <1>6 DEF LockStore, Locked, LockNothing, BlinkStart, Blink, BlinkDone,
         InFrame, NextFrame, Moves
    <2> QED
      BY <2>1, MovesRelease
  <1>7. CASE SaveSerial \/ SaveAddr \/ SaveSub \/ SaveChan \/ Saved
    <2>1. Moves("net")
      BY <1>7 DEF SaveSerial, SaveAddr, SaveSub, SaveChan, Saved, InFrame,
         StoreByte, Moves
    <2> QED
      BY <2>1, MovesRelease
  <1>8. CASE Analyze \/ FrameIgnored \/ FramesDone \/ PanelSetup \/ PanelStored
    <2>1. Moves("net")
      BY <1>8 DEF Analyze, FrameIgnored, FramesDone, PanelSetup, PanelStored,
         StoreByte, Await, Moves
    <2> QED
      BY <2>1, MovesRelease
  <1> QED
    BY <1>1, <1>2, <1>3, <1>4, <1>5, <1>6, <1>7, <1>8 DEF Net, Switch, Maintain

(* No coil line is ever active outside a pulse of some task, whatever the  *)
(* two tasks do at the same time and wherever the power is cut.  (dvc.h    *)
(* Dvc__RelayControl, Dvc__AnalyzeData)                                    *)
THEOREM CoilAlwaysReleased == Spec => []CoilReleased
  <1>1. Init => CoilReleased
    BY DEF Init, InitFrom, CoilReleased
  <1>2. JointInv /\ CoilReleased /\ [Next]_vars => CoilReleased'
    <2> SUFFICES ASSUME LineInv, CoilReleased, [Next]_vars
                 PROVE  CoilReleased'
      BY DEF JointInv
    <2>1. ASSUME NEW t \in Task, Control(t)
          PROVE  CoilReleased'
      BY <2>1, ControlReleases
    <2>2. Boot \/ Key \/ Manual \/ Net => CoilReleased'
      BY ManualReleases, NetReleases
    <2>3. ASSUME NEW d \in Inbox, Receive(d)
          PROVE  CoilReleased'
      <3>1. Moves("net")
        BY <2>3 DEF Receive, Begin, Goto, Moves, Pulsing, output, Task, LineInv, LineOK
      <3> QED
        BY <3>1, MovesRelease DEF Task
    <2>4. PowerCut => CoilReleased'
      BY DEF PowerCut, CoilReleased
    <2>5. ASSUME UNCHANGED vars
          PROVE  CoilReleased'
      BY <2>5 DEF vars, output, control, CoilReleased, PulsingOn, PulsingOff
    <2> QED
      BY <2>1, <2>2, <2>3, <2>4, <2>5 DEF Next
  <1> QED
    BY <1>1, <1>2, InitJoint, NextJoint, PTL DEF Spec
=============================================================================
