----------------------------- MODULE PlugRelayMC ----------------------------
(***************************************************************************)
(* Small sets of frames and of EEPROM images for PlugRelay.                *)
(***************************************************************************)
EXTENDS PlugRelay

Home == [addr |-> 1, sub |-> 0, chan |-> 81]
Remote82 == [addr |-> 1, sub |-> 0, chan |-> 82]
Away == [addr |-> 2, sub |-> 0, chan |-> 82]

F(fn, to, val, io, type) == [fn |-> fn, to |-> to, val |-> val, io |-> io, type |-> type]

On  == F("F2", Home, 255, 0, 0)
Off == F("F2", Home, 0, 17, 0)
Odd == F("F2", Home, 7, 0, 0)
Group == F("F4", Home, 255, 0, 0)
RemoteOn == F("F2", Remote82, 255, 0, 0)
RemoteGroup == F("F4", Remote82, 255, 0, 0)
RemoteOff == F("F2", Remote82, 0, 17, 0)
LockF == F("F1", Home, 255, 0, 0)
LockAway == F("F1", Away, 255, 0, 0)
LockRemote == F("F1", Remote82, 255, 0, 0)
Scene(n) == F("scene", Home, n, 0, 0)
Find == F("F0blink", Home, 0, 0, 0)
Search == F("F0return", Home, 0, 0, 0)
Serial == F("F0save", Home, 0, 0, 0)
LearnAs(id, type) == F("F0learn", id, 0, 0, type)

(* An image with a written address: last, mode, lock, address, type,       *)
(* serial, start mode.                                                     *)
ImageOf(last, mode, lock, type, start) ==
    [c \in 0 .. CellCount - 1 |->
        CASE c = LAST -> last [] c = MODE -> mode [] c = LOCK -> lock
          [] c = ADDR -> 1 [] c = SUB -> 0 [] c = CHAN -> 81
          [] c = TYPE -> type [] c = SERIAL -> 1 [] c = START -> start]

Virgin == [c \in 0 .. CellCount - 1 |-> 255]

(* A light that was never switched since its address was set.              *)
Lamps == {ImageOf(255, 0, 0, T_Light, 0)}

Remotes == {[ImageOf(1, 2, 0, T_RemoteRelay, 0) EXCEPT ![CHAN] = 82]}

CommandInbox ==
    {<<On, Scene(2)>>, <<Off, Odd>>, <<Group>>, <<LockF, On>>, <<LockF, LockAway>>}

(* What changes the record of the line, and what is received around a      *)
(* change to config mode.                                                  *)
UpkeepInbox ==
    {<<LearnAs(Away, T_RemoteRelay)>>, <<Serial>>, <<Find>>}

Unused == {Virgin}

SafetyInbox == CommandInbox \cup UpkeepInbox
LampAndUnused == Lamps \cup Unused

(* Bound: a lamp with an address is commanded and locked, and its blobs    *)
(* may fail; a device fresh from the factory is given an address, searched *)
(* and configured.  All of it on one device is more than TLC can visit.    *)
Apart ==
    LET commanded == flash[ADDR] = 1
    IN  /\ pc["net"] = "idle" /\ pc'["net"] = "analyze"
            => rest' \in (IF commanded THEN CommandInbox ELSE UpkeepInbox)
        /\ pc["manual"] = "idle" /\ pc'["manual"] = "flip" => commanded
        /\ pc["manual"] = "idle" /\ pc'["manual"] = "learning" => ~ commanded
        /\ (\E t \in Task : E!PublishFails(t)) => commanded

(* Every kind of frame, for a lamp and for a remote relay.                 *)
FrameInbox ==
    {<<Search, Off>>, <<LockF, Odd>>, <<LockF, LockF>>, <<LockF, Scene(1)>>,
     <<LockRemote, RemoteOff>>, <<RemoteOff, RemoteGroup>>, <<RemoteOn>>}

(* A single lock frame, and a frame that pulses a remote relay.            *)
LockInbox == {<<LockF>>}
HoldInbox == {<<RemoteOn>>}

LampAndRemote ==
    Lamps \cup Remotes
=============================================================================
