---------------------------- MODULE PlugEepromMC ----------------------------
(***************************************************************************)
(* A small store: a two-byte string field, one byte that several tasks     *)
(* write (a relay's last state), and a range that is cleaned past the end  *)
(* of the image as MemoClean's default range is.                           *)
(***************************************************************************)
EXTENDS PlugEeprom

MCThread == {"manual", "net"}
MCSize == 3
MCByte == {0, 1, 255}

FieldFirst == 0
FieldLast == 1
Last == 2
Strings == {<<1>>, <<1, 1, 1>>}

MCCall ==
    {ByteCall(Last, v) : v \in {0, 1}}
        \cup {StringCall(FieldFirst, FieldLast, s) : s \in Strings}
        \cup {CleanCall(Last, MCSize)}

Virgin == [a \in 0 .. MCSize - 1 |-> 255]
VirginSpec == InitFrom(Virgin) /\ [][Next]_store /\ Fairness

(* The string's two bytes are a field; the cleaned byte is not.            *)
ASSUME FieldAssumption ==
    /\ {FieldFirst, FieldLast} \in Fields
    /\ {Last} \notin Fields
=============================================================================
