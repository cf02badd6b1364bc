----------------------------- MODULE PlugScenes -----------------------------
(***************************************************************************)
(* The scenes and the conditions that run them: the tables in RAM, their   *)
(* cells in the EEPROM, the config panel that sets and stores them, the    *)
(* load of setup(), and the codes from the network that run scenes.        *)
(*                                                                         *)
(* The panel and the network never meet: frames are not looked at in       *)
(* config mode, so a condition only ever runs as a restart has loaded it.  *)
(* A store is one write of one or several cells that is committed before   *)
(* the next (PlugEeprom, with nobody else storing); the power may go       *)
(* between any two of them.  Text of custom codes is a sequence of bytes,  *)
(* as it is stored, and not of their hexadecimal digits.                   *)
(***************************************************************************)
EXTENDS Integers, Sequences, FiniteSetsExt

CONSTANTS SceneDocs,    \* the documents with scenes the panel can be sent
          RunsenDocs,   \* and those with conditions
          Codes,        \* the virtual codes the network can send
          Texts,        \* the custom codes
          MaxTurns      \* bound: requests and restarts

Byte == 0 .. 255
None == 255

(* Definitions.h: where the tables are.  Scenes are numbered 0 to 9, their *)
(* parts 1 to 3, the rows of the conditions 0 to 9 and 0 to 4.             *)
Scenes == 0 .. 9
Parts == 1 .. 3
VirtualRows == 0 .. 9
CodeRows == 0 .. 4

(* What is saved as one: a scene, a row of the one conditions, or a row of *)
(* the others, numbered in the order they are saved in.                    *)
VirtualEntry(i) == 10 + i
CodeEntry(i) == 20 + i
Conditions == 10 .. 24
Entries == Scenes \cup Conditions

Cells == 611 .. 1175
NAME(i) == 611 + 12 * i
ACT(i) == 631 + i
RELAY(i) == 641 + i
(* Mutant: the virtual codes of a scene overlap those of the next.         *)
VIRTUALTight(i, j) == 740 + 2 * i + j
VIRTUAL(i, j) == 740 + 3 * i + j
CODESTATE(i, j) == 770 + 3 * i + j
CODETEXT(i, j) == 770 + 33 * i + 11 * j
VIRTUALCON(i) == 1091 + i
VIRTUALSEN(i) == 1101 + i
CODETYPE(i) == 1111 + i
(* Mutant: a row has no room for the length of its text.                   *)
CODECONTight(i) == 1116 + 10 * i
CODECON(i) == 1116 + 11 * i
CODESEN(i) == 1171 + i

Name == {s \in Seq(1 .. 255) : Len(s) <= 12}
Text == {t \in Seq(Byte) : Len(t) <= 10}
Scene == [act : Byte, name : Name, relay : Byte,
          virtual : [Parts -> Byte], cmd : [Parts -> Byte], text : [Parts -> Text]]
VirtualRow == [dvc : Byte, con : Byte, sen : Byte]
CodeRow == [dvc : Byte, con : Text, sen : Byte]

NoScene == [act |-> None, name |-> <<>>, relay |-> None, virtual |-> [j \in Parts |-> None],
            cmd |-> [j \in Parts |-> None], text |-> [j \in Parts |-> <<>>]]
NoRow == [dvc |-> None, con |-> None, sen |-> None]
NoCode == [dvc |-> None, con |-> <<>>, sen |-> None]

(* A document of scenes maps the scenes' ids to what it says of them: the  *)
(* state and the name, and some of the relay, of the virtual codes and of  *)
(* the custom ones.  A document of conditions says it of some rows.        *)
Ids == (1 .. 7) \cup (101 .. 103)

IsSceneDoc(doc) ==
    /\ DOMAIN doc \subseteq Ids
    /\ \A id \in DOMAIN doc :
           /\ doc[id].act \in Byte /\ doc[id].name \in Name
           /\ DOMAIN doc[id].relay \subseteq {1}
           /\ DOMAIN doc[id].virtual \subseteq Parts /\ DOMAIN doc[id].code \subseteq Parts
           /\ \A j \in DOMAIN doc[id].relay : doc[id].relay[j] \in Byte
           /\ \A j \in DOMAIN doc[id].virtual : doc[id].virtual[j] \in Byte
           /\ \A j \in DOMAIN doc[id].code :
                  doc[id].code[j].cmd \in Byte /\ doc[id].code[j].text \in Text

IsRunsenDoc(doc) ==
    /\ DOMAIN doc.virtual \subseteq VirtualRows /\ DOMAIN doc.code \subseteq CodeRows
    /\ \A i \in DOMAIN doc.virtual : doc.virtual[i] \in VirtualRow
    /\ \A i \in DOMAIN doc.code : doc.code[i] \in CodeRow

ASSUME DocsAssumption ==
    /\ \A doc \in SceneDocs : IsSceneDoc(doc)
    /\ \A doc \in RunsenDocs : IsRunsenDoc(doc)

ASSUME TurnsAssumption == MaxTurns \in Nat

VARIABLES
    cell,                  \* the EEPROM
    mode,                  \* panel, normal
    scene, virtual, code,  \* _Scenario_List, _Runsen_Virtual, _Runsen_Code
    later,                 \* the entries the request in hand has yet to save
    entry, todo,           \* the one it is saving, and what it has yet to write of it
    turns,                 \* requests and restarts so far
    asked,                 \* the tables as they were last asked for
    whole                  \* the entries that were saved to the end since

tables == <<scene, virtual, code>>
saving == <<later, entry, todo>>
vars == <<cell, mode, tables, saving, turns, asked, whole>>

-----------------------------------------------------------------------------
(***************************************************************************)
(* Loading.                                                                *)
(***************************************************************************)
Kept(n, values) == IF n \in values THEN n ELSE None

(* MemoReadString, up to a terminating zero.                               *)
ReadString(m, from, n) ==
    LET s == [k \in 1 .. n |-> m[from + k - 1]]
        zeros == {k \in 1 .. n : s[k] = 0}
    IN  SubSeq(s, 1, IF zeros = {} THEN n ELSE Min(zeros) - 1)

(* Mutant: a length is taken as it is.                                     *)
ReadTextUnchecked(m, at) == [k \in 1 .. m[at] |-> m[at + k]]

(* A length, then the bytes; a length above ten is no text.                *)
ReadText(m, at) == IF m[at] > 10 THEN <<>> ELSE [k \in 1 .. m[at] |-> m[at + k]]

(* The state of a code is taken as it is: the test that would replace one  *)
(* that is neither 1 nor 2 looks at n before it is read.                   *)
LoadScene(m, i) ==
    IF Kept(m[ACT(i)], {0, 1}) = None THEN NoScene
    ELSE LET cmd == [j \in Parts |-> m[CODESTATE(i, j)]]
         IN  [act |-> m[ACT(i)],
              name |-> ReadString(m, NAME(i), 12),
              relay |-> m[RELAY(i)],
              virtual |-> [j \in Parts |-> m[VIRTUAL(i, j)]],
              cmd |-> cmd,
              text |-> [j \in Parts |->
                           IF cmd[j] = None THEN <<>> ELSE ReadText(m, CODETEXT(i, j))]]

LoadVirtual(m, i) ==
    IF m[VIRTUALCON(i)] \in {0, None} THEN NoRow
    ELSE [dvc |-> 1, con |-> m[VIRTUALCON(i)], sen |-> m[VIRTUALSEN(i)]]

LoadCode(m, i) ==
    LET dvc == Kept(m[CODETYPE(i)], {1, 2})
    IN  CASE dvc = None -> NoCode
          [] dvc # None /\ m[CODECON(i)] > 10 -> [NoCode EXCEPT !.dvc = dvc]
          [] OTHER -> [dvc |-> dvc, con |-> ReadText(m, CODECON(i)), sen |-> m[CODESEN(i)]]

-----------------------------------------------------------------------------
(***************************************************************************)
(* Storing: the writes of a save, in their order.                          *)
(***************************************************************************)
Write(c, v) == [x \in {c} |-> v]

WriteString(from, n, s) ==
    [x \in from .. from + n - 1 |-> IF x - from < Len(s) THEN s[x - from + 1] ELSE 0]

WriteText(at, s) == <<Write(at, Len(s))>> \o [k \in 1 .. Len(s) |-> Write(at + k, s[k])]

(* The cells behind the length are cleared, n of them.                     *)
WriteNoText(at, n) == <<Write(at, None), WriteString(at + 1, n, <<>>)>>

SavePart(s, i, j) ==
    LET cmd == Kept(s.cmd[j], {1, 2})
    IN  <<Write(CODESTATE(i, j), cmd)>>
        \o (IF cmd = None THEN WriteNoText(CODETEXT(i, j), 10)
                          ELSE WriteText(CODETEXT(i, j), s.text[j]))

(* Tools__ScenarioSave of one scene.                                       *)
SaveScene(s, i) ==
    <<Write(ACT(i), s.act), WriteString(NAME(i), 12, s.name), Write(RELAY(i), s.relay)>>
    \o [j \in Parts |-> Write(VIRTUAL(i, j), s.virtual[j])]
    \o SavePart(s, i, 1) \o SavePart(s, i, 2) \o SavePart(s, i, 3)

(* Tools__RunsenSave of one row.                                           *)
SaveVirtual(row, i) == <<Write(VIRTUALCON(i), row.con), Write(VIRTUALSEN(i), row.sen)>>

SaveCode(row, i) ==
    <<Write(CODETYPE(i), Kept(row.dvc, {1, 2}))>>
    \o (IF row.dvc = None THEN WriteNoText(CODECON(i), 11) ELSE WriteText(CODECON(i), row.con))
    \o <<Write(CODESEN(i), row.sen)>>

Writes(e) ==
    CASE e \in Scenes -> SaveScene(scene[e], e)
      [] e \in 10 .. 19 -> SaveVirtual(virtual[e - 10], e - 10)
      [] e \in 20 .. 24 -> SaveCode(code[e - 20], e - 20)

-----------------------------------------------------------------------------
(***************************************************************************)
(* The config panel.                                                       *)
(***************************************************************************)
Ask ==
    /\ mode = "panel" /\ todo = <<>> /\ later = {}
    /\ turns < MaxTurns /\ turns' = turns + 1

IndexOf(id) == IF id > 100 THEN id - 94 ELSE id - 1

(* Mutant: the third of the security scenes is looked up too.              *)
LookedUpAll(k) == IF k >= 8 THEN k + 93 ELSE k

(* Config__JSONSet_Scenario looks for ten keys, and 103 is not one of      *)
(* them; k counts from 1 here.                                             *)
LookedUp(k) == IF k >= 9 THEN k + 92 ELSE k

(* What a document that says d of a scene makes of it.                     *)
Told(d, s) ==
    [act |-> d.act, name |-> d.name,
     relay |-> IF 1 \in DOMAIN d.relay THEN d.relay[1] ELSE s.relay,
     virtual |-> [j \in Parts |-> IF j \in DOMAIN d.virtual THEN d.virtual[j] ELSE s.virtual[j]],
     cmd |-> [j \in Parts |-> IF j \in DOMAIN d.code THEN d.code[j].cmd ELSE s.cmd[j]],
     text |-> [j \in Parts |-> IF j \in DOMAIN d.code THEN d.code[j].text ELSE s.text[j]]]

(* asked has what the document says of every scene, scene what is found.   *)
AskScenes(doc) ==
    LET named == {IndexOf(id) : id \in DOMAIN doc}
        found == {IndexOf(LookedUp(k)) : k \in {k \in 1 .. 10 : LookedUp(k) \in DOMAIN doc}}
        new(i) == Told(doc[CHOOSE id \in DOMAIN doc : IndexOf(id) = i], scene[i])
    IN  /\ Ask
        /\ scene' = [i \in Scenes |-> IF i \in found THEN new(i) ELSE scene[i]]
        /\ later' = found
        /\ asked' = [asked EXCEPT !.scene =
                         [i \in Scenes |-> IF i \in named THEN new(i) ELSE asked.scene[i]]]
        /\ whole' = whole \ named
        /\ UNCHANGED <<cell, mode, virtual, code, entry, todo>>

(* A row that is not used has neither condition nor scene; all rows are    *)
(* saved, whatever was asked for.                                          *)
AskRunsen(doc) ==
    /\ Ask
    /\ virtual' = [i \in VirtualRows |->
           CASE i \notin DOMAIN doc.virtual -> virtual[i]
             [] i \in DOMAIN doc.virtual /\ doc.virtual[i].dvc = None -> NoRow
             [] OTHER -> doc.virtual[i]]
    /\ code' = [i \in CodeRows |->
           CASE i \notin DOMAIN doc.code -> code[i]
             [] i \in DOMAIN doc.code /\ doc.code[i].dvc = None -> NoCode
             [] OTHER -> doc.code[i]]
    /\ later' = Conditions
    /\ asked' = [asked EXCEPT !.virtual = virtual', !.code = code']
    /\ whole' = whole \ Conditions
    /\ UNCHANGED <<cell, mode, scene, entry, todo>>

(* The save goes on with the next entry.                                   *)
Save ==
    /\ todo = <<>>
    /\ \E e \in later :
           /\ \A other \in later : e <= other
           /\ entry' = e /\ todo' = Writes(e)
           /\ later' = later \ {e}
    /\ UNCHANGED <<cell, mode, tables, turns, asked, whole>>

Store ==
    /\ todo # <<>>
    /\ cell' = [c \in Cells |-> IF c \in DOMAIN Head(todo) THEN Head(todo)[c] ELSE cell[c]]
    /\ todo' = Tail(todo)
    /\ whole' = IF todo' = <<>> THEN whole \cup {entry} ELSE whole
    /\ UNCHANGED <<mode, tables, later, entry, turns, asked>>

-----------------------------------------------------------------------------
(***************************************************************************)
(* The network: a code that arrives runs the scenes of its rows.           *)
(***************************************************************************)
(* Check_VirtualCode and Check_CustomCode stop at the first unused row.    *)
(* The rows that run, each with the number of its scene.                   *)
Calls(rows, n, c) ==
    [i \in {i \in 0 .. n - 1 : rows[i].con = c /\ \A h \in 0 .. i : rows[h].dvc # None}
        |-> rows[i].sen]

(* Dvc__Senario_Runing, as far as it changes the tables: the scenes 9 and  *)
(* 10, when they are active, switch the eighth, and the last that runs     *)
(* decides.  A number that is no scene's reads past the table; whatever it *)
(* reads is run, or not, without a change to it.                           *)
Switching(calls) == {i \in DOMAIN calls : calls[i] \in {9, 10} /\ scene[calls[i] - 1].act = 1}

Receive(calls) ==
    /\ mode = "normal" /\ DOMAIN calls # {}
    /\ scene' = IF Switching(calls) = {} THEN scene
                ELSE [scene EXCEPT ![7].act = IF calls[Max(Switching(calls))] = 9 THEN 1 ELSE 0]
    /\ UNCHANGED <<cell, mode, virtual, code, saving, turns, asked, whole>>

VirtualCode(v) == Receive(Calls(virtual, 10, v))
CustomCode(t) == Receive(Calls(code, 5, t))

-----------------------------------------------------------------------------
ScenesOf(m) == [i \in Scenes |-> LoadScene(m, i)]
VirtualOf(m) == [i \in VirtualRows |-> LoadVirtual(m, i)]
CodesOf(m) == [i \in CodeRows |-> LoadCode(m, i)]

(* A restart, or a power cut: setup() loads the tables.                    *)
Restart ==
    /\ turns < MaxTurns /\ turns' = turns + 1
    /\ mode' \in {"panel", "normal"}
    /\ scene' = ScenesOf(cell) /\ virtual' = VirtualOf(cell) /\ code' = CodesOf(cell)
    /\ later' = {} /\ entry' = 0 /\ todo' = <<>>
    /\ UNCHANGED <<cell, asked, whole>>

(* A device whose EEPROM was never written.                                *)
Init ==
    /\ cell = [c \in Cells |-> None]
    /\ mode = "panel"
    /\ scene = ScenesOf(cell) /\ virtual = VirtualOf(cell) /\ code = CodesOf(cell)
    /\ later = {} /\ entry = 0 /\ todo = <<>> /\ turns = 0
    /\ asked = [scene |-> scene, virtual |-> virtual, code |-> code]
    /\ whole = Conditions

Next ==
    \/ \E doc \in SceneDocs : AskScenes(doc)
    \/ \E doc \in RunsenDocs : AskRunsen(doc)
    \/ Save \/ Store
    \/ \E v \in Codes : VirtualCode(v)
    \/ \E t \in Texts : CustomCode(t)
    \/ Restart

Spec == Init /\ [][Next]_vars

-----------------------------------------------------------------------------
(* Types, also of what is loaded after a save that was cut short or whose  *)
(* cells another table shares: texts and names fit their arrays, no write  *)
(* leaves the ranges of the tables.                                        *)
TypeOK ==
    /\ cell \in [Cells -> Byte]
    /\ mode \in {"panel", "normal"} /\ turns \in 0 .. MaxTurns
    /\ scene \in [Scenes -> Scene]
    /\ virtual \in [VirtualRows -> VirtualRow]
    /\ code \in [CodeRows -> CodeRow]
    /\ \A k \in DOMAIN todo : /\ DOMAIN todo[k] \subseteq Cells
                               /\ \A c \in DOMAIN todo[k] : todo[k][c] \in Byte
    /\ later \subseteq Entries /\ entry \in Entries /\ whole \subseteq Entries

(* The virtual conditions a restart loads run what was last stored, and    *)
(* no scene's cells reach into theirs, although the tenth scene's would:   *)
(* it is never stored (config.h:78).  A condition on code 0, or on 255, is *)
(* loaded as an unused row and ends the table (common.h:1210), so a table  *)
(* with one is left out.                                                   *)
VirtualConditions ==
    (/\ mode = "normal" /\ \A i \in VirtualRows : VirtualEntry(i) \in whole
     /\ \A i \in VirtualRows : asked.virtual[i].dvc = None
                                \/ asked.virtual[i].con \notin {0, None})
        => \A v \in Codes : Calls(virtual, 10, v) = Calls(asked.virtual, 10, v)

(* The conditions on custom codes are loaded as they were last stored, but *)
(* for one: when the last row is not used, clearing its text runs into the *)
(* first row's scene (common.h:1269), which is 0 after that.  A row with a *)
(* type that does not exist is stored as unused.                           *)
CodeConditions ==
    (mode = "normal" /\ \A i \in CodeRows : CodeEntry(i) \in whole) =>
        \A i \in CodeRows :
            \/ code[i] = asked.code[i]
            \/ /\ i = 0 /\ asked.code[4].dvc = None
               /\ code[0] = [asked.code[0] EXCEPT !.sen = 0]
            \/ asked.code[i].dvc \notin {1, 2, None}

(* What a scene that was stored has for itself whatever else is stored, or *)
(* cut short, as long as its state is read as one: its virtual codes, and  *)
(* its name unless the states and relays of the scenes lie in it           *)
(* (definitions.h:75-80).  The state in the EEPROM counts: the network may *)
(* switch the eighth scene on although none was loaded (dvcbutton.h:176).  *)
OwnCells ==
    mode = "normal" =>
        \A i \in whole \cap Scenes :
            cell[ACT(i)] \in {0, 1} =>
                /\ scene[i].virtual = asked.scene[i].virtual
                /\ i \notin 1 .. 3 => scene[i].name = asked.scene[i].name

(* Names are stored in EP_SCENARIO_NAME_S to EP_SCENARIO_NAME_E            *)
(* (definitions.h:75-76) and the other parts behind them, so that a scene  *)
(* that was stored to the end is the scene a restart loads.                *)
SceneKept ==
    mode = "normal" =>
        \A i \in whole \cap Scenes :
            asked.scene[i].act # None => scene[i] = asked.scene[i]
=============================================================================
