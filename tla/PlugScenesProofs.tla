-------------------------- MODULE PlugScenesProofs --------------------------
(***************************************************************************)
(* Proofs about the scenes and the conditions: types, and what a restart   *)
(* loads of what was stored.                                               *)
(*                                                                         *)
(* A save is seen as the writes it has left.  A cell that the entry in     *)
(* hand is to have with a value either has it or will be written, and no   *)
(* write left gives it another (Makes); no write left touches what an      *)
(* entry that was saved to the end is to have (Foot, FootApart).  What     *)
(* loading makes of such cells is what was asked for (ReadWritten,         *)
(* TextReads).                                                             *)
(***************************************************************************)
EXTENDS PlugScenes, SequenceTheorems, WellFoundedInduction, TLAPS

(* The cells of one write, with their values.                              *)
Block == UNION {[C -> Byte] : C \in SUBSET Cells}

(* What is left of a save makes the cell c of m have the value v.          *)
Makes(ws, m, c, v) ==
    /\ \A w \in Range(ws) : c \in DOMAIN w => w[c] = v
    /\ m[c] = v \/ \E w \in Range(ws) : c \in DOMAIN w

(* The character of a name at a place of its array.                        *)
Padded(s, k) == IF k < Len(s) THEN s[k + 1] ELSE 0

(* The cells that an entry is to have, as far as they are its own.         *)
WantScene(i, c, v) ==
    \/ \E j \in Parts : c = VIRTUAL(i, j) /\ v = asked.scene[i].virtual[j]
    \/ /\ i \notin 1 .. 3
       /\ \E k \in 0 .. 11 : c = NAME(i) + k /\ v = Padded(asked.scene[i].name, k)

WantVirtual(i, c, v) ==
    \/ c = VIRTUALCON(i) /\ v = asked.virtual[i].con
    \/ c = VIRTUALSEN(i) /\ v = asked.virtual[i].sen

WantCode(i, c, v) ==
    \/ c = CODETYPE(i) /\ v = Kept(asked.code[i].dvc, {1, 2})
    \/ /\ asked.code[i].dvc # None
       /\ \/ c = CODECON(i) /\ v = Len(asked.code[i].con)
          \/ \E k \in 1 .. Len(asked.code[i].con) :
                 c = CODECON(i) + k /\ v = asked.code[i].con[k]
    \/ /\ i = 0 => asked.code[4].dvc # None
       /\ c = CODESEN(i) /\ v = asked.code[i].sen
    \/ /\ i = 4 /\ asked.code[4].dvc = None /\ asked.code[0].dvc # None
       /\ c = CODESEN(0) /\ v = 0

Want(e, c, v) ==
    \/ e \in Scenes /\ WantScene(e, c, v)
    \/ e \in 10 .. 19 /\ WantVirtual(e - 10, c, v)
    \/ e \in 20 .. 24 /\ WantCode(e - 20, c, v)

(* The cells that the save of an entry may touch.                          *)
FootScene(i, c) ==
    /\ c \in 611 .. 1090
    /\ c \in 741 .. 770 => c \in VIRTUAL(i, 1) .. VIRTUAL(i, 3)
    /\ c \in (611 .. 622) \cup (659 .. 730) => c \in NAME(i) .. NAME(i) + 11

FootCode(i, c) ==
    \/ c = CODETYPE(i) \/ c = CODESEN(i)
    \/ c \in CODECON(i) .. CODECON(i) + 10
    \/ asked.code[i].dvc = None /\ c = CODECON(i) + 11

Foot(e, c) ==
    \/ e \in 0 .. 8 /\ FootScene(e, c)
    \/ e \in 10 .. 19 /\ (c = VIRTUALCON(e - 10) \/ c = VIRTUALSEN(e - 10))
    \/ e \in 20 .. 24 /\ FootCode(e - 20, c)

Tables == [scene : [Scenes -> Scene], virtual : [VirtualRows -> VirtualRow],
           code : [CodeRows -> CodeRow]]

TypeInv ==
    /\ cell \in [Cells -> Byte]
    /\ mode \in {"panel", "normal"} /\ turns \in 0 .. MaxTurns
    /\ scene \in [Scenes -> Scene]
    /\ virtual \in [VirtualRows -> VirtualRow]
    /\ code \in [CodeRows -> CodeRow]
    /\ asked \in Tables
    /\ todo \in Seq(Block) /\ entry \in Entries
    /\ later \subseteq Entries \ {9} /\ whole \subseteq Entries \ {9}

(* A row that is not used has neither condition nor scene.                 *)
Unused ==
    /\ \A i \in VirtualRows : /\ virtual[i].dvc = None => virtual[i] = NoRow
                              /\ asked.virtual[i].dvc = None => asked.virtual[i] = NoRow
    /\ \A i \in CodeRows : /\ code[i].dvc = None => code[i] = NoCode
                           /\ asked.code[i].dvc = None => asked.code[i] = NoCode

(* What is yet to be saved is not taken for saved, and the rows behind one *)
(* with a code are saved after it: where a row is not used, clearing its   *)
(* text runs into the next.                                                *)
Order ==
    /\ later \cap whole = {}
    /\ todo # <<>> => entry # 9 /\ entry \notin whole \cup later
    /\ \A e, f \in 20 .. 24 :
           e < f /\ (e \in later \/ (todo # <<>> /\ e = entry)) => f \in later

(* What is saved is what was asked for.                                    *)
Asked ==
    /\ \A i \in Scenes \cap later : scene[i] = asked.scene[i]
    /\ \A i \in VirtualRows : VirtualEntry(i) \in later => virtual[i] = asked.virtual[i]
    /\ \A i \in CodeRows : CodeEntry(i) \in later => code[i] = asked.code[i]

Saved ==
    \A e \in whole, c \in Cells, v \in Byte : Want(e, c, v) => cell[c] = v

Doing ==
    todo # <<>> =>
        /\ \A c \in Cells, v \in Byte : Want(entry, c, v) => Makes(todo, cell, c, v)
        /\ \A w \in Range(todo) : \A c \in DOMAIN w : Foot(entry, c)

(* In normal mode the tables are those of the EEPROM, but for the state of *)
(* the eighth scene.                                                       *)
Loaded ==
    mode = "normal" =>
        /\ todo = <<>> /\ later = {}
        /\ virtual = VirtualOf(cell) /\ code = CodesOf(cell)
        /\ \A i \in Scenes : /\ scene[i].virtual = LoadScene(cell, i).virtual
                             /\ scene[i].name = LoadScene(cell, i).name

Inv == TypeInv /\ Unused /\ Order /\ Asked /\ Saved /\ Doing /\ Loaded

-----------------------------------------------------------------------------
(* The writes of a save as sequences, and the set of them.                 *)
LEMMA BlockWrite ==
    ASSUME NEW c \in Cells, NEW v \in Byte
    PROVE  Write(c, v) \in Block /\ DOMAIN Write(c, v) = {c} /\ Write(c, v)[c] = v
  <1>1. {c} \in SUBSET Cells /\ Write(c, v) \in [{c} -> Byte]
    BY DEF Write
  <1> QED
    BY <1>1 DEF Write, Block

LEMMA BlockString ==
    ASSUME NEW from \in Int, NEW n \in Nat, from .. from + n - 1 \subseteq Cells,
           NEW s \in Seq(Byte)
    PROVE  LET w == WriteString(from, n, s)
           IN  /\ w \in Block /\ DOMAIN w = from .. from + n - 1
               /\ \A k \in 0 .. n - 1 : w[from + k] = Padded(s, k)
  <1> DEFINE w == WriteString(from, n, s)
  <1>1. Len(s) \in Nat /\ \A k \in 1 .. Len(s) : s[k] \in Byte
    BY LenProperties, ElementOfSeq
  <1>2. \A x \in from .. from + n - 1 :
            /\ x - from < Len(s) => x - from + 1 \in 1 .. Len(s)
            /\ (IF x - from < Len(s) THEN s[x - from + 1] ELSE 0) \in Byte
    BY <1>1 DEF Byte
  <1>3. w \in [from .. from + n - 1 -> Byte]
    BY <1>2 DEF WriteString
  <1>4. \A k \in 0 .. n - 1 : from + k \in from .. from + n - 1 /\ (from + k) - from = k
    OBVIOUS
  <1>5. \A k \in 0 .. n - 1 : w[from + k] = Padded(s, k)
    BY <1>4 DEF WriteString, Padded
  <1> QED
    BY <1>3, <1>5 DEF Block

LEMMA SeqOfOne ==
    ASSUME NEW S, NEW a \in S
    PROVE  <<a>> \in Seq(S) /\ Range(<<a>>) = {a}
  BY DEF Range

LEMMA SeqOfMany ==
    ASSUME NEW S, NEW n \in Nat, NEW f, f \in [1 .. n -> S]
    PROVE  f \in Seq(S) /\ Range(f) = {f[k] : k \in 1 .. n}
  BY SeqDef DEF Range

LEMMA RangeEmpty == Range(<<>>) = {}
  BY DEF Range

LEMMA RangeParts ==
    ASSUME NEW S, NEW s \in Seq(S), s # <<>>
    PROVE  Range(s) = {Head(s)} \cup Range(Tail(s))
  <1>1. Len(s) \in Nat /\ Len(s) # 0 /\ Head(s) = s[1] /\ DOMAIN s = 1 .. Len(s)
    BY LenProperties, EmptySeq
  <1>2. Tail(s) \in Seq(S) /\ Len(Tail(s)) = Len(s) - 1
    BY HeadTailProperties
  <1>3. DOMAIN Tail(s) = 1 .. Len(s) - 1 /\ \A i \in 1 .. Len(s) - 1 : Tail(s)[i] = s[i + 1]
    BY <1>2, HeadTailProperties, LenProperties
  <1>4. \A k \in 1 .. Len(s) : k = 1 \/ (k - 1 \in 1 .. Len(s) - 1 /\ k = (k - 1) + 1)
    BY <1>1
  <1>5. ASSUME NEW x \in Range(s)
        PROVE  x = Head(s) \/ x \in Range(Tail(s))
    <2>1. PICK k \in 1 .. Len(s) : x = s[k]
      BY <1>1, <1>5 DEF Range
    <2>2. CASE k = 1
      BY <1>1, <2>1, <2>2
    <2>3. CASE k # 1
      <3>1. k - 1 \in 1 .. Len(s) - 1 /\ Tail(s)[k - 1] = s[k]
        BY <1>1, <1>3, <1>4, <2>3
      <3> QED
        BY <1>3, <2>1, <3>1 DEF Range
    <2> QED
      BY <2>2, <2>3
  <1>6. \A i \in 1 .. Len(s) - 1 : i + 1 \in 1 .. Len(s)
    BY <1>1
  <1>7. Range(Tail(s)) \subseteq Range(s) /\ Head(s) \in Range(s)
    BY <1>1, <1>3, <1>6 DEF Range
  <1> QED
    BY <1>5, <1>7

-----------------------------------------------------------------------------
(* Loading: types.                                                         *)
LEMMA Layout ==
    ASSUME NEW i \in Scenes, NEW j \in Parts
    PROVE  /\ NAME(i) .. NAME(i) + 12 - 1 \subseteq Cells
           /\ \A k \in 0 .. 11 : NAME(i) + k \in Cells
           /\ ACT(i) \in Cells /\ RELAY(i) \in Cells /\ VIRTUAL(i, j) \in Cells
           /\ CODESTATE(i, j) \in Cells
           /\ \A k \in 0 .. 10 : CODETEXT(i, j) + k \in Cells
           /\ CODETEXT(i, j) + 1 .. CODETEXT(i, j) + 1 + 10 - 1 \subseteq Cells
  <1>1. i \in 0 .. 9 /\ j \in 1 .. 3
    BY DEF Scenes, Parts
  <1>2. NAME(i) \in 611 .. 719
    BY <1>1 DEF NAME
  <1>3. CODETEXT(i, j) \in 781 .. 1100
    BY <1>1 DEF CODETEXT
  <1>4. ACT(i) \in Cells /\ RELAY(i) \in Cells
    BY <1>1 DEF ACT, RELAY, Cells
  <1>5. VIRTUAL(i, j) \in Cells
    BY <1>1 DEF VIRTUAL, Cells
  <1>6. CODESTATE(i, j) \in Cells
    BY <1>1 DEF CODESTATE, Cells
  <1>7. /\ NAME(i) .. NAME(i) + 12 - 1 \subseteq Cells
        /\ \A k \in 0 .. 11 : NAME(i) + k \in Cells
    BY <1>2, SMTT(30) DEF Cells
  <1>8. /\ \A k \in 0 .. 10 : CODETEXT(i, j) + k \in Cells
        /\ CODETEXT(i, j) + 1 .. CODETEXT(i, j) + 1 + 10 - 1 \subseteq Cells
    BY <1>3, SMTT(30) DEF Cells
  <1> QED
    BY <1>4, <1>7, <1>8, <1>5, <1>6

LEMMA RowLayout ==
    /\ \A i \in VirtualRows : VIRTUALCON(i) \in Cells /\ VIRTUALSEN(i) \in Cells
    /\ \A i \in CodeRows : /\ CODETYPE(i) \in Cells /\ CODESEN(i) \in Cells
                           /\ \A k \in 0 .. 11 : CODECON(i) + k \in Cells
                           /\ CODECON(i) + 1 .. CODECON(i) + 1 + 11 - 1 \subseteq Cells
  BY DEF VirtualRows, CodeRows, Cells, VIRTUALCON, VIRTUALSEN, CODETYPE, CODESEN, CODECON

LEMMA FirstOfMany ==
    ASSUME NEW S \in SUBSET Nat, S # {}
    PROVE  \E i \in S : \A j \in S : i <= j
  <1>1. PICK i \in S : \A j \in S : ~ (<<j, i>> \in OpToRel(<, Nat))
    BY NatLessThanWellFounded, WFMin
  <1>2. SUFFICES ASSUME NEW j \in S
                 PROVE  i <= j
    OBVIOUS
  <1>3. i \in Nat /\ j \in Nat /\ <<j, i>> \notin OpToRel(<, Nat)
    BY <1>1
  <1> QED
    BY <1>3 DEF OpToRel

LEMMA FirstIs ==
    ASSUME NEW S \in SUBSET Nat, NEW i \in S, \A j \in S : i <= j
    PROVE  Min(S) = i
  <1>1. \A x \in S : (\A y \in S : x <= y) => x = i
    OBVIOUS
  <1> QED
    BY <1>1 DEF Min

(* What is read of a name ends before its first zero.                      *)
LEMMA ReadName ==
    ASSUME NEW m \in [Cells -> Byte], NEW i \in Scenes
    PROVE  ReadString(m, NAME(i), 12) \in Name
  <1> DEFINE s == [k \in 1 .. 12 |-> m[NAME(i) + k - 1]]
             zeros == {k \in 1 .. 12 : s[k] = 0}
             n == IF zeros = {} THEN 12 ELSE Min(zeros) - 1
  <1>1. \A k \in 1 .. 12 : s[k] \in 0 .. 255
    <2>1. \A k \in 1 .. 12 : NAME(i) + k - 1 \in Cells
      BY DEF Scenes, NAME, Cells
    <2>2. \A k \in 1 .. 12 : m[NAME(i) + k - 1] \in Byte
      BY <2>1
    <2> QED
      BY <2>2 DEF Byte
  <1>2. n \in 0 .. 12 /\ \A k \in 1 .. n : s[k] # 0
    <2>1. zeros \in SUBSET Nat /\ zeros \subseteq 1 .. 12
      OBVIOUS
    <2>2. \A k \in 1 .. 12 : s[k] = 0 => k \in zeros
      OBVIOUS
    <2>3. n = IF zeros = {} THEN 12 ELSE Min(zeros) - 1
      OBVIOUS
    <2> HIDE DEF s, zeros, n
    <2>4. CASE zeros = {}
      BY <2>2, <2>3, <2>4
    <2>5. CASE zeros # {}
      <3>1. PICK z \in zeros : \A y \in zeros : z <= y
        BY <2>1, <2>5, FirstOfMany
      <3>2. Min(zeros) = z
        BY <2>1, <3>1, FirstIs
      <3>3. n = z - 1 /\ z \in 1 .. 12
        BY <2>1, <2>3, <2>5, <3>2
      <3>4. \A k \in 1 .. z - 1 : k \in 1 .. 12 /\ ~ (z <= k)
        BY <3>3
      <3> QED
        BY <2>2, <3>1, <3>3, <3>4
    <2> QED
      BY <2>4, <2>5
  <1>3. \A k \in 1 .. n : k \in 1 .. 12 /\ s[k] \in 1 .. 255
    <2> HIDE DEF s, n
    <2> QED
      BY <1>1, <1>2
  <1>4. SubSeq(s, 1, n) \in Seq(1 .. 255) /\ Len(SubSeq(s, 1, n)) <= 12
    <2> HIDE DEF s, n
    <2>1. n \in Int /\ 1 \in Int
      BY <1>2
    <2>2. /\ SubSeq(s, 1, n) \in Seq(1 .. 255)
          /\ Len(SubSeq(s, 1, n)) = IF 1 <= n THEN n - 1 + 1 ELSE 0
      BY <1>3, <2>1, SubSeqProperties
    <2> QED
      BY <1>2, <2>2
  <1>5. ReadString(m, NAME(i), 12) = SubSeq(s, 1, n)
    BY DEF ReadString
  <1> HIDE DEF s, n
  <1> QED
    BY <1>4, <1>5 DEF Name

LEMMA ReadsText ==
    ASSUME NEW m \in [Cells -> Byte], NEW at \in Int, \A k \in 0 .. 10 : at + k \in Cells
    PROVE  ReadText(m, at) \in Text
  <1>1. at \in Cells /\ m[at] \in 0 .. 255
    <2>1. at + 0 \in Cells
      OBVIOUS
    <2> QED
      BY <2>1 DEF Byte
  <1>2. CASE m[at] > 10
    BY <1>2, EmptySeq DEF ReadText, Text
  <1>3. CASE ~ (m[at] > 10)
    <2>1. m[at] \in 0 .. 10 /\ \A k \in 1 .. m[at] : at + k \in Cells
      BY <1>1, <1>3
    <2>2. [k \in 1 .. m[at] |-> m[at + k]] \in [1 .. m[at] -> Byte]
      BY <2>1
    <2> DEFINE t == [k \in 1 .. m[at] |-> m[at + k]]
    <2>3. t \in [1 .. m[at] -> Byte] /\ m[at] \in Nat
      BY <2>1, <2>2
    <2>4. ReadText(m, at) = t
      BY <1>3 DEF ReadText
    <2> HIDE DEF t
    <2>5. t \in Seq(Byte) /\ DOMAIN t = 1 .. m[at]
      BY <2>3, SeqOfMany
    <2>6. Len(t) \in Nat /\ DOMAIN t = 1 .. Len(t)
      BY <2>5, LenProperties
    <2>7. Len(t) = m[at]
      BY <2>3, <2>5, <2>6
    <2>8. Len(t) <= 10
      BY <2>1, <2>7, SMTT(30)
    <2> QED
      BY <2>4, <2>5, <2>8 DEF Text
  <1> QED
    BY <1>2, <1>3

LEMMA NoTypes == NoScene \in Scene /\ NoRow \in VirtualRow /\ NoCode \in CodeRow
  <1>1. <<>> \in Name /\ <<>> \in Text /\ None \in Byte
    BY EmptySeq DEF Name, Text, None, Byte
  <1> QED
    BY <1>1 DEF NoScene, NoRow, NoCode, Scene, VirtualRow, CodeRow

LEMMA LoadTypes ==
    ASSUME NEW m \in [Cells -> Byte]
    PROVE  /\ ScenesOf(m) \in [Scenes -> Scene]
           /\ VirtualOf(m) \in [VirtualRows -> VirtualRow]
           /\ CodesOf(m) \in [CodeRows -> CodeRow]
  <1>1. ASSUME NEW i \in Scenes
        PROVE  LoadScene(m, i) \in Scene
    <2> DEFINE cmd == [j \in Parts |-> m[CODESTATE(i, j)]]
               text == [j \in Parts |-> IF cmd[j] = None THEN <<>> ELSE ReadText(m, CODETEXT(i, j))]
    <2>1. cmd \in [Parts -> Byte] /\ [j \in Parts |-> m[VIRTUAL(i, j)]] \in [Parts -> Byte]
      BY Layout
    <2>2. m[ACT(i)] \in Byte /\ m[RELAY(i)] \in Byte
      <3>1. 1 \in Parts
        BY DEF Parts
      <3> QED
        BY <3>1, Layout
    <2>3. \A j \in Parts : ReadText(m, CODETEXT(i, j)) \in Text
      <3> TAKE j \in Parts
      <3>1. CODETEXT(i, j) \in Int
        BY DEF CODETEXT, Scenes, Parts
      <3> QED
        BY <3>1, Layout, ReadsText
    <2>4. text \in [Parts -> Text]
      BY <2>3, EmptySeq DEF Text
    <2>5. ReadString(m, NAME(i), 12) \in Name
      BY ReadName
    <2>6. CASE Kept(m[ACT(i)], {0, 1}) = None
      BY <2>6, NoTypes DEF LoadScene
    <2>7. CASE Kept(m[ACT(i)], {0, 1}) # None
      BY <2>1, <2>2, <2>4, <2>5, <2>7 DEF LoadScene, Scene
    <2> QED
      BY <2>6, <2>7
  <1>2. ASSUME NEW i \in VirtualRows
        PROVE  LoadVirtual(m, i) \in VirtualRow
    <2>1. m[VIRTUALCON(i)] \in Byte /\ m[VIRTUALSEN(i)] \in Byte /\ 1 \in Byte
      BY RowLayout DEF Byte
    <2> QED
      BY <2>1, NoTypes DEF LoadVirtual, VirtualRow
  <1>3. ASSUME NEW i \in CodeRows
        PROVE  LoadCode(m, i) \in CodeRow
    <2>1. m[CODESEN(i)] \in Byte /\ Kept(m[CODETYPE(i)], {1, 2}) \in Byte
      BY RowLayout DEF Kept, None, Byte
    <2>2. ReadText(m, CODECON(i)) \in Text
      <3>1. CODECON(i) \in Int /\ \A k \in 0 .. 10 : CODECON(i) + k \in Cells
        BY RowLayout DEF CODECON, CodeRows
      <3> QED
        BY <3>1, ReadsText
    <2>3. [NoCode EXCEPT !.dvc = Kept(m[CODETYPE(i)], {1, 2})] \in CodeRow
      BY <2>1, NoTypes DEF CodeRow
    <2> QED
      BY <2>1, <2>2, <2>3, NoTypes DEF LoadCode, CodeRow
  <1> QED
    BY <1>1, <1>2, <1>3 DEF ScenesOf, VirtualOf, CodesOf

-----------------------------------------------------------------------------
(* Storing: the writes of a save.                                          *)
LEMMA SeqJoin ==
    ASSUME NEW S, NEW a \in Seq(S), NEW b \in Seq(S)
    PROVE  a \o b \in Seq(S) /\ Range(a \o b) = Range(a) \cup Range(b)
  BY ConcatProperties, RangeConcatenation

LEMMA SeqPut ==
    ASSUME NEW S, NEW a \in S, NEW b \in Seq(S)
    PROVE  <<a>> \o b \in Seq(S) /\ Range(<<a>> \o b) = {a} \cup Range(b)
  <1> DEFINE one == <<a>>
  <1>1. one \in Seq(S) /\ Range(one) = {a}
    BY SeqOfOne
  <1> HIDE DEF one
  <1>2. one \o b \in Seq(S) /\ Range(one \o b) = {a} \cup Range(b)
    BY <1>1, SeqJoin
  <1> QED
    BY <1>2 DEF one

LEMMA TextIs ==
    ASSUME NEW s \in Text
    PROVE  /\ Len(s) \in 0 .. 10 /\ Len(s) \in Byte
           /\ \A k \in 1 .. Len(s) : s[k] \in Byte
           /\ s \in [1 .. Len(s) -> Byte]
  <1>1. s \in Seq(Byte) /\ Len(s) <= 10
    BY DEF Text
  <1>2. Len(s) \in Nat /\ s \in [1 .. Len(s) -> Byte]
    BY <1>1, LenProperties
  <1>3. \A k \in 1 .. Len(s) : s[k] \in Byte
    BY <1>2
  <1>4. Len(s) \in 0 .. 10 /\ Len(s) \in Byte
    <2> DEFINE n == Len(s)
    <2>1. n \in Nat /\ n <= 10
      BY <1>1, <1>2
    <2> HIDE DEF n
    <2>2. n \in 0 .. 10 /\ n \in Byte
      BY <2>1 DEF Byte
    <2> QED
      BY <2>2 DEF n
  <1> QED
    BY <1>2, <1>3, <1>4

LEMMA TextWrites ==
    ASSUME NEW at \in Int, \A k \in 0 .. 10 : at + k \in Cells, NEW s \in Text
    PROVE  /\ WriteText(at, s) \in Seq(Block)
           /\ Range(WriteText(at, s)) =
                  {Write(at, Len(s))} \cup {Write(at + k, s[k]) : k \in 1 .. Len(s)}
           /\ \A w \in Range(WriteText(at, s)) : \A c \in DOMAIN w : c \in at .. at + 10
  <1> DEFINE n == Len(s)
             rest == [k \in 1 .. n |-> Write(at + k, s[k])]
             all == {Write(at + k, s[k]) : k \in 1 .. n}
             first == Write(at, n)
  <1>1. n \in 0 .. 10 /\ n \in Byte /\ \A k \in 1 .. n : s[k] \in Byte
    BY TextIs
  <1>2. WriteText(at, s) = <<first>> \o rest
    BY DEF WriteText
  <1> HIDE DEF n
  <1>3. \A k \in 1 .. n : k \in 0 .. 10 /\ at + k \in Cells /\ at + k \in at .. at + 10
    <2>1. \A k \in 1 .. n : k \in 0 .. 10
      BY <1>1
    <2> QED
      BY <2>1
  <1>4. at \in Cells /\ at \in at .. at + 10
    <2>1. at + 0 \in Cells
      OBVIOUS
    <2> QED
      BY <2>1
  <1>5. \A k \in 1 .. n : Write(at + k, s[k]) \in Block
    BY <1>1, <1>3, BlockWrite
  <1>6. rest \in [1 .. n -> Block] /\ {rest[k] : k \in 1 .. n} = all
    BY <1>5
  <1>7. first \in Block
    BY <1>1, <1>4, BlockWrite
  <1>8. \A w \in {first} \cup all : \A c \in DOMAIN w : c \in at .. at + 10
    <2>1. \A c, v : \A x \in DOMAIN Write(c, v) : x = c
      BY DEF Write
    <2>2. \A c \in DOMAIN first : c \in at .. at + 10
      <3> HIDE DEF all, rest
      <3>1. \A c \in DOMAIN first : c = at
        BY <2>1
      <3> QED
        BY <1>4, <3>1
    <2>3. ASSUME NEW w \in all, NEW c \in DOMAIN w
          PROVE  c \in at .. at + 10
      <3>1. PICK k \in 1 .. n : w = Write(at + k, s[k])
        OBVIOUS
      <3>2. c = at + k
        BY <2>1, <3>1
      <3> QED
        BY <1>3, <3>2
    <2> QED
      BY <2>2, <2>3
  <1> HIDE DEF rest, first, all
  <1>9. rest \in Seq(Block) /\ Range(rest) = all
    <2>1. n \in Nat
      BY <1>1
    <2> QED
      BY <1>6, <2>1, SeqOfMany
  <1>10. WriteText(at, s) \in Seq(Block) /\ Range(WriteText(at, s)) = {first} \cup all
    BY <1>2, <1>7, <1>9, SeqPut
  <1> QED
    BY <1>8, <1>10 DEF first, all, n

LEMMA NoTextWrites ==
    ASSUME NEW at \in Cells, NEW n \in Nat, at + 1 .. at + 1 + n - 1 \subseteq Cells
    PROVE  /\ WriteNoText(at, n) \in Seq(Block)
           /\ Range(WriteNoText(at, n)) = {Write(at, None), WriteString(at + 1, n, <<>>)}
           /\ Write(at, None) \in Block /\ DOMAIN Write(at, None) = {at}
           /\ DOMAIN WriteString(at + 1, n, <<>>) = at + 1 .. at + n
           /\ \A k \in 1 .. n : WriteString(at + 1, n, <<>>)[at + k] = 0
  <1> DEFINE a == Write(at, None)
             b == WriteString(at + 1, n, <<>>)
  <1>1. a \in Block /\ DOMAIN a = {at}
    BY BlockWrite DEF None, Byte
  <1>2. /\ b \in Block /\ DOMAIN b = at + 1 .. at + 1 + n - 1
        /\ \A k \in 0 .. n - 1 : b[at + 1 + k] = Padded(<<>>, k)
    <2>1. at + 1 \in Int /\ <<>> \in Seq(Byte)
      BY EmptySeq DEF Cells
    <2> QED
      BY <2>1, BlockString
  <1>3. at + 1 + n - 1 = at + n
    BY DEF Cells
  <1>4. \A k \in 0 .. n - 1 : Padded(<<>>, k) = 0
    BY EmptySeq DEF Padded
  <1>5. \A k \in 1 .. n : b[at + k] = 0
    <2> HIDE DEF b
    <2> TAKE k \in 1 .. n
    <2>1. k - 1 \in 0 .. n - 1 /\ at + 1 + (k - 1) = at + k
      BY DEF Cells
    <2>2. b[at + 1 + (k - 1)] = 0
      BY <1>2, <1>4, <2>1
    <2> QED
      BY <2>1, <2>2
  <1>6. WriteNoText(at, n) = <<a, b>>
    BY DEF WriteNoText
  <1> HIDE DEF a, b
  <1>7. <<a, b>> \in Seq(Block) /\ Range(<<a, b>>) = {a, b}
    BY <1>1, <1>2 DEF Range
  <1> QED
    BY <1>1, <1>2, <1>3, <1>5, <1>6, <1>7 DEF a, b

(* The writes of a part of a scene stay in its cells.                      *)
LEMMA PartWrites ==
    ASSUME NEW s \in Scene, NEW i \in Scenes, NEW j \in Parts
    PROVE  /\ SavePart(s, i, j) \in Seq(Block)
           /\ \A w \in Range(SavePart(s, i, j)) : \A c \in DOMAIN w :
                  c = CODESTATE(i, j) \/ c \in CODETEXT(i, j) .. CODETEXT(i, j) + 10
  <1> DEFINE cmd == Kept(s.cmd[j], {1, 2})
             at == CODETEXT(i, j)
             first == Write(CODESTATE(i, j), cmd)
             rest == IF cmd = None THEN WriteNoText(at, 10) ELSE WriteText(at, s.text[j])
  <1>1. cmd \in Byte /\ s.text[j] \in Text
    BY DEF Scene, Kept, None, Byte
  <1>2. first \in Block /\ DOMAIN first = {CODESTATE(i, j)}
    BY <1>1, Layout, BlockWrite
  <1>3. at \in Int /\ (\A k \in 0 .. 10 : at + k \in Cells)
    BY Layout DEF CODETEXT, Scenes, Parts
  <1>4. at \in Cells
    <2>1. at + 0 \in Cells
      BY <1>3
    <2> QED
      BY <1>3, <2>1
  <1>5. at + 1 .. at + 1 + 10 - 1 \subseteq Cells
    BY Layout
  <1>6. rest \in Seq(Block) /\ \A w \in Range(rest) : \A c \in DOMAIN w : c \in at .. at + 10
    <2> SUFFICES /\ WriteNoText(at, 10) \in Seq(Block) /\ WriteText(at, s.text[j]) \in Seq(Block)
                 /\ \A w \in Range(WriteNoText(at, 10)) \cup Range(WriteText(at, s.text[j])) :
                        \A c \in DOMAIN w : c \in at .. at + 10
      OBVIOUS
    <2> HIDE DEF at, cmd
    <2>1. /\ WriteNoText(at, 10) \in Seq(Block)
          /\ Range(WriteNoText(at, 10)) = {Write(at, None), WriteString(at + 1, 10, <<>>)}
          /\ DOMAIN Write(at, None) = {at}
          /\ DOMAIN WriteString(at + 1, 10, <<>>) = at + 1 .. at + 10
      BY <1>4, <1>5, NoTextWrites
    <2>2. at \in at .. at + 10 /\ at + 1 .. at + 10 \subseteq at .. at + 10
      BY <1>3
    <2>3. \A w \in Range(WriteNoText(at, 10)) : \A c \in DOMAIN w : c \in at .. at + 10
      BY <2>1, <2>2
    <2>4. /\ WriteText(at, s.text[j]) \in Seq(Block)
          /\ \A w \in Range(WriteText(at, s.text[j])) : \A c \in DOMAIN w : c \in at .. at + 10
      BY <1>1, <1>3, TextWrites
    <2> QED
      BY <2>1, <2>3, <2>4
  <1>7. SavePart(s, i, j) = <<first>> \o rest
    BY DEF SavePart
  <1> HIDE DEF first, rest, at
  <1>8. SavePart(s, i, j) \in Seq(Block) /\ Range(SavePart(s, i, j)) = {first} \cup Range(rest)
    BY <1>2, <1>6, <1>7, SeqPut
  <1> QED
    BY <1>2, <1>6, <1>8 DEF at

(* The writes of a scene.                                                  *)
NameOf(s, i) == WriteString(NAME(i), 12, s.name)
VirtualsOf(s, i) == {Write(VIRTUAL(i, j), s.virtual[j]) : j \in Parts}

LEMMA SceneWrites ==
    ASSUME NEW s \in Scene, NEW i \in Scenes
    PROVE  /\ SaveScene(s, i) \in Seq(Block)
           /\ Range(SaveScene(s, i)) =
                  {Write(ACT(i), s.act), NameOf(s, i), Write(RELAY(i), s.relay)}
                  \cup VirtualsOf(s, i)
                  \cup Range(SavePart(s, i, 1)) \cup Range(SavePart(s, i, 2))
                  \cup Range(SavePart(s, i, 3))
           /\ DOMAIN NameOf(s, i) = NAME(i) .. NAME(i) + 11
           /\ \A k \in 0 .. 11 : NameOf(s, i)[NAME(i) + k] = Padded(s.name, k)
  <1> DEFINE a == Write(ACT(i), s.act)
             b == NameOf(s, i)
             d == Write(RELAY(i), s.relay)
             abd == <<a, b, d>>
             v == [j \in Parts |-> Write(VIRTUAL(i, j), s.virtual[j])]
             p1 == SavePart(s, i, 1)
             p2 == SavePart(s, i, 2)
             p3 == SavePart(s, i, 3)
  <1>1. /\ s.act \in Byte /\ s.relay \in Byte /\ \A j \in Parts : s.virtual[j] \in Byte
        /\ s.name \in Seq(Byte)
    <2>1. s.name \in Seq(1 .. 255) /\ 1 .. 255 \subseteq Byte
      BY DEF Scene, Name, Byte
    <2>2. s.name \in Seq(Byte)
      BY <2>1, SeqMonotonic
    <2> QED
      BY <2>2 DEF Scene
  <1>2. 1 \in Parts /\ 2 \in Parts /\ 3 \in Parts /\ Parts = 1 .. 3
    BY DEF Parts
  <1>3. a \in Block /\ d \in Block /\ \A j \in Parts : Write(VIRTUAL(i, j), s.virtual[j]) \in Block
    BY <1>1, <1>2, Layout, BlockWrite
  <1>4. /\ b \in Block /\ DOMAIN b = NAME(i) .. NAME(i) + 12 - 1
        /\ \A k \in 0 .. 12 - 1 : b[NAME(i) + k] = Padded(s.name, k)
    <2>1. NAME(i) \in Int /\ NAME(i) .. NAME(i) + 12 - 1 \subseteq Cells /\ 12 \in Nat
      BY <1>2, Layout DEF NAME, Scenes
    <2> QED
      BY <1>1, <2>1, BlockString DEF NameOf
  <1>5. NAME(i) + 12 - 1 = NAME(i) + 11
    BY DEF NAME, Scenes
  <1>6. v \in [1 .. 3 -> Block] /\ {v[j] : j \in 1 .. 3} = VirtualsOf(s, i)
    BY <1>2, <1>3 DEF VirtualsOf
  <1>7. p1 \in Seq(Block) /\ p2 \in Seq(Block) /\ p3 \in Seq(Block)
    BY <1>2, PartWrites
  <1>8. SaveScene(s, i) = abd \o v \o p1 \o p2 \o p3
    BY DEF SaveScene, NameOf
  <1> HIDE DEF a, b, d, v, p1, p2, p3
  <1>9. abd \in Seq(Block) /\ Range(abd) = {a, b, d}
    BY <1>3, <1>4 DEF Range
  <1>10. v \in Seq(Block) /\ Range(v) = VirtualsOf(s, i)
    <2>1. 3 \in Nat
      OBVIOUS
    <2> QED
      BY <1>6, <2>1, SeqOfMany
  <1> HIDE DEF abd
  <1> DEFINE x == abd \o v
             y == x \o p1
             z == y \o p2
  <1>11. x \in Seq(Block) /\ Range(x) = {a, b, d} \cup VirtualsOf(s, i)
    BY <1>9, <1>10, SeqJoin
  <1>12. z \o p3 \in Seq(Block)
         /\ Range(z \o p3) = Range(x) \cup Range(p1) \cup Range(p2) \cup Range(p3)
    <2> HIDE DEF x
    <2>1. y \in Seq(Block) /\ Range(y) = Range(x) \cup Range(p1)
      BY <1>7, <1>11, SeqJoin
    <2> HIDE DEF y
    <2>2. z \in Seq(Block) /\ Range(z) = Range(y) \cup Range(p2)
      BY <1>7, <2>1, SeqJoin
    <2> HIDE DEF z
    <2>3. z \o p3 \in Seq(Block) /\ Range(z \o p3) = Range(z) \cup Range(p3)
      BY <1>7, <2>2, SeqJoin
    <2> QED
      BY <2>1, <2>2, <2>3, Zenon
  <1>13. SaveScene(s, i) = z \o p3
    BY <1>8, Zenon
  <1> HIDE DEF x, z
  <1> QED
    BY <1>4, <1>5, <1>11, <1>12, <1>13 DEF a, b, d, p1, p2, p3

(* What the save of an entry is to be.                                     *)
Does(ws, e) ==
    /\ ws \in Seq(Block)
    /\ \A c \in Cells, v \in Byte :
           Want(e, c, v) => /\ \A w \in Range(ws) : c \in DOMAIN w => w[c] = v
                            /\ \E w \in Range(ws) : c \in DOMAIN w
    /\ \A w \in Range(ws) : \A c \in DOMAIN w : Foot(e, c)

LEMMA WriteIs == \A c, v : /\ c \in DOMAIN Write(c, v)
                           /\ \A x \in DOMAIN Write(c, v) : x = c /\ Write(c, v)[x] = v
  BY DEF Write

LEMMA SceneDoes ==
    ASSUME NEW e \in 0 .. 8, asked \in Tables
    PROVE  Does(SaveScene(asked.scene[e], e), e)
  <1> DEFINE s == asked.scene[e]
             ws == SaveScene(s, e)
  <1>1. e \in Scenes /\ s \in Scene
    BY DEF Tables, Scenes
  <1>2. /\ ws \in Seq(Block)
        /\ Range(ws) = {Write(ACT(e), s.act), NameOf(s, e), Write(RELAY(e), s.relay)}
                       \cup VirtualsOf(s, e)
                       \cup Range(SavePart(s, e, 1)) \cup Range(SavePart(s, e, 2))
                       \cup Range(SavePart(s, e, 3))
        /\ DOMAIN NameOf(s, e) = NAME(e) .. NAME(e) + 11
        /\ \A k \in 0 .. 11 : NameOf(s, e)[NAME(e) + k] = Padded(s.name, k)
    BY <1>1, SceneWrites
  <1>3. \A j \in Parts : \A w \in Range(SavePart(s, e, j)) : \A c \in DOMAIN w :
            c = CODESTATE(e, j) \/ c \in CODETEXT(e, j) .. CODETEXT(e, j) + 10
    BY <1>1, PartWrites
  <1> HIDE DEF s, ws
  <1>4. 1 \in Parts /\ 2 \in Parts /\ 3 \in Parts
    BY DEF Parts
  <1>5. \A w \in Range(ws) :
            \/ w = Write(ACT(e), s.act)
            \/ w = NameOf(s, e)
            \/ w = Write(RELAY(e), s.relay)
            \/ \E j \in Parts : w = Write(VIRTUAL(e, j), s.virtual[j])
            \/ \A c \in DOMAIN w : c \in 771 .. 1080
    <2>1. \A j \in Parts : /\ CODESTATE(e, j) \in 771 .. 1080
                           /\ CODETEXT(e, j) .. CODETEXT(e, j) + 10 \subseteq 771 .. 1080
      BY DEF CODESTATE, CODETEXT, Parts
    <2>2. \A j \in Parts : \A w \in Range(SavePart(s, e, j)) : \A c \in DOMAIN w :
              c \in 771 .. 1080
      BY <1>3, <2>1
    <2>3. TAKE w \in Range(ws)
    <2>4. \/ w \in {Write(ACT(e), s.act), NameOf(s, e), Write(RELAY(e), s.relay)}
          \/ w \in VirtualsOf(s, e)
          \/ \E j \in Parts : w \in Range(SavePart(s, e, j))
      BY <1>2, <1>4, Zenon
    <2>5. CASE w \in VirtualsOf(s, e)
      BY <2>5 DEF VirtualsOf
    <2>6. CASE \E j \in Parts : w \in Range(SavePart(s, e, j))
      BY <2>2, <2>6
    <2> QED
      BY <2>4, <2>5, <2>6
  <1>6. ASSUME NEW w \in Range(ws), NEW c \in DOMAIN w
        PROVE  \/ w = Write(ACT(e), s.act) /\ c = ACT(e)
               \/ w = NameOf(s, e) /\ c \in NAME(e) .. NAME(e) + 11
               \/ w = Write(RELAY(e), s.relay) /\ c = RELAY(e)
               \/ \E j \in Parts : c = VIRTUAL(e, j) /\ w[c] = s.virtual[j]
               \/ c \in 771 .. 1080
    <2>1. CASE w = Write(ACT(e), s.act)
      BY <2>1, WriteIs
    <2>2. CASE w = NameOf(s, e)
      BY <1>2, <2>2
    <2>3. CASE w = Write(RELAY(e), s.relay)
      BY <2>3, WriteIs
    <2>4. CASE \E j \in Parts : w = Write(VIRTUAL(e, j), s.virtual[j])
      BY <2>4, WriteIs
    <2>5. CASE \A x \in DOMAIN w : x \in 771 .. 1080
      BY <2>5
    <2> QED
      BY <1>5, <2>1, <2>2, <2>3, <2>4, <2>5
  <1>7. /\ ACT(e) \in 631 .. 639 /\ RELAY(e) \in 641 .. 649
        /\ \A j \in Parts : VIRTUAL(e, j) \in 741 .. 767
        /\ NAME(e) .. NAME(e) + 11 \subseteq 611 .. 718
        /\ e \notin 1 .. 3 => NAME(e) .. NAME(e) + 11 \subseteq (611 .. 622) \cup (659 .. 718)
    BY DEF ACT, RELAY, VIRTUAL, NAME, Parts
  <1>8. ASSUME NEW w \in Range(ws), NEW c \in DOMAIN w
        PROVE  Foot(e, c)
    <2>1. \/ c \in 631 .. 639 \/ c \in 641 .. 649 \/ c \in 771 .. 1080
          \/ c \in NAME(e) .. NAME(e) + 11
          \/ \E j \in Parts : c = VIRTUAL(e, j)
      <3>1. ACT(e) \in 631 .. 639 /\ RELAY(e) \in 641 .. 649
        BY <1>7
      <3> QED
        BY <1>6, <3>1
    <2>2. CASE c \in 631 .. 639 \/ c \in 641 .. 649 \/ c \in 771 .. 1080
      BY <2>2, SMTT(30) DEF Foot, FootScene
    <2>3. CASE c \in NAME(e) .. NAME(e) + 11
      <3>1. c \in 611 .. 718
        BY <1>7, <2>3
      <3> QED
        BY <2>3, <3>1 DEF Foot, FootScene
    <2>4. ASSUME NEW j \in Parts, c = VIRTUAL(e, j)
          PROVE  Foot(e, c)
      <3>1. c \in 741 .. 767
        BY <1>7, <2>4
      <3>2. VIRTUAL(e, j) \in VIRTUAL(e, 1) .. VIRTUAL(e, 3)
        BY DEF VIRTUAL, Parts
      <3> QED
        BY <2>4, <3>1, <3>2 DEF Foot, FootScene
    <2> QED
      BY <2>1, <2>2, <2>3, <2>4
  <1>9. ASSUME NEW j \in Parts, NEW w \in Range(ws), VIRTUAL(e, j) \in DOMAIN w
        PROVE  w[VIRTUAL(e, j)] = s.virtual[j]
    <2>1. \A i \in Parts : VIRTUAL(e, i) = VIRTUAL(e, j) => i = j
      BY DEF VIRTUAL, Parts
    <2> DEFINE c == VIRTUAL(e, j)
    <2>2. c \in DOMAIN w /\ c \in 741 .. 767
      BY <1>7, <1>9
    <2> HIDE DEF c
    <2>3. ~ (c = ACT(e)) /\ ~ (c = RELAY(e)) /\ c \notin NAME(e) .. NAME(e) + 11 /\ c \notin 771 .. 1080
      <3>1. /\ ACT(e) \in 631 .. 639 /\ RELAY(e) \in 641 .. 649
            /\ NAME(e) .. NAME(e) + 11 \subseteq 611 .. 718
        BY <1>7
      <3>2. c \notin 631 .. 639 /\ c \notin 641 .. 649 /\ c \notin 611 .. 718
            /\ c \notin 771 .. 1080
        BY <2>2
      <3> QED
        BY <3>1, <3>2
    <2>4. \E i \in Parts : c = VIRTUAL(e, i) /\ w[c] = s.virtual[i]
      BY <1>6, <2>2, <2>3
    <2> QED
      BY <2>1, <2>4 DEF c
  <1>10. ASSUME e \notin 1 .. 3, NEW k \in 0 .. 11, NEW w \in Range(ws), NAME(e) + k \in DOMAIN w
         PROVE  w[NAME(e) + k] = Padded(s.name, k)
    <2>1. NAME(e) + k \in NAME(e) .. NAME(e) + 11
      BY DEF NAME
    <2> DEFINE c == NAME(e) + k
    <2>2. c \in (611 .. 622) \cup (659 .. 718) /\ c \in DOMAIN w
      BY <1>7, <1>10, <2>1
    <2>3. c \notin 631 .. 639 /\ c \notin 641 .. 649 /\ c \notin 741 .. 767
          /\ c \notin 771 .. 1080
      BY <2>2, SMTT(30)
    <2>4. /\ ACT(e) \in 631 .. 639 /\ RELAY(e) \in 641 .. 649
          /\ \A j \in Parts : VIRTUAL(e, j) \in 741 .. 767
      BY <1>7
    <2> HIDE DEF c
    <2>5. w = NameOf(s, e)
      BY <1>6, <2>2, <2>3, <2>4
    <2> QED
      BY <1>2, <2>5
  <1>11. ASSUME NEW j \in Parts
         PROVE  \E w \in Range(ws) : VIRTUAL(e, j) \in DOMAIN w
    <2>1. Write(VIRTUAL(e, j), s.virtual[j]) \in Range(ws)
      BY <1>2 DEF VirtualsOf
    <2> QED
      BY <2>1, WriteIs
  <1>12. ASSUME NEW k \in 0 .. 11
         PROVE  \E w \in Range(ws) : NAME(e) + k \in DOMAIN w
    <2>1. NAME(e) + k \in NAME(e) .. NAME(e) + 11
      BY DEF NAME
    <2> QED
      BY <1>2, <2>1
  <1>13. ASSUME NEW c \in Cells, NEW v \in Byte, Want(e, c, v)
         PROVE  /\ \A w \in Range(ws) : c \in DOMAIN w => w[c] = v
                /\ \E w \in Range(ws) : c \in DOMAIN w
    <2>1. \/ \E j \in Parts : c = VIRTUAL(e, j) /\ v = s.virtual[j]
          \/ e \notin 1 .. 3 /\ \E k \in 0 .. 11 : c = NAME(e) + k /\ v = Padded(s.name, k)
      BY <1>13 DEF Want, WantScene, s
    <2>2. CASE \E j \in Parts : c = VIRTUAL(e, j) /\ v = s.virtual[j]
      BY <1>9, <1>11, <2>2
    <2>3. CASE e \notin 1 .. 3 /\ \E k \in 0 .. 11 : c = NAME(e) + k /\ v = Padded(s.name, k)
      BY <1>10, <1>12, <2>3
    <2> QED
      BY <2>1, <2>2, <2>3
  <1> QED
    BY <1>2, <1>8, <1>13 DEF Does, ws, s

(* The writes of the rows of conditions.                                   *)
LEMMA VirtualDoes ==
    ASSUME NEW e \in 10 .. 19, asked \in Tables
    PROVE  Does(SaveVirtual(asked.virtual[e - 10], e - 10), e)
  <1> DEFINE i == e - 10
             row == asked.virtual[i]
             a == Write(VIRTUALCON(i), row.con)
             b == Write(VIRTUALSEN(i), row.sen)
             ws == <<a, b>>
  <1>1. i \in VirtualRows /\ row \in VirtualRow
    BY DEF VirtualRows, Tables
  <1>2. VIRTUALCON(i) \in Cells /\ VIRTUALSEN(i) \in Cells /\ VIRTUALCON(i) # VIRTUALSEN(i)
    BY <1>1, RowLayout DEF VIRTUALCON, VIRTUALSEN, VirtualRows
  <1>3. a \in Block /\ b \in Block
    <2>1. row.con \in Byte /\ row.sen \in Byte
      BY <1>1 DEF VirtualRow
    <2> QED
      BY <1>2, <2>1, BlockWrite
  <1>4. /\ \A c \in DOMAIN a : c = VIRTUALCON(i) /\ a[c] = row.con
        /\ \A c \in DOMAIN b : c = VIRTUALSEN(i) /\ b[c] = row.sen
        /\ VIRTUALCON(i) \in DOMAIN a /\ VIRTUALSEN(i) \in DOMAIN b
    BY WriteIs
  <1>5. SaveVirtual(row, i) = ws
    BY DEF SaveVirtual
  <1>6. \A c, v : Want(e, c, v) => \/ c = VIRTUALCON(i) /\ v = row.con
                                   \/ c = VIRTUALSEN(i) /\ v = row.sen
    BY DEF Want, WantVirtual, Scenes
  <1>7. \A c : c = VIRTUALCON(i) \/ c = VIRTUALSEN(i) => Foot(e, c)
    BY DEF Foot
  <1> HIDE DEF row, a, b
  <1>8. ws \in Seq(Block) /\ Range(ws) = {a, b}
    BY <1>3 DEF Range
  <1> HIDE DEF i, ws
  <1> QED
    BY <1>2, <1>4, <1>5, <1>6, <1>7, <1>8 DEF Does, i, row

LEMMA CodeDoes ==
    ASSUME NEW e \in 20 .. 24, asked \in Tables
    PROVE  Does(SaveCode(asked.code[e - 20], e - 20), e)
  <1> DEFINE i == e - 20
             row == asked.code[i]
             at == CODECON(i)
             a == Write(CODETYPE(i), Kept(row.dvc, {1, 2}))
             text == IF row.dvc = None THEN WriteNoText(at, 11) ELSE WriteText(at, row.con)
             b == Write(CODESEN(i), row.sen)
             ws == SaveCode(row, i)
             last == at + 11
  <1>1. i \in CodeRows /\ row \in CodeRow /\ i \in 0 .. 4
    <2>1. i \in 0 .. 4
      OBVIOUS
    <2>2. asked.code \in [CodeRows -> CodeRow]
      BY DEF Tables
    <2> QED
      BY <2>1, <2>2 DEF CodeRows
  <1>2. row.con \in Text /\ row.sen \in Byte /\ Kept(row.dvc, {1, 2}) \in Byte
    <2>1. row.con \in Text /\ row.sen \in Byte
      BY <1>1 DEF CodeRow
    <2>2. \A d : Kept(d, {1, 2}) \in {1, 2, 255}
      BY DEF Kept, None
    <2> QED
      BY <2>1, <2>2, SMTT(30) DEF Byte
  <1>3. a \in Block /\ b \in Block
    BY <1>1, <1>2, RowLayout, BlockWrite
  <1>4. at \in Cells /\ at \in Int /\ \A k \in 0 .. 10 : at + k \in Cells
    BY <1>1 DEF CODECON, Cells
  <1>5. at + 1 .. at + 1 + 11 - 1 \subseteq Cells
    BY <1>1, RowLayout
  <1>6. /\ \A c \in DOMAIN a : c = CODETYPE(i) /\ a[c] = Kept(row.dvc, {1, 2})
        /\ \A c \in DOMAIN b : c = CODESEN(i) /\ b[c] = row.sen
        /\ CODETYPE(i) \in DOMAIN a /\ CODESEN(i) \in DOMAIN b
    BY WriteIs
  <1>7. ws = <<a>> \o text \o <<b>>
    BY DEF SaveCode
  <1>8. /\ text \in Seq(Block)
        /\ row.dvc = None => Range(text) = {Write(at, None), WriteString(at + 1, 11, <<>>)}
        /\ row.dvc # None => Range(text) =
               {Write(at, Len(row.con))}
                   \cup {Write(at + k, row.con[k]) : k \in 1 .. Len(row.con)}
        /\ \A w \in Range(text) : \A c \in DOMAIN w :
               c \in at .. at + 10 \/ (row.dvc = None /\ c = last)
    <2> HIDE DEF at, row
    <2>1. CASE row.dvc = None
      <3>1. 11 \in Nat
        OBVIOUS
      <3>2. /\ WriteNoText(at, 11) \in Seq(Block)
            /\ Range(WriteNoText(at, 11)) = {Write(at, None), WriteString(at + 1, 11, <<>>)}
            /\ DOMAIN Write(at, None) = {at}
            /\ DOMAIN WriteString(at + 1, 11, <<>>) = at + 1 .. at + 11
        BY <1>4, <1>5, <3>1, NoTextWrites
      <3>3. at \in at .. at + 10 /\ \A c \in at + 1 .. at + 11 : c \in at .. at + 10 \/ c = last
        BY <1>4
      <3> HIDE DEF last
      <3> QED
        BY <2>1, <3>2, <3>3
    <2>2. CASE row.dvc # None
      BY <1>2, <1>4, <2>2, TextWrites
    <2> QED
      BY <2>1, <2>2
  <1>9. /\ row.dvc = None => \A k \in 1 .. 11 :
               at + k \in DOMAIN WriteString(at + 1, 11, <<>>)
               /\ WriteString(at + 1, 11, <<>>)[at + k] = 0
        /\ DOMAIN WriteString(at + 1, 11, <<>>) = at + 1 .. at + 11
    <2> HIDE DEF at, row
    <2>1. 11 \in Nat
      OBVIOUS
    <2>2. /\ DOMAIN WriteString(at + 1, 11, <<>>) = at + 1 .. at + 11
          /\ \A k \in 1 .. 11 : WriteString(at + 1, 11, <<>>)[at + k] = 0
      BY <1>4, <1>5, <2>1, NoTextWrites
    <2>3. \A k \in 1 .. 11 : at + k \in at + 1 .. at + 11
      BY <1>4
    <2> QED
      BY <2>2, <2>3
  <1>10. ws \in Seq(Block) /\ Range(ws) = {a} \cup Range(text) \cup {b}
    <2> DEFINE x == <<a>> \o text
               y == <<b>>
    <2> HIDE DEF a, b, text, ws
    <2>1. x \in Seq(Block) /\ Range(x) = {a} \cup Range(text)
      BY <1>3, <1>8, SeqPut
    <2>2. y \in Seq(Block) /\ Range(y) = {b}
      BY <1>3, SeqOfOne
    <2>3. ws = x \o y
      BY <1>7
    <2> HIDE DEF x, y
    <2>4. x \o y \in Seq(Block) /\ Range(x \o y) = Range(x) \cup Range(y)
      BY <2>1, <2>2, SeqJoin
    <2> QED
      BY <2>1, <2>2, <2>3, <2>4, Zenon
  <1>11. /\ CODETYPE(i) \in 1111 .. 1115 /\ CODESEN(i) \in 1171 .. 1175
         /\ at .. at + 10 \subseteq 1116 .. 1170 /\ last \in 1116 .. 1171
         /\ last = CODESEN(i) => FALSE
         /\ last = 1171 <=> i = 4
         /\ CODESEN(i) = 1171 <=> i = 0
    BY <1>1 DEF CODETYPE, CODESEN, CODECON
  <1>12. ASSUME NEW w \in Range(ws), NEW c \in DOMAIN w
         PROVE  Foot(e, c)
    <2>1. \/ c = CODETYPE(i) \/ c = CODESEN(i) \/ c \in at .. at + 10
          \/ row.dvc = None /\ c = last
      BY <1>6, <1>8, <1>10, <1>12, Zenon
    <2> QED
      BY <2>1 DEF Foot, FootCode
  <1>13. \A w \in Range(ws) : w = a \/ w = b \/ w \in Range(text)
    BY <1>10
  <1>14. a \in Range(ws) /\ b \in Range(ws) /\ Range(text) \subseteq Range(ws)
    BY <1>10
  <1>15. ASSUME NEW c, NEW v, Want(e, c, v)
         PROVE  \/ c = CODETYPE(i) /\ v = Kept(row.dvc, {1, 2})
                \/ c = CODESEN(i) /\ v = row.sen
                \/ row.dvc # None /\ c = at /\ v = Len(row.con)
                \/ row.dvc # None /\ \E k \in 1 .. Len(row.con) : c = at + k /\ v = row.con[k]
                \/ row.dvc = None /\ i = 4 /\ c = CODESEN(0) /\ v = 0
    <2>1. WantCode(i, c, v)
      BY <1>15 DEF Want, Scenes
    <2> QED
      BY <2>1 DEF WantCode
  <1> HIDE DEF a, b, text, ws, last, row, at, i
  <1>16. ASSUME NEW w \in Range(text), NEW c \in DOMAIN w
         PROVE  c \in 1116 .. 1171 /\ c # CODESEN(i)
    <2>1. c \in at .. at + 10 \/ c = last
      BY <1>8
    <2> QED
      BY <1>4, <1>11, <2>1
  <1>17. ASSUME NEW c, c = CODETYPE(i)
         PROVE  /\ \A w \in Range(ws) : c \in DOMAIN w => w[c] = Kept(row.dvc, {1, 2})
                /\ \E w \in Range(ws) : c \in DOMAIN w
    <2>1. c # CODESEN(i) /\ c \notin 1116 .. 1171
      BY <1>11, <1>17
    <2>2. c \in DOMAIN a /\ c \notin DOMAIN b /\ \A w \in Range(text) : c \notin DOMAIN w
      BY <1>6, <1>16, <1>17, <2>1
    <2> QED
      BY <1>6, <1>13, <1>14, <2>2
  <1>18. ASSUME NEW c, c = CODESEN(i)
         PROVE  /\ \A w \in Range(ws) : c \in DOMAIN w => w[c] = row.sen
                /\ \E w \in Range(ws) : c \in DOMAIN w
    <2>1. c # CODETYPE(i)
      BY <1>11, <1>18
    <2>2. c \in DOMAIN b /\ c \notin DOMAIN a /\ \A w \in Range(text) : c \notin DOMAIN w
      BY <1>6, <1>16, <1>18, <2>1
    <2> QED
      BY <1>6, <1>13, <1>14, <2>2
  <1> DEFINE n == Len(row.con)
  <1>19. n \in 0 .. 10 /\ at + 0 = at
    BY <1>2, <1>4, TextIs
  <1>20. row.dvc # None =>
             Range(text) = {Write(at, n)} \cup {Write(at + h, row.con[h]) : h \in 1 .. n}
    BY <1>8
  <1> HIDE DEF n
  <1>21. \A k, h \in 0 .. n : /\ at + k \in 1116 .. 1170
                              /\ at + k = at + h => k = h
    <2>1. \A k \in 0 .. n : at + k \in at .. at + 10
      BY <1>4, <1>19
    <2> QED
      BY <1>4, <1>11, <1>19, <2>1
  <1>22. ASSUME row.dvc # None, NEW k \in 0 .. n, NEW w \in Range(ws), at + k \in DOMAIN w
         PROVE  w[at + k] = IF k = 0 THEN n ELSE row.con[k]
    <2>1. at + k \notin DOMAIN a /\ at + k \notin DOMAIN b
      <3> DEFINE c == at + k
      <3>1. c \in 1116 .. 1170
        BY <1>21
      <3> HIDE DEF c
      <3>2. c # CODETYPE(i) /\ c # CODESEN(i)
        BY <1>11, <3>1
      <3>3. c \notin DOMAIN a /\ c \notin DOMAIN b
        BY <1>6, <3>2
      <3> QED
        BY <3>3 DEF c
    <2>2. w \in Range(text)
      BY <1>13, <1>22, <2>1
    <2>3. w = Write(at, n) \/ \E h \in 1 .. n : w = Write(at + h, row.con[h])
      BY <1>22, <1>20, <2>2
    <2>4. CASE w = Write(at, n)
      <3>1. at + k = at /\ w[at + k] = n
        BY <1>22, <2>4, WriteIs
      <3>2. 0 \in 0 .. n
        BY <1>19
      <3>3. k = 0
        BY <1>19, <1>21, <3>1, <3>2
      <3> QED
        BY <3>1, <3>3
    <2>5. ASSUME NEW h \in 1 .. n, w = Write(at + h, row.con[h])
          PROVE  w[at + k] = IF k = 0 THEN n ELSE row.con[k]
      <3>1. at + k = at + h /\ w[at + k] = row.con[h]
        BY <1>22, <2>5, WriteIs
      <3>2. h \in 0 .. n /\ h # 0
        BY <1>19
      <3>3. k = h
        BY <1>21, <3>1, <3>2
      <3> QED
        BY <3>1, <3>2, <3>3
    <2> QED
      BY <2>3, <2>4, <2>5
  <1>23. ASSUME row.dvc # None, NEW k \in 0 .. n
         PROVE  \E w \in Range(ws) : at + k \in DOMAIN w
    <2>1. CASE k = 0
      <3>1. at + k = at /\ Write(at, n) \in Range(ws)
        BY <1>14, <1>23, <1>19, <1>20, <2>1
      <3> QED
        BY <3>1, WriteIs
    <2>2. CASE k # 0
      <3>1. k \in 1 .. n
        BY <1>19, <2>2
      <3>2. Write(at + k, row.con[k]) \in Range(ws)
        BY <1>14, <1>23, <1>20, <3>1
      <3> QED
        BY <3>2, WriteIs
    <2> QED
      BY <2>1, <2>2
  <1>24. ASSUME row.dvc = None, i = 4
         PROVE  /\ \A w \in Range(ws) : CODESEN(0) \in DOMAIN w => w[CODESEN(0)] = 0
                /\ \E w \in Range(ws) : CODESEN(0) \in DOMAIN w
    <2>1. CODESEN(0) = at + 11 /\ CODESEN(0) # at /\ CODESEN(0) # CODETYPE(i)
          /\ CODESEN(0) # CODESEN(i)
      BY <1>24 DEF CODESEN, CODETYPE, CODECON, at, i
    <2>2. /\ Range(text) = {Write(at, None), WriteString(at + 1, 11, <<>>)}
          /\ CODESEN(0) \in DOMAIN WriteString(at + 1, 11, <<>>)
          /\ WriteString(at + 1, 11, <<>>)[CODESEN(0)] = 0
      <3>1. 11 \in 1 .. 11
        OBVIOUS
      <3> QED
        BY <1>8, <1>9, <1>24, <2>1, <3>1
    <2>3. CODESEN(0) \notin DOMAIN a /\ CODESEN(0) \notin DOMAIN b
          /\ CODESEN(0) \notin DOMAIN Write(at, None)
      BY <1>6, <2>1, WriteIs
    <2> QED
      BY <1>13, <1>14, <2>2, <2>3
  <1>25. ASSUME NEW c, NEW v, Want(e, c, v)
         PROVE  /\ \A w \in Range(ws) : c \in DOMAIN w => w[c] = v
                /\ \E w \in Range(ws) : c \in DOMAIN w
    <2>1. CASE c = CODETYPE(i) /\ v = Kept(row.dvc, {1, 2})
      BY <1>17, <2>1
    <2>2. CASE c = CODESEN(i) /\ v = row.sen
      BY <1>18, <2>2
    <2>3. CASE row.dvc # None /\ c = at /\ v = n
      <3>1. 0 \in 0 .. n /\ c = at + 0
        BY <1>19, <2>3
      <3> QED
        BY <1>22, <1>23, <2>3, <3>1
    <2>4. ASSUME row.dvc # None, NEW k \in 1 .. n, c = at + k, v = row.con[k]
          PROVE  /\ \A w \in Range(ws) : c \in DOMAIN w => w[c] = v
                 /\ \E w \in Range(ws) : c \in DOMAIN w
      <3>1. k \in 0 .. n /\ k # 0
        BY <1>19
      <3> QED
        BY <1>22, <1>23, <2>4, <3>1
    <2>5. CASE row.dvc = None /\ i = 4 /\ c = CODESEN(0) /\ v = 0
      BY <1>24, <2>5
    <2> QED
      BY <1>15, <1>25, <2>1, <2>2, <2>3, <2>4, <2>5 DEF n
  <1>26. Does(ws, e)
    BY <1>10, <1>12, <1>25 DEF Does
  <1> QED
    BY <1>26 DEF ws, row, i

(* The save of one entry does not touch what another is to have, but for   *)
(* the rows behind one with a code.                                        *)
LEMMA WantCells ==
    ASSUME NEW f \in Entries \ {9}, NEW c, NEW v, Want(f, c, v), asked \in Tables
    PROVE  /\ f \in 0 .. 8 =>
                  \/ c \in 741 .. 767 /\ c \in VIRTUAL(f, 1) .. VIRTUAL(f, 3)
                  \/ /\ c \in (611 .. 622) \cup (659 .. 718)
                     /\ c \in NAME(f) .. NAME(f) + 11
           /\ f \in 10 .. 19 => c = 1091 + (f - 10) \/ c = 1101 + (f - 10)
           /\ f \in 20 .. 24 =>
                  \/ c = 1111 + (f - 20)
                  \/ \E k \in 0 .. 10 : c = 1116 + 11 * (f - 20) + k
                  \/ c = 1171 + (f - 20) /\ (f = 20 => asked.code[4].dvc # None)
                  \/ f = 24 /\ asked.code[4].dvc = None /\ c = 1171
  <1>1. CASE f \in 0 .. 8
    <2>1. WantScene(f, c, v)
      BY <1>1 DEF Want
    <2>2. \/ \E j \in Parts : c = VIRTUAL(f, j)
          \/ f \notin 1 .. 3 /\ \E k \in 0 .. 11 : c = NAME(f) + k
      BY <2>1 DEF WantScene
    <2> QED
      BY <1>1, <2>2 DEF VIRTUAL, NAME, Parts
  <1>2. CASE f \in 10 .. 19
    <2>1. WantVirtual(f - 10, c, v)
      BY <1>2 DEF Want, Scenes
    <2> QED
      BY <1>2, <2>1 DEF WantVirtual, VIRTUALCON, VIRTUALSEN
  <1>3. CASE f \in 20 .. 24
    <2> DEFINE i == f - 20
               n == Len(asked.code[i].con)
    <2>1. WantCode(i, c, v)
      BY <1>3 DEF Want, Scenes
    <2>2. i \in 0 .. 4 /\ (i = 0 <=> f = 20) /\ (i = 4 <=> f = 24)
      BY <1>3
    <2>3. n \in 0 .. 10
      <3>1. asked.code[i].con \in Text
        BY <2>2 DEF Tables, CodeRow, CodeRows
      <3> QED
        BY <3>1, TextIs
    <2>4. \/ c = CODETYPE(i) \/ c = CODECON(i)
          \/ \E k \in 1 .. n : c = CODECON(i) + k
          \/ c = CODESEN(i) /\ (i = 0 => asked.code[4].dvc # None)
          \/ i = 4 /\ asked.code[4].dvc = None /\ c = CODESEN(0)
      BY <2>1 DEF WantCode
    <2> HIDE DEF n
    <2>5. \/ c = CODETYPE(i)
          \/ \E k \in 0 .. 10 : c = CODECON(i) + k
          \/ c = CODESEN(i) /\ (i = 0 => asked.code[4].dvc # None)
          \/ i = 4 /\ asked.code[4].dvc = None /\ c = CODESEN(0)
      <3>1. \A k \in 1 .. n : k \in 0 .. 10
        BY <2>3
      <3>2. CODECON(i) = CODECON(i) + 0 /\ 0 \in 0 .. 10
        BY <2>2 DEF CODECON
      <3> QED
        BY <2>4, <3>1, <3>2
    <2>6. /\ CODETYPE(i) = 1111 + i /\ CODECON(i) = 1116 + 11 * i /\ CODESEN(i) = 1171 + i
          /\ CODESEN(0) = 1171
      BY DEF CODETYPE, CODECON, CODESEN
    <2> QED
      BY <1>3, <2>2, <2>5, <2>6
  <1> QED
    BY <1>1, <1>2, <1>3

LEMMA FootCells ==
    ASSUME NEW e, NEW c, Foot(e, c)
    PROVE  \/ /\ e \in 0 .. 8 /\ c \in 611 .. 1090
              /\ c \in 741 .. 770 => c \in VIRTUAL(e, 1) .. VIRTUAL(e, 3)
              /\ c \in (611 .. 622) \cup (659 .. 730) => c \in NAME(e) .. NAME(e) + 11
           \/ e \in 10 .. 19 /\ (c = 1091 + (e - 10) \/ c = 1101 + (e - 10))
           \/ /\ e \in 20 .. 24
              /\ \/ c = 1111 + (e - 20) \/ c = 1171 + (e - 20)
                 \/ c \in 1116 + 11 * (e - 20) .. 1116 + 11 * (e - 20) + 10
                 \/ asked.code[e - 20].dvc = None /\ c = 1116 + 11 * (e - 20) + 11
  BY DEF Foot, FootScene, FootCode, VIRTUALCON, VIRTUALSEN, CODETYPE, CODECON, CODESEN

LEMMA FootApart ==
    ASSUME asked \in Tables, NEW e \in Entries \ {9}, NEW f \in Entries \ {9}, e # f,
           ~ (e \in 20 .. 24 /\ f \in 20 .. 24 /\ e < f),
           NEW c, NEW v, Foot(e, c), Want(f, c, v)
    PROVE  FALSE
  <1>1. f \in 0 .. 8 \/ f \in 10 .. 19 \/ f \in 20 .. 24
    BY DEF Entries, Scenes, Conditions
  <1>2. CASE f \in 0 .. 8
    BY <1>2, WantCells, FootCells DEF VIRTUAL, NAME
  <1>3. CASE f \in 10 .. 19
    <2>1. c = 1091 + (f - 10) \/ c = 1101 + (f - 10)
      BY <1>3, WantCells
    <2>2. c \in 1091 .. 1110
      BY <1>3, <2>1
    <2>3. e \in 10 .. 19 /\ (c = 1091 + (e - 10) \/ c = 1101 + (e - 10))
      BY <2>2, FootCells, SMTT(30)
    <2> QED
      BY <1>3, <2>1, <2>3
  <1>4. CASE f \in 20 .. 24
    <2>1. \/ c = 1111 + (f - 20)
          \/ \E k \in 0 .. 10 : c = 1116 + 11 * (f - 20) + k
          \/ c = 1171 + (f - 20) /\ (f = 20 => asked.code[4].dvc # None)
          \/ f = 24 /\ asked.code[4].dvc = None /\ c = 1171
      BY <1>4, WantCells
    <2>2. c \in 1111 .. 1175
      BY <1>4, <2>1
    <2>3. /\ e \in 20 .. 24
          /\ \/ c = 1111 + (e - 20) \/ c = 1171 + (e - 20)
             \/ c \in 1116 + 11 * (e - 20) .. 1116 + 11 * (e - 20) + 10
             \/ asked.code[e - 20].dvc = None /\ c = 1116 + 11 * (e - 20) + 11
      <3>1. c \in Int /\ c > 1110 /\ c \notin 611 .. 1090
        BY <2>2
      <3>2. ~ (e \in 0 .. 8 /\ c \in 611 .. 1090)
        BY <3>1, SMTT(30)
      <3>3. ASSUME e \in 10 .. 19, c = 1091 + (e - 10) \/ c = 1101 + (e - 10)
            PROVE  FALSE
        <4> DEFINE x == e - 10
        <4>1. x \in 0 .. 9
          BY <3>3
        <4>2. c = 1091 + x \/ c = 1101 + x
          BY <3>3
        <4> HIDE DEF x
        <4> QED
          BY <3>1, <4>1, <4>2
      <3> QED
        BY <3>2, <3>3, FootCells
    <2>4. f < e /\ f - 20 \in 0 .. 3 /\ e - 20 \in 1 .. 4 /\ f - 20 < e - 20
      BY <1>4, <2>3
    <2>5. CASE c = 1171 + (f - 20) /\ (f = 20 => asked.code[4].dvc # None)
      <3>1. asked.code[e - 20].dvc = None /\ c = 1116 + 11 * (e - 20) + 11 => e - 20 = 4 /\ f = 20
        BY <2>4, <2>5
      <3> QED
        BY <2>3, <2>4, <2>5, <3>1
    <2> QED
      BY <2>1, <2>3, <2>4, <2>5
  <1> QED
    BY <1>1, <1>2, <1>3, <1>4

-----------------------------------------------------------------------------
(* Loading gives back what the cells were to have.                         *)
LEMMA ReadWritten ==
    ASSUME NEW m \in [Cells -> Byte], NEW i \in Scenes, NEW s \in Name,
           \A k \in 0 .. 11 : m[NAME(i) + k] = Padded(s, k)
    PROVE  ReadString(m, NAME(i), 12) = s
  <1> DEFINE t == [k \in 1 .. 12 |-> m[NAME(i) + k - 1]]
             zeros == {k \in 1 .. 12 : t[k] = 0}
             len == IF zeros = {} THEN 12 ELSE Min(zeros) - 1
             n == Len(s)
  <1>1. n \in 0 .. 12 /\ s \in Seq(1 .. 255) /\ \A k \in 1 .. n : s[k] \in 1 .. 255
    <2>1. s \in Seq(1 .. 255) /\ n <= 12
      BY DEF Name
    <2>2. n \in Nat
      BY <2>1, LenProperties
    <2>3. \A k \in 1 .. n : s[k] \in 1 .. 255
      BY <2>1, ElementOfSeq
    <2> HIDE DEF n
    <2> QED
      BY <2>1, <2>2, <2>3
  <1>2. \A k \in 0 .. 11 : m[NAME(i) + k] = IF k < n THEN s[k + 1] ELSE 0
    BY DEF Padded
  <1>3. ReadString(m, NAME(i), 12) = SubSeq(t, 1, len)
    BY DEF ReadString
  <1>4. \A k \in 1 .. 12 : t[k] = m[NAME(i) + k - 1]
    OBVIOUS
  <1>5. /\ zeros \in SUBSET Nat /\ zeros \subseteq 1 .. 12
        /\ \A k \in 1 .. 12 : k \in zeros <=> t[k] = 0
    OBVIOUS
  <1>6. len = IF zeros = {} THEN 12 ELSE Min(zeros) - 1
    OBVIOUS
  <1> HIDE DEF t, zeros, n, len
  <1>7. \A k \in 1 .. 12 : t[k] = IF k <= n THEN s[k] ELSE 0
    <2> TAKE k \in 1 .. 12
    <2>1. k - 1 \in 0 .. 11 /\ NAME(i) + (k - 1) = NAME(i) + k - 1 /\ (k - 1) + 1 = k
      BY DEF NAME, Scenes
    <2>2. m[NAME(i) + (k - 1)] = IF k - 1 < n THEN s[(k - 1) + 1] ELSE 0
      BY <1>2, <2>1
    <2>3. k - 1 < n <=> k <= n
      BY <1>1
    <2> QED
      BY <1>4, <2>1, <2>2, <2>3
  <1>8. \A k \in 1 .. 12 : k \in zeros <=> k > n
    <2> TAKE k \in 1 .. 12
    <2>1. CASE k <= n
      <3>1. k \in 1 .. n /\ t[k] = s[k]
        BY <1>1, <1>7, <2>1, SMTT(30)
      <3>2. s[k] \in 1 .. 255
        BY <1>1, <3>1
      <3>3. t[k] # 0
        BY <3>1, <3>2
      <3> QED
        BY <1>1, <1>5, <2>1, <3>3
    <2>2. CASE ~ (k <= n)
      <3>1. t[k] = 0
        BY <1>7, <2>2
      <3> QED
        BY <1>1, <1>5, <2>2, <3>1
    <2> QED
      BY <2>1, <2>2
  <1>9. len = n
    <2>1. CASE n = 12
      <3>1. zeros = {}
        BY <1>5, <1>8, <2>1
      <3> QED
        BY <1>6, <2>1, <3>1
    <2>2. CASE n # 12
      <3>1. n + 1 \in zeros /\ \A k \in zeros : n + 1 <= k
        BY <1>1, <1>5, <1>8, <2>2
      <3>2. Min(zeros) = n + 1
        BY <1>5, <3>1, FirstIs
      <3>3. zeros # {}
        BY <3>1
      <3> QED
        BY <1>1, <1>6, <3>2, <3>3
    <2> QED
      BY <2>1, <2>2
  <1>10. \A k \in 1 .. n : t[k] \in 1 .. 255 /\ t[k] = s[k]
    <2> TAKE k \in 1 .. n
    <2>1. k \in 1 .. 12 /\ k <= n
      BY <1>1
    <2>2. t[k] = s[k]
      BY <1>7, <2>1
    <2>3. s[k] \in 1 .. 255
      BY <1>1
    <2> QED
      BY <2>2, <2>3
  <1>11. /\ SubSeq(t, 1, n) \in Seq(1 .. 255) /\ Len(SubSeq(t, 1, n)) = n
         /\ \A k \in 1 .. n : SubSeq(t, 1, n)[k] = s[k]
    <2>1. n \in Int /\ 1 \in Int
      BY <1>1
    <2>2. /\ SubSeq(t, 1, n) \in Seq(1 .. 255)
          /\ Len(SubSeq(t, 1, n)) = IF 1 <= n THEN n - 1 + 1 ELSE 0
          /\ \A k \in 1 .. n - 1 + 1 : SubSeq(t, 1, n)[k] = t[1 + k - 1]
      BY <1>10, <2>1, SubSeqProperties
    <2>3. n - 1 + 1 = n /\ \A k \in 1 .. n : 1 + k - 1 = k
      BY <1>1
    <2>4. \A k \in 1 .. n : SubSeq(t, 1, n)[k] = t[k]
      BY <2>2, <2>3
    <2>5. Len(SubSeq(t, 1, n)) = n
      BY <1>1, <2>2
    <2> QED
      BY <1>10, <2>2, <2>4, <2>5
  <1>12. SubSeq(t, 1, n) = s
    <2> DEFINE u == SubSeq(t, 1, n)
    <2>1. u \in Seq(1 .. 255) /\ Len(u) = Len(s) /\ \A k \in 1 .. Len(u) : u[k] = s[k]
      BY <1>11 DEF n
    <2> HIDE DEF u
    <2>2. u = s
      BY <1>1, <2>1, SeqEqual
    <2> QED
      BY <2>2 DEF u
  <1> QED
    BY <1>3, <1>9, <1>12

LEMMA TextReads ==
    ASSUME NEW m \in [Cells -> Byte], NEW at \in Int, NEW s \in Text,
           m[at] = Len(s), \A k \in 1 .. Len(s) : m[at + k] = s[k]
    PROVE  ReadText(m, at) = s /\ ~ (m[at] > 10)
  <1> DEFINE n == Len(s)
  <1>1. n \in 0 .. 10 /\ s \in [1 .. n -> Byte]
    BY TextIs
  <1>2. m[at] = n /\ \A k \in 1 .. n : m[at + k] = s[k]
    OBVIOUS
  <1> HIDE DEF n
  <1>3. ~ (m[at] > 10)
    BY <1>1, <1>2
  <1>4. ReadText(m, at) = [k \in 1 .. n |-> m[at + k]]
    BY <1>2, <1>3 DEF ReadText
  <1>5. [k \in 1 .. n |-> m[at + k]] = s
    BY <1>1, <1>2
  <1> QED
    BY <1>3, <1>4, <1>5

-----------------------------------------------------------------------------
(* The invariant.                                                          *)
LEMMA InitInv == Init => Inv
  <1> SUFFICES ASSUME Init
               PROVE  Inv
    OBVIOUS
  <1> USE DEF Init
  <1>1. cell \in [Cells -> Byte] /\ \A c \in Cells : cell[c] = None
    BY DEF Byte, None
  <1>2. \A i \in VirtualRows : virtual[i] = NoRow
    BY <1>1, RowLayout DEF VirtualOf, LoadVirtual
  <1>3. \A i \in CodeRows : code[i] = NoCode
    <2> TAKE i \in CodeRows
    <2>1. Kept(cell[CODETYPE(i)], {1, 2}) = None
      BY <1>1, RowLayout DEF Kept, None
    <2> QED
      BY <2>1 DEF CodesOf, LoadCode
  <1>4. TypeInv
    <2>1. /\ scene \in [Scenes -> Scene] /\ virtual \in [VirtualRows -> VirtualRow]
          /\ code \in [CodeRows -> CodeRow]
      BY <1>1, LoadTypes
    <2>2. <<>> \in Seq(Block) /\ 0 \in Entries /\ Conditions \subseteq Entries \ {9}
      BY EmptySeq DEF Entries, Scenes, Conditions
    <2> QED
      BY <1>1, <2>1, <2>2, TurnsAssumption DEF TypeInv, Tables
  <1>5. Unused
    BY <1>2, <1>3 DEF Unused
  <1>6. Saved
    <2> SUFFICES ASSUME NEW e \in Conditions, NEW c \in Cells, NEW v, Want(e, c, v)
                 PROVE  v = None
      BY <1>1 DEF Saved
    <2>1. CASE e \in 10 .. 19
      <3>1. WantVirtual(e - 10, c, v)
        BY <2>1 DEF Want, Scenes
      <3>2. asked.virtual[e - 10] = NoRow
        BY <1>2, <2>1 DEF VirtualRows
      <3> QED
        BY <3>1, <3>2 DEF WantVirtual, NoRow
    <2>2. CASE e \in 20 .. 24
      <3>1. WantCode(e - 20, c, v)
        BY <2>2 DEF Want, Scenes
      <3>2. asked.code[e - 20] = NoCode /\ asked.code[0] = NoCode
        BY <1>3, <2>2 DEF CodeRows
      <3> QED
        BY <3>1, <3>2 DEF WantCode, NoCode, Kept, None
    <2> QED
      BY <2>1, <2>2 DEF Conditions
  <1>7. Order /\ Asked /\ Doing /\ Loaded
    BY DEF Order, Asked, Doing, Loaded
  <1> QED
    BY <1>4, <1>5, <1>6, <1>7 DEF Inv

(* What an entry is to have follows from what was asked for of it.         *)
LEMMA WantSame ==
    ASSUME NEW e, NEW c, NEW v, Want(e, c, v)',
           e \in Scenes => asked'.scene[e] = asked.scene[e],
           e \in Conditions => asked'.virtual = asked.virtual /\ asked'.code = asked.code
    PROVE  Want(e, c, v)
  <1>1. CASE e \in Scenes /\ WantScene(e, c, v)'
    <2>1. WantScene(e, c, v)
      BY <1>1 DEF WantScene
    <2> QED
      BY <1>1, <2>1 DEF Want
  <1>2. CASE e \in 10 .. 19 /\ WantVirtual(e - 10, c, v)'
    <2>1. WantVirtual(e - 10, c, v)
      BY <1>2 DEF WantVirtual, Conditions
    <2> QED
      BY <1>2, <2>1 DEF Want
  <1>3. CASE e \in 20 .. 24 /\ WantCode(e - 20, c, v)'
    <2>1. asked'.code = asked.code
      BY <1>3 DEF Conditions
    <2>2. WantCode(e - 20, c, v)
      BY <1>3, <2>1 DEF WantCode
    <2> QED
      BY <1>3, <2>2 DEF Want
  <1> QED
    BY <1>1, <1>2, <1>3 DEF Want

LEMMA IndexIs ==
    /\ \A id \in Ids : IndexOf(id) \in Scenes
    /\ \A id, other \in Ids : IndexOf(id) = IndexOf(other) => id = other
    /\ \A k \in 1 .. 10 : LookedUp(k) \in Ids => IndexOf(LookedUp(k)) \in 0 .. 8
  BY DEF Ids, IndexOf, LookedUp, Scenes

LEMMA ToldType ==
    ASSUME NEW doc, IsSceneDoc(doc), NEW id \in DOMAIN doc, NEW s \in Scene
    PROVE  Told(doc[id], s) \in Scene
  <1> DEFINE d == doc[id]
  <1>1. /\ d.act \in Byte /\ d.name \in Name
        /\ DOMAIN d.relay \subseteq {1}
        /\ \A j \in DOMAIN d.relay : d.relay[j] \in Byte
        /\ \A j \in DOMAIN d.virtual : d.virtual[j] \in Byte
        /\ \A j \in DOMAIN d.code : d.code[j].cmd \in Byte /\ d.code[j].text \in Text
    BY DEF IsSceneDoc
  <1> HIDE DEF d
  <1>2. (IF 1 \in DOMAIN d.relay THEN d.relay[1] ELSE s.relay) \in Byte
    BY <1>1 DEF Scene
  <1>3. [j \in Parts |-> IF j \in DOMAIN d.virtual THEN d.virtual[j] ELSE s.virtual[j]]
            \in [Parts -> Byte]
    BY <1>1 DEF Scene
  <1>4. [j \in Parts |-> IF j \in DOMAIN d.code THEN d.code[j].cmd ELSE s.cmd[j]]
            \in [Parts -> Byte]
    BY <1>1 DEF Scene
  <1>5. [j \in Parts |-> IF j \in DOMAIN d.code THEN d.code[j].text ELSE s.text[j]]
            \in [Parts -> Text]
    BY <1>1 DEF Scene
  <1> QED
    BY <1>1, <1>2, <1>3, <1>4, <1>5 DEF Told, Scene, d

LEMMA AskScenesInv ==
    ASSUME Inv, NEW doc \in SceneDocs, AskScenes(doc)
    PROVE  Inv'
  <1> DEFINE named == {IndexOf(id) : id \in DOMAIN doc}
             found == {IndexOf(LookedUp(k)) : k \in {k \in 1 .. 10 : LookedUp(k) \in DOMAIN doc}}
             new(i) == Told(doc[CHOOSE id \in DOMAIN doc : IndexOf(id) = i], scene[i])
  <1>1. /\ mode = "panel" /\ todo = <<>> /\ later = {}
        /\ turns < MaxTurns /\ turns' = turns + 1
        /\ scene' = [i \in Scenes |-> IF i \in found THEN new(i) ELSE scene[i]]
        /\ later' = found
        /\ asked' = [asked EXCEPT !.scene =
                         [i \in Scenes |-> IF i \in named THEN new(i) ELSE asked.scene[i]]]
        /\ whole' = whole \ named
        /\ UNCHANGED <<cell, mode, virtual, code, entry, todo>>
    BY DEF AskScenes, Ask
  <1>2. IsSceneDoc(doc) /\ DOMAIN doc \subseteq Ids
    BY DocsAssumption DEF IsSceneDoc
  <1>3. found \subseteq named /\ found \subseteq 0 .. 8 /\ named \subseteq Scenes
    BY <1>2, IndexIs
  <1>4. ASSUME NEW i \in named
        PROVE  new(i) \in Scene
    <2>1. PICK id \in DOMAIN doc : IndexOf(id) = i
      OBVIOUS
    <2>2. (CHOOSE x \in DOMAIN doc : IndexOf(x) = i) \in DOMAIN doc
      BY <2>1
    <2>3. scene[i] \in Scene
      BY <1>3 DEF Inv, TypeInv
    <2> QED
      BY <1>2, <2>2, <2>3, ToldType
  <1> HIDE DEF named, found, new
  <1>5. asked \in Tables
    BY DEF Inv, TypeInv
  <1>6. asked'.scene = [i \in Scenes |-> IF i \in named THEN new(i) ELSE asked.scene[i]]
        /\ asked'.virtual = asked.virtual /\ asked'.code = asked.code
    BY <1>1, <1>5 DEF Tables
  <1>7. asked' \in Tables
    BY <1>1, <1>4, <1>5 DEF Tables
  <1>8. TypeInv'
    <2>1. scene' \in [Scenes -> Scene]
      BY <1>1, <1>3, <1>4 DEF Inv, TypeInv
    <2>2. later' \subseteq Entries \ {9}
      BY <1>1, <1>3 DEF Entries, Scenes
    <2>3. turns' \in 0 .. MaxTurns
      BY <1>1, TurnsAssumption DEF Inv, TypeInv
    <2> QED
      BY <1>1, <1>7, <2>1, <2>2, <2>3 DEF Inv, TypeInv
  <1>9. Unused'
    BY <1>1, <1>6 DEF Inv, Unused
  <1>10. Order'
    <2>1. 20 .. 24 \cap later' = {}
      BY <1>1, <1>3
    <2> QED
      BY <1>1, <1>3, <2>1 DEF Order
  <1>11. Asked'
    <2>1. \A i \in Scenes \cap later' : scene'[i] = asked'.scene[i]
      BY <1>1, <1>3, <1>6
    <2>2. \A i \in VirtualRows : VirtualEntry(i) \notin later'
      BY <1>1, <1>3 DEF VirtualRows, VirtualEntry
    <2>3. \A i \in CodeRows : CodeEntry(i) \notin later'
      BY <1>1, <1>3 DEF CodeRows, CodeEntry
    <2> QED
      BY <2>1, <2>2, <2>3 DEF Asked
  <1>12. Saved'
    <2> SUFFICES ASSUME NEW e \in whole', NEW c \in Cells, NEW v \in Byte, Want(e, c, v)'
                 PROVE  cell'[c] = v
      BY DEF Saved
    <2>1. e \in whole /\ (e \in Scenes => asked'.scene[e] = asked.scene[e])
      BY <1>1, <1>6
    <2>2. Want(e, c, v)
      BY <1>6, <2>1, WantSame
    <2> QED
      BY <1>1, <2>1, <2>2 DEF Inv, Saved
  <1>13. Doing' /\ Loaded'
    BY <1>1 DEF Doing, Loaded
  <1> QED
    BY <1>8, <1>9, <1>10, <1>11, <1>12, <1>13 DEF Inv

LEMMA AskRunsenInv ==
    ASSUME Inv, NEW doc \in RunsenDocs, AskRunsen(doc)
    PROVE  Inv'
  <1>1. /\ mode = "panel" /\ todo = <<>> /\ later = {}
        /\ turns < MaxTurns /\ turns' = turns + 1
        /\ later' = Conditions
        /\ asked' = [asked EXCEPT !.virtual = virtual', !.code = code']
        /\ whole' = whole \ Conditions
        /\ UNCHANGED <<cell, mode, scene, entry, todo>>
    BY DEF AskRunsen, Ask
  <1>2. /\ \A i \in DOMAIN doc.virtual : doc.virtual[i] \in VirtualRow
        /\ \A i \in DOMAIN doc.code : doc.code[i] \in CodeRow
    BY DocsAssumption DEF IsRunsenDoc
  <1>3. asked \in Tables
    BY DEF Inv, TypeInv
  <1>4. /\ virtual' \in [VirtualRows -> VirtualRow]
        /\ \A i \in VirtualRows : virtual'[i].dvc = None => virtual'[i] = NoRow
    <2>1. ASSUME NEW i \in VirtualRows
          PROVE  /\ virtual'[i] \in VirtualRow
                 /\ virtual'[i].dvc = None => virtual'[i] = NoRow
      <3>1. CASE i \notin DOMAIN doc.virtual
        <4>1. virtual'[i] = virtual[i]
          BY <3>1 DEF AskRunsen
        <4> QED
          BY <4>1 DEF Inv, TypeInv, Unused
      <3>2. CASE i \in DOMAIN doc.virtual /\ doc.virtual[i].dvc = None
        <4>1. virtual'[i] = NoRow
          BY <3>2 DEF AskRunsen
        <4> QED
          BY <4>1, NoTypes
      <3>3. CASE i \in DOMAIN doc.virtual /\ doc.virtual[i].dvc # None
        <4>1. virtual'[i] = doc.virtual[i]
          BY <3>3 DEF AskRunsen
        <4> QED
          BY <1>2, <3>3, <4>1
      <3> QED
        BY <3>1, <3>2, <3>3
    <2>2. DOMAIN virtual' = VirtualRows /\ virtual' = [i \in DOMAIN virtual' |-> virtual'[i]]
      BY DEF AskRunsen
    <2> QED
      BY <2>1, <2>2
  <1>5. /\ code' \in [CodeRows -> CodeRow]
        /\ \A i \in CodeRows : code'[i].dvc = None => code'[i] = NoCode
    <2>1. ASSUME NEW i \in CodeRows
          PROVE  /\ code'[i] \in CodeRow
                 /\ code'[i].dvc = None => code'[i] = NoCode
      <3>1. CASE i \notin DOMAIN doc.code
        <4>1. code'[i] = code[i]
          BY <3>1 DEF AskRunsen
        <4> QED
          BY <4>1 DEF Inv, TypeInv, Unused
      <3>2. CASE i \in DOMAIN doc.code /\ doc.code[i].dvc = None
        <4>1. code'[i] = NoCode
          BY <3>2 DEF AskRunsen
        <4> QED
          BY <4>1, NoTypes
      <3>3. CASE i \in DOMAIN doc.code /\ doc.code[i].dvc # None
        <4>1. code'[i] = doc.code[i]
          BY <3>3 DEF AskRunsen
        <4> QED
          BY <1>2, <3>3, <4>1
      <3> QED
        BY <3>1, <3>2, <3>3
    <2>2. DOMAIN code' = CodeRows /\ code' = [i \in DOMAIN code' |-> code'[i]]
      BY DEF AskRunsen
    <2> QED
      BY <2>1, <2>2
  <1>6. asked'.scene = asked.scene /\ asked'.virtual = virtual' /\ asked'.code = code'
        /\ asked' \in Tables
    BY <1>1, <1>3, <1>4, <1>5 DEF Tables
  <1>7. TypeInv'
    <2>1. Conditions \subseteq Entries \ {9}
      BY DEF Conditions, Entries
    <2>2. turns' \in 0 .. MaxTurns
      BY <1>1, TurnsAssumption DEF Inv, TypeInv
    <2> QED
      BY <1>1, <1>4, <1>5, <1>6, <2>1, <2>2 DEF Inv, TypeInv
  <1>8. Unused'
    BY <1>4, <1>5, <1>6 DEF Unused
  <1>9. Order'
    BY <1>1 DEF Order, Conditions
  <1>10. Asked'
    <2>1. Scenes \cap later' = {}
      BY <1>1 DEF Scenes, Conditions
    <2> QED
      BY <1>6, <2>1 DEF Asked
  <1>11. Saved'
    <2> SUFFICES ASSUME NEW e \in whole', NEW c \in Cells, NEW v \in Byte, Want(e, c, v)'
                 PROVE  cell'[c] = v
      BY DEF Saved
    <2>1. e \in whole /\ e \notin Conditions
      BY <1>1
    <2>2. Want(e, c, v)
      BY <1>6, <2>1, WantSame
    <2> QED
      BY <1>1, <2>1, <2>2 DEF Inv, Saved
  <1>12. Doing' /\ Loaded'
    BY <1>1 DEF Doing, Loaded
  <1> QED
    BY <1>7, <1>8, <1>9, <1>10, <1>11, <1>12 DEF Inv

LEMMA SaveInv ==
    ASSUME Inv, Save
    PROVE  Inv'
  <1>1. PICK e \in later :
            /\ \A other \in later : e <= other
            /\ entry' = e /\ todo' = Writes(e) /\ later' = later \ {e}
    BY DEF Save
  <1>2. /\ todo = <<>>
        /\ UNCHANGED <<cell, mode, scene, virtual, code, turns, asked, whole>>
    BY DEF Save, tables
  <1>3. asked \in Tables /\ e \in Entries \ {9} /\ e \notin whole
    BY DEF Inv, TypeInv, Order
  <1>4. Does(Writes(e), e)
    <2>1. CASE e \in 0 .. 8
      <3>1. e \in Scenes /\ scene[e] = asked.scene[e]
        BY <2>1 DEF Inv, Asked, Scenes
      <3>2. Writes(e) = SaveScene(scene[e], e)
        <4>1. e \notin 10 .. 19 /\ e \notin 20 .. 24
          BY <2>1
        <4> QED
          BY <3>1, <4>1 DEF Writes
      <3> QED
        BY <1>3, <2>1, <3>1, <3>2, SceneDoes
    <2>2. CASE e \in 10 .. 19
      <3>1. virtual[e - 10] = asked.virtual[e - 10]
        <4>1. e - 10 \in VirtualRows /\ VirtualEntry(e - 10) = e
          BY <2>2 DEF VirtualRows, VirtualEntry
        <4> QED
          BY <4>1 DEF Inv, Asked
      <3>2. Writes(e) = SaveVirtual(virtual[e - 10], e - 10)
        BY <2>2 DEF Writes, Scenes
      <3> QED
        BY <1>3, <2>2, <3>1, <3>2, VirtualDoes
    <2>3. CASE e \in 20 .. 24
      <3>1. code[e - 20] = asked.code[e - 20]
        <4>1. e - 20 \in CodeRows /\ CodeEntry(e - 20) = e
          BY <2>3 DEF CodeRows, CodeEntry
        <4> QED
          BY <4>1 DEF Inv, Asked
      <3>2. Writes(e) = SaveCode(code[e - 20], e - 20)
        BY <2>3 DEF Writes, Scenes
      <3> QED
        BY <1>3, <2>3, <3>1, <3>2, CodeDoes
    <2> QED
      BY <1>3, <2>1, <2>2, <2>3 DEF Entries, Scenes, Conditions
  <1>5. TypeInv'
    BY <1>1, <1>2, <1>3, <1>4 DEF Inv, TypeInv, Does
  <1>6. Unused'
    BY <1>2 DEF Inv, Unused
  <1>7. Order'
    <2>1. later' \cap whole' = {} /\ entry' # 9 /\ entry' \notin whole' \cup later'
      BY <1>1, <1>2, <1>3 DEF Inv, Order
    <2>2. ASSUME NEW x \in 20 .. 24, NEW f \in 20 .. 24, x < f, x \in later' \/ x = entry'
          PROVE  f \in later'
      <3>1. x \in later /\ f \in later
        BY <1>1, <2>2 DEF Inv, Order
      <3>2. e <= x
        BY <1>1, <3>1
      <3>3. e # f
        BY <1>3, <2>2, <3>2
      <3> QED
        BY <1>1, <3>1, <3>3
    <2> QED
      BY <2>1, <2>2 DEF Order
  <1>8. Asked'
    BY <1>1, <1>2 DEF Inv, Asked
  <1>9. \A x, c, v : Want(x, c, v)' <=> Want(x, c, v)
    BY <1>2 DEF Want, WantScene, WantVirtual, WantCode
  <1>10. Saved'
    BY <1>2, <1>9 DEF Inv, Saved
  <1>11. Doing'
    <2>1. ASSUME NEW c \in Cells, NEW v \in Byte, Want(entry, c, v)'
          PROVE  Makes(todo', cell', c, v)
      <3>1. Want(e, c, v)
        BY <1>1, <1>2, <2>1 DEF Want, WantScene, WantVirtual, WantCode
      <3> QED
        BY <1>1, <1>4, <3>1 DEF Does, Makes
    <2>2. ASSUME NEW w \in Range(todo'), NEW c \in DOMAIN w
          PROVE  Foot(entry, c)'
      <3>1. Foot(e, c)
        BY <1>1, <1>4, <2>2 DEF Does
      <3> QED
        BY <1>1, <1>2, <3>1 DEF Foot, FootScene, FootCode
    <2> QED
      BY <2>1, <2>2 DEF Doing, Makes
  <1>12. Loaded'
    <2>1. mode # "normal"
      BY <1>1 DEF Inv, Loaded
    <2> QED
      BY <1>2, <2>1 DEF Loaded
  <1> QED
    BY <1>5, <1>6, <1>7, <1>8, <1>10, <1>11, <1>12 DEF Inv

(* One write: what the entry in hand is to have is still made, and no      *)
(* other entry's cells are touched.                                        *)
LEMMA StoreInv ==
    ASSUME Inv, Store
    PROVE  Inv'
  <1> DEFINE w == Head(todo)
             rest == Tail(todo)
  <1>1. /\ todo # <<>>
        /\ cell' = [c \in Cells |-> IF c \in DOMAIN w THEN w[c] ELSE cell[c]]
        /\ todo' = rest
        /\ whole' = IF todo' = <<>> THEN whole \cup {entry} ELSE whole
        /\ UNCHANGED <<mode, scene, virtual, code, later, entry, turns, asked>>
    BY DEF Store, tables
  <1>2. todo \in Seq(Block) /\ w \in Block /\ rest \in Seq(Block)
    BY <1>1, HeadTailProperties DEF Inv, TypeInv
  <1>3. Range(todo) = {w} \cup Range(rest)
    BY <1>1, <1>2, RangeParts
  <1> HIDE DEF w, rest
  <1>4. \A c \in DOMAIN w : w[c] \in Byte
    BY <1>2 DEF Block
  <1>5. cell' \in [Cells -> Byte]
    BY <1>1, <1>4 DEF Inv, TypeInv
  <1>6. entry \notin whole \cup later /\ entry \in Entries \ {9}
    BY <1>1 DEF Inv, Order, TypeInv
  <1>7. \A x, c, v : Want(x, c, v)' <=> Want(x, c, v)
    BY <1>1 DEF Want, WantScene, WantVirtual, WantCode
  <1>8. ASSUME NEW c \in Cells, NEW v \in Byte, Want(entry, c, v)
        PROVE  Makes(rest, cell', c, v)
    <2>1. Makes(todo, cell, c, v)
      BY <1>1, <1>8 DEF Inv, Doing
    <2>2. \A x \in Range(rest) : c \in DOMAIN x => x[c] = v
      BY <1>3, <2>1 DEF Makes
    <2>3. c \in DOMAIN w => w[c] = v
      BY <1>3, <2>1 DEF Makes
    <2>4. cell'[c] = v \/ \E x \in Range(rest) : c \in DOMAIN x
      BY <1>1, <1>3, <2>1, <2>3 DEF Makes
    <2> QED
      BY <2>2, <2>4 DEF Makes
  <1>9. ASSUME NEW e \in whole, NEW c \in Cells, NEW v \in Byte, Want(e, c, v)
        PROVE  cell'[c] = v
    <2>1. cell[c] = v
      BY <1>9 DEF Inv, Saved
    <2>2. c \notin DOMAIN w
      <3> SUFFICES ASSUME c \in DOMAIN w
                   PROVE  FALSE
        OBVIOUS
      <3>1. Foot(entry, c)
        BY <1>1, <1>3 DEF Inv, Doing
      <3>2. e \in Entries \ {9} /\ entry # e /\ asked \in Tables
        BY <1>6 DEF Inv, TypeInv
      <3>3. ~ (entry \in 20 .. 24 /\ e \in 20 .. 24 /\ entry < e)
        BY <1>1 DEF Inv, Order
      <3> QED
        BY <1>6, <1>9, <3>1, <3>2, <3>3, FootApart
    <2> QED
      BY <1>1, <2>1, <2>2
  <1>10. TypeInv'
    BY <1>1, <1>2, <1>5, <1>6 DEF Inv, TypeInv
  <1>11. Unused' /\ Asked'
    BY <1>1 DEF Inv, Unused, Asked
  <1>12. Order'
    <2>1. later' \cap whole' = {}
      BY <1>1, <1>6 DEF Inv, Order
    <2>2. todo' # <<>> => entry' # 9 /\ entry' \notin whole' \cup later'
      BY <1>1, <1>6
    <2>3. \A e, f \in 20 .. 24 :
              e < f /\ (e \in later' \/ (todo' # <<>> /\ e = entry')) => f \in later'
      BY <1>1 DEF Inv, Order
    <2> QED
      BY <2>1, <2>2, <2>3 DEF Order
  <1>13. Saved'
    <2> SUFFICES ASSUME NEW e \in whole', NEW c \in Cells, NEW v \in Byte, Want(e, c, v)
                 PROVE  cell'[c] = v
      BY <1>7 DEF Saved
    <2>1. CASE e \in whole
      BY <1>9, <2>1
    <2>2. CASE e \notin whole
      <3>1. e = entry /\ rest = <<>>
        BY <1>1, <2>2
      <3>2. Makes(<<>>, cell', c, v)
        BY <1>8, <3>1
      <3> QED
        BY <3>2, RangeEmpty DEF Makes
    <2> QED
      BY <2>1, <2>2
  <1>14. Doing'
    <2>1. ASSUME NEW c \in Cells, NEW v \in Byte, Want(entry, c, v)'
          PROVE  Makes(todo', cell', c, v)
      <3>1. Want(entry, c, v)
        BY <1>1, <2>1 DEF Want, WantScene, WantVirtual, WantCode
      <3> QED
        BY <1>1, <1>8, <3>1
    <2>2. ASSUME NEW x \in Range(todo'), NEW c \in DOMAIN x
          PROVE  Foot(entry, c)'
      <3>1. Foot(entry, c)
        BY <1>1, <1>3, <2>2 DEF Inv, Doing
      <3> QED
        BY <1>1, <3>1 DEF Foot, FootScene, FootCode
    <2> QED
      BY <2>1, <2>2 DEF Doing, Makes
  <1>15. Loaded'
    <2>1. mode # "normal"
      BY <1>1 DEF Inv, Loaded
    <2> QED
      BY <1>1, <2>1 DEF Loaded
  <1> QED
    BY <1>10, <1>11, <1>12, <1>13, <1>14, <1>15 DEF Inv

(* A code from the network changes the state of a scene and nothing else.  *)
LEMMA ReceiveInv ==
    ASSUME Inv, NEW calls, Receive(calls)
    PROVE  Inv'
  <1>1. /\ mode = "normal"
        /\ UNCHANGED <<cell, mode, virtual, code, later, entry, todo, turns, asked, whole>>
    BY DEF Receive, saving
  <1>2. /\ scene' \in [Scenes -> Scene]
        /\ \A i \in Scenes : /\ scene'[i].virtual = scene[i].virtual
                             /\ scene'[i].name = scene[i].name
    <2>1. scene \in [Scenes -> Scene] /\ 7 \in Scenes /\ 0 \in Byte /\ 1 \in Byte
      BY DEF Inv, TypeInv, Scenes, Byte
    <2>2. ASSUME NEW n \in Byte, scene' = [scene EXCEPT ![7].act = n]
          PROVE  <1>2
      <3>1. [scene[7] EXCEPT !.act = n] \in Scene
        BY <2>1 DEF Scene
      <3>2. scene' = [scene EXCEPT ![7] = [scene[7] EXCEPT !.act = n]]
        BY <2>2
      <3>3. scene' \in [Scenes -> Scene]
        BY <2>1, <3>1, <3>2
      <3>4. ASSUME NEW i \in Scenes
            PROVE  scene'[i].virtual = scene[i].virtual /\ scene'[i].name = scene[i].name
        <4>1. CASE i = 7
          <5>1. scene'[i] = [scene[7] EXCEPT !.act = n]
            BY <2>1, <3>2, <4>1
          <5> QED
            BY <2>1, <4>1, <5>1 DEF Scene
        <4>2. CASE i # 7
          BY <2>1, <3>2, <4>2
        <4> QED
          BY <4>1, <4>2
      <3> QED
        BY <3>3, <3>4
    <2>3. scene' = scene \/ scene' = [scene EXCEPT ![7].act = 1]
              \/ scene' = [scene EXCEPT ![7].act = 0]
      BY DEF Receive
    <2> QED
      BY <2>1, <2>2, <2>3
  <1>3. todo = <<>> /\ later = {}
    BY <1>1 DEF Inv, Loaded
  <1>4. TypeInv' /\ Unused' /\ Order' /\ Asked' /\ Doing'
    BY <1>1, <1>2, <1>3 DEF Inv, TypeInv, Unused, Order, Asked, Doing
  <1>5. Saved'
    BY <1>1, SMTT(30) DEF Inv, Saved, Want, WantScene, WantVirtual, WantCode
  <1>6. Loaded'
    BY <1>1, <1>2 DEF Inv, Loaded
  <1> QED
    BY <1>4, <1>5, <1>6 DEF Inv

LEMMA RestartInv ==
    ASSUME Inv, Restart
    PROVE  Inv'
  <1>1. /\ turns < MaxTurns /\ turns' = turns + 1 /\ mode' \in {"panel", "normal"}
        /\ scene' = ScenesOf(cell) /\ virtual' = VirtualOf(cell) /\ code' = CodesOf(cell)
        /\ later' = {} /\ entry' = 0 /\ todo' = <<>>
        /\ UNCHANGED <<cell, asked, whole>>
    BY DEF Restart
  <1>2. cell \in [Cells -> Byte]
    BY DEF Inv, TypeInv
  <1>3. TypeInv'
    <2>1. /\ scene' \in [Scenes -> Scene] /\ virtual' \in [VirtualRows -> VirtualRow]
          /\ code' \in [CodeRows -> CodeRow]
      BY <1>1, <1>2, LoadTypes
    <2>2. turns' \in 0 .. MaxTurns
      BY <1>1, TurnsAssumption DEF Inv, TypeInv
    <2>3. <<>> \in Seq(Block) /\ 0 \in Entries
      BY EmptySeq DEF Entries, Scenes
    <2> QED
      BY <1>1, <2>1, <2>2, <2>3 DEF Inv, TypeInv
  <1>4. Unused'
    <2>1. ASSUME NEW i \in VirtualRows
          PROVE  virtual'[i].dvc = None => virtual'[i] = NoRow
      BY <1>1 DEF VirtualOf, LoadVirtual, None
    <2>2. ASSUME NEW i \in CodeRows
          PROVE  code'[i].dvc = None => code'[i] = NoCode
      <3> DEFINE dvc == Kept(cell[CODETYPE(i)], {1, 2})
      <3>1. code'[i] = LoadCode(cell, i)
        BY <1>1 DEF CodesOf
      <3>2. CASE dvc = None
        BY <3>1, <3>2 DEF LoadCode
      <3>3. CASE dvc # None /\ cell[CODECON(i)] > 10
        <4>1. code'[i] = [NoCode EXCEPT !.dvc = dvc]
          BY <3>1, <3>3 DEF LoadCode
        <4> QED
          BY <3>3, <4>1 DEF NoCode
      <3>4. CASE dvc # None /\ ~ (cell[CODECON(i)] > 10)
        <4>1. code'[i] = [dvc |-> dvc, con |-> ReadText(cell, CODECON(i)),
                          sen |-> cell[CODESEN(i)]]
          BY <3>1, <3>4 DEF LoadCode
        <4> QED
          BY <3>4, <4>1
      <3> QED
        BY <3>2, <3>3, <3>4
    <2> QED
      BY <1>1, <2>1, <2>2 DEF Inv, Unused
  <1>5. Order' /\ Asked' /\ Doing'
    BY <1>1 DEF Inv, Order, Asked, Doing
  <1>6. Saved'
    BY <1>1, SMTT(30) DEF Inv, Saved, Want, WantScene, WantVirtual, WantCode
  <1>7. Loaded'
    <2>1. \A i \in Scenes : scene'[i] = LoadScene(cell, i)
      BY <1>1 DEF ScenesOf
    <2> QED
      BY <1>1, <2>1 DEF Loaded
  <1> QED
    BY <1>3, <1>4, <1>5, <1>6, <1>7 DEF Inv

LEMMA StepInv == Inv /\ [Next]_vars => Inv'
  <1> SUFFICES ASSUME Inv, [Next]_vars
               PROVE  Inv'
    OBVIOUS
  <1>1. ASSUME NEW doc \in SceneDocs, AskScenes(doc)
        PROVE  Inv'
    BY <1>1, AskScenesInv
  <1>2. ASSUME NEW doc \in RunsenDocs, AskRunsen(doc)
        PROVE  Inv'
    BY <1>2, AskRunsenInv
  <1>3. CASE Save
    BY <1>3, SaveInv
  <1>4. CASE Store
    BY <1>4, StoreInv
  <1>5. ASSUME NEW v \in Codes, VirtualCode(v)
        PROVE  Inv'
    BY <1>5, ReceiveInv DEF VirtualCode
  <1>6. ASSUME NEW t \in Texts, CustomCode(t)
        PROVE  Inv'
    BY <1>6, ReceiveInv DEF CustomCode
  <1>7. CASE Restart
    BY <1>7, RestartInv
  <1>8. CASE UNCHANGED vars
    <2>1. UNCHANGED <<cell, mode, scene, virtual, code, later, entry, todo, turns, asked, whole>>
      BY <1>8 DEF vars, tables, saving
    <2>2. \A x, c, v : Want(x, c, v)' <=> Want(x, c, v)
      BY <2>1 DEF Want, WantScene, WantVirtual, WantCode
    <2>3. TypeInv' /\ Unused' /\ Order' /\ Asked' /\ Loaded'
      BY <2>1 DEF Inv, TypeInv, Unused, Order, Asked, Loaded
    <2>4. Saved'
      BY <2>1, <2>2 DEF Inv, Saved
    <2>5. Doing'
      BY <2>1 DEF Inv, Doing, Makes, Want, WantScene, WantVirtual, WantCode, Foot, FootScene, FootCode
    <2> QED
      BY <2>3, <2>4, <2>5 DEF Inv
  <1> QED
    BY <1>1, <1>2, <1>3, <1>4, <1>5, <1>6, <1>7, <1>8 DEF Next

-----------------------------------------------------------------------------
(* What a restart loads of an entry that was saved to the end.             *)
LEMMA InvTypes == Inv => TypeOK
  <1> SUFFICES ASSUME Inv
               PROVE  TypeOK
    OBVIOUS
  <1>1. \A k \in DOMAIN todo : todo[k] \in Block
    <2>1. todo \in Seq(Block)
      BY DEF Inv, TypeInv
    <2> QED
      BY <2>1, LenProperties
  <1>2. \A w \in Block : DOMAIN w \subseteq Cells /\ \A c \in DOMAIN w : w[c] \in Byte
    BY DEF Block
  <1> QED
    BY <1>1, <1>2 DEF Inv, TypeInv, TypeOK

LEMMA WantIs ==
    ASSUME Inv, NEW e \in whole, NEW c \in Cells, NEW v \in Byte, Want(e, c, v)
    PROVE  cell[c] = v
  BY DEF Inv, Saved

LEMMA InvOwnCells == Inv => OwnCells
  <1> SUFFICES ASSUME Inv, mode = "normal", NEW i \in whole \cap Scenes, cell[ACT(i)] \in {0, 1}
               PROVE  /\ scene[i].virtual = asked.scene[i].virtual
                      /\ i \notin 1 .. 3 => scene[i].name = asked.scene[i].name
    BY DEF OwnCells
  <1>1. /\ scene[i].virtual = LoadScene(cell, i).virtual
        /\ scene[i].name = LoadScene(cell, i).name
    BY DEF Inv, Loaded
  <1>2. Kept(cell[ACT(i)], {0, 1}) # None
    BY DEF Kept, None
  <1>3. /\ LoadScene(cell, i).virtual = [j \in Parts |-> cell[VIRTUAL(i, j)]]
        /\ LoadScene(cell, i).name = ReadString(cell, NAME(i), 12)
    BY <1>2 DEF LoadScene
  <1>4. asked.scene[i] \in Scene /\ cell \in [Cells -> Byte]
    BY DEF Inv, TypeInv, Tables
  <1>5. \A j \in Parts : cell[VIRTUAL(i, j)] = asked.scene[i].virtual[j]
    <2> TAKE j \in Parts
    <2>1. VIRTUAL(i, j) \in Cells /\ asked.scene[i].virtual[j] \in Byte
      BY <1>4, Layout DEF Scene
    <2>2. Want(i, VIRTUAL(i, j), asked.scene[i].virtual[j])
      BY DEF Want, WantScene
    <2> QED
      BY <2>1, <2>2, WantIs
  <1>6. scene[i].virtual = asked.scene[i].virtual
    <2>1. asked.scene[i].virtual \in [Parts -> Byte]
      BY <1>4 DEF Scene
    <2>2. scene[i].virtual = [j \in Parts |-> cell[VIRTUAL(i, j)]]
      BY <1>1, <1>3
    <2> QED
      BY <1>5, <2>1, <2>2
  <1>7. ASSUME i \notin 1 .. 3
        PROVE  scene[i].name = asked.scene[i].name
    <2> DEFINE s == asked.scene[i].name
    <2>1. s \in Name
      BY <1>4 DEF Scene
    <2>2. \A k \in 0 .. 11 : cell[NAME(i) + k] = Padded(s, k)
      <3> TAKE k \in 0 .. 11
      <3>1. Padded(s, k) \in Byte
        <4> HIDE DEF s
        <4>1. s \in Seq(1 .. 255)
          BY <2>1 DEF Name
        <4>2. Len(s) \in Nat /\ \A h \in 1 .. Len(s) : s[h] \in 1 .. 255
          BY <4>1, LenProperties, ElementOfSeq
        <4>3. k < Len(s) => k + 1 \in 1 .. Len(s)
          BY <4>2
        <4> QED
          BY <4>2, <4>3 DEF Padded, Byte
      <3>2. NAME(i) + k \in Cells
        <4>1. 1 \in Parts
          BY DEF Parts
        <4> QED
          BY <4>1, Layout
      <3>3. Want(i, NAME(i) + k, Padded(s, k))
        BY <1>7 DEF Want, WantScene
      <3> QED
        BY <3>1, <3>2, <3>3, WantIs
    <2>3. ReadString(cell, NAME(i), 12) = s
      BY <1>4, <2>1, <2>2, ReadWritten
    <2> QED
      BY <1>1, <1>3, <2>3
  <1> QED
    BY <1>6, <1>7

LEMMA InvVirtual == Inv => VirtualConditions
  <1> SUFFICES ASSUME Inv, mode = "normal",
                      \A i \in VirtualRows : VirtualEntry(i) \in whole,
                      \A i \in VirtualRows : asked.virtual[i].dvc = None
                                             \/ asked.virtual[i].con \notin {0, None},
                      NEW v \in Codes
               PROVE  Calls(virtual, 10, v) = Calls(asked.virtual, 10, v)
    BY DEF VirtualConditions
  <1>1. ASSUME NEW i \in VirtualRows
        PROVE  /\ virtual[i].dvc = None <=> asked.virtual[i].dvc = None
               /\ virtual[i].dvc # None => /\ virtual[i].con = asked.virtual[i].con
                                           /\ virtual[i].sen = asked.virtual[i].sen
    <2> DEFINE row == asked.virtual[i]
               e == VirtualEntry(i)
    <2>1. e \in 10 .. 19 /\ e - 10 = i /\ e \in whole
      BY DEF VirtualEntry, VirtualRows
    <2>2. row \in VirtualRow /\ row.con \in Byte /\ row.sen \in Byte
      BY DEF Inv, TypeInv, Tables, VirtualRow
    <2>3. VIRTUALCON(i) \in Cells /\ VIRTUALSEN(i) \in Cells
      BY RowLayout
    <2>4. WantVirtual(i, VIRTUALCON(i), row.con) /\ WantVirtual(i, VIRTUALSEN(i), row.sen)
      BY DEF WantVirtual
    <2>5. Want(e, VIRTUALCON(i), row.con) /\ Want(e, VIRTUALSEN(i), row.sen)
      BY <2>1, <2>4 DEF Want
    <2>6. cell[VIRTUALCON(i)] = row.con /\ cell[VIRTUALSEN(i)] = row.sen
      BY <2>1, <2>2, <2>3, <2>5, WantIs
    <2>7. virtual[i] = LoadVirtual(cell, i)
      BY DEF Inv, Loaded, VirtualOf
    <2>8. row.dvc = None => row = NoRow
      BY DEF Inv, Unused
    <2>9. CASE row.dvc = None
      <3>1. cell[VIRTUALCON(i)] = None
        BY <2>6, <2>8, <2>9 DEF NoRow
      <3>2. virtual[i] = NoRow
        BY <2>7, <3>1 DEF LoadVirtual
      <3> QED
        BY <2>9, <3>2 DEF NoRow
    <2>10. CASE row.dvc # None
      <3>1. cell[VIRTUALCON(i)] \notin {0, None}
        BY <2>6, <2>10
      <3>2. virtual[i] = [dvc |-> 1, con |-> cell[VIRTUALCON(i)], sen |-> cell[VIRTUALSEN(i)]]
        BY <2>7, <3>1 DEF LoadVirtual
      <3> QED
        BY <2>6, <2>10, <3>2 DEF None
    <2> QED
      BY <2>9, <2>10
  <1> DEFINE runs(rows) ==
                 {i \in 0 .. 10 - 1 : rows[i].con = v /\ \A h \in 0 .. i : rows[h].dvc # None}
  <1>2. 0 .. 10 - 1 = VirtualRows /\ \A i \in VirtualRows : i \in 0 .. i /\ 0 .. i \subseteq VirtualRows
    BY DEF VirtualRows
  <1>3. runs(virtual) = runs(asked.virtual)
    BY <1>1, <1>2
  <1>4. \A i \in runs(virtual) : virtual[i].sen = asked.virtual[i].sen
    BY <1>1, <1>2
  <1>5. /\ Calls(virtual, 10, v) = [i \in runs(virtual) |-> virtual[i].sen]
        /\ Calls(asked.virtual, 10, v) = [i \in runs(asked.virtual) |-> asked.virtual[i].sen]
    BY DEF Calls
  <1> HIDE DEF runs
  <1> QED
    BY <1>3, <1>4, <1>5

LEMMA InvCode == Inv => CodeConditions
  <1> SUFFICES ASSUME Inv, mode = "normal", \A i \in CodeRows : CodeEntry(i) \in whole,
                      NEW i \in CodeRows, asked.code[i].dvc \in {1, 2, None}
               PROVE  \/ code[i] = asked.code[i]
                      \/ /\ i = 0 /\ asked.code[4].dvc = None
                         /\ code[0] = [asked.code[0] EXCEPT !.sen = 0]
    BY DEF CodeConditions
  <1> DEFINE row == asked.code[i]
             e == CodeEntry(i)
             at == CODECON(i)
  <1>1. e \in 20 .. 24 /\ e - 20 = i /\ e \in whole
    BY DEF CodeEntry, CodeRows
  <1>2. row \in CodeRow /\ row.con \in Text /\ row.sen \in Byte /\ cell \in [Cells -> Byte]
    BY DEF Inv, TypeInv, Tables, CodeRow
  <1>3. CODETYPE(i) \in Cells /\ CODESEN(i) \in Cells /\ at \in Int
        /\ \A k \in 0 .. 11 : at + k \in Cells
    BY RowLayout DEF CODECON, CodeRows
  <1>4. code[i] = LoadCode(cell, i)
    BY DEF Inv, Loaded, CodesOf
  <1>5. \A c \in Cells, v \in Byte : WantCode(i, c, v) => cell[c] = v
    BY <1>1, WantIs DEF Want
  <1>6. Kept(row.dvc, {1, 2}) = row.dvc /\ row.dvc \in Byte
    BY DEF Kept, None, Byte
  <1>7. cell[CODETYPE(i)] = row.dvc
    <2>1. WantCode(i, CODETYPE(i), row.dvc)
      BY <1>6 DEF WantCode
    <2> QED
      BY <1>3, <1>5, <1>6, <2>1
  <1>8. Kept(cell[CODETYPE(i)], {1, 2}) = row.dvc
    BY <1>6, <1>7
  <1>9. CASE row.dvc = None
    <2>1. row = NoCode
      BY <1>9 DEF Inv, Unused
    <2>2. code[i] = NoCode
      BY <1>4, <1>8, <1>9 DEF LoadCode
    <2> QED
      BY <2>1, <2>2
  <1>10. CASE row.dvc # None
    <2>1. ReadText(cell, at) = row.con /\ ~ (cell[at] > 10)
      <3> DEFINE s == row.con
      <3>1. Len(s) \in 0 .. 10 /\ Len(s) \in Byte /\ \A k \in 1 .. Len(s) : s[k] \in Byte
        BY <1>2, TextIs
      <3>2. at \in Cells
        <4>1. at + 0 \in Cells
          BY <1>3
        <4> QED
          BY <1>3, <4>1
      <3>3. WantCode(i, at, Len(s)) /\ \A k \in 1 .. Len(s) : WantCode(i, at + k, s[k])
        BY <1>10 DEF WantCode
      <3>4. cell[at] = Len(s)
        BY <1>5, <3>1, <3>2, <3>3
      <3>5. \A k \in 1 .. Len(s) : at + k \in Cells
        <4> DEFINE n == Len(s)
        <4>1. n \in 0 .. 10
          BY <3>1
        <4> HIDE DEF n
        <4>2. \A k \in 1 .. n : k \in 0 .. 11
          BY <4>1
        <4> QED
          BY <1>3, <4>2 DEF n
      <3>6. \A k \in 1 .. Len(s) : cell[at + k] = s[k]
        BY <1>5, <3>1, <3>3, <3>5
      <3> HIDE DEF s, at
      <3> QED
        BY <1>2, <1>3, <3>4, <3>6, TextReads DEF s
    <2>2. code[i] = [dvc |-> row.dvc, con |-> row.con, sen |-> cell[CODESEN(i)]]
      BY <1>4, <1>8, <1>10, <2>1 DEF LoadCode
    <2>3. row = [dvc |-> row.dvc, con |-> row.con, sen |-> row.sen]
      BY <1>2 DEF CodeRow
    <2>4. CASE i = 0 => asked.code[4].dvc # None
      <3>1. WantCode(i, CODESEN(i), row.sen)
        BY <2>4 DEF WantCode
      <3>2. cell[CODESEN(i)] = row.sen
        BY <1>2, <1>3, <1>5, <3>1
      <3> QED
        BY <2>2, <2>3, <3>2
    <2>5. CASE i = 0 /\ asked.code[4].dvc = None
      <3>1. CodeEntry(4) = 24 /\ 24 \in whole /\ 0 \in Byte /\ 24 \in 20 .. 24 /\ 24 - 20 = 4
        BY DEF CodeEntry, CodeRows, Byte
      <3>2. WantCode(4, CODESEN(0), 0)
        BY <1>10, <2>5 DEF WantCode
      <3>3. Want(24, CODESEN(0), 0)
        BY <3>1, <3>2 DEF Want
      <3>4. cell[CODESEN(0)] = 0
        BY <1>3, <2>5, <3>1, <3>3, WantIs
      <3> QED
        BY <2>2, <2>3, <2>5, <3>4
    <2> QED
      BY <2>4, <2>5
  <1> QED
    BY <1>9, <1>10

-----------------------------------------------------------------------------
(* The tables, the EEPROM and the writes of a save have their types,       *)
(* whatever documents the panel is sent and whenever the power goes.       *)
THEOREM Types == Spec => []TypeOK
  <1> QED
    BY InitInv, StepInv, InvTypes, PTL DEF Spec

(* The virtual conditions that a restart loads run what was last asked     *)
(* for, with the exceptions of VirtualConditions.                          *)
THEOREM VirtualLoaded == Spec => []VirtualConditions
  <1> QED
    BY InitInv, StepInv, InvVirtual, PTL DEF Spec

(* The conditions on custom codes are loaded as they were asked for, but   *)
(* for the first row's scene.                                              *)
THEOREM CodesLoaded == Spec => []CodeConditions
  <1> QED
    BY InitInv, StepInv, InvCode, PTL DEF Spec

(* A stored scene is loaded with its virtual codes and, where no state or  *)
(* relay of a scene lies in it, its name.                                  *)
THEOREM ScenesOwn == Spec => []OwnCells
  <1> QED
    BY InitInv, StepInv, InvOwnCells, PTL DEF Spec
=============================================================================
