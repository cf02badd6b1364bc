--------------------------- MODULE PlugBootProofs ---------------------------
(***************************************************************************)
(* What holds of the config panel for any number of settings, any contents *)
(* and any clock: config mode is left by every restart, a device marked as *)
(* configured has its settings, the settings left behind are those of one  *)
(* request, the timeout is exact, and everything keeps its type.           *)
(***************************************************************************)
EXTENDS PlugBoot, SequenceTheorems, TLAPS

Store == Cell \X Value

(* The states of main in which it has set the restart point and is not yet *)
(* on its way to a restart.                                                *)
Serving == {"panelStored", "serve", "check", "wait"}

(* What is left of a request's stores: none erases a setting that is kept, *)
(* the mark comes after those settings, and only a request that restarts   *)
(* the device touches the start mode.                                      *)
KeepsKept(st) == \A i \in 1 .. Len(st) : st[i][1] \in 1 .. Kept => st[i][2] # Erased
MarkAfter(st, e) ==
    \A i \in 1 .. Len(st), k \in 1 .. Kept :
        st[i][1] = CONFIGURED => e[k] # Erased \/ \E j \in 1 .. i - 1 : st[j][1] = k
LeavesMode(st) == \A i \in 1 .. Len(st) : st[i][1] # STARTMODE

BootOK ==
    /\ eeprom \in [Cell -> Value]
    /\ ram \in [Settings -> Value]
    /\ todo \in Seq(Store)
    /\ closing \in BOOLEAN

PlanOK ==
    /\ KeepsKept(todo)
    /\ MarkAfter(todo, eeprom)
    /\ main = "work" /\ ~closing => LeavesMode(todo)

PanelOK ==
    /\ main \in InPanel => startMode = ConfigPanel
    /\ main \in Serving \/ (main = "work" /\ ~closing) => eeprom[STARTMODE] = Normal

BootInv == BootOK /\ PlanOK /\ PanelOK /\ ConfiguredIsComplete

LEMMA Cells ==
    /\ Last \in Nat /\ Kept \in 1 .. Last /\ 1 .. Kept \subseteq Settings
    /\ Settings \subseteq Cell
    /\ OLDMESH \in Cell \ Settings /\ STARTMODE \in Cell \ Settings
    /\ CONFIGURED \in Cell \ Settings
    /\ OLDMESH # STARTMODE /\ OLDMESH # CONFIGURED /\ STARTMODE # CONFIGURED
    /\ Last \in Settings /\ Circuit \in Settings
  BY SettingsAssumption DEF Last, Settings, Cell, OLDMESH, STARTMODE, CONFIGURED, Circuit

LEMMA Values ==
    /\ Content \subseteq Value /\ Erased \in Value /\ Normal \in Value
    /\ ConfigSendall \in Value /\ ConfigPanel \in Value /\ 1 \in Value
    /\ Default \in Content /\ Erased \notin Content
    /\ Normal # ConfigSendall /\ Normal # ConfigPanel /\ Normal # Erased
    /\ ConfigSendall # Erased /\ ConfigPanel # Erased
  BY ContentAssumption DEF Value, Erased, Normal, ConfigSendall, ConfigPanel, Default

(* A sequence of one store, and one that may be missing.                   *)
LEMMA OneStore ==
    ASSUME NEW c \in Cell, NEW v \in Value
    PROVE  /\ <<<<c, v>>>> \in Seq(Store) /\ Len(<<<<c, v>>>>) = 1
           /\ <<<<c, v>>>>[1] = <<c, v>>
  <1>1. <<c, v>> \in Store
    BY DEF Store
  <1> QED
    BY <1>1

LEMMA FillStores ==
    ASSUME NEW s \in Content
    PROVE  /\ Fill(s) \in Seq(Store) /\ Len(Fill(s)) = Last
           /\ \A i \in 1 .. Last : Fill(s)[i] = <<i, s>>
  <1>1. \A i \in 1 .. Last : <<i, s>> \in Store
    BY Cells, Values DEF Store, Settings
  <1> QED
    BY <1>1, Cells DEF Fill

(* What a part of a request may do, and what holds of two parts in a row.  *)
NoMark(st) == \A i \in 1 .. Len(st) : st[i][1] # CONFIGURED
Covers(st) == \A k \in 1 .. Kept : \E j \in 1 .. Len(st) : st[j][1] = k

LEMMA Concat ==
    ASSUME NEW x \in Seq(Store), NEW y \in Seq(Store), NEW e
    PROVE  /\ x \o y \in Seq(Store)
           /\ KeepsKept(x) /\ KeepsKept(y) => KeepsKept(x \o y)
           /\ LeavesMode(x) /\ LeavesMode(y) => LeavesMode(x \o y)
           /\ NoMark(x) /\ NoMark(y) => NoMark(x \o y)
           /\ Covers(x) \/ Covers(y) => Covers(x \o y)
           /\ NoMark(x) /\ Covers(x) => MarkAfter(x \o y, e)
           /\ MarkAfter(x, e) /\ NoMark(y) => MarkAfter(x \o y, e)
  <1> DEFINE z == x \o y
  <1>1. /\ z \in Seq(Store)
        /\ Len(x) \in Nat /\ Len(y) \in Nat /\ Len(z) = Len(x) + Len(y)
        /\ \A i \in 1 .. Len(x) + Len(y) : z[i] = IF i <= Len(x) THEN x[i] ELSE y[i - Len(x)]
    BY ConcatProperties, LenProperties
  <1>2. \A i \in 1 .. Len(x) : i \in 1 .. Len(z) /\ z[i] = x[i]
    BY <1>1
  <1>3. \A i \in 1 .. Len(y) : i + Len(x) \in 1 .. Len(z) /\ z[i + Len(x)] = y[i]
    BY <1>1
  <1>4. \A i \in 1 .. Len(z) :
          \/ i \in 1 .. Len(x)
          \/ i \notin 1 .. Len(x) /\ i - Len(x) \in 1 .. Len(y) /\ z[i] = y[i - Len(x)]
    BY <1>1
  <1> HIDE DEF z
  <1>5. KeepsKept(x) /\ KeepsKept(y) => KeepsKept(z)
    BY <1>2, <1>4 DEF KeepsKept
  <1>6. LeavesMode(x) /\ LeavesMode(y) => LeavesMode(z)
    BY <1>2, <1>4 DEF LeavesMode
  <1>7. NoMark(x) /\ NoMark(y) => NoMark(z)
    BY <1>2, <1>4 DEF NoMark
  <1>8. Covers(x) \/ Covers(y) => Covers(z)
    <2>1. CASE Covers(x)
      BY <2>1, <1>2 DEF Covers
    <2>2. CASE Covers(y)
      <3> SUFFICES ASSUME NEW k \in 1 .. Kept PROVE \E j \in 1 .. Len(z) : z[j][1] = k
        BY DEF Covers
      <3>1. PICK j \in 1 .. Len(y) : y[j][1] = k
        BY <2>2 DEF Covers
      <3>2. j + Len(x) \in 1 .. Len(z) /\ z[j + Len(x)][1] = k
        BY <3>1, <1>3
      <3> QED
        BY <3>2
    <2> QED
      BY <2>1, <2>2
  <1>9. NoMark(x) /\ Covers(x) => MarkAfter(z, e)
    <2> SUFFICES ASSUME NoMark(x), Covers(x), NEW i \in 1 .. Len(z), NEW k \in 1 .. Kept,
                        z[i][1] = CONFIGURED
                 PROVE  \E j \in 1 .. i - 1 : z[j][1] = k
      BY DEF MarkAfter
    <2>1. i \notin 1 .. Len(x)
      BY <1>2 DEF NoMark
    <2>2. PICK j \in 1 .. Len(x) : x[j][1] = k
      BY DEF Covers
    <2>3. j \in 1 .. i - 1 /\ z[j][1] = k
      BY <1>1, <1>2, <2>1, <2>2
    <2> QED
      BY <2>3
  <1>10. MarkAfter(x, e) /\ NoMark(y) => MarkAfter(z, e)
    <2> SUFFICES ASSUME MarkAfter(x, e), NoMark(y), NEW i \in 1 .. Len(z), NEW k \in 1 .. Kept,
                        z[i][1] = CONFIGURED, e[k] = Erased
                 PROVE  \E j \in 1 .. i - 1 : z[j][1] = k
      BY DEF MarkAfter
    <2>1. i \in 1 .. Len(x) /\ x[i][1] = CONFIGURED
      BY <1>2, <1>4 DEF NoMark
    <2>2. PICK j \in 1 .. i - 1 : x[j][1] = k
      BY <2>1 DEF MarkAfter
    <2>3. z[j][1] = k
      BY <1>1, <1>2, <2>1, <2>2
    <2> QED
      BY <2>3
  <1> QED
    BY <1>1, <1>5, <1>6, <1>7, <1>8, <1>9, <1>10 DEF z

(* A save never erases a kept setting, marks the device after them all,    *)
(* and touches the start mode only if it restarts the device.              *)
LEMMA SavePlan ==
    ASSUME NEW s \in Content, NEW all \in BOOLEAN, ram \in [Settings -> Value], NEW e
    PROVE  /\ SaveStores(s, all) \in Seq(Store)
           /\ KeepsKept(SaveStores(s, all))
           /\ MarkAfter(SaveStores(s, all), e)
           /\ ~all => LeavesMode(SaveStores(s, all))
  <1> DEFINE A == KeepOld(all)
             B == Fill(s)
             C == <<<<CONFIGURED, 1>>>>
             D == IF all THEN <<<<STARTMODE, ConfigSendall>>>> ELSE <<>>
  <1>1. A \in Seq(Store) /\ KeepsKept(A) /\ LeavesMode(A) /\ NoMark(A)
    <2>1. CASE all
      <3>1. ram[Last] \in Value
        BY Cells, Values
      <3> QED
        BY <2>1, <3>1, OneStore, Cells DEF KeepOld, KeepsKept, LeavesMode, NoMark
    <2>2. CASE ~all
      BY <2>2 DEF KeepOld, KeepsKept, LeavesMode, NoMark
    <2> QED
      BY <2>1, <2>2
  <1>2. B \in Seq(Store) /\ KeepsKept(B) /\ LeavesMode(B) /\ NoMark(B) /\ Covers(B)
    <2>1. B \in Seq(Store) /\ Len(B) = Last /\ \A i \in 1 .. Last : B[i] = <<i, s>>
      BY FillStores
    <2> HIDE DEF B
    <2>2. \A i \in 1 .. Last : B[i][1] = i /\ B[i][2] = s
      BY <2>1
    <2>3. KeepsKept(B) /\ LeavesMode(B) /\ NoMark(B)
      BY <2>1, <2>2, Cells, Values DEF KeepsKept, LeavesMode, NoMark, Settings
    <2>4. Covers(B)
      BY <2>1, <2>2, Cells DEF Covers
    <2> QED
      BY <2>1, <2>3, <2>4
  <1>3. C \in Seq(Store) /\ KeepsKept(C) /\ LeavesMode(C)
    BY OneStore, Cells, Values DEF KeepsKept, LeavesMode
  <1>4. D \in Seq(Store) /\ KeepsKept(D) /\ NoMark(D) /\ (~all => LeavesMode(D))
    <2>1. CASE all
      BY <2>1, OneStore, Cells, Values DEF KeepsKept, NoMark
    <2>2. CASE ~all
      BY <2>2 DEF KeepsKept, LeavesMode, NoMark
    <2> QED
      BY <2>1, <2>2
  <1> HIDE DEF A, B, C, D
  <1>5. /\ A \o B \in Seq(Store) /\ KeepsKept(A \o B) /\ LeavesMode(A \o B)
        /\ NoMark(A \o B) /\ Covers(A \o B)
    BY <1>1, <1>2, Concat
  <1>6. /\ (A \o B) \o C \in Seq(Store) /\ KeepsKept((A \o B) \o C)
        /\ LeavesMode((A \o B) \o C) /\ MarkAfter((A \o B) \o C, e)
    BY <1>3, <1>5, Concat
  <1>7. SaveStores(s, all) = ((A \o B) \o C) \o D
    BY DEF SaveStores, A, B, C, D
  <1> QED
    BY <1>4, <1>6, <1>7, Concat, ZenonT(60)

(* No other request marks the device, and only those that restart it touch *)
(* the start mode.                                                         *)
LEMMA UnmarkedPlan ==
    ASSUME NEW st, NoMark(st), NEW e
    PROVE  MarkAfter(st, e)
  BY DEF NoMark, MarkAfter

LEMMA RestorePlan ==
    ASSUME NEW all \in BOOLEAN, ram \in [Settings -> Value]
    PROVE  /\ RestoreStores(all) \in Seq(Store)
           /\ KeepsKept(RestoreStores(all)) /\ NoMark(RestoreStores(all))
  <1> DEFINE A == KeepOld(all)
             B == Fill(Default)
             C == <<<<STARTMODE, IF all THEN ConfigSendall ELSE Normal>>>>
  <1>1. A \in Seq(Store) /\ KeepsKept(A) /\ NoMark(A)
    <2>1. CASE all
      <3>1. ram[Last] \in Value
        BY Cells, Values
      <3> QED
        BY <2>1, <3>1, OneStore, Cells DEF KeepOld, KeepsKept, NoMark
    <2>2. CASE ~all
      BY <2>2 DEF KeepOld, KeepsKept, NoMark
    <2> QED
      BY <2>1, <2>2
  <1>2. B \in Seq(Store) /\ KeepsKept(B) /\ NoMark(B)
    <2>1. B \in Seq(Store) /\ Len(B) = Last /\ \A i \in 1 .. Last : B[i] = <<i, Default>>
      BY FillStores, Values
    <2> HIDE DEF B
    <2>2. \A i \in 1 .. Last : B[i][1] = i /\ B[i][2] = Default
      BY <2>1
    <2> QED
      BY <2>1, <2>2, Cells, Values DEF KeepsKept, NoMark, Settings
  <1>3. C \in Seq(Store) /\ KeepsKept(C) /\ NoMark(C)
    <2> DEFINE v == IF all THEN ConfigSendall ELSE Normal
    <2>1. v \in Value
      BY Values
    <2> HIDE DEF v
    <2>2. /\ <<<<STARTMODE, v>>>> \in Seq(Store) /\ KeepsKept(<<<<STARTMODE, v>>>>)
          /\ NoMark(<<<<STARTMODE, v>>>>)
      BY <2>1, OneStore, Cells DEF KeepsKept, NoMark
    <2> QED
      BY <2>2 DEF v
  <1> HIDE DEF A, B, C
  <1>4. A \o B \in Seq(Store) /\ KeepsKept(A \o B) /\ NoMark(A \o B)
    BY <1>1, <1>2, Concat
  <1>5. RestoreStores(all) = (A \o B) \o C
    BY DEF RestoreStores, A, B, C
  <1> QED
    BY <1>3, <1>4, <1>5, Concat, ZenonT(60)

LEMMA CleanPlan ==
    /\ CleanStores \in Seq(Store)
    /\ KeepsKept(CleanStores) /\ NoMark(CleanStores) /\ LeavesMode(CleanStores)
  <1>1. \A i \in 1 .. Wiped + 1 : Kept + i \in Cell \ (1 .. Kept)
    BY SettingsAssumption DEF Cell, Last
  <1>2. \A i \in 1 .. Wiped + 1 : <<Kept + i, Erased>> \in Store
    BY <1>1, Values DEF Store
  <1>3. Wiped + 1 \in Nat
    BY SettingsAssumption
  <1>4. CleanStores \in Seq(Store) /\ Len(CleanStores) = Wiped + 1
    <2> DEFINE n == Wiped + 1
               store(i) == <<Kept + i, Erased>>
    <2>1. n \in Nat /\ \A i \in 1 .. n : store(i) \in Store
      BY <1>2, <1>3
    <2>2. CleanStores = [i \in 1 .. n |-> store(i)]
      BY DEF CleanStores
    <2> HIDE DEF n, store
    <2>3. CleanStores \in Seq(Store) /\ Len(CleanStores) = n
      BY <2>1, <2>2
    <2> QED
      BY <2>3 DEF n
  <1>5. \A i \in 1 .. Wiped + 1 : CleanStores[i][1] = Kept + i
    BY DEF CleanStores
  <1>6. \A i \in 1 .. Wiped + 1 :
           CleanStores[i][1] \notin 1 .. Kept /\ CleanStores[i][1] # CONFIGURED
             /\ CleanStores[i][1] # STARTMODE
    BY <1>5, SettingsAssumption DEF CONFIGURED, STARTMODE, Last
  <1> QED
    BY <1>4, <1>6 DEF KeepsKept, NoMark, LeavesMode

LEMMA ExitPlan ==
    /\ ExitStores \in Seq(Store) /\ KeepsKept(ExitStores) /\ NoMark(ExitStores)
  BY OneStore, Cells, Values DEF ExitStores, KeepsKept, NoMark

LEMMA InitBoot == Init => BootInv
  <1> SUFFICES ASSUME Init PROVE BootInv
    OBVIOUS
  <1>1. BootOK
    <2>1. <<>> \in Seq(Store)
      OBVIOUS
    <2> QED
      BY <2>1, Cells, Values DEF Init, BootOK, All
  <1>2. PlanOK
    BY DEF Init, PlanOK, KeepsKept, MarkAfter, LeavesMode
  <1>3. PanelOK
    BY DEF Init, PanelOK, InPanel, Serving
  <1>4. eeprom[CONFIGURED] # 1
    BY Cells DEF Init, Erased
  <1> QED
    BY <1>1, <1>2, <1>3, <1>4 DEF BootInv, ConfiguredIsComplete

(* A step that changes neither the cells nor the stores to do.             *)
LEMMA Elsewhere ==
    ASSUME BootInv, UNCHANGED <<eeprom, ram, startMode, todo, closing>>,
           main' \in InPanel => main \in InPanel,
           main' \in Serving => main \in Serving \/ (main = "work" /\ ~closing),
           main' = "work" => main = "work"
    PROVE  BootInv'
  BY DEF BootInv, BootOK, PlanOK, PanelOK, ConfiguredIsComplete, KeepsKept, MarkAfter,
     LeavesMode

LEMMA RestartKeeps ==
    ASSUME BootInv, Restart
    PROVE  BootInv'
  <1>1. BootOK'
    <2>1. <<>> \in Seq(Store)
      OBVIOUS
    <2> QED
      BY <2>1, Cells, Values DEF Restart, BootInv, BootOK, All
  <1>2. PlanOK'
    BY DEF Restart, PlanOK, KeepsKept, MarkAfter, LeavesMode
  <1>3. PanelOK'
    BY DEF Restart, PanelOK, InPanel, Serving
  <1>4. ConfiguredIsComplete'
    BY DEF Restart, BootInv, ConfiguredIsComplete
  <1> QED
    BY <1>1, <1>2, <1>3, <1>4 DEF BootInv

(* A store to the start mode leaves the settings and the mark alone.       *)
LEMMA ModeStored ==
    ASSUME BootInv, NEW m \in {Normal, ConfigPanel},
           eeprom' = [eeprom EXCEPT ![STARTMODE] = m],
           UNCHANGED <<ram, startMode, todo, closing>>,
           main' \in InPanel => startMode = ConfigPanel,
           startMode = ConfigPanel => m = Normal,
           main' = "work" => main = "work"
    PROVE  BootInv'
  <1>1. BootOK'
    BY Cells, Values DEF BootInv, BootOK
  <1>2. \A k \in 1 .. Kept \cup {CONFIGURED} : eeprom'[k] = eeprom[k]
    BY Cells DEF BootInv, BootOK
  <1>3. PlanOK'
    BY <1>2 DEF BootInv, PlanOK, KeepsKept, MarkAfter, LeavesMode
  <1>4. PanelOK'
    BY Cells DEF BootInv, BootOK, PanelOK, InPanel, Serving
  <1>5. ConfiguredIsComplete'
    BY <1>2 DEF BootInv, ConfiguredIsComplete
  <1> QED
    BY <1>1, <1>3, <1>4, <1>5 DEF BootInv

LEMMA BootKeeps ==
    ASSUME BootInv, Boot
    PROVE  BootInv'
  <1>1. CASE BeginFails
    BY <1>1, Elsewhere DEF BeginFails, request, InPanel, Serving
  <1>2. CASE BeginGivesUp
    BY <1>2, Elsewhere DEF BeginGivesUp, request, InPanel, Serving
  <1>3. CASE Booted
    <2>1. \A i \in Settings : Read(i) \in Value
      BY Cells, Values DEF BootInv, BootOK, Read
    <2>2. BootOK'
      BY <1>3, <2>1 DEF Booted, BootInv, BootOK, request
    <2>3. PlanOK'
      BY <1>3 DEF Booted, BootInv, PlanOK, KeepsKept, MarkAfter, LeavesMode, request
    <2>4. PanelOK'
      BY <1>3 DEF Booted, PanelOK, InPanel, Serving
    <2>5. ConfiguredIsComplete'
      BY <1>3 DEF Booted, BootInv, ConfiguredIsComplete
    <2> QED
      BY <2>2, <2>3, <2>4, <2>5 DEF BootInv
  <1>4. CASE PanelStore
    BY <1>4, ModeStored, Values DEF PanelStore, request, InPanel, BootInv, PanelOK
  <1>5. CASE PanelOpen
    BY <1>5, Elsewhere DEF PanelOpen, request, InPanel, Serving
  <1> QED
    BY <1>1, <1>2, <1>3, <1>4, <1>5 DEF Boot

(* The steps of the loop that do no store.                                 *)
LEMMA LoopKeeps ==
    ASSUME BootInv,
           NothingToServe \/ Answer \/ Close \/ CheckTimeout \/ Wait \/ ServeFirmware
    PROVE  BootInv'
  <1>1. CASE NothingToServe
    BY <1>1, Elsewhere DEF NothingToServe, request, InPanel, Serving
  <1>2. CASE Answer
    BY <1>2, Elsewhere DEF Answer, request, InPanel, Serving
  <1>3. CASE Close
    BY <1>3, Elsewhere DEF Close, request, InPanel, Serving
  <1>4. CASE CheckTimeout
    BY <1>4, Elsewhere DEF CheckTimeout, request, InPanel, Serving
  <1>5. CASE Wait
    BY <1>5, Elsewhere DEF Wait, request, InPanel, Serving
  <1>6. CASE ServeFirmware
    BY <1>6, Elsewhere DEF ServeFirmware, request, InPanel, Serving
  <1> QED
    BY <1>1, <1>2, <1>3, <1>4, <1>5, <1>6

LEMMA ServeKeeps ==
    ASSUME BootInv, NEW st \in Seq(Store), NEW s \in [Settings -> Value],
           NEW restarts \in BOOLEAN, NEW whole,
           Serve(st, s, restarts, whole),
           KeepsKept(st), MarkAfter(st, eeprom), ~restarts => LeavesMode(st)
    PROVE  BootInv'
  <1>1. BootOK'
    BY DEF Serve, BootInv, BootOK
  <1>2. PlanOK'
    BY DEF Serve, BootInv, PlanOK, MarkAfter, KeepsKept, LeavesMode
  <1>3. PanelOK'
    BY DEF Serve, BootInv, PanelOK, InPanel, Serving
  <1>4. ConfiguredIsComplete'
    BY DEF Serve, BootInv, ConfiguredIsComplete
  <1> QED
    BY <1>1, <1>2, <1>3, <1>4 DEF BootInv

LEMMA RequestKeeps ==
    ASSUME BootInv, Request
    PROVE  BootInv'
  <1>0. /\ ram \in [Settings -> Value]
        /\ \A s \in Content : All(s) \in [Settings -> Value]
        /\ <<>> \in Seq(Store)
    BY Values DEF BootInv, BootOK, All
  <1>1. CASE ServePage
    <2>1. KeepsKept(<<>>) /\ MarkAfter(<<>>, eeprom) /\ LeavesMode(<<>>)
      BY DEF KeepsKept, MarkAfter, LeavesMode
    <2> QED
      BY <1>0, <1>1, <2>1, ServeKeeps DEF ServePage
  <1>2. CASE ServeFirmware
    BY <1>2, LoopKeeps
  <1>3. CASE ServeExit
    BY <1>0, <1>3, ExitPlan, UnmarkedPlan, ServeKeeps DEF ServeExit
  <1>4. CASE ServeClean
    BY <1>0, <1>4, CleanPlan, UnmarkedPlan, ServeKeeps DEF ServeClean
  <1>5. ASSUME NEW s \in Content, NEW all \in BOOLEAN, ServeSave(s, all)
        PROVE  BootInv'
    <2>1. /\ SaveStores(s, all) \in Seq(Store) /\ KeepsKept(SaveStores(s, all))
          /\ MarkAfter(SaveStores(s, all), eeprom)
          /\ ~all => LeavesMode(SaveStores(s, all))
      BY <1>0, SavePlan
    <2> QED
      BY <1>0, <1>5, <2>1, ServeKeeps DEF ServeSave
  <1>6. ASSUME NEW all \in BOOLEAN, ServeRestore(all)
        PROVE  BootInv'
    <2>1. /\ RestoreStores(all) \in Seq(Store) /\ KeepsKept(RestoreStores(all))
          /\ MarkAfter(RestoreStores(all), eeprom)
      BY <1>0, RestorePlan, UnmarkedPlan
    <2> QED
      BY <1>0, <1>6, <2>1, Values, ServeKeeps DEF ServeRestore
  <1> QED
    BY <1>1, <1>2, <1>3, <1>4, <1>5, <1>6 DEF Request

(* One store of a request: what is left to do keeps its shape.             *)
LEMMA WorkKeeps ==
    ASSUME BootInv, Work
    PROVE  BootInv'
  <1> DEFINE c == todo[1][1]
             v == todo[1][2]
             r == Tail(todo)
  <1>1. /\ todo \in Seq(Store) /\ todo # <<>> /\ Len(todo) \in Nat \ {0}
        /\ todo' = r /\ eeprom' = [eeprom EXCEPT ![c] = v]
    BY EmptySeq DEF Work, BootInv, BootOK
  <1>2. todo[1] \in Store
    BY <1>1, ElementOfSeq
  <1>3. c \in Cell /\ v \in Value
    BY <1>2 DEF Store
  <1>4. /\ r \in Seq(Store) /\ Len(r) = Len(todo) - 1
        /\ \A i \in 1 .. Len(r) : r[i] = todo[i + 1]
    BY <1>1, HeadTailProperties
  <1>5. \A i \in 1 .. Len(r) : i + 1 \in 1 .. Len(todo)
    BY <1>1, <1>4
  <1>6. 1 \in 1 .. Len(todo)
    BY <1>1
  <1>7. KeepsKept(todo) /\ MarkAfter(todo, eeprom)
    BY DEF BootInv, PlanOK
  <1> HIDE DEF c, v, r
  <1>8. BootOK'
    BY <1>1, <1>3, <1>4 DEF Work, BootInv, BootOK
  <1>9. \A x \in Cell : eeprom'[x] = IF x = c THEN v ELSE eeprom[x]
    BY <1>1, <1>3 DEF BootInv, BootOK
  <1>10. c \in 1 .. Kept => v # Erased
    BY <1>6, <1>7 DEF KeepsKept, c, v
  <1>11. KeepsKept(r)
    BY <1>4, <1>5, <1>7 DEF KeepsKept
  <1>12. MarkAfter(r, eeprom')
    <2> SUFFICES ASSUME NEW i \in 1 .. Len(r), NEW k \in 1 .. Kept, r[i][1] = CONFIGURED,
                        eeprom'[k] = Erased
                 PROVE  \E j \in 1 .. i - 1 : r[j][1] = k
      BY DEF MarkAfter
    <2>1. k # c /\ eeprom[k] = Erased
      BY <1>9, <1>10, Cells
    <2>2. PICK j \in 1 .. (i + 1) - 1 : todo[j][1] = k
      BY <1>4, <1>5, <1>7, <2>1 DEF MarkAfter
    <2>3. j # 1
      BY <2>1, <2>2 DEF c
    <2>4. j - 1 \in 1 .. i - 1 /\ r[j - 1] = todo[j]
      BY <1>1, <1>4, <2>2, <2>3, SMTT(30)
    <2> QED
      BY <2>2, <2>4
  <1>13. main = "work" /\ main' = "work" /\ UNCHANGED <<startMode, closing>>
    BY DEF Work
  <1>14. ~closing => LeavesMode(r) /\ c # STARTMODE
    BY <1>4, <1>5, <1>6, <1>13 DEF BootInv, PlanOK, LeavesMode, c
  <1>15. PlanOK'
    BY <1>1, <1>11, <1>12, <1>13, <1>14 DEF PlanOK, KeepsKept, MarkAfter, LeavesMode
  <1>16. PanelOK'
    BY <1>9, <1>13, <1>14, Cells DEF BootInv, PanelOK, InPanel, Serving
  <1>17. ConfiguredIsComplete'
    <2> SUFFICES ASSUME eeprom'[CONFIGURED] = 1, NEW k \in 1 .. Kept
                 PROVE  eeprom'[k] # Erased
      BY DEF ConfiguredIsComplete
    <2>1. CASE c = CONFIGURED
      BY <1>6, <1>7, <1>9, <2>1, Cells DEF MarkAfter, c
    <2>2. CASE c # CONFIGURED
      BY <1>9, <1>10, <2>2, Cells DEF BootInv, ConfiguredIsComplete
    <2> QED
      BY <2>1, <2>2
  <1> QED
    BY <1>8, <1>15, <1>16, <1>17 DEF BootInv

LEMMA KeyKeeps ==
    ASSUME BootInv, KeyStore \/ KeyAsk
    PROVE  BootInv'
  <1>1. CASE KeyStore
    BY <1>1, ModeStored, Values DEF KeyStore, request, BootInv, PanelOK
  <1>2. CASE KeyAsk
    BY <1>2, Elsewhere DEF KeyAsk, request
  <1> QED
    BY <1>1, <1>2

LEMMA NextBoot == BootInv /\ [Next]_vars => BootInv'
  <1> SUFFICES ASSUME BootInv, [Next]_vars
               PROVE  BootInv'
    OBVIOUS
  <1>1. CASE Boot
    BY <1>1, BootKeeps
  <1>2. CASE NothingToServe \/ Answer \/ Close \/ CheckTimeout \/ Wait
    BY <1>2, LoopKeeps
  <1>3. CASE Work
    BY <1>3, WorkKeeps
  <1>4. CASE Request
    BY <1>4, RequestKeeps
  <1>5. CASE KeyStore \/ KeyAsk
    BY <1>5, KeyKeeps
  <1>6. CASE Reboot \/ TimerReboot \/ PowerCut
    BY <1>6, RestartKeeps DEF Reboot, TimerReboot, PowerCut
  <1>7. CASE UNCHANGED vars
    BY <1>7, Elsewhere DEF vars, request
  <1> QED
    BY <1>1, <1>2, <1>3, <1>4, <1>5, <1>6, <1>7 DEF Next, Main

LEMMA BootInvariant == Spec => []BootInv
  BY InitBoot, NextBoot, PTL DEF Spec

(* Whatever the settings, the timeout and the way the key is held: as long *)
(* as the panel waits for a request, any restart starts the device         *)
(* normally.  (config.h Config__Setup, dvcbutton.h Manual_SwichToConfig)   *)
THEOREM ConfigModeIsLeft == Spec => []PanelIsOneShot
  <1>1. BootInv => PanelIsOneShot
    BY DEF BootInv, PanelOK, Serving, PanelIsOneShot
  <1> QED
    BY <1>1, BootInvariant, PTL

(* However a save is interrupted, a device marked as configured has every  *)
(* setting that MemoClean keeps.  (config.h Config__APISet)                *)
THEOREM ConfiguredHasSettings == Spec => []ConfiguredIsComplete
  <1>1. BootInv => ConfiguredIsComplete
    BY DEF BootInv
  <1> QED
    BY <1>1, BootInvariant, PTL
-----------------------------------------------------------------------------
(***************************************************************************)
(* The settings a request leaves behind, and the clock.                    *)
(***************************************************************************)
(* The stores st give settings only values of V; and they give every       *)
(* setting one.                                                            *)
Only(st, V) == \A i \in 1 .. Len(st) : st[i][1] \in Settings => st[i][2] \in V
Fills(st) == \A k \in Settings : \E j \in 1 .. Len(st) : st[j][1] = k

Whole(e) == \A i \in Settings : e[i] = e[1]

(* A request that sets all settings to s: each has it or gets it yet.      *)
Filling(st, e, s) ==
    /\ Only(st, {s})
    /\ \A k \in Settings : e[k] = s \/ \E j \in 1 .. Len(st) : st[j][1] = k

(* While a request works it leaves the settings alone, or fills them all,  *)
(* or erases some, which is known to leave a mixture.                      *)
WholeInv ==
    /\ mixed \in BOOLEAN
    /\ main # "work" /\ ~mixed => Whole(eeprom)
    /\ main = "work" =>
          \/ Only(todo, {}) /\ (~mixed => Whole(eeprom))
          \/ \E s \in Content : Filling(todo, eeprom, s)
          \/ mixed /\ Only(todo, {Erased})

(* The deadline is Timeout after the last request, on a clock that may     *)
(* have wrapped on either side.                                            *)
Ticking == {"panelStored", "serve", "work", "check", "wait"}
ClockInv ==
    /\ now \in 0 .. Word - 1 /\ deadline \in 0 .. Word - 1
    /\ quiet \in 0 .. Timeout + 1
    /\ main \in Ticking =>
          \/ deadline - now = Timeout - quiet
          \/ deadline - now = Timeout - quiet + Word
          \/ deadline - now = Timeout - quiet - Word
    /\ main = "wait" => quiet <= Timeout

-----------------------------------------------------------------------------
(***************************************************************************)
(* The timeout.                                                            *)
(***************************************************************************)
LEMMA Wraps ==
    ASSUME NEW W \in Nat \ {0}, NEW a \in 0 .. W - 1
    PROVE  a % W = a /\ (a + W) % W = a /\ (a - W) % W = a
  OBVIOUS

LEMMA TimeBounds ==
    /\ Timeout \in Nat \ {0} /\ Word \in Nat \ {0} /\ Timeout + 1 < Word
    /\ Word \div 2 \in Nat /\ Timeout < Word \div 2 /\ Word \div 2 <= Word - 1
  <1>1. Timeout \in Nat \ {0} /\ Word \in Nat /\ Word % 2 = 0 /\ 2 * (Timeout + 1) < Word
    BY TimeAssumption
  <1>2. Word \div 2 \in Nat /\ Word = 2 * (Word \div 2)
    BY <1>1
  <1> QED
    BY <1>1, <1>2

LEMMA DeadlineSet ==
    ASSUME ClockInv, deadline' = (now + Timeout) % Word, quiet' = 0, now' = now,
           main' # "wait"
    PROVE  ClockInv'
  <1>1. CASE now + Timeout <= Word - 1
    <2>1. (now + Timeout) % Word = now + Timeout
      BY <1>1, TimeBounds, Wraps DEF ClockInv
    <2> QED
      BY <1>1, <2>1, TimeBounds DEF ClockInv
  <1>2. CASE now + Timeout > Word - 1
    <2> DEFINE a == now + Timeout - Word
    <2>1. a \in 0 .. Word - 1 /\ now + Timeout = a + Word
      BY <1>2, TimeBounds DEF ClockInv
    <2>2. (now + Timeout) % Word = a
      <3> HIDE DEF a
      <3> QED
        BY <2>1, TimeBounds, Wraps
    <2> QED
      BY <2>1, <2>2, TimeBounds DEF ClockInv
  <1> QED
    BY <1>1, <1>2, TimeBounds DEF ClockInv

LEMMA WaitClock ==
    ASSUME ClockInv, Wait
    PROVE  ClockInv'
  <1>1. /\ main = "wait" /\ main' = "serve" /\ quiet' = quiet + 1 /\ deadline' = deadline
        /\ now' = (now + 1) % Word
    BY DEF Wait
  <1>2. CASE now + 1 <= Word - 1
    <2>1. now' = now + 1
      BY <1>1, <1>2, TimeBounds, Wraps DEF ClockInv
    <2> QED
      BY <1>1, <1>2, <2>1, TimeBounds DEF ClockInv, Ticking
  <1>3. CASE now + 1 > Word - 1
    <2>1. now + 1 = 0 + Word /\ 0 \in 0 .. Word - 1
      BY <1>3, TimeBounds DEF ClockInv
    <2>2. now' = 0 /\ now = Word - 1
      BY <1>1, <2>1, TimeBounds, Wraps DEF ClockInv
    <2> QED
      BY <1>1, <2>2, TimeBounds DEF ClockInv, Ticking
  <1> QED
    BY <1>2, <1>3, TimeBounds DEF ClockInv

LEMMA ExpiredExact ==
    ASSUME ClockInv, main \in Ticking
    PROVE  Expired <=> quiet > Timeout
  <1> DEFINE D == deadline - now
  <1>1. /\ D = Timeout - quiet \/ D = Timeout - quiet + Word \/ D = Timeout - quiet - Word
        /\ quiet \in 0 .. Timeout + 1
        /\ D \in Int /\ -Word < D /\ D < Word
    BY TimeBounds DEF ClockInv
  <1> HIDE DEF D
  <1>2. CASE quiet <= Timeout
    <2> DEFINE a == Timeout - quiet
    <2>1. /\ a \in 0 .. Word - 1 /\ a < Word \div 2
          /\ D = a \/ D = a + Word \/ D = a - Word
      BY <1>1, <1>2, TimeBounds
    <2> HIDE DEF a
    <2>2. D % Word = a
      BY <2>1, TimeBounds, Wraps
    <2> QED
      BY <1>1, <1>2, <2>1, <2>2, TimeBounds DEF Expired, D
  <1>3. CASE quiet > Timeout
    <2> DEFINE a == Word - 1
    <2>1. /\ a \in 0 .. Word - 1 /\ a >= Word \div 2
          /\ D = a \/ D = a - Word
      BY <1>1, <1>3, TimeBounds
    <2> HIDE DEF a
    <2>2. D % Word = a
      BY <2>1, TimeBounds, Wraps
    <2> QED
      BY <1>1, <1>3, <2>1, <2>2, TimeBounds DEF Expired, D
  <1> QED
    BY <1>1, <1>2, <1>3, TimeBounds

LEMMA ClockElsewhere ==
    ASSUME ClockInv, UNCHANGED clock,
           main' \in Ticking => main \in Ticking,
           main' = "wait" => quiet <= Timeout
    PROVE  ClockInv'
  BY DEF ClockInv, clock

LEMMA NextClock == ClockInv /\ [Next]_vars => ClockInv'
  <1> SUFFICES ASSUME ClockInv, [Next]_vars
               PROVE  ClockInv'
    OBVIOUS
  <1>1. CASE PanelStore
    BY <1>1, DeadlineSet DEF PanelStore
  <1>2. CASE Request
    <2>1. deadline' = (now + Timeout) % Word /\ quiet' = 0 /\ now' = now /\ main' # "wait"
      BY <1>2 DEF Request, ServePage, ServeFirmware, ServeExit, ServeClean, ServeSave,
                  ServeRestore, Serve
    <2> QED
      BY <2>1, DeadlineSet
  <1>3. CASE Wait
    BY <1>3, WaitClock
  <1>4. CASE CheckTimeout
    <2>1. UNCHANGED clock /\ main = "check" /\ main' = IF Expired THEN "restart" ELSE "wait"
      BY <1>4 DEF CheckTimeout
    <2>2. main' = "wait" => quiet <= Timeout
      BY <2>1, ExpiredExact, TimeBounds DEF Ticking, ClockInv
    <2> QED
      BY <2>1, <2>2, ClockElsewhere DEF Ticking
  <1>5. CASE Reboot \/ TimerReboot \/ PowerCut
    <2>1. now' = 0 /\ deadline' = 0 /\ quiet' = 0 /\ main' = "begin"
      BY <1>5 DEF Reboot, TimerReboot, PowerCut, Restart
    <2> QED
      BY <2>1, TimeBounds DEF ClockInv, Ticking
  <1>6. CASE \/ BeginFails \/ BeginGivesUp \/ Booted \/ PanelOpen
             \/ NothingToServe \/ Work \/ Answer \/ Close
    <2>1. /\ UNCHANGED clock /\ main' # "wait"
          /\ main' \in Ticking => main \in Ticking
      BY <1>6 DEF BeginFails, BeginGivesUp, Booted, PanelOpen, NothingToServe, Work,
                  Answer, Close, Ticking
    <2> QED
      BY <2>1, ClockElsewhere
  <1>7. CASE KeyStore \/ KeyAsk \/ UNCHANGED vars
    <2>1. UNCHANGED clock /\ main' = main
      BY <1>7 DEF KeyStore, KeyAsk, vars
    <2> QED
      BY <2>1 DEF ClockInv, clock
  <1> QED
    BY <1>1, <1>2, <1>3, <1>4, <1>5, <1>6, <1>7 DEF Next, Main, Boot

LEMMA InitClock == Init => ClockInv
  BY TimeBounds DEF Init, ClockInv, Ticking

(* The sign of a difference of two times that wrap (config.h, the timer of *)
(* Config__Loop) tells exactly whether more than Timeout has passed since  *)
(* the last request, for any timeout and any width of the clock.           *)
THEOREM TimeoutIsExact == Spec => []TimeoutExact
  <1>1. ClockInv => TimeoutExact
    BY ExpiredExact DEF TimeoutExact, Ticking
  <1> QED
    BY <1>1, InitClock, NextClock, PTL DEF Spec

-----------------------------------------------------------------------------
(***************************************************************************)
(* The settings.                                                           *)
(***************************************************************************)
LEMMA OnlyMore ==
    ASSUME NEW st, NEW V, NEW U, V \subseteq U, Only(st, V)
    PROVE  Only(st, U)
  BY DEF Only

LEMMA OnlyConcat ==
    ASSUME NEW x \in Seq(Store), NEW y \in Seq(Store), NEW V
    PROVE  /\ Only(x, V) /\ Only(y, V) => Only(x \o y, V)
           /\ Fills(x) \/ Fills(y) => Fills(x \o y)
  <1> DEFINE z == x \o y
  <1>1. /\ Len(x) \in Nat /\ Len(y) \in Nat /\ Len(z) = Len(x) + Len(y)
        /\ \A i \in 1 .. Len(x) + Len(y) : z[i] = IF i <= Len(x) THEN x[i] ELSE y[i - Len(x)]
    BY ConcatProperties, LenProperties
  <1>2. \A i \in 1 .. Len(x) : i \in 1 .. Len(z) /\ z[i] = x[i]
    BY <1>1
  <1>3. \A i \in 1 .. Len(y) : i + Len(x) \in 1 .. Len(z) /\ z[i + Len(x)] = y[i]
    BY <1>1
  <1>4. \A i \in 1 .. Len(z) :
          \/ i \in 1 .. Len(x)
          \/ i \notin 1 .. Len(x) /\ i - Len(x) \in 1 .. Len(y) /\ z[i] = y[i - Len(x)]
    BY <1>1
  <1> HIDE DEF z
  <1>5. Only(x, V) /\ Only(y, V) => Only(z, V)
    BY <1>2, <1>4 DEF Only
  <1>6. ASSUME Fills(x)
        PROVE  Fills(z)
    BY <1>2, <1>6 DEF Fills
  <1>7. ASSUME Fills(y)
        PROVE  Fills(z)
    <2> SUFFICES ASSUME NEW k \in Settings PROVE \E j \in 1 .. Len(z) : z[j][1] = k
      BY DEF Fills
    <2>1. PICK j \in 1 .. Len(y) : y[j][1] = k
      BY <1>7 DEF Fills
    <2>2. j + Len(x) \in 1 .. Len(z) /\ z[j + Len(x)][1] = k
      BY <2>1, <1>3
    <2> QED
      BY <2>2
  <1> QED
    BY <1>5, <1>6, <1>7 DEF z

(* What the parts of a request's plan do to the settings.                  *)
LEMMA FillPlan ==
    ASSUME NEW s \in Content
    PROVE  Fill(s) \in Seq(Store) /\ Only(Fill(s), {s}) /\ Fills(Fill(s))
  <1>1. Fill(s) \in Seq(Store) /\ Len(Fill(s)) = Last /\ \A i \in 1 .. Last : Fill(s)[i] = <<i, s>>
    BY FillStores
  <1>2. \A i \in 1 .. Last : Fill(s)[i][1] = i /\ Fill(s)[i][2] = s
    BY <1>1
  <1> QED
    BY <1>1, <1>2 DEF Only, Fills, Settings

LEMMA OtherStore ==
    ASSUME NEW c \in Cell \ Settings, NEW v \in Value, NEW V
    PROVE  <<<<c, v>>>> \in Seq(Store) /\ Only(<<<<c, v>>>>, V)
  BY OneStore DEF Only

LEMMA NoStore ==
    ASSUME NEW V
    PROVE  <<>> \in Seq(Store) /\ Only(<<>>, V)
  BY DEF Only

LEMMA KeepOldPlan ==
    ASSUME NEW all \in BOOLEAN, ram \in [Settings -> Value], NEW V
    PROVE  KeepOld(all) \in Seq(Store) /\ Only(KeepOld(all), V)
  <1>1. ram[Last] \in Value /\ OLDMESH \in Cell \ Settings
    BY Cells
  <1>2. CASE all
    BY <1>1, <1>2, OtherStore DEF KeepOld
  <1>3. CASE ~all
    BY <1>3, NoStore DEF KeepOld
  <1> QED
    BY <1>2, <1>3

(* A save and a restore give every setting the same content; a clean       *)
(* erases; leaving the panel touches no setting.                           *)
LEMMA SaveFills ==
    ASSUME NEW s \in Content, NEW all \in BOOLEAN, ram \in [Settings -> Value]
    PROVE  Only(SaveStores(s, all), {s}) /\ Fills(SaveStores(s, all))
  <1> DEFINE A == KeepOld(all)
             B == Fill(s)
             C == <<<<CONFIGURED, 1>>>>
             D == IF all THEN <<<<STARTMODE, ConfigSendall>>>> ELSE <<>>
  <1>1. A \in Seq(Store) /\ Only(A, {s})
    BY KeepOldPlan
  <1>2. B \in Seq(Store) /\ Only(B, {s}) /\ Fills(B)
    BY FillPlan
  <1>3. C \in Seq(Store) /\ Only(C, {s})
    BY OtherStore, Cells, Values
  <1>4. D \in Seq(Store) /\ Only(D, {s})
    BY OtherStore, NoStore, Cells, Values
  <1> HIDE DEF A, B, C, D
  <1>5. A \o B \in Seq(Store) /\ Only(A \o B, {s}) /\ Fills(A \o B)
    BY <1>1, <1>2, OnlyConcat, ConcatProperties
  <1>6. (A \o B) \o C \in Seq(Store) /\ Only((A \o B) \o C, {s}) /\ Fills((A \o B) \o C)
    BY <1>3, <1>5, OnlyConcat, ConcatProperties
  <1>7. SaveStores(s, all) = ((A \o B) \o C) \o D
    BY DEF SaveStores, A, B, C, D
  <1> QED
    BY <1>4, <1>6, <1>7, OnlyConcat

LEMMA RestoreFills ==
    ASSUME NEW all \in BOOLEAN, ram \in [Settings -> Value]
    PROVE  Only(RestoreStores(all), {Default}) /\ Fills(RestoreStores(all))
  <1> DEFINE A == KeepOld(all)
             B == Fill(Default)
             v == IF all THEN ConfigSendall ELSE Normal
             C == <<<<STARTMODE, v>>>>
  <1>1. A \in Seq(Store) /\ Only(A, {Default})
    BY KeepOldPlan
  <1>2. B \in Seq(Store) /\ Only(B, {Default}) /\ Fills(B)
    BY FillPlan, Values
  <1>3. C \in Seq(Store) /\ Only(C, {Default})
    <2>1. v \in Value
      BY Values
    <2> HIDE DEF v
    <2> QED
      BY <2>1, OtherStore, Cells
  <1>4. RestoreStores(all) = (A \o B) \o C
    BY DEF RestoreStores
  <1> HIDE DEF A, B, C
  <1>5. A \o B \in Seq(Store) /\ Only(A \o B, {Default}) /\ Fills(A \o B)
    BY <1>1, <1>2, OnlyConcat, ConcatProperties
  <1> QED
    BY <1>3, <1>4, <1>5, OnlyConcat

LEMMA CleanErases == Only(CleanStores, {Erased})
  <1>1. Wiped + 1 \in Nat
    BY SettingsAssumption
  <1>2. \A i \in 1 .. Wiped + 1 : CleanStores[i] = <<Kept + i, Erased>>
    BY DEF CleanStores
  <1>3. Len(CleanStores) = Wiped + 1
    BY <1>1 DEF CleanStores
  <1> QED
    BY <1>2, <1>3 DEF Only

LEMMA ExitTouchesNone == Only(ExitStores, {})
  BY OtherStore, Cells, Values DEF ExitStores

-----------------------------------------------------------------------------
(* The types of what the settings hold.                                    *)
Contents ==
    /\ \A k \in Settings : eeprom[k] \in Content \cup {Erased}
    /\ Only(todo, Content \cup {Erased})
    /\ ram \in [Settings -> Content]

PanelInv == WholeInv /\ Contents

(* Steps that store no setting and neither begin nor end a request.        *)
LEMMA SettingsElsewhere ==
    ASSUME PanelInv, \A k \in Settings : eeprom'[k] = eeprom[k],
           UNCHANGED <<todo, mixed>>, main' = "work" <=> main = "work",
           ram' \in [Settings -> Content]
    PROVE  PanelInv'
  <1>1. WholeInv'
    <2>1. 1 \in Settings
      BY Cells DEF Circuit
    <2>2. Whole(eeprom) => Whole(eeprom')
      BY <2>1 DEF Whole
    <2>3. \A s \in Content : Filling(todo, eeprom, s) => Filling(todo, eeprom', s)
      BY DEF Filling
    <2> QED
      BY <2>2, <2>3 DEF PanelInv, WholeInv
  <1>2. Contents'
    BY DEF PanelInv, Contents
  <1> QED
    BY <1>1, <1>2 DEF PanelInv

(* A request that has nothing left to store leaves whole settings, or what *)
(* is known to be a mixture.                                               *)
LEMMA DoneIsWhole ==
    ASSUME PanelInv, main = "work", todo = <<>>, ~mixed
    PROVE  Whole(eeprom)
  <1>1. 1 \in Settings
    BY Cells DEF Circuit
  <1>2. \/ Whole(eeprom)
        \/ \E s \in Content : Filling(todo, eeprom, s)
    BY DEF PanelInv, WholeInv
  <1>3. ASSUME NEW s \in Content, Filling(todo, eeprom, s)
        PROVE  Whole(eeprom)
    <2>1. \A k \in Settings : eeprom[k] = s
      BY <1>3 DEF Filling
    <2> QED
      BY <1>1, <2>1 DEF Whole
  <1> QED
    BY <1>2, <1>3

LEMMA ServePanel ==
    ASSUME PanelInv, NEW st, NEW s \in [Settings -> Content], NEW restarts,
           NEW whole \in BOOLEAN, Serve(st, s, restarts, whole),
           \/ Only(st, {}) /\ whole
           \/ \E v \in Content : Only(st, {v}) /\ Fills(st)
           \/ Only(st, {Erased}) /\ ~whole
    PROVE  PanelInv'
  <1>1. /\ main = "serve" /\ main' = "work" /\ todo' = st /\ ram' = s
        /\ eeprom' = eeprom /\ mixed' = (mixed \/ ~whole)
    BY DEF Serve
  <1>2. mixed \in BOOLEAN /\ (~mixed => Whole(eeprom))
    BY <1>1 DEF PanelInv, WholeInv
  <1>3. CASE Only(st, {}) /\ whole
    <2>1. Only(st, Content \cup {Erased})
      BY <1>3 DEF Only
    <2> QED
      BY <1>1, <1>2, <1>3, <2>1 DEF PanelInv, WholeInv, Contents
  <1>4. ASSUME NEW v \in Content, Only(st, {v}), Fills(st)
        PROVE  PanelInv'
    <2>1. Filling(st, eeprom, v)
      BY <1>4 DEF Filling, Fills
    <2>2. Only(st, Content \cup {Erased})
      BY <1>4 DEF Only
    <2> QED
      BY <1>1, <1>2, <2>1, <2>2 DEF PanelInv, WholeInv, Contents
  <1>5. CASE Only(st, {Erased}) /\ ~whole
    <2>1. Only(st, Content \cup {Erased})
      BY <1>5 DEF Only
    <2> QED
      BY <1>1, <1>2, <1>5, <2>1 DEF PanelInv, WholeInv, Contents
  <1> QED
    BY <1>3, <1>4, <1>5

LEMMA RequestPanel ==
    ASSUME BootInv, PanelInv, Request
    PROVE  PanelInv'
  <1>0. /\ ram \in [Settings -> Value] /\ ram \in [Settings -> Content]
        /\ \A s \in Content : All(s) \in [Settings -> Content]
    BY DEF BootInv, BootOK, PanelInv, Contents, All
  <1>1. CASE ServePage
    BY <1>0, <1>1, NoStore, ServePanel DEF ServePage
  <1>2. CASE ServeFirmware
    <2>1. /\ UNCHANGED <<eeprom, ram, todo, mixed>> /\ main' # "work" /\ main # "work"
      BY <1>2 DEF ServeFirmware, request
    <2> QED
      BY <1>0, <2>1, SettingsElsewhere
  <1>3. CASE ServeExit
    BY <1>0, <1>3, ExitTouchesNone, ServePanel DEF ServeExit
  <1>4. CASE ServeClean
    BY <1>0, <1>4, CleanErases, ServePanel DEF ServeClean
  <1>5. ASSUME NEW s \in Content, NEW all \in BOOLEAN, ServeSave(s, all)
        PROVE  PanelInv'
    <2>1. Only(SaveStores(s, all), {s}) /\ Fills(SaveStores(s, all))
      BY <1>0, SaveFills
    <2> QED
      BY <1>0, <1>5, <2>1, ServePanel DEF ServeSave
  <1>6. ASSUME NEW all \in BOOLEAN, ServeRestore(all)
        PROVE  PanelInv'
    <2>1. Only(RestoreStores(all), {Default}) /\ Fills(RestoreStores(all))
      BY <1>0, RestoreFills
    <2> QED
      BY <1>0, <1>6, <2>1, Values, ServePanel DEF ServeRestore
  <1> QED
    BY <1>1, <1>2, <1>3, <1>4, <1>5, <1>6 DEF Request

(* One store of a request: a setting that is filled stays to be filled, or *)
(* is filled now.                                                          *)
LEMMA WorkPanel ==
    ASSUME BootInv, PanelInv, Work
    PROVE  PanelInv'
  <1> DEFINE c == todo[1][1]
             v == todo[1][2]
             r == Tail(todo)
  <1>1. /\ todo \in Seq(Store) /\ todo # <<>> /\ Len(todo) \in Nat \ {0}
        /\ todo' = r /\ eeprom' = [eeprom EXCEPT ![c] = v]
        /\ mixed' = (mixed /\ ~(c = Last /\ v # Erased))
        /\ main = "work" /\ main' = "work" /\ ram' = ram
    BY EmptySeq DEF Work, BootInv, BootOK
  <1>2. /\ r \in Seq(Store) /\ Len(r) = Len(todo) - 1
        /\ \A i \in 1 .. Len(r) : r[i] = todo[i + 1]
    BY <1>1, HeadTailProperties
  <1>3. 1 \in 1 .. Len(todo) /\ \A i \in 1 .. Len(r) : i + 1 \in 1 .. Len(todo)
    BY <1>1, <1>2
  <1> HIDE DEF c, v, r
  <1>4. \A V : Only(todo, V) => Only(r, V) /\ (c \in Settings => v \in V)
    BY <1>2, <1>3 DEF Only, c, v
  <1>5. \A x \in Settings : eeprom'[x] = IF x = c THEN v ELSE eeprom[x]
    BY <1>1, Cells DEF BootInv, BootOK
  <1>6. Contents'
    BY <1>1, <1>4, <1>5 DEF PanelInv, Contents
  <1>7. mixed \in BOOLEAN /\ mixed' \in BOOLEAN
    BY <1>1 DEF PanelInv, WholeInv
  <1>8. CASE Only(todo, {}) /\ (~mixed => Whole(eeprom))
    <2>1. Only(r, {}) /\ c \notin Settings
      BY <1>4, <1>8
    <2>2. \A x \in Settings : eeprom'[x] = eeprom[x]
      BY <1>5, <2>1
    <2>3. mixed' = mixed
      BY <1>1, <1>7, <2>1, Cells
    <2>4. Whole(eeprom) => Whole(eeprom')
      BY <2>2, Cells DEF Whole, Circuit
    <2> QED
      BY <1>1, <1>6, <1>7, <1>8, <2>1, <2>3, <2>4 DEF PanelInv, WholeInv
  <1>9. ASSUME NEW s \in Content, Filling(todo, eeprom, s)
        PROVE  PanelInv'
    <2>1. Only(r, {s}) /\ (c \in Settings => v = s)
      BY <1>4, <1>9 DEF Filling
    <2>2. ASSUME NEW k \in Settings, eeprom'[k] # s
          PROVE  \E j \in 1 .. Len(r) : r[j][1] = k
      <3>1. k # c /\ eeprom[k] # s
        BY <1>5, <2>1, <2>2
      <3>2. PICK j \in 1 .. Len(todo) : todo[j][1] = k
        BY <1>9, <3>1 DEF Filling
      <3>3. j # 1
        BY <3>1, <3>2 DEF c
      <3>4. j - 1 \in 1 .. Len(r) /\ r[j - 1] = todo[j]
        BY <1>1, <1>2, <3>2, <3>3
      <3> QED
        BY <3>2, <3>4
    <2>3. Filling(r, eeprom', s)
      BY <2>1, <2>2 DEF Filling
    <2> QED
      BY <1>1, <1>6, <1>7, <2>3 DEF PanelInv, WholeInv
  <1>10. CASE mixed /\ Only(todo, {Erased})
    <2>1. Only(r, {Erased}) /\ (c \in Settings => v = Erased)
      BY <1>4, <1>10
    <2>2. mixed'
      BY <1>1, <1>10, <2>1, Cells
    <2> QED
      BY <1>1, <1>6, <1>7, <2>1, <2>2 DEF PanelInv, WholeInv
  <1> QED
    BY <1>1, <1>8, <1>9, <1>10 DEF PanelInv, WholeInv

(* A restart that cuts a request off leaves a mixture, and is recorded.    *)
LEMMA RestartPanel ==
    ASSUME PanelInv, Restart
    PROVE  PanelInv'
  <1>1. /\ main' = "begin" /\ eeprom' = eeprom /\ todo' = <<>> /\ ram' = All(Default)
        /\ mixed' = (mixed \/ (main = "work" /\ todo # <<>>))
    BY DEF Restart
  <1>2. ~mixed' => Whole(eeprom)
    BY <1>1, DoneIsWhole DEF PanelInv, WholeInv
  <1>3. mixed' \in BOOLEAN
    BY <1>1
  <1>4. WholeInv'
    BY <1>1, <1>2, <1>3 DEF WholeInv
  <1>5. Contents'
    BY <1>1, NoStore, Values DEF PanelInv, Contents, All
  <1> QED
    BY <1>4, <1>5 DEF PanelInv

LEMMA BootPanel ==
    ASSUME PanelInv, BootInv, Boot
    PROVE  PanelInv'
  <1>0. ram \in [Settings -> Content]
    BY DEF PanelInv, Contents
  <1>1. CASE BeginFails \/ BeginGivesUp \/ PanelOpen
    <2>1. /\ UNCHANGED <<eeprom, ram, todo, mixed>> /\ main' # "work" /\ main # "work"
      BY <1>1 DEF BeginFails, BeginGivesUp, PanelOpen, request
    <2> QED
      BY <1>0, <2>1, SettingsElsewhere
  <1>2. CASE Booted
    <2>1. /\ UNCHANGED <<eeprom, todo, mixed>> /\ main' # "work" /\ main # "work"
          /\ ram' = [i \in Settings |-> Read(i)]
      BY <1>2 DEF Booted, request
    <2>2. \A i \in Settings : Read(i) \in Content
      BY Values DEF PanelInv, Contents, Read
    <2>3. ram' \in [Settings -> Content]
      BY <2>1, <2>2
    <2> QED
      BY <2>1, <2>3, SettingsElsewhere
  <1>3. CASE PanelStore
    <2>1. /\ UNCHANGED <<ram, todo, mixed>> /\ main' # "work" /\ main # "work"
          /\ eeprom' = [eeprom EXCEPT ![STARTMODE] = Normal]
      BY <1>3 DEF PanelStore, request
    <2>2. \A k \in Settings : eeprom'[k] = eeprom[k]
      BY <2>1, Cells DEF BootInv, BootOK
    <2> QED
      BY <1>0, <2>1, <2>2, SettingsElsewhere
  <1> QED
    BY <1>1, <1>2, <1>3 DEF Boot

LEMMA NextPanel == BootInv /\ PanelInv /\ [Next]_vars => PanelInv'
  <1> SUFFICES ASSUME BootInv, PanelInv, [Next]_vars
               PROVE  PanelInv'
    OBVIOUS
  <1>0. ram \in [Settings -> Content]
    BY DEF PanelInv, Contents
  <1>1. CASE Boot
    BY <1>1, BootPanel
  <1>2. CASE NothingToServe \/ Close \/ CheckTimeout \/ Wait
    <2>1. /\ UNCHANGED <<eeprom, ram, todo, mixed>> /\ main' # "work" /\ main # "work"
      BY <1>2 DEF NothingToServe, Close, CheckTimeout, Wait, request
    <2> QED
      BY <1>0, <2>1, SettingsElsewhere
  <1>3. CASE Answer
    <2>1. /\ main = "work" /\ main' # "work" /\ todo = <<>>
          /\ UNCHANGED <<eeprom, ram, todo, mixed>>
      BY <1>3 DEF Answer, request
    <2>2. WholeInv'
      BY <2>1, DoneIsWhole DEF PanelInv, WholeInv
    <2>3. Contents'
      BY <2>1 DEF PanelInv, Contents
    <2> QED
      BY <2>2, <2>3 DEF PanelInv
  <1>4. CASE Work
    BY <1>4, WorkPanel
  <1>5. CASE Request
    BY <1>5, RequestPanel
  <1>6. CASE KeyStore
    <2> DEFINE m == IF startMode = ConfigPanel THEN Normal ELSE ConfigPanel
    <2>1. UNCHANGED <<ram, todo, mixed, main>> /\ eeprom' = [eeprom EXCEPT ![STARTMODE] = m]
      BY <1>6 DEF KeyStore, request
    <2> HIDE DEF m
    <2>2. \A k \in Settings : eeprom'[k] = eeprom[k]
      BY <2>1, Cells DEF BootInv, BootOK
    <2> QED
      BY <1>0, <2>1, <2>2, SettingsElsewhere
  <1>7. CASE KeyAsk \/ UNCHANGED vars
    <2>1. UNCHANGED <<eeprom, ram, todo, mixed, main>>
      BY <1>7 DEF KeyAsk, vars, request
    <2> QED
      BY <1>0, <2>1, SettingsElsewhere
  <1>8. CASE Reboot \/ TimerReboot \/ PowerCut
    BY <1>8, RestartPanel DEF Reboot, TimerReboot, PowerCut
  <1> QED
    BY <1>1, <1>2, <1>3, <1>4, <1>5, <1>6, <1>7, <1>8 DEF Next, Main

LEMMA InitPanel == Init => PanelInv
  <1> SUFFICES ASSUME Init PROVE PanelInv
    OBVIOUS
  <1>1. \A k \in Settings : eeprom[k] = Erased
    BY Cells DEF Init
  <1>2. Whole(eeprom)
    BY <1>1, Cells DEF Whole, Circuit
  <1>3. WholeInv
    BY <1>2 DEF Init, WholeInv
  <1>4. Contents
    BY <1>1, NoStore, Values DEF Init, Contents, All
  <1> QED
    BY <1>3, <1>4 DEF PanelInv

LEMMA PanelInvariant == Spec => []PanelInv
  BY InitBoot, NextBoot, InitPanel, NextPanel, PTL DEF Spec

(* However many settings there are, and however saves, restores, restarts  *)
(* and the key interleave: unless a restart cut a request off or the       *)
(* memory was cleaned, the stored settings are those of one request.       *)
(* (config.h Config__APISet, common.h Tools__SettingSave)                  *)
THEOREM SettingsAreWhole == Spec => []SettingsWhole
  <1>1. PanelInv => SettingsWhole
    BY DEF PanelInv, WholeInv, Whole, SettingsWhole
  <1> QED
    BY <1>1, PanelInvariant, PTL

-----------------------------------------------------------------------------
(***************************************************************************)
(* Types: with the invariants above, those of the control state.           *)
(***************************************************************************)
ControlOK ==
    /\ startMode \in {Normal, ConfigSendall, ConfigPanel}
    /\ taskloop \in BOOLEAN /\ panelOpen \in BOOLEAN /\ rebootDue \in BOOLEAN
    /\ main \in InPanel \cup {"begin", "loop", "restart"}
    /\ key \in {"off", "idle", "stored"}
    /\ tries \in 0 .. BeginTries /\ left \in 0 .. Requests

LEMMA RequestControl ==
    ASSUME ControlOK, BootInv, Request
    PROVE  ControlOK'
  <1>1. left > 0 /\ left' = left - 1 /\ main' \in {"work", "restart"}
    BY DEF Request, ServePage, ServeFirmware, ServeExit, ServeClean, ServeSave,
           ServeRestore, Serve
  <1>2. UNCHANGED <<startMode, taskloop, panelOpen, rebootDue, key, tries>>
    BY DEF Request, ServePage, ServeFirmware, ServeExit, ServeClean, ServeSave,
           ServeRestore, Serve
  <1> QED
    BY <1>1, <1>2, BoundAssumption DEF ControlOK, InPanel

LEMMA NextControl == ControlOK /\ BootInv /\ [Next]_vars => ControlOK'
  <1> SUFFICES ASSUME ControlOK, BootInv, [Next]_vars
               PROVE  ControlOK'
    OBVIOUS
  <1>1. CASE BeginFails \/ BeginGivesUp
    BY <1>1, BoundAssumption DEF BeginFails, BeginGivesUp, ControlOK
  <1>2. CASE Booted
    <2>1. NeedTaskloop \in BOOLEAN
      BY DEF NeedTaskloop
    <2>2. ModeRead \in {Normal, ConfigSendall, ConfigPanel}
      BY DEF ModeRead
    <2>3. 0 \in 0 .. BeginTries
      BY BoundAssumption
    <2> QED
      BY <1>2, <2>1, <2>2, <2>3 DEF Booted, ControlOK, InPanel
  <1>3. CASE PanelStore \/ PanelOpen
    BY <1>3 DEF PanelStore, PanelOpen, ControlOK, InPanel
  <1>4. CASE NothingToServe \/ Close \/ CheckTimeout \/ Wait \/ Work
    BY <1>4 DEF NothingToServe, Close, CheckTimeout, Wait, Work, ControlOK, InPanel
  <1>5. CASE Answer
    BY <1>5 DEF Answer, ControlOK, InPanel, BootInv, BootOK
  <1>6. CASE Request
    BY <1>6, RequestControl
  <1>7. CASE KeyStore \/ KeyAsk
    BY <1>7 DEF KeyStore, KeyAsk, ControlOK
  <1>8. CASE Reboot \/ TimerReboot \/ PowerCut
    <2>1. 0 \in 0 .. BeginTries
      BY BoundAssumption
    <2> QED
      BY <1>8, <2>1 DEF Reboot, TimerReboot, PowerCut, Restart, ControlOK
  <1>9. CASE UNCHANGED vars
    BY <1>9 DEF vars, ControlOK
  <1> QED
    BY <1>1, <1>2, <1>3, <1>4, <1>5, <1>6, <1>7, <1>8, <1>9 DEF Next, Main, Boot

LEMMA InitControl == Init => ControlOK
  <1>1. 0 \in 0 .. BeginTries /\ Requests \in 0 .. Requests
    BY BoundAssumption
  <1> QED
    BY <1>1 DEF Init, ControlOK

(* Every variable of the panel, the boot and the key keeps its type: the   *)
(* cells hold only what the settings, the modes and the mark can be, and   *)
(* the counts and the clock stay in their bounds.  (config.h, setup())     *)
THEOREM BootTyped == Spec => []TypeOK
  <1>1. BootInv /\ PanelInv /\ ClockInv /\ ControlOK => TypeOK
    BY DEF BootInv, BootOK, PanelInv, WholeInv, Contents, ClockInv, ControlOK, Store,
           TypeOK
  <1>2. Spec => []ControlOK
    BY InitControl, NextControl, InitBoot, NextBoot, PTL DEF Spec
  <1>3. Spec => []ClockInv
    BY InitClock, NextClock, PTL DEF Spec
  <1> QED
    BY <1>1, <1>2, <1>3, BootInvariant, PanelInvariant, PTL
=============================================================================
