--------------------------- MODULE PlugMeshProofs ---------------------------
(***************************************************************************)
(* A node of the mesh, for any messages, any number of anonymous tasks and *)
(* any intervals.                                                          *)
(*                                                                         *)
(* Passes of the scheduler nest because a callback may make one.  NestInv  *)
(* says which callbacks can be in progress, and ties the pass              *)
(* Mesh__StopToReconnect makes to MeshCon_Trying and to the task that      *)
(* reconnects.  On it rests SlotInv, what becomes of a message: where each *)
(* half of it is, at every step of Mesh__Send and of Mesh__SendByTask.     *)
(*                                                                         *)
(* ChainInv is about the chain: the four tasks of the setup lead it for as *)
(* long as the node runs, whatever is added and deleted behind them.  With *)
(* it StaleInv: the check is never overtaken by time.  And OrderInv, what  *)
(* a pass cannot have before it once a restart or a reconnect is asked     *)
(* for, which bounds the misses of the check in CountInv: a check that     *)
(* missed twice leaves one of the two behind, and it comes before the next *)
(* check.                                                                  *)
(***************************************************************************)
EXTENDS PlugMesh, SequenceTheorems, WellFoundedInduction, TLAPS

Record == [on : BOOLEAN, age : Int, wait : Nat, left : -1 .. 1]

(* The two tasks that are enabled by more than one thread never run out of *)
(* iterations: only their callbacks disable them.                          *)
Table(tab) ==
    /\ tab \in [Tasks -> Record]
    /\ tab["connect"].left = -1 /\ tab["send"].left = -1

Typed ==
    /\ Table(task)
    /\ notes \in Seq(Notes)
    /\ active \in Seq(Tasks)
    /\ passes \in Seq(ToSet(passes))
    /\ pc \in {"setup", "idle", "pass", "off"}
    /\ step \in {"none", "type", "clear", "done"}
    /\ trying \in BOOLEAN

(* At most a callback that reconnects, with Mesh__SendByTask inside it.    *)
Depth ==
    /\ Len(passes) \in {Len(active), Len(active) + 1}
    /\ Len(active) <= 2
    /\ Len(active) = 2 => active[1] # "send" /\ active[2] = "send"
    /\ step # "none" <=> Len(active) # 0 /\ active[Len(active)] = "send"
    /\ step # "none" => Len(passes) = Len(active)
    /\ pc # "pass" => Len(passes) = 0 /\ Len(active) = 0

Outer == Len(active) # 0 /\ active[1] # "send"

(* MeshCon_Trying is set exactly while a reconnect is in progress or       *)
(* asked for, and it is not asked for before the call is left.             *)
Attempt ==
    /\ task["connect"].on => trying /\ ~ Outer
    /\ Outer => trying
    /\ trying => Outer \/ task["connect"].on

NestInv == Typed /\ Depth /\ Attempt

(* While nothing races, a message is whole in the slot, or in the hands of *)
(* Mesh__SendByTask, or on its way into the slot.                          *)
InSlot == task["send"].on /\ slot = last /\ type
InHand ==
    /\ taken[1] = last
    /\ step = "type" => type
    /\ step # "type" => taken[2]

SlotInv ==
    /\ type \in BOOLEAN /\ taken[2] \in BOOLEAN
    /\ taken = <<taken[1], taken[2]>>
    /\ step # "none" /\ ~ raced => key = "idle"
    /\ last # Empty /\ key = "idle" /\ ~ raced /\ step = "none" => InSlot
    /\ last # Empty /\ key = "idle" /\ ~ raced /\ step # "none" => InHand
    /\ key \in {"type", "enable", "force"} /\ ~ raced => slot = given
    /\ key \in {"enable", "force"} /\ ~ raced => type
    /\ key = "force" /\ ~ raced => task["send"].on

-----------------------------------------------------------------------------
(* Sequences: what is pushed and popped, of any elements.                  *)
LEMMA Pushed ==
    ASSUME NEW S, NEW s \in Seq(S), NEW e \in S
    PROVE  /\ Append(s, e) \in Seq(S) /\ Len(s) \in Nat
           /\ Len(Append(s, e)) = Len(s) + 1
           /\ \A i \in 1 .. Len(s) : Append(s, e)[i] = s[i]
           /\ Append(s, e)[Len(s) + 1] = e
  BY AppendProperties, LenProperties

LEMMA Popped ==
    ASSUME NEW S, NEW s \in Seq(S), Len(s) # 0
    PROVE  /\ Front(s) \in Seq(S) /\ Len(s) \in Nat
           /\ Len(Front(s)) = Len(s) - 1
           /\ \A i \in 1 .. Len(s) - 1 : Front(s)[i] = s[i]
  <1>1. Len(s) \in Nat /\ \A i \in 1 .. Len(s) - 1 : s[i] \in S
    BY LenProperties, ElementOfSeq
  <1>2. /\ SubSeq(s, 1, Len(s) - 1) \in Seq(S)
        /\ Len(SubSeq(s, 1, Len(s) - 1)) = Len(s) - 1
        /\ \A i \in 1 .. Len(s) - 1 : SubSeq(s, 1, Len(s) - 1)[i] = s[i]
    <2>1. 1 \in Int /\ Len(s) - 1 \in Int
      BY <1>1
    <2>2. /\ SubSeq(s, 1, Len(s) - 1) \in Seq(S)
          /\ Len(SubSeq(s, 1, Len(s) - 1))
                = IF 1 <= Len(s) - 1 THEN Len(s) - 1 - 1 + 1 ELSE 0
          /\ \A i \in 1 .. Len(s) - 1 - 1 + 1 : SubSeq(s, 1, Len(s) - 1)[i] = s[1 + i - 1]
      BY <1>1, <2>1, SubSeqProperties
    <2>3. Len(s) - 1 - 1 + 1 = Len(s) - 1
      BY <1>1
    <2>4. \A i \in 1 .. Len(s) - 1 : 1 + i - 1 = i
      BY <1>1
    <2> QED
      BY <1>1, <2>2, <2>3, <2>4
  <1> QED
    BY <1>1, <1>2 DEF Front

LEMMA OfItsElements ==
    ASSUME NEW S, NEW s \in Seq(S)
    PROVE  s \in Seq(ToSet(s))
  <1>1. /\ Len(s) \in Nat /\ s \in [1 .. Len(s) -> S] /\ DOMAIN s = 1 .. Len(s)
    BY LenProperties
  <1>2. s \in [1 .. Len(s) -> ToSet(s)]
    BY <1>1 DEF ToSet
  <1> QED
    BY <1>1, <1>2, SeqDef

LEMMA PassPushed ==
    ASSUME NEW s, s \in Seq(ToSet(s)), NEW e
    PROVE  /\ Append(s, e) \in Seq(ToSet(Append(s, e)))
           /\ Len(s) \in Nat /\ Len(Append(s, e)) = Len(s) + 1
  <1> DEFINE T == ToSet(s) \cup {e}
  <1>1. s \in Seq(T) /\ e \in T
    BY SeqMonotonic
  <1> HIDE DEF T
  <1>2. Append(s, e) \in Seq(T) /\ Len(s) \in Nat /\ Len(Append(s, e)) = Len(s) + 1
    BY <1>1, Pushed
  <1> QED
    BY <1>2, OfItsElements

LEMMA PassPopped ==
    ASSUME NEW s, s \in Seq(ToSet(s)), Len(s) # 0
    PROVE  /\ Front(s) \in Seq(ToSet(Front(s)))
           /\ Len(s) \in Nat /\ Len(Front(s)) = Len(s) - 1
  BY Popped, OfItsElements

LEMMA PassMoved ==
    ASSUME NEW s, s \in Seq(ToSet(s)), Len(s) # 0, NEW e
    PROVE  /\ [s EXCEPT ![Len(s)] = e] \in Seq(ToSet([s EXCEPT ![Len(s)] = e]))
           /\ Len(s) \in Nat /\ Len([s EXCEPT ![Len(s)] = e]) = Len(s)
  <1>1. s \in Seq(ToSet(s) \cup {e})
    BY SeqMonotonic
  <1>2. Len(s) \in 1 .. Len(s) /\ Len(s) \in Nat
    BY LenProperties
  <1> DEFINE T == ToSet(s) \cup {e}
             u == [s EXCEPT ![Len(s)] = e]
  <1>3. s \in Seq(T) /\ e \in T
    BY <1>1
  <1> HIDE DEF T
  <1>4. u \in Seq(T) /\ Len(u) = Len(s)
    BY <1>2, <1>3, ExceptSeq
  <1> QED
    BY <1>2, <1>4, OfItsElements

-----------------------------------------------------------------------------
(* The records of the tasks.                                               *)
LEMMA RecordTimed ==
    ASSUME NEW r \in Record, NEW a \in Int, NEW w \in Nat
    PROVE  LET s == [r EXCEPT !.age = a, !.wait = w]
           IN  s \in Record /\ s.on = r.on /\ s.left = r.left
  <1> DEFINE s == [r EXCEPT !.age = a, !.wait = w]
             aged == [r EXCEPT !.age = a]
  <1>1. aged \in Record
    BY DEF Record
  <1>2. [aged EXCEPT !.wait = w] \in Record
    BY <1>1 DEF Record
  <1>3. s.on = r.on /\ s.left = r.left
    BY DEF Record
  <1> QED
    BY <1>2, <1>3

LEMMA RecordFlagged ==
    ASSUME NEW r \in Record, NEW b \in BOOLEAN
    PROVE  LET s == [r EXCEPT !.on = b]
           IN  s \in Record /\ s.on = b /\ s.left = r.left
  BY DEF Record

LEMMA RecordRan ==
    ASSUME NEW r \in Record, NEW w \in Nat
    PROVE  LET s == [r EXCEPT !.age = @ - r.wait, !.wait = w,
                              !.left = IF @ > 0 THEN @ - 1 ELSE @]
           IN  s \in Record /\ s.on = r.on /\ (r.left = -1 => s.left = -1)
  <1> DEFINE s == [r EXCEPT !.age = @ - r.wait, !.wait = w,
                            !.left = IF @ > 0 THEN @ - 1 ELSE @]
             timed == [r EXCEPT !.age = @ - r.wait, !.wait = w]
             l == IF r.left > 0 THEN r.left - 1 ELSE r.left
  <1>1. r.age - r.wait \in Int /\ l \in -1 .. 1 /\ (r.left = -1 => l = -1)
    BY DEF Record
  <1>2. timed \in Record
    BY <1>1, RecordTimed
  <1>3. [timed EXCEPT !.left = l] \in Record
    BY <1>1, <1>2 DEF Record
  <1>4. s.on = r.on /\ s.left = l
    BY DEF Record
  <1> QED
    BY <1>1, <1>3, <1>4

LEMMA ForcedRecord ==
    ASSUME NEW t \in Tasks, NEW r \in Record
    PROVE  /\ Forced(t, r) \in Record /\ Forced(t, r).on = r.on
           /\ Forced(t, r).left = r.left
  <1>1. Interval[t] \in Int /\ Interval[t] \in Nat
    BY TasksAssumption
  <1>2. LET s == [r EXCEPT !.age = Interval[t], !.wait = Interval[t]]
        IN  s \in Record /\ s.on = r.on /\ s.left = r.left
    BY <1>1, RecordTimed, Zenon
  <1> QED
    BY <1>2 DEF Forced

LEMMA RecordOf ==
    ASSUME NEW t \in Tasks, NEW r \in Record
    PROVE  /\ Fresh(t) \in Record /\ ~ Fresh(t).on /\ Fresh(t).left = Times[t]
           /\ Forced(t, r) \in Record /\ Forced(t, r).on = r.on
           /\ Forced(t, r).left = r.left
           /\ Enabled(t, r) \in Record /\ Enabled(t, r).on
           /\ Enabled(t, r).left = r.left
           /\ EnabledIfNot(t, r) \in Record /\ EnabledIfNot(t, r).on
           /\ EnabledIfNot(t, r).left = r.left
           /\ Disabled(r) \in Record /\ ~ Disabled(r).on /\ Disabled(r).left = r.left
           /\ Armed(t) \in Record
           /\ Ran(t, r) \in Record /\ Ran(t, r).on = r.on
           /\ r.left = -1 => Ran(t, r).left = -1
  <1>1. Interval[t] \in Nat /\ Times[t] \in {-1, 1}
    BY TasksAssumption
  <1>2. Fresh(t) \in Record /\ ~ Fresh(t).on /\ Fresh(t).left = Times[t]
    BY <1>1 DEF Fresh, Record
  <1>3. \A x \in Record : /\ Forced(t, x) \in Record /\ Forced(t, x).on = x.on
                          /\ Forced(t, x).left = x.left
    BY ForcedRecord
  <1>4. \A x \in Record : /\ Enabled(t, x) \in Record /\ Enabled(t, x).on
                          /\ Enabled(t, x).left = x.left
    BY <1>3, RecordFlagged DEF Enabled
  <1>5. /\ EnabledIfNot(t, r) \in Record /\ EnabledIfNot(t, r).on
        /\ EnabledIfNot(t, r).left = r.left
    BY <1>4 DEF EnabledIfNot
  <1>6. Disabled(r) \in Record /\ ~ Disabled(r).on /\ Disabled(r).left = r.left
    <2> DEFINE q == [r EXCEPT !.on = FALSE]
    <2>1. q \in Record /\ ~ q.on /\ q.left = r.left
      BY RecordFlagged
    <2>2. 0 \in Int /\ 0 \in Nat
      OBVIOUS
    <2>3. LET s == [q EXCEPT !.age = 0, !.wait = 0]
          IN  s \in Record /\ s.on = q.on /\ s.left = q.left
      <3> HIDE DEF q
      <3> QED
        BY <2>1, <2>2, RecordTimed, Zenon
    <2> QED
      BY <2>1, <2>3 DEF Disabled
  <1>7. Armed(t) \in Record
    BY <1>2, <1>4 DEF Armed
  <1>8. /\ Ran(t, r) \in Record /\ Ran(t, r).on = r.on
        /\ r.left = -1 => Ran(t, r).left = -1
    BY <1>1, RecordRan DEF Ran
  <1> QED
    BY <1>2, <1>3, <1>4, <1>5, <1>6, <1>7, <1>8

(* A note is never one of the fixed tasks, new or used again.              *)
LEMMA FirstOfMany ==
    ASSUME NEW S \in SUBSET Nat, S # {}
    PROVE  \E i \in S : \A j \in S : i <= j
  <1>1. PICK i \in S : \A j \in S : ~ (<<j, i>> \in OpToRel(<, Nat))
    BY NatLessThanWellFounded, WFMin
  <1>2. SUFFICES ASSUME NEW j \in S
                 PROVE  i <= j
    OBVIOUS
  <1>3. i \in Nat /\ j \in Nat /\ <<j, i>> \notin OpToRel(<, Nat)
    BY <1>1
  <1> QED
    BY <1>3 DEF OpToRel

LEMMA PickNote ==
    ASSUME NEW tab, NEW ns \in Seq(Notes), CanNote(tab, ns)
    PROVE  Pick(tab, ns) \in Notes
  <1>1. CASE Reusable(tab, ns) # {}
    <2>1. Reusable(tab, ns) \subseteq 1 .. Len(ns) /\ Len(ns) \in Nat
      BY LenProperties DEF Reusable
    <2>2. \E i \in Reusable(tab, ns) : \A j \in Reusable(tab, ns) : i <= j
      BY <1>1, <2>1, FirstOfMany
    <2> QED
      BY <1>1, <2>1, <2>2, ElementOfSeq DEF Pick
  <1>2. CASE Reusable(tab, ns) = {}
    BY <1>2 DEF CanNote, Pick, Unused
  <1> QED
    BY <1>1, <1>2

LEMMA TasksApart ==
    /\ {"connect", "send", "reboot", "check", "share", "read"} \subseteq Tasks
    /\ Notes \subseteq Tasks
    /\ \A n \in Notes : n # "connect" /\ n # "send"
    /\ Times["connect"] = -1 /\ Times["send"] = -1
  BY MeshAssumption DEF Fixed

-----------------------------------------------------------------------------
(* The table of tasks: what one change leaves of it.                       *)
SameOn(tab, tab2) ==
    /\ tab["connect"].on = tab2["connect"].on
    /\ tab["send"].on = tab2["send"].on

LEMMA TableSet ==
    ASSUME NEW tab, Table(tab), NEW t \in Tasks, NEW r \in Record,
           t \in {"connect", "send"} => r.left = -1
    PROVE  LET tab2 == [tab EXCEPT ![t] = r]
           IN  /\ Table(tab2) /\ tab2[t] = r
               /\ \A u \in Tasks : u # t => tab2[u] = tab[u]
  BY TasksApart DEF Table

(* Any change of another task.                                             *)
LEMMA OtherSet ==
    ASSUME NEW tab, Table(tab), NEW t \in Tasks \ {"connect", "send"}, NEW r \in Record
    PROVE  /\ Table([tab EXCEPT ![t] = r])
           /\ SameOn([tab EXCEPT ![t] = r], tab)
  BY TableSet, TasksApart DEF SameOn

LEMMA AfterOf ==
    ASSUME Table(task), NEW t \in Tasks
    PROVE  Table(After(t)) /\ SameOn(After(t), task)
  <1>1. /\ task[t] \in Record /\ Ran(t, task[t]) \in Record
        /\ Ran(t, task[t]).on = task[t].on
        /\ task[t].left = -1 => Ran(t, task[t]).left = -1
    BY RecordOf DEF Table
  <1>2. t \in {"connect", "send"} => task[t].left = -1
    BY DEF Table
  <1> DEFINE tab2 == [task EXCEPT ![t] = Ran(t, task[t])]
  <1>3. /\ Table(tab2) /\ tab2[t] = Ran(t, task[t])
        /\ \A u \in Tasks : u # t => tab2[u] = task[u]
    BY <1>1, <1>2, TableSet
  <1>4. After(t) = tab2
    BY DEF After
  <1> HIDE DEF tab2
  <1> QED
    BY <1>1, <1>3, <1>4, TasksApart DEF SameOn

LEMMA NoteAdded ==
    ASSUME NEW tab, Table(tab), notes \in Seq(Notes), NEW k, AddNote(tab, k)
    PROVE  Table(task') /\ SameOn(task', tab) /\ notes' \in Seq(Notes)
  <1> DEFINE n == Pick(tab, notes)
  <1>1. n \in Notes
    BY PickNote DEF AddNote
  <1>2. /\ task' = [tab EXCEPT ![n] = Armed(n)]
        /\ notes' = IF n \in ToSet(notes) THEN notes ELSE <<n>> \o notes
    BY DEF AddNote
  <1> HIDE DEF n
  <1>3. n \in Tasks \ {"connect", "send"} /\ Armed(n) \in Record
    BY <1>1, TasksApart, RecordOf, OtherSet DEF Table
  <1>4. <<n>> \o notes \in Seq(Notes)
    BY <1>1, ConcatProperties
  <1> QED
    BY <1>2, <1>3, <1>4, OtherSet

LEMMA NotesAdded ==
    ASSUME NEW tab, Table(tab), notes \in Seq(Notes), NEW k1, NEW k2,
           AddNotes(tab, k1, k2)
    PROVE  Table(task') /\ SameOn(task', tab) /\ notes' \in Seq(Notes)
  <1> DEFINE n1 == Pick(tab, notes)
             tab1 == [tab EXCEPT ![n1] = Armed(n1)]
             ns1 == IF n1 \in ToSet(notes) THEN notes ELSE <<n1>> \o notes
             n2 == Pick(tab1, ns1)
  <1>1. n1 \in Notes
    BY PickNote DEF AddNotes
  <1>2. /\ CanNote(tab1, ns1)
        /\ task' = [tab1 EXCEPT ![n2] = Armed(n2)]
        /\ notes' = IF n2 \in ToSet(ns1) THEN ns1 ELSE <<n2>> \o ns1
    BY DEF AddNotes
  <1>3. \A n \in Notes : n \in Tasks \ {"connect", "send"} /\ Armed(n) \in Record
    BY TasksApart, RecordOf DEF Table
  <1>4. Table(tab1) /\ SameOn(tab1, tab)
    <2> HIDE DEF n1
    <2> QED
      BY <1>1, <1>3, OtherSet
  <1>5. ns1 \in Seq(Notes)
    <2> HIDE DEF n1
    <2> QED
      BY <1>1, ConcatProperties
  <1>6. n2 \in Notes
    <2> HIDE DEF tab1, ns1
    <2> QED
      BY <1>2, <1>5, PickNote
  <1>7. <<n2>> \o ns1 \in Seq(Notes)
    <2> HIDE DEF n2, ns1
    <2> QED
      BY <1>5, <1>6, ConcatProperties
  <1> HIDE DEF n2, tab1, ns1
  <1>8. Table(task') /\ SameOn(task', tab1)
    BY <1>2, <1>3, <1>4, <1>6, OtherSet
  <1> QED
    BY <1>2, <1>4, <1>5, <1>7, <1>8 DEF SameOn

LEMMA RestartingOf ==
    ASSUME NEW tab, Table(tab)
    PROVE  Table(Restarting(tab)) /\ SameOn(Restarting(tab), tab)
  <1>1. "reboot" \in Tasks \ {"connect", "send"} /\ tab["reboot"] \in Record
    BY TasksApart DEF Table
  <1>2. EnabledIfNot("reboot", tab["reboot"]) \in Record
    BY <1>1, RecordOf
  <1> QED
    BY <1>1, <1>2, OtherSet DEF Restarting

(* Mesh__Send enables its task, and no other.                              *)
LEMMA SendSet ==
    ASSUME NEW tab, Table(tab), NEW r, r \in Record, r.left = -1
    PROVE  LET tab2 == [tab EXCEPT !["send"] = r]
           IN  /\ Table(tab2) /\ tab2["send"].on = r.on
               /\ tab2["connect"].on = tab["connect"].on
  BY TableSet, TasksApart

LEMMA ForceEnabled ==
    ASSUME NEW tab, Table(tab)
    PROVE  LET tab2 == [tab EXCEPT !["send"] = Forced("send", EnabledIfNot("send", @))]
           IN  /\ Table(tab2) /\ tab2["send"].on
               /\ tab2["connect"].on = tab["connect"].on
  <1> DEFINE q == EnabledIfNot("send", tab["send"])
  <1>1. "send" \in Tasks /\ tab["send"] \in Record /\ tab["send"].left = -1
    BY TasksApart DEF Table
  <1>2. q \in Record /\ q.on /\ q.left = -1
    BY <1>1, RecordOf
  <1> HIDE DEF q
  <1> DEFINE r == Forced("send", q)
  <1>3. r \in Record /\ r.on = q.on /\ r.left = q.left
    BY <1>1, <1>2, ForcedRecord
  <1>4. [tab EXCEPT !["send"] = Forced("send", EnabledIfNot("send", @))]
          = [tab EXCEPT !["send"] = r]
    BY DEF q
  <1> HIDE DEF r
  <1>5. r \in Record /\ r.left = -1 /\ r.on
    BY <1>2, <1>3
  <1>6. LET tab2 == [tab EXCEPT !["send"] = r]
        IN  /\ Table(tab2) /\ tab2["send"].on = r.on
            /\ tab2["connect"].on = tab["connect"].on
    BY <1>5, SendSet
  <1> QED
    BY <1>4, <1>5, <1>6

-----------------------------------------------------------------------------
(* Passes and callbacks.                                                   *)
LEMMA ScanningShape ==
    ASSUME NestInv, Scanning
    PROVE  /\ step = "none" /\ Len(passes) = Len(active) + 1 /\ Len(active) \in {0, 1}
           /\ Len(active) = 1 => Outer
           /\ Len(passes) # 0
  <1>1. Len(active) \in Nat
    BY LenProperties DEF NestInv, Typed
  <1>2. Len(passes) = Len(active) + 1 /\ Len(passes) # Len(active)
    BY <1>1 DEF Scanning
  <1>3. step = "none"
    BY <1>2 DEF NestInv, Depth
  <1>4. Len(active) = 0 \/ active[Len(active)] # "send"
    BY <1>3 DEF NestInv, Depth
  <1>5. Len(active) # 2
    <2>1. Len(active) = 2 => active[2] = "send"
      BY DEF NestInv, Depth
    <2> QED
      BY <1>4, <2>1
  <1>6. Len(active) \in {0, 1}
    <2>1. Len(active) <= 2
      BY DEF NestInv, Depth
    <2>2. \A n \in Nat : n <= 2 /\ n # 2 => n \in {0, 1}
      OBVIOUS
    <2> QED
      BY <1>1, <1>5, <2>1, <2>2
  <1> QED
    BY <1>1, <1>2, <1>3, <1>4, <1>6 DEF Outer

(* What keeps the passes nested as they are.                               *)
LEMMA QuietNest ==
    ASSUME NestInv, Table(task'), task'["connect"].on = task["connect"].on,
           notes' \in Seq(Notes), active' = active,
           passes' \in Seq(ToSet(passes')), Len(passes') = Len(passes),
           step' = step, trying' = trying,
           pc' \in {"setup", "idle", "pass", "off"}, pc' # "pass" => pc # "pass"
    PROVE  NestInv'
  <1>1. Typed'
    BY DEF NestInv, Typed, Table
  <1>2. Depth'
    BY DEF NestInv, Depth
  <1>3. Attempt'
    BY DEF NestInv, Attempt, Outer
  <1> QED
    BY <1>1, <1>2, <1>3 DEF NestInv

LEMMA MovedOn ==
    ASSUME NestInv, Scanning, MoveOn
    PROVE  passes' \in Seq(ToSet(passes')) /\ Len(passes') = Len(passes)
  BY ScanningShape, PassMoved DEF MoveOn, NestInv, Typed

LEMMA SlotOn ==
    ASSUME Table(task)
    PROVE  task["connect"].on \in BOOLEAN /\ task["send"].on \in BOOLEAN
  BY TasksApart DEF Table, Record

LEMMA RestartNest ==
    ASSUME Restart
    PROVE  NestInv'
  <1>1. Table(task') /\ ~ task'["connect"].on
    <2>1. \A t \in Tasks : Fresh(t) \in [on : BOOLEAN, age : Int, wait : Nat, left : -1 .. 1]
                           /\ ~ Fresh(t).on /\ Fresh(t).left = Times[t]
      BY TasksAssumption DEF Fresh
    <2>2. task' = [t \in Tasks |-> Fresh(t)]
      BY DEF Restart
    <2> QED
      BY <2>1, <2>2, TasksApart DEF Table, Record
  <1>2. /\ notes' = <<>> /\ active' = <<>> /\ passes' = <<>>
        /\ pc' = "setup" /\ step' = "none" /\ trying' = FALSE
    BY DEF Restart
  <1>3. /\ <<>> \in Seq(Notes) /\ <<>> \in Seq(Tasks) /\ <<>> \in Seq(ToSet(<<>>))
        /\ Len(<<>>) = 0
    BY EmptySeq
  <1>4. Typed'
    BY <1>1, <1>2, <1>3 DEF Typed, Table
  <1>5. Depth'
    BY <1>2, <1>3 DEF Depth
  <1>6. Attempt'
    BY <1>1, <1>2, <1>3 DEF Attempt, Outer
  <1> QED
    BY <1>4, <1>5, <1>6 DEF NestInv

(* Mesh__StopToReconnect: the pass it makes is the second, never a third.  *)
LEMMA StopNest ==
    ASSUME NestInv, Scanning, Table(task'), task'["connect"].on = task["connect"].on,
           NEW t \in Tasks, t # "send", StopToReconnect(t),
           notes' = notes, step' = step, pc' = pc, pc = "pass"
    PROVE  NestInv'
  <1>1. CASE trying
    <2>1. trying' = trying /\ MoveOn /\ active' = active
      BY <1>1 DEF StopToReconnect
    <2>2. notes' \in Seq(Notes)
      BY DEF NestInv, Typed
    <2> QED
      BY <2>1, <2>2, MovedOn, QuietNest DEF NestInv, Typed
  <1>2. CASE ~ trying
    <2>1. /\ trying' = TRUE /\ active' = Append(active, t)
          /\ passes' = Append([passes EXCEPT ![Len(passes)] = Following(t)], First)
      BY <1>2 DEF StopToReconnect
    <2>2. /\ ~ Outer /\ ~ task["connect"].on /\ step = "none"
          /\ Len(active) = 0 /\ Len(passes) = 1
      <3>1. ~ Outer /\ ~ task["connect"].on
        BY <1>2 DEF NestInv, Attempt
      <3>2. /\ step = "none" /\ Len(passes) = Len(active) + 1
            /\ Len(active) \in {0, 1} /\ (Len(active) = 1 => Outer)
        BY ScanningShape
      <3> QED
        BY <3>1, <3>2
    <2>3. active' \in Seq(Tasks) /\ Len(active') = 1 /\ active'[1] = t
      BY <2>1, <2>2, Pushed DEF NestInv, Typed
    <2>4. passes' \in Seq(ToSet(passes')) /\ Len(passes') = 2
      <3> DEFINE p == [passes EXCEPT ![Len(passes)] = Following(t)]
      <3>1. passes \in Seq(ToSet(passes)) /\ Len(passes) # 0
        BY <2>2 DEF NestInv, Typed
      <3>2. p \in Seq(ToSet(p)) /\ Len(p) = Len(passes)
        BY <3>1, PassMoved
      <3> HIDE DEF p
      <3>3. /\ Append(p, First) \in Seq(ToSet(Append(p, First)))
            /\ Len(Append(p, First)) = Len(p) + 1
        BY <3>2, PassPushed
      <3> QED
        BY <2>1, <2>2, <3>2, <3>3 DEF p
    <2>5. Typed'
      BY <2>1, <2>3, <2>4 DEF NestInv, Typed, Table
    <2>6. Depth'
      BY <2>2, <2>3, <2>4 DEF Depth
    <2>7. Attempt'
      BY <2>1, <2>2, <2>3 DEF Attempt, Outer
    <2> QED
      BY <2>5, <2>6, <2>7 DEF NestInv
  <1>3. trying \in BOOLEAN
    BY DEF NestInv, Typed
  <1> QED
    BY <1>1, <1>2

-----------------------------------------------------------------------------
(* The scheduler's own steps.                                              *)
LEMMA SetupNest ==
    ASSUME NestInv, Setup
    PROVE  NestInv' /\ task'["send"].on = task["send"].on
  <1>1. pc = "setup" /\ pc' \in {"idle", "off"}
    BY DEF Setup
  <1>2. Table(task') /\ SameOn(task', task)
    <2>1. CASE mode = "config_sendall" /\ ~ old
      <3>1. task' = [task EXCEPT !["reboot"] = Enabled("reboot", @)]
        BY <2>1 DEF Setup
      <3>2. "reboot" \in Tasks \ {"connect", "send"} /\ task["reboot"] \in Record
        BY TasksApart DEF NestInv, Typed, Table
      <3>3. Enabled("reboot", task["reboot"]) \in Record
        BY <3>2, RecordOf
      <3> QED
        BY <3>1, <3>2, <3>3, OtherSet DEF NestInv, Typed
    <2>2. CASE ~ (mode = "config_sendall" /\ ~ old)
      <3>1. task' = [t \in Tasks |-> IF t \in {"check", "share"} /\ t \in ToSet(Prepared)
                                     THEN Enabled(t, task[t]) ELSE task[t]]
        BY <2>2 DEF Setup
      <3>2. \A t \in Tasks : task[t] \in Record /\ Enabled(t, task[t]) \in Record
        BY RecordOf DEF NestInv, Typed, Table
      <3>3. task' \in [Tasks -> Record]
        BY <3>1, <3>2
      <3>4. task'["connect"] = task["connect"] /\ task'["send"] = task["send"]
        BY <3>1, TasksApart
      <3> QED
        BY <3>3, <3>4 DEF Table, SameOn, NestInv, Typed
    <2> QED
      BY <2>1, <2>2
  <1>3. /\ notes' = notes /\ active' = active /\ passes' = passes
        /\ step' = step /\ trying' = trying
    BY DEF Setup, handlers, node, sending
  <1> QED
    BY <1>1, <1>2, <1>3, QuietNest DEF NestInv, Typed, SameOn

LEMMA BeginNest ==
    ASSUME NestInv, Begin
    PROVE  NestInv'
  <1>1. /\ pc = "idle" /\ pc' = "pass" /\ passes' = Append(passes, First)
        /\ task' = task /\ active' = active /\ notes' = notes /\ step' = step
        /\ trying' = trying
    BY DEF Begin, Execute, handlers, node
  <1>2. Len(passes) = 0 /\ Len(active) = 0
    BY <1>1 DEF NestInv, Depth
  <1>3. passes' \in Seq(ToSet(passes')) /\ Len(passes') = 1
    <2>1. passes \in Seq(ToSet(passes))
      BY DEF NestInv, Typed
    <2>2. /\ Append(passes, First) \in Seq(ToSet(Append(passes, First)))
          /\ Len(Append(passes, First)) = Len(passes) + 1
      BY <2>1, PassPushed
    <2> QED
      BY <1>1, <1>2, <2>2
  <1>4. Typed'
    BY <1>1, <1>3 DEF NestInv, Typed, Table
  <1>5. Depth'
    BY <1>1, <1>2, <1>3 DEF NestInv, Depth
  <1>6. Attempt'
    BY <1>1 DEF NestInv, Attempt, Outer
  <1> QED
    BY <1>4, <1>5, <1>6 DEF NestInv

LEMMA PassOverNest ==
    ASSUME NestInv, PassOver
    PROVE  NestInv' /\ task'["send"].on = task["send"].on
  <1>1. /\ notes' = notes /\ active' = active /\ step' = step /\ trying' = trying
        /\ pc' = pc /\ Scanning
    BY DEF PassOver, Skip, Expire, mvars
  <1>2. CASE Skip
    <2>1. passes' = [passes EXCEPT ![Len(passes)] = NextWith(Top)] /\ task' = task
      BY <1>2 DEF Skip
    <2>2. passes' \in Seq(ToSet(passes')) /\ Len(passes') = Len(passes)
      BY <1>1, <2>1, ScanningShape, PassMoved DEF NestInv, Typed
    <2> QED
      BY <1>1, <2>1, <2>2, QuietNest DEF NestInv, Typed
  <1>3. CASE Expire
    <2>1. /\ MoveOn /\ task[Top].on /\ task[Top].left = 0
          /\ task' = [task EXCEPT ![Top] = Disabled(task[Top])]
      BY <1>3 DEF Expire, UsedUp
    <2>2. Table(task') /\ SameOn(task', task)
      <3>1. CASE Top \in Tasks
        <4>1. Top \in Tasks \ {"connect", "send"} /\ Disabled(task[Top]) \in Record
          BY <2>1, <3>1, RecordOf DEF NestInv, Typed, Table
        <4> QED
          BY <2>1, <4>1, OtherSet DEF NestInv, Typed
      <3>2. CASE Top \notin Tasks
        <4>1. task' = task
          BY <2>1, <3>2 DEF NestInv, Typed, Table
        <4> QED
          BY <4>1 DEF NestInv, Typed, SameOn
      <3> QED
        BY <3>1, <3>2
    <2> QED
      BY <1>1, <2>1, <2>2, MovedOn, QuietNest DEF NestInv, Typed, SameOn
  <1> QED
    BY <1>2, <1>3 DEF PassOver

LEMMA EndNest ==
    ASSUME NestInv, End
    PROVE  NestInv' /\ task' = task
  <1>1. /\ passes' = Front(passes) /\ Scanning
        /\ task' = task /\ active' = active /\ notes' = notes /\ step' = step
        /\ trying' = trying /\ pc = "pass"
        /\ pc' = IF Len(passes) = 1 THEN "idle" ELSE pc
    BY DEF End, EndPass, handlers, node
  <1>2. /\ step = "none" /\ Len(passes) = Len(active) + 1 /\ Len(active) \in {0, 1}
        /\ Len(passes) # 0
    BY <1>1, ScanningShape
  <1>3. passes' \in Seq(ToSet(passes')) /\ Len(passes') = Len(active)
    BY <1>1, <1>2, PassPopped DEF NestInv, Typed
  <1>4. Typed'
    BY <1>1, <1>3 DEF NestInv, Typed, Table
  <1>5. Depth'
    BY <1>1, <1>2, <1>3 DEF NestInv, Depth
  <1>6. Attempt'
    BY <1>1 DEF NestInv, Attempt, Outer
  <1> QED
    BY <1>1, <1>4, <1>5, <1>6 DEF NestInv

-----------------------------------------------------------------------------
(* The callbacks.                                                          *)
LEMMA ReconnectNest ==
    ASSUME NestInv, Reconnect \/ ReconnectStop
    PROVE  NestInv' /\ task'["send"].on = task["send"].on
           /\ Outer /\ ~ Outer' /\ Len(passes) = 1
  <1>1. /\ Stopping /\ pc' = pc /\ pc = "pass" /\ step' = step /\ trying' = trying
        /\ active' = Front(active)
    BY DEF Reconnect, ReconnectStop, Return, mvars
  <1>2. Len(active) = 1 /\ Outer /\ active \in Seq(Tasks) /\ step = "none"
    <2>1. active # <<>> /\ Last(active) # "send" /\ active \in Seq(Tasks)
      BY <1>1 DEF Stopping, NestInv, Typed
    <2>2. Len(active) \in Nat \ {0} /\ active[Len(active)] # "send"
      BY <2>1, EmptySeq DEF Last
    <2>3. Len(active) <= 2 /\ (Len(active) = 2 => active[2] = "send")
      BY DEF NestInv, Depth
    <2>4. Len(active) # 2
      BY <2>2, <2>3
    <2>5. \A n \in Nat \ {0} : n <= 2 /\ n # 2 => n = 1
      OBVIOUS
    <2>6. Len(active) = 1
      BY <2>2, <2>3, <2>4, <2>5
    <2>7. step = "none"
      BY <2>2 DEF NestInv, Depth
    <2> QED
      BY <2>1, <2>2, <2>6, <2>7 DEF Outer
  <1>3. Len(passes) = 1
    <2>1. Len(passes) \in {1, 2} /\ Len(passes) # 2
      BY <1>1, <1>2 DEF Stopping, Scanning, NestInv, Depth
    <2> QED
      BY <2>1
  <1>4. active' \in Seq(Tasks) /\ Len(active') = 0
    BY <1>1, <1>2, Popped
  <1>5. passes' \in Seq(ToSet(passes')) /\ Len(passes') = 1
    <2>1. CASE Reconnect
      BY <2>1, <1>3 DEF Reconnect, NestInv, Typed
    <2>2. CASE ReconnectStop
      <3> DEFINE e == IF passes[Len(passes)] \in Deleted THEN None ELSE passes[Len(passes)]
      <3>1. passes' = [passes EXCEPT ![Len(passes)] = e]
        BY <2>2 DEF ReconnectStop
      <3> HIDE DEF e
      <3>2. passes \in Seq(ToSet(passes)) /\ Len(passes) # 0
        BY <1>3 DEF NestInv, Typed
      <3>3. /\ [passes EXCEPT ![Len(passes)] = e]
                   \in Seq(ToSet([passes EXCEPT ![Len(passes)] = e]))
            /\ Len([passes EXCEPT ![Len(passes)] = e]) = Len(passes)
        BY <3>2, PassMoved
      <3> QED
        BY <1>3, <3>1, <3>3
    <2> QED
      BY <2>1, <2>2
  <1>6. notes' \in Seq(Notes)
    BY EmptySeq DEF Reconnect, ReconnectStop, mvars, NestInv, Typed
  <1>7. PICK tab : /\ Table(tab) /\ tab["send"].on = task["send"].on
                   /\ task' = Reenabled(tab)
    <2>1. CASE Reconnect
      BY <2>1 DEF Reconnect, NestInv, Typed
    <2>2. CASE ReconnectStop
      <3> DEFINE tab == [t \in Tasks |-> IF t \in Deleted THEN Fresh(t) ELSE task[t]]
      <3>1. task' = Reenabled(tab)
        BY <2>2 DEF ReconnectStop
      <3>2. \A t \in Tasks : task[t] \in Record /\ Fresh(t) \in Record
        BY RecordOf DEF NestInv, Typed, Table
      <3>3. \A i \in DOMAIN notes : notes[i] \in Notes
        BY LenProperties, ElementOfSeq DEF NestInv, Typed
      <3>4. "connect" \notin Deleted /\ "send" \notin Deleted
        BY <3>3, TasksApart DEF Deleted, ToSet
      <3>5. tab \in [Tasks -> Record]
        BY <3>2
      <3>6. tab["connect"] = task["connect"] /\ tab["send"] = task["send"]
        BY <3>4, TasksApart
      <3> QED
        BY <3>1, <3>5, <3>6 DEF Table, NestInv, Typed
    <2> QED
      BY <2>1, <2>2
  <1>8. Table(task') /\ task'["connect"].on /\ task'["send"].on = tab["send"].on
    <2>1. "connect" \in Tasks /\ tab["connect"] \in Record /\ tab["connect"].left = -1
      BY <1>7, TasksApart DEF Table
    <2> DEFINE r == EnabledIfNot("connect", tab["connect"])
    <2>2. r \in Record /\ r.on /\ r.left = -1
      BY <2>1, RecordOf
    <2>3. task' = [tab EXCEPT !["connect"] = r]
      BY <1>7 DEF Reenabled
    <2> HIDE DEF r
    <2>4. LET tab2 == [tab EXCEPT !["connect"] = r]
          IN  /\ Table(tab2) /\ tab2["connect"] = r
              /\ \A u \in Tasks : u # "connect" => tab2[u] = tab[u]
      BY <1>7, <2>1, <2>2, TableSet
    <2>5. "send" \in Tasks /\ "send" # "connect"
      BY TasksApart
    <2> QED
      BY <2>2, <2>3, <2>4, <2>5
  <1>9. Typed'
    BY <1>1, <1>4, <1>5, <1>6, <1>8 DEF NestInv, Typed, Table
  <1>10. Depth'
    BY <1>1, <1>2, <1>4, <1>5 DEF Depth
  <1>11. Attempt'
    <2>1. trying
      BY <1>2 DEF NestInv, Attempt
    <2> QED
      BY <1>1, <1>4, <1>8, <2>1 DEF Attempt, Outer
  <1> QED
    BY <1>2, <1>3, <1>4, <1>7, <1>8, <1>9, <1>10, <1>11 DEF NestInv, Outer

LEMMA RunConnectNest ==
    ASSUME NestInv, RunConnect
    PROVE  NestInv' /\ task'["send"].on = task["send"].on
  <1>1. /\ Scanning /\ task["connect"].on /\ MoveOn /\ notes' = notes
        /\ active' = active /\ step' = step /\ pc' = pc /\ pc = "pass" /\ trying' = FALSE
        /\ task' = [After("connect") EXCEPT !["connect"] = Disabled(@)]
    BY DEF RunConnect, Take, Due, handlers, sending
  <1>2. Table(task') /\ ~ task'["connect"].on /\ task'["send"].on = task["send"].on
    <2> DEFINE tab == After("connect")
               r == Disabled(tab["connect"])
    <2>1. Table(tab) /\ SameOn(tab, task) /\ "connect" \in Tasks
      BY AfterOf, TasksApart DEF NestInv, Typed
    <2>2. task' = [tab EXCEPT !["connect"] = r]
      BY <1>1
    <2> HIDE DEF tab
    <2>3. tab["connect"] \in Record /\ tab["connect"].left = -1
      BY <2>1 DEF Table
    <2>4. r \in Record /\ ~ r.on /\ r.left = -1
      BY <2>1, <2>3, RecordOf
    <2> HIDE DEF r
    <2>5. LET tab2 == [tab EXCEPT !["connect"] = r]
          IN  /\ Table(tab2) /\ tab2["connect"] = r
              /\ \A u \in Tasks : u # "connect" => tab2[u] = tab[u]
      BY <2>1, <2>4, TableSet
    <2>6. "send" \in Tasks /\ "send" # "connect"
      BY TasksApart
    <2> QED
      BY <2>1, <2>2, <2>4, <2>5, <2>6 DEF SameOn
  <1>3. ~ Outer
    BY <1>1 DEF NestInv, Attempt
  <1>4. passes' \in Seq(ToSet(passes')) /\ Len(passes') = Len(passes)
    BY <1>1, MovedOn
  <1>5. Typed'
    BY <1>1, <1>2, <1>4 DEF NestInv, Typed, Table
  <1>6. Depth'
    BY <1>1, <1>4 DEF NestInv, Depth
  <1>7. Attempt'
    BY <1>1, <1>2, <1>3 DEF Attempt, Outer
  <1> QED
    BY <1>2, <1>5, <1>6, <1>7 DEF NestInv

(* The callbacks that may leave for a reconnect.                           *)
LEMMA RunCheckNest ==
    ASSUME NestInv, RunCheck
    PROVE  NestInv' /\ task'["send"].on = task["send"].on
  <1>1. /\ Scanning /\ notes' = notes /\ step' = step /\ pc' = pc /\ pc = "pass"
    BY DEF RunCheck, Take, handlers, sending
  <1>2. "check" \in Tasks /\ "check" # "send"
        /\ Table(After("check")) /\ SameOn(After("check"), task)
    BY AfterOf, TasksApart DEF NestInv, Typed
  <1>3. Table(Restarting(After("check"))) /\ SameOn(Restarting(After("check")), After("check"))
    BY <1>2, RestartingOf
  <1>4. Table(task') /\ SameOn(task', task)
    <2>1. task' = After("check") \/ task' = Restarting(After("check"))
      BY DEF RunCheck
    <2> QED
      BY <1>2, <1>3, <2>1 DEF SameOn
  <1>5. CASE MoveOn /\ trying' = trying /\ active' = active
    BY <1>1, <1>4, <1>5, MovedOn, QuietNest DEF SameOn, NestInv, Typed
  <1>6. CASE StopToReconnect("check")
    BY <1>1, <1>2, <1>4, <1>6, StopNest DEF SameOn
  <1>7. (MoveOn /\ trying' = trying /\ active' = active) \/ StopToReconnect("check")
    BY DEF RunCheck
  <1> QED
    BY <1>4, <1>5, <1>6, <1>7 DEF SameOn

LEMMA RunNoteNest ==
    ASSUME NestInv, NEW n \in Notes, RunNew(n) \/ RunChanged(n)
    PROVE  NestInv' /\ task'["send"].on = task["send"].on
  <1>1. /\ Scanning /\ notes' = notes /\ step' = step /\ pc' = pc /\ pc = "pass"
        /\ task' = After(n)
    BY DEF RunNew, RunChanged, Take, handlers, sending
  <1>2. n \in Tasks /\ n # "send" /\ Table(task') /\ SameOn(task', task)
    BY <1>1, AfterOf, TasksApart DEF NestInv, Typed
  <1>3. CASE MoveOn /\ trying' = trying /\ active' = active
    BY <1>1, <1>2, <1>3, MovedOn, QuietNest DEF SameOn, NestInv, Typed
  <1>4. CASE StopToReconnect(n)
    BY <1>1, <1>2, <1>4, StopNest DEF SameOn
  <1>5. (MoveOn /\ trying' = trying /\ active' = active) \/ StopToReconnect(n)
    BY DEF RunNew, RunChanged
  <1> QED
    BY <1>2, <1>3, <1>4, <1>5 DEF SameOn

(* Mesh__SendByTask, from its call to its return.                          *)
LEMMA RunSendNest ==
    ASSUME NestInv, RunSend
    PROVE  NestInv' /\ (Outer' <=> Outer)
  <1>1. /\ Scanning /\ MoveOn /\ notes' = notes /\ step' = "type" /\ pc' = pc
        /\ pc = "pass" /\ trying' = trying /\ active' = Append(active, "send")
        /\ task' = [After("send") EXCEPT !["send"] = Disabled(@)]
    BY DEF RunSend, Take, handlers, node
  <1>2. Table(task') /\ task'["connect"].on = task["connect"].on
    <2> DEFINE tab == After("send")
               r == Disabled(tab["send"])
    <2>1. Table(tab) /\ SameOn(tab, task) /\ "send" \in Tasks
      BY AfterOf, TasksApart DEF NestInv, Typed
    <2>2. task' = [tab EXCEPT !["send"] = r]
      BY <1>1
    <2> HIDE DEF tab
    <2>3. tab["send"] \in Record /\ tab["send"].left = -1
      BY <2>1 DEF Table
    <2>4. r \in Record /\ r.left = -1
      BY <2>1, <2>3, RecordOf
    <2> HIDE DEF r
    <2>5. LET tab2 == [tab EXCEPT !["send"] = r]
          IN  /\ Table(tab2) /\ tab2["send"].on = r.on
              /\ tab2["connect"].on = tab["connect"].on
      BY <2>1, <2>4, SendSet
    <2> QED
      BY <2>1, <2>2, <2>5 DEF SameOn
  <1>3. /\ step = "none" /\ Len(passes) = Len(active) + 1 /\ Len(active) \in {0, 1}
        /\ Len(active) = 1 => Outer
    BY <1>1, ScanningShape
  <1>4. passes' \in Seq(ToSet(passes')) /\ Len(passes') = Len(passes)
    BY <1>1, MovedOn
  <1>5. /\ active' \in Seq(Tasks) /\ Len(active') = Len(active) + 1
        /\ active'[Len(active) + 1] = "send"
        /\ Len(active) = 1 => active'[1] = active[1]
    <2>1. active \in Seq(Tasks) /\ "send" \in Tasks
      BY TasksApart DEF NestInv, Typed
    <2>2. /\ Append(active, "send") \in Seq(Tasks)
          /\ Len(Append(active, "send")) = Len(active) + 1
          /\ \A i \in 1 .. Len(active) : Append(active, "send")[i] = active[i]
          /\ Append(active, "send")[Len(active) + 1] = "send"
      BY <2>1, Pushed
    <2> QED
      BY <1>1, <2>2
  <1>6. Typed'
    BY <1>1, <1>2, <1>4, <1>5 DEF NestInv, Typed, Table
  <1>7. Outer' <=> Outer
    BY <1>3, <1>5 DEF Outer
  <1>8. Depth'
    BY <1>1, <1>3, <1>4, <1>5 DEF Depth, Outer
  <1>9. Attempt'
    BY <1>1, <1>2, <1>7 DEF NestInv, Attempt
  <1> QED
    BY <1>6, <1>7, <1>8, <1>9 DEF NestInv

LEMMA SendStepsNest ==
    ASSUME NestInv, SendType \/ SendClear
    PROVE  NestInv' /\ task' = task
  <1>1. /\ task' = task /\ passes' = passes /\ active' = active /\ notes' = notes
        /\ pc' = pc /\ trying' = trying /\ step # "none" /\ step' # "none"
        /\ step' \in {"clear", "done"}
    BY DEF SendType, SendClear, tvars, handlers, node
  <1>2. Typed'
    BY <1>1 DEF NestInv, Typed, Table
  <1>3. Depth'
    BY <1>1 DEF NestInv, Depth
  <1>4. Attempt'
    BY <1>1 DEF NestInv, Attempt, Outer
  <1> QED
    BY <1>1, <1>2, <1>3, <1>4 DEF NestInv

LEMMA SendDoneNest ==
    ASSUME NestInv, SendDone
    PROVE  NestInv' /\ task' = task /\ (Outer' <=> Outer)
  <1>1. /\ task' = task /\ passes' = passes /\ active' = Front(active) /\ notes' = notes
        /\ pc' = pc /\ trying' = trying /\ step = "done" /\ step' = "none"
    BY DEF SendDone, Return, handlers, node
  <1>2. /\ Len(active) \in {1, 2} /\ active[Len(active)] = "send"
        /\ Len(passes) = Len(active) /\ pc = "pass"
    <2>1. Len(active) # 0 /\ active[Len(active)] = "send" /\ Len(passes) = Len(active)
          /\ Len(active) <= 2 /\ pc = "pass"
      BY <1>1 DEF NestInv, Depth
    <2>2. Len(active) \in Nat
      BY LenProperties DEF NestInv, Typed
    <2>3. \A n \in Nat : n <= 2 /\ n # 0 => n \in {1, 2}
      OBVIOUS
    <2> QED
      BY <2>1, <2>2, <2>3
  <1>3. /\ active' \in Seq(Tasks) /\ Len(active') = Len(active) - 1
        /\ Len(active) = 2 => active'[1] = active[1]
    <2>1. active \in Seq(Tasks)
      BY DEF NestInv, Typed
    <2>2. /\ Front(active) \in Seq(Tasks) /\ Len(Front(active)) = Len(active) - 1
          /\ \A i \in 1 .. Len(active) - 1 : Front(active)[i] = active[i]
      BY <1>2, <2>1, Popped
    <2> QED
      BY <1>1, <1>2, <2>2
  <1>4. Len(active) = 2 => active[1] # "send"
    BY DEF NestInv, Depth
  <1>5. Typed'
    BY <1>1, <1>3 DEF NestInv, Typed, Table
  <1>6. Depth'
    <2>1. step' = "none" /\ pc' = "pass"
      BY <1>1, <1>2
    <2>2. CASE Len(active) = 1
      <3>1. Len(active') = 0 /\ Len(passes') = 1
        BY <1>1, <1>2, <1>3, <2>2
      <3> QED
        BY <2>1, <3>1 DEF Depth
    <2>3. CASE Len(active) = 2
      <3>1. Len(active') = 1 /\ Len(passes') = 2 /\ active'[1] # "send"
        BY <1>1, <1>2, <1>3, <1>4, <2>3
      <3> QED
        BY <2>1, <3>1 DEF Depth
    <2> QED
      BY <1>2, <2>2, <2>3
  <1>7. Outer' <=> Outer
    BY <1>2, <1>3, <1>4 DEF Outer
  <1>8. Attempt'
    BY <1>1, <1>7 DEF NestInv, Attempt
  <1> QED
    BY <1>1, <1>5, <1>6, <1>7, <1>8 DEF NestInv

(* The callbacks that may send: what MeshSend does to the table.           *)
LEMMA SendsTable ==
    ASSUME NEW tab, Table(tab), NEW m, MeshSend(tab, m)
    PROVE  /\ Table(task') /\ task'["connect"].on = tab["connect"].on
           /\ connected => task'["send"].on
           /\ ~ connected => task' = tab
  BY ForceEnabled DEF MeshSend

LEMMA RunShareNest ==
    ASSUME NestInv, NEW m, RunShare(m)
    PROVE  /\ NestInv' /\ step = "none"
           /\ \/ connected /\ slot' = m /\ type' = TRUE /\ last' = m
                 /\ raced' = (key # "idle" \/ (raced /\ After("share")["send"].on))
                 /\ task'["send"].on
              \/ task'["send"].on = task["send"].on
                 /\ UNCHANGED <<slot, type, last, raced>>
  <1>1. /\ Scanning /\ MoveOn /\ notes' = notes /\ active' = active
        /\ step' = step /\ pc' = pc /\ trying' = trying
    BY DEF RunShare, Take, handlers, node
  <1>2. Table(After("share")) /\ SameOn(After("share"), task) /\ "share" \in Tasks
    BY AfterOf, TasksApart DEF NestInv, Typed
  <1> DEFINE off == [After("share") EXCEPT !["share"] = Disabled(@)]
  <1>3. Table(Restarting(off)) /\ SameOn(Restarting(off), task)
    <2>1. Disabled(After("share")["share"]) \in Record
      BY <1>2, RecordOf DEF Table
    <2>2. "share" \in Tasks \ {"connect", "send"}
      BY TasksApart
    <2>3. Table(off) /\ SameOn(off, After("share"))
      BY <1>2, <2>1, <2>2, OtherSet
    <2> HIDE DEF off
    <2> QED
      BY <1>2, <2>3, RestartingOf DEF SameOn
  <1> HIDE DEF off
  <1>4. \/ task' = After("share") /\ UNCHANGED <<slot, type, last, raced>>
        \/ connected /\ MeshSend(After("share"), m)
        \/ task' = Restarting(off) /\ UNCHANGED <<slot, type, last, raced>>
    BY DEF RunShare, off
  <1>5. /\ Table(task') /\ task'["connect"].on = task["connect"].on
        /\ \/ connected /\ slot' = m /\ type' = TRUE /\ last' = m
              /\ raced' = (key # "idle" \/ (raced /\ After("share")["send"].on))
              /\ task'["send"].on
           \/ task'["send"].on = task["send"].on
              /\ UNCHANGED <<slot, type, last, raced>>
    <2>1. CASE connected /\ MeshSend(After("share"), m)
      <3>1. /\ Table(task') /\ task'["connect"].on = After("share")["connect"].on
            /\ task'["send"].on
        BY <1>2, <2>1, SendsTable
      <3>2. /\ slot' = m /\ type' = TRUE /\ last' = m
            /\ raced' = (key # "idle" \/ (raced /\ After("share")["send"].on))
        BY <2>1 DEF MeshSend
      <3> QED
        BY <1>2, <2>1, <3>1, <3>2 DEF SameOn
    <2>2. CASE task' = After("share") /\ UNCHANGED <<slot, type, last, raced>>
      BY <1>2, <2>2 DEF SameOn
    <2>3. CASE task' = Restarting(off) /\ UNCHANGED <<slot, type, last, raced>>
      BY <1>3, <2>3 DEF SameOn
    <2> QED
      BY <1>4, <2>1, <2>2, <2>3
  <1>6. NestInv'
    BY <1>1, <1>5, MovedOn, QuietNest DEF NestInv, Typed
  <1> QED
    BY <1>1, <1>5, <1>6, ScanningShape

(* A package that is read: a layout, a message, or what restarts the node. *)
LEMMA RunReadNest ==
    ASSUME NestInv, NEW m, RunRead(m)
    PROVE  /\ NestInv' /\ step = "none"
           /\ \/ connected /\ slot' = m /\ type' = TRUE /\ last' = m
                 /\ raced' = (key # "idle" \/ (raced /\ After("read")["send"].on))
                 /\ task'["send"].on
              \/ task'["send"].on = task["send"].on
                 /\ UNCHANGED <<slot, type, last, raced>>
  <1>1. /\ Scanning /\ MoveOn /\ active' = active
        /\ step' = step /\ pc' = pc /\ trying' = trying
    BY DEF RunRead, Take, node
  <1>2. Table(After("read")) /\ SameOn(After("read"), task) /\ notes \in Seq(Notes)
    BY AfterOf, TasksApart DEF NestInv, Typed
  <1> DEFINE tab == After("read")
  <1>3. \/ task' = tab /\ notes' = notes /\ UNCHANGED <<slot, type, last, raced>>
        \/ AddNotes(tab, "new", "changed") /\ UNCHANGED <<slot, type, last, raced>>
        \/ AddNote(tab, "changed") /\ UNCHANGED <<slot, type, last, raced>>
        \/ MeshSend(tab, m) /\ notes' = notes
        \/ task' = Restarting(tab) /\ notes' = notes /\ UNCHANGED <<slot, type, last, raced>>
    BY DEF RunRead, handlers
  <1> HIDE DEF tab
  <1>4. Table(tab) /\ SameOn(tab, task)
    BY <1>2 DEF tab
  <1>5. /\ Table(task') /\ task'["connect"].on = task["connect"].on
        /\ notes' \in Seq(Notes)
        /\ \/ connected /\ slot' = m /\ type' = TRUE /\ last' = m
              /\ raced' = (key # "idle" \/ (raced /\ tab["send"].on))
              /\ task'["send"].on
           \/ task'["send"].on = task["send"].on
              /\ UNCHANGED <<slot, type, last, raced>>
    <2>1. CASE task' = tab /\ notes' = notes /\ UNCHANGED <<slot, type, last, raced>>
      BY <1>2, <1>4, <2>1 DEF SameOn
    <2>2. CASE AddNotes(tab, "new", "changed") /\ UNCHANGED <<slot, type, last, raced>>
      BY <1>2, <1>4, <2>2, NotesAdded DEF SameOn
    <2>3. CASE AddNote(tab, "changed") /\ UNCHANGED <<slot, type, last, raced>>
      BY <1>2, <1>4, <2>3, NoteAdded DEF SameOn
    <2>4. CASE MeshSend(tab, m) /\ notes' = notes
      <3>1. /\ Table(task') /\ task'["connect"].on = tab["connect"].on
            /\ connected => task'["send"].on
            /\ ~ connected => task' = tab
        BY <1>4, <2>4, SendsTable
      <3>2. CASE connected
        <4>1. /\ slot' = m /\ type' = TRUE /\ last' = m
              /\ raced' = (key # "idle" \/ (raced /\ tab["send"].on))
          BY <2>4, <3>2 DEF MeshSend
        <4> QED
          BY <1>2, <1>4, <2>4, <3>1, <3>2, <4>1 DEF SameOn
      <3>3. CASE ~ connected
        <4>1. UNCHANGED <<slot, type, last, raced>>
          BY <2>4, <3>3 DEF MeshSend
        <4> QED
          BY <1>2, <1>4, <2>4, <3>1, <3>3, <4>1 DEF SameOn
      <3> QED
        BY <3>2, <3>3
    <2>5. CASE task' = Restarting(tab) /\ notes' = notes
               /\ UNCHANGED <<slot, type, last, raced>>
      BY <1>2, <1>4, <2>5, RestartingOf DEF SameOn
    <2> QED
      BY <1>3, <2>1, <2>2, <2>3, <2>4, <2>5
  <1>6. NestInv'
    BY <1>1, <1>5, MovedOn, QuietNest DEF NestInv, Typed
  <1> QED
    BY <1>1, <1>5, <1>6, ScanningShape DEF tab

-----------------------------------------------------------------------------
(* The other threads.                                                      *)
LEMMA KeyEnableNest ==
    ASSUME NestInv, KeyEnable
    PROVE  NestInv' /\ task'["send"].on
  <1> DEFINE r == EnabledIfNot("send", task["send"])
  <1>1. "send" \in Tasks /\ task["send"] \in Record /\ task["send"].left = -1
    BY TasksApart DEF NestInv, Typed, Table
  <1>2. r \in Record /\ r.on /\ r.left = -1
    BY <1>1, RecordOf
  <1>3. task' = [task EXCEPT !["send"] = r]
    BY DEF KeyEnable
  <1> HIDE DEF r
  <1>4. Table(task') /\ task'["send"].on = r.on /\ task'["connect"].on = task["connect"].on
    BY <1>2, <1>3, SendSet DEF NestInv, Typed
  <1>5. /\ notes' = notes /\ active' = active /\ passes' = passes
        /\ step' = step /\ trying' = trying /\ pc' = pc
    BY DEF KeyEnable, handlers, node
  <1> QED
    BY <1>2, <1>4, <1>5, QuietNest DEF NestInv, Typed

LEMMA KeyForceNest ==
    ASSUME NestInv, KeyForce
    PROVE  NestInv' /\ task'["send"].on = task["send"].on
  <1> DEFINE r == Forced("send", task["send"])
  <1>1. "send" \in Tasks /\ task["send"] \in Record /\ task["send"].left = -1
    BY TasksApart DEF NestInv, Typed, Table
  <1>2. r \in Record /\ r.on = task["send"].on /\ r.left = -1
    BY <1>1, ForcedRecord
  <1>3. task' = [task EXCEPT !["send"] = r]
    BY DEF KeyForce
  <1> HIDE DEF r
  <1>4. Table(task') /\ task'["send"].on = r.on /\ task'["connect"].on = task["connect"].on
    BY <1>2, <1>3, SendSet DEF NestInv, Typed
  <1>5. /\ notes' = notes /\ active' = active /\ passes' = passes
        /\ step' = step /\ trying' = trying /\ pc' = pc
    BY DEF KeyForce, handlers, node
  <1> QED
    BY <1>2, <1>4, <1>5, QuietNest DEF NestInv, Typed

(* Steps that leave the scheduler and its callbacks alone.                 *)
LEMMA IdleNest ==
    ASSUME NestInv,
           \/ KeyData \/ KeyType \/ EventGive \/ LinkCleared
           \/ (\E m \in Msgs : KeySend(m)) \/ UNCHANGED vars
    PROVE  NestInv' /\ task' = task /\ step' = step
  <1>1. /\ task' = task /\ notes' = notes /\ active' = active /\ passes' = passes
        /\ step' = step /\ trying' = trying /\ pc' = pc
    BY DEF KeyData, KeyType, EventGive, LinkCleared, KeySend, vars, tvars, mvars,
           handlers, node, sending
  <1> QED
    BY <1>1, QuietNest DEF NestInv, Typed

LEMMA AcceptNest ==
    ASSUME NestInv, Accept
    PROVE  NestInv' /\ task'["send"].on = task["send"].on
  <1>1. /\ notes' = notes /\ active' = active /\ passes' = passes
        /\ step' = step /\ trying' = trying /\ pc' = pc
    BY DEF Accept, handlers, node, sending
  <1>2. Table(task') /\ SameOn(task', task)
    <2>1. CASE task["read"].on
      BY <2>1 DEF Accept, NestInv, Typed, SameOn
    <2>2. CASE ~ task["read"].on
      <3> DEFINE r == [Fresh("read") EXCEPT !.on = TRUE, !.wait = Interval["read"]]
                 f == [Fresh("read") EXCEPT !.on = TRUE]
      <3>1. task' = [task EXCEPT !["read"] = r]
        BY <2>2 DEF Accept
      <3>2. "read" \in Tasks \ {"connect", "send"} /\ Interval["read"] \in Nat
        BY TasksApart, TasksAssumption
      <3>3. Fresh("read") \in Record
        BY <3>2, TasksAssumption DEF Fresh, Record
      <3>4. f \in Record
        BY <3>3, RecordFlagged
      <3>5. r \in Record
        BY <3>2, <3>4 DEF Record
      <3> HIDE DEF r
      <3> QED
        BY <3>1, <3>2, <3>5, OtherSet DEF NestInv, Typed
    <2> QED
      BY <2>1, <2>2
  <1> QED
    BY <1>1, <1>2, QuietNest DEF NestInv, Typed, SameOn

LEMMA ArriveNest ==
    ASSUME NestInv, NEW p \in Packets, Arrive(p)
    PROVE  NestInv' /\ task'["send"].on = task["send"].on
  <1>1. /\ notes' = notes /\ active' = active /\ passes' = passes
        /\ step' = step /\ trying' = trying /\ pc' = pc
    BY DEF Arrive, handlers, node
  <1>2. "read" \in Tasks \ {"connect", "send"} /\ task["read"] \in Record
    BY TasksApart DEF NestInv, Typed, Table
  <1>3. Forced("read", task["read"]) \in Record
    BY <1>2, ForcedRecord
  <1>4. task' = [task EXCEPT !["read"] = Forced("read", task["read"])]
    BY DEF Arrive
  <1>5. Table(task') /\ SameOn(task', task)
    BY <1>2, <1>3, <1>4, OtherSet DEF NestInv, Typed
  <1> QED
    BY <1>1, <1>5, QuietNest DEF NestInv, Typed, SameOn

LEMMA LinkDownNest ==
    ASSUME NestInv, LinkDown
    PROVE  NestInv' /\ task'["send"].on = task["send"].on
  <1>1. /\ active' = active /\ passes' = passes
        /\ step' = step /\ trying' = trying /\ pc' = pc
    BY DEF LinkDown, node
  <1> DEFINE tab == [task EXCEPT !["read"] = Disabled(@)]
  <1>2. AddNote(tab, "changed")
    BY DEF LinkDown
  <1>3. Table(tab) /\ SameOn(tab, task)
    <2>1. "read" \in Tasks \ {"connect", "send"} /\ task["read"] \in Record
      BY TasksApart DEF NestInv, Typed, Table
    <2>2. Disabled(task["read"]) \in Record
      BY <2>1, RecordOf
    <2> QED
      BY <2>1, <2>2, OtherSet DEF NestInv, Typed
  <1> HIDE DEF tab
  <1>4. Table(task') /\ SameOn(task', tab) /\ notes' \in Seq(Notes)
    BY <1>2, <1>3, NoteAdded DEF NestInv, Typed
  <1> QED
    BY <1>1, <1>3, <1>4, QuietNest DEF NestInv, Typed, SameOn

LEMMA WaitNest ==
    ASSUME NestInv, Wait
    PROVE  NestInv' /\ task'["send"].on = task["send"].on
  <1>1. /\ notes' = notes /\ active' = active /\ passes' = passes
        /\ step' = step /\ trying' = trying /\ pc' = pc
    BY DEF Wait, Tick, mvars
  <1>2. \A t \in Tasks : /\ task'[t] \in Record /\ task'[t].on = task[t].on
                         /\ task'[t].left = task[t].left
    <2>1. SUFFICES ASSUME NEW t \in Tasks
                   PROVE  /\ task'[t] \in Record /\ task'[t].on = task[t].on
                          /\ task'[t].left = task[t].left
      OBVIOUS
    <2>2. task[t] \in Record
      BY DEF NestInv, Typed, Table
    <2> DEFINE a == IF task[t].age < MaxTicks THEN task[t].age + 1 ELSE task[t].age
               aged == [task[t] EXCEPT !.age = a]
    <2>3. task'[t] = IF task[t].on THEN aged ELSE task[t]
      BY DEF Wait, Tick
    <2>4. a \in Int
      BY <2>2 DEF Record
    <2>5. aged \in Record /\ aged.on = task[t].on /\ aged.left = task[t].left
      <3> HIDE DEF a
      <3> QED
        BY <2>2, <2>4 DEF Record
    <2> QED
      BY <2>2, <2>3, <2>5
  <1>3. Table(task') /\ SameOn(task', task)
    <2>1. task' \in [Tasks -> Record]
      BY <1>2 DEF Wait, Tick
    <2> QED
      BY <1>2, <2>1, TasksApart DEF Table, SameOn, NestInv, Typed
  <1> QED
    BY <1>1, <1>3, QuietNest DEF NestInv, Typed, SameOn

-----------------------------------------------------------------------------
LEMMA InitNest == Init => NestInv
  <1> SUFFICES ASSUME Init
               PROVE  NestInv
    OBVIOUS
  <1>1. Table(task) /\ ~ task["connect"].on
    <2>1. \A t \in Tasks : Fresh(t) \in [on : BOOLEAN, age : Int, wait : Nat, left : -1 .. 1]
                           /\ ~ Fresh(t).on /\ Fresh(t).left = Times[t]
      BY TasksAssumption DEF Fresh
    <2>2. task = [t \in Tasks |-> Fresh(t)]
      BY DEF Init, TasksInit
    <2> QED
      BY <2>1, <2>2, TasksApart DEF Table, Record
  <1>2. /\ notes = <<>> /\ active = <<>> /\ passes = <<>>
        /\ pc = "setup" /\ step = "none" /\ trying = FALSE
    BY DEF Init, TasksInit
  <1>3. /\ <<>> \in Seq(Notes) /\ <<>> \in Seq(Tasks) /\ <<>> \in Seq(ToSet(<<>>))
        /\ Len(<<>>) = 0
    BY EmptySeq
  <1>4. Typed
    BY <1>1, <1>2, <1>3 DEF Typed
  <1>5. Len(passes) = 0 /\ Len(active) = 0
    BY <1>2, <1>3
  <1>6. Depth
    BY <1>2, <1>5 DEF Depth
  <1>7. Attempt
    BY <1>1, <1>2, <1>5 DEF Attempt, Outer
  <1> QED
    BY <1>4, <1>6, <1>7 DEF NestInv

(* The steps that begin a new life of the node.                            *)
Restarts == GiveFails \/ StopCrash \/ RunReboot \/ PowerCut

LEMMA NextNest == NestInv /\ [Next]_vars => NestInv'
  <1> SUFFICES ASSUME NestInv, [Next]_vars
               PROVE  NestInv'
    OBVIOUS
  <1>1. CASE Restarts
    BY <1>1, RestartNest DEF Restarts, GiveFails, StopCrash, RunReboot, PowerCut
  <1>2. CASE Setup \/ Begin \/ PassOver \/ End
    BY <1>2, SetupNest, BeginNest, PassOverNest, EndNest
  <1>3. CASE Reconnect \/ ReconnectStop \/ RunConnect \/ RunCheck
    BY <1>3, ReconnectNest, RunConnectNest, RunCheckNest
  <1>4. CASE \E n \in Notes : RunNew(n) \/ RunChanged(n)
    BY <1>4, RunNoteNest
  <1>5. CASE RunSend \/ SendType \/ SendClear \/ SendDone
    BY <1>5, RunSendNest, SendStepsNest, SendDoneNest
  <1>6. CASE \E m \in Msgs : RunShare(m) \/ RunRead(m)
    BY <1>6, RunShareNest, RunReadNest
  <1>7. CASE KeyEnable \/ KeyForce
    BY <1>7, KeyEnableNest, KeyForceNest
  <1>8. CASE \/ KeyData \/ KeyType \/ EventGive \/ LinkCleared
             \/ (\E m \in Msgs : KeySend(m)) \/ UNCHANGED vars
    BY <1>8, IdleNest
  <1>9. CASE Accept \/ LinkDown \/ Wait \/ \E p \in Packets : Arrive(p)
    BY <1>9, AcceptNest, LinkDownNest, WaitNest, ArriveNest
  <1> QED
    BY <1>1, <1>2, <1>3, <1>4, <1>5, <1>6, <1>7, <1>8, <1>9
    DEF Next, Loop, Callback, Key, Network, Restarts

(* Mesh__StopToReconnect runs the scheduler from inside a callback: never  *)
(* a level deeper, and never Mesh__Connect in it (mesh.h:178-196).         *)
THEOREM PassesNestOnce == Spec => []NestedOnce
  <1>1. NestInv => NestedOnce
    <2> SUFFICES ASSUME NestInv
                 PROVE  NestedOnce
      OBVIOUS
    <2>1. Len(active) \in Nat /\ Len(passes) \in {Len(active), Len(active) + 1}
          /\ Len(active) <= 2
      BY LenProperties DEF NestInv, Typed, Depth
    <2>2. Len(passes) # Len(active) => Len(active) \in {0, 1}
      BY <2>1, ScanningShape DEF Scanning
    <2>3. Len(passes) <= 2
      BY <2>1, <2>2
    <2>4. Len(passes) = 2 => Outer
      <3>1. CASE Len(passes) = 2 /\ Len(active) = 2
        BY <3>1 DEF Outer, NestInv, Depth
      <3>2. CASE Len(passes) = 2 /\ Len(active) = 1
        BY <3>2, ScanningShape DEF Scanning
      <3>3. \A p, n \in Nat : p \in {n, n + 1} /\ p = 2 => n = 2 \/ n = 1
        OBVIOUS
      <3>4. Len(passes) \in Nat
        BY <2>1
      <3> QED
        BY <2>1, <3>1, <3>2, <3>3, <3>4
    <2> QED
      BY <2>3, <2>4 DEF NestedOnce, NestInv, Attempt
  <1> QED
    BY <1>1, InitNest, NextNest, PTL DEF Spec

(* While MeshCon_Trying turns every further attempt away, a reconnect is   *)
(* on its way: the flag never blocks for good (mesh.h:178-196).            *)
THEOREM AttemptGoesOn == Spec => []ReconnectComing
  <1>1. NestInv => ReconnectComing
    <2> SUFFICES ASSUME NestInv, trying, ~ task["connect"].on
                 PROVE  InStop
      BY DEF ReconnectComing
    <2>1. Outer
      BY DEF NestInv, Attempt
    <2>2. /\ Len(active) \in Nat \ {0} /\ DOMAIN active = 1 .. Len(active)
          /\ active[1] # "send"
      BY <2>1, LenProperties DEF Outer, NestInv, Typed
    <2> QED
      BY <2>2 DEF InStop
  <1> QED
    BY <1>1, InitNest, NextNest, PTL DEF Spec

-----------------------------------------------------------------------------
(***************************************************************************)
(* The message on its way.                                                 *)
(***************************************************************************)

(* What leaves every message where it is.                                  *)
LEMMA QuietSlot ==
    ASSUME SlotInv, UNCHANGED <<step, slot, type, taken, last, raced, key, given>>,
           task'["send"].on = task["send"].on
    PROVE  SlotInv'
  BY DEF SlotInv, InSlot, InHand

LEMMA RestartSlot ==
    ASSUME Restart
    PROVE  SlotInv'
  BY DEF Restart, SlotInv

(* A message sent by the loop itself is in the slot at once.               *)
LEMMA SentByLoop ==
    ASSUME SlotInv, step = "none", step' = step, UNCHANGED <<taken, key, given>>,
           NEW m, NEW b, slot' = m, type' = TRUE, last' = m,
           raced' = (key # "idle" \/ b), task'["send"].on
    PROVE  SlotInv'
  BY DEF SlotInv, InSlot

LEMMA SchedulerSlot ==
    ASSUME NestInv, SlotInv, Setup \/ Begin \/ PassOver \/ End
    PROVE  SlotInv'
  <1>1. UNCHANGED <<step, slot, type, taken, last, raced, key, given>>
    BY DEF Setup, Begin, PassOver, End, sending, sender, hvars, mvars
  <1>2. task'["send"].on = task["send"].on
    BY SetupNest, PassOverNest, EndNest DEF Begin
  <1> QED
    BY <1>1, <1>2, QuietSlot

LEMMA CallbackSlot ==
    ASSUME NestInv, SlotInv,
           \/ Reconnect \/ ReconnectStop \/ RunConnect \/ RunCheck
           \/ \E n \in Notes : RunNew(n) \/ RunChanged(n)
    PROVE  SlotInv'
  <1>1. UNCHANGED <<step, slot, type, taken, last, raced, key, given>>
    BY DEF Reconnect, ReconnectStop, RunConnect, RunCheck, RunNew, RunChanged,
           sending, sender, hvars, mvars
  <1>2. task'["send"].on = task["send"].on
    BY ReconnectNest, RunConnectNest, RunCheckNest, RunNoteNest
  <1> QED
    BY <1>1, <1>2, QuietSlot

LEMMA NetworkSlot ==
    ASSUME NestInv, SlotInv,
           \/ Accept \/ LinkDown \/ Wait \/ EventGive \/ LinkCleared \/ UNCHANGED vars
           \/ \E p \in Packets : Arrive(p)
    PROVE  SlotInv'
  <1>1. UNCHANGED <<step, slot, type, taken, last, raced, key, given>>
    BY DEF Accept, LinkDown, Wait, EventGive, LinkCleared, Arrive, vars,
           sending, sender, hvars, mvars
  <1>2. task'["send"].on = task["send"].on
    BY AcceptNest, LinkDownNest, WaitNest, ArriveNest, IdleNest
  <1> QED
    BY <1>1, <1>2, QuietSlot

LEMMA LoopSendSlot ==
    ASSUME NestInv, SlotInv, NEW m, RunShare(m) \/ RunRead(m)
    PROVE  SlotInv'
  <1>1. UNCHANGED <<step, taken, key, given>>
    BY DEF RunShare, RunRead, sender
  <1>2. CASE RunShare(m)
    <2>1. step = "none"
      BY <1>2, RunShareNest
    <2>2. \/ /\ slot' = m /\ type' = TRUE /\ last' = m /\ task'["send"].on
             /\ raced' = (key # "idle" \/ (raced /\ After("share")["send"].on))
          \/ task'["send"].on = task["send"].on /\ UNCHANGED <<slot, type, last, raced>>
      BY <1>2, RunShareNest
    <2> QED
      BY <1>1, <2>1, <2>2, QuietSlot, SentByLoop
  <1>3. CASE RunRead(m)
    <2>1. step = "none"
      BY <1>3, RunReadNest
    <2>2. \/ /\ slot' = m /\ type' = TRUE /\ last' = m /\ task'["send"].on
             /\ raced' = (key # "idle" \/ (raced /\ After("read")["send"].on))
          \/ task'["send"].on = task["send"].on /\ UNCHANGED <<slot, type, last, raced>>
      BY <1>3, RunReadNest
    <2> QED
      BY <1>1, <2>1, <2>2, QuietSlot, SentByLoop
  <1> QED
    BY <1>2, <1>3

(* Mesh__SendByTask: what it takes is the message the slot held.           *)
LEMMA TaskSlot ==
    ASSUME NestInv, SlotInv, RunSend \/ SendType \/ SendClear \/ SendDone
    PROVE  SlotInv'
  <1>1. CASE RunSend
    <2>1. /\ step = "none" /\ step' = "type" /\ taken' = <<slot, FALSE>>
          /\ raced' = (raced \/ key # "idle")
          /\ UNCHANGED <<slot, type, last, key, given>>
      BY <1>1, ScanningShape DEF RunSend, Take, sender
    <2> QED
      BY <2>1 DEF SlotInv, InSlot, InHand
  <1>2. CASE SendType
    <2>1. /\ step = "type" /\ step' = "clear" /\ taken' = <<taken[1], type>>
          /\ UNCHANGED <<slot, type, last, raced, key, given>>
      BY <1>2 DEF SendType, sender, hvars
    <2> QED
      BY <2>1 DEF SlotInv, InHand
  <1>3. CASE SendClear
    <2>1. /\ step = "clear" /\ step' = "done"
          /\ UNCHANGED <<type, taken, last, raced, key, given>>
      BY <1>3 DEF SendClear, sender, hvars
    <2> QED
      BY <2>1 DEF SlotInv, InHand
  <1>4. CASE SendDone
    <2>1. /\ step = "done" /\ step' = "none" /\ type' = FALSE
          /\ last' = IF taken = <<last, TRUE>> THEN Empty ELSE last
          /\ taken' = <<Empty, FALSE>>
          /\ UNCHANGED <<raced, key, given>>
      BY <1>4 DEF SendDone, sender
    <2>2. last # Empty /\ ~ raced => taken = <<last, TRUE>>
      BY <2>1 DEF SlotInv, InHand
    <2>3. last' # Empty => raced'
      BY <2>1, <2>2
    <2>4. ~ raced => key = "idle"
      BY <2>1 DEF SlotInv
    <2> QED
      BY <2>1, <2>3, <2>4 DEF SlotInv
  <1> QED
    BY <1>1, <1>2, <1>3, <1>4

(* Mesh__Send from the key task, a store at a time.                        *)
LEMMA KeySlot ==
    ASSUME NestInv, SlotInv,
           KeyData \/ KeyType \/ KeyEnable \/ KeyForce \/ \E m \in Msgs : KeySend(m)
    PROVE  SlotInv'
  <1>1. CASE \E m \in Msgs : KeySend(m)
    <2>1. /\ key' = "data" /\ raced' = (step # "none" \/ (raced /\ task["send"].on))
          /\ UNCHANGED <<step, type, taken>>
      BY <1>1 DEF KeySend
    <2> QED
      BY <2>1 DEF SlotInv
  <1>2. CASE KeyData
    <2>1. /\ key = "data" /\ key' = "type" /\ slot' = given
          /\ UNCHANGED <<step, type, taken, last, raced, given>>
      BY <1>2 DEF KeyData, hvars
    <2> QED
      BY <2>1 DEF SlotInv
  <1>3. CASE KeyType
    <2>1. /\ key = "type" /\ key' = "enable" /\ type' = TRUE
          /\ UNCHANGED <<step, slot, taken, last, raced, given>>
      BY <1>3 DEF KeyType, hvars
    <2> QED
      BY <2>1 DEF SlotInv
  <1>4. CASE KeyEnable
    <2>1. /\ key = "enable" /\ key' = "force" /\ task'["send"].on
          /\ UNCHANGED <<step, slot, type, taken, last, raced, given>>
      BY <1>4, KeyEnableNest DEF KeyEnable, hvars
    <2> QED
      BY <2>1 DEF SlotInv
  <1>5. CASE KeyForce
    <2>1. /\ key = "force" /\ key' = "idle" /\ last' = given
          /\ task'["send"].on = task["send"].on
          /\ UNCHANGED <<step, slot, type, taken, raced>>
      BY <1>5, KeyForceNest DEF KeyForce
    <2> QED
      BY <2>1 DEF SlotInv, InSlot
  <1> QED
    BY <1>1, <1>2, <1>3, <1>4, <1>5

LEMMA NextSlot == NestInv /\ SlotInv /\ [Next]_vars => SlotInv'
  <1> SUFFICES ASSUME NestInv, SlotInv, [Next]_vars
               PROVE  SlotInv'
    OBVIOUS
  <1>1. CASE Restarts
    BY <1>1, RestartSlot DEF Restarts, GiveFails, StopCrash, RunReboot, PowerCut
  <1>2. CASE Setup \/ Begin \/ PassOver \/ End
    BY <1>2, SchedulerSlot
  <1>3. CASE \/ Reconnect \/ ReconnectStop \/ RunConnect \/ RunCheck
             \/ \E n \in Notes : RunNew(n) \/ RunChanged(n)
    BY <1>3, CallbackSlot
  <1>4. CASE RunSend \/ SendType \/ SendClear \/ SendDone
    BY <1>4, TaskSlot
  <1>5. CASE \E m \in Msgs : RunShare(m) \/ RunRead(m)
    BY <1>5, LoopSendSlot
  <1>6. CASE KeyData \/ KeyType \/ KeyEnable \/ KeyForce \/ \E m \in Msgs : KeySend(m)
    BY <1>6, KeySlot
  <1>7. CASE \/ Accept \/ LinkDown \/ Wait \/ EventGive \/ LinkCleared \/ UNCHANGED vars
             \/ \E p \in Packets : Arrive(p)
    BY <1>7, NetworkSlot
  <1> QED
    BY <1>1, <1>2, <1>3, <1>4, <1>5, <1>6, <1>7
    DEF Next, Loop, Callback, Key, Network, Restarts

(* Data and type are shared by the key task, the loop and the task that    *)
(* sends (mesh.h:84-141): a message whose calls do not overlap another's   *)
(* is taken whole, for any number of threads' turns in between.            *)
THEOREM MessagesAreTaken == Spec => []SlotDelivers
  <1>1. Init => SlotInv
    <2> SUFFICES ASSUME Init
                 PROVE  SlotInv
      OBVIOUS
    <2>1. /\ taken = <<Empty, FALSE>> /\ type = FALSE /\ step = "none"
          /\ key = "idle" /\ last = Empty
      BY DEF Init
    <2> QED
      BY <2>1 DEF SlotInv
  <1>2. SlotInv => SlotDelivers
    BY DEF SlotInv, SlotDelivers, InSlot, InHand
  <1> QED
    BY <1>1, <1>2, InitNest, NextNest, NextSlot, PTL DEF Spec

-----------------------------------------------------------------------------
(***************************************************************************)
(* The chain: what deleting and adding tasks make of it.                   *)
(***************************************************************************)

(* Deleting by steps: what is kept of the first i tasks of a chain.        *)
Keeps(f, n, s, D) ==
    f = [i \in 0 .. n |->
            IF i = 0 THEN <<>>
            ELSE IF s[i] \in D THEN f[i - 1] ELSE Append(f[i - 1], s[i])]

LEMMA KeepsExists ==
    ASSUME NEW s, NEW D, NEW n \in Nat
    PROVE  \E f : Keeps(f, n, s, D)
  <1> DEFINE Bad == {k \in Nat : ~ \E f : Keeps(f, k, s, D)}
  <1>1. SUFFICES ASSUME Bad # {} PROVE FALSE
    OBVIOUS
  <1>2. PICK k \in Bad : \A j \in Bad : k <= j
    BY <1>1, FirstOfMany
  <1>3. k # 0
    <2>1. Keeps([i \in 0 .. 0 |-> <<>>], 0, s, D)
      BY DEF Keeps
    <2> QED
      BY <1>2, <2>1
  <1>4. k \in Nat /\ k - 1 \in Nat /\ k - 1 \notin Bad
    BY <1>2, <1>3
  <1>5. PICK g : Keeps(g, k - 1, s, D)
    BY <1>4
  <1> DEFINE h == [i \in 0 .. k |->
                      IF i = 0 THEN <<>>
                      ELSE IF s[i] \in D THEN g[i - 1] ELSE Append(g[i - 1], s[i])]
  <1>6. \A i \in 0 .. k - 1 : i \in 0 .. k /\ h[i] = g[i]
    <2>1. \A i \in 0 .. k - 1 : i \in 0 .. k
      BY <1>4
    <2>2. \A i \in 0 .. k - 1 :
              g[i] = IF i = 0 THEN <<>>
                     ELSE IF s[i] \in D THEN g[i - 1] ELSE Append(g[i - 1], s[i])
      BY <1>5 DEF Keeps
    <2> QED
      BY <2>1, <2>2
  <1>7. h = [i \in 0 .. k |->
                IF i = 0 THEN <<>>
                ELSE IF s[i] \in D THEN g[i - 1] ELSE Append(g[i - 1], s[i])]
    OBVIOUS
  <1> HIDE DEF h
  <1>8. \A i \in 0 .. k : i # 0 => i - 1 \in 0 .. k - 1
    BY <1>4
  <1>9. \A i \in 0 .. k : i # 0 => h[i - 1] = g[i - 1]
    BY <1>6, <1>8
  <1>10. h = [i \in 0 .. k |->
                IF i = 0 THEN <<>>
                ELSE IF s[i] \in D THEN h[i - 1] ELSE Append(h[i - 1], s[i])]
    BY <1>7, <1>9
  <1> QED
    BY <1>2, <1>10 DEF Keeps

LEMMA WithoutIs ==
    ASSUME NEW s, NEW D, Len(s) \in Nat
    PROVE  \E f : Keeps(f, Len(s), s, D) /\ Without(s, D) = f[Len(s)]
  <1> DEFINE f == CHOOSE g : Keeps(g, Len(s), s, D)
  <1>1. Keeps(f, Len(s), s, D)
    BY KeepsExists
  <1>2. Without(s, D) = f[Len(s)]
    BY DEF Without, Keeps
  <1> QED
    BY <1>1, <1>2

(* Deleting the tasks of D keeps the others, in their order.               *)
LEMMA WithoutKeeps ==
    ASSUME NEW S, NEW s \in Seq(S), NEW D
    PROVE  LET r == Without(s, D)
           IN  /\ r \in Seq(S)
               /\ \A x : (\E i \in 1 .. Len(s) : s[i] = x) /\ x \notin D
                           <=> \E i \in 1 .. Len(r) : r[i] = x
               /\ (\A i, j \in 1 .. Len(s) : s[i] = s[j] => i = j)
                      => \A i, j \in 1 .. Len(r) : r[i] = r[j] => i = j
               /\ \A n \in 0 .. Len(s) :
                      (\A i \in 1 .. n : s[i] \notin D)
                         => Len(r) >= n /\ \A i \in 1 .. n : r[i] = s[i]
  <1> DEFINE Distinct == \A i, j \in 1 .. Len(s) : s[i] = s[j] => i = j
             Same(q, n) == Len(q) >= n /\ \A i \in 1 .. n : q[i] = s[i]
             Is(q, k) ==
        /\ q \in Seq(S) /\ Len(q) <= k
        /\ \A x : (\E i \in 1 .. k : s[i] = x) /\ x \notin D
                    <=> \E i \in 1 .. Len(q) : q[i] = x
        /\ Distinct => \A i, j \in 1 .. Len(q) : q[i] = q[j] => i = j
        /\ \A n \in 0 .. k : (\A i \in 1 .. n : s[i] \notin D) => Same(q, n)
  <1>1. Len(s) \in Nat /\ \A i \in 1 .. Len(s) : s[i] \in S
    BY LenProperties, ElementOfSeq
  <1>2. PICK f : Keeps(f, Len(s), s, D) /\ Without(s, D) = f[Len(s)]
    BY <1>1, WithoutIs
  <1>3. \A k \in 0 .. Len(s) :
            f[k] = IF k = 0 THEN <<>>
                   ELSE IF s[k] \in D THEN f[k - 1] ELSE Append(f[k - 1], s[k])
    BY <1>1, <1>2 DEF Keeps
  <1>4. Is(f[0], 0)
    <2>1. f[0] = <<>>
      BY <1>1, <1>3
    <2> QED
      BY <2>1, EmptySeq
  <1>5. ASSUME NEW k \in 1 .. Len(s), Is(f[k - 1], k - 1), s[k] \in D
        PROVE  Is(f[k], k)
    <2>1. f[k] = f[k - 1] /\ k \in Nat \ {0}
      BY <1>1, <1>3, <1>5
    <2>2. \A i \in 1 .. k : i = k \/ i \in 1 .. k - 1
      BY <2>1
    <2>3. \A i \in 1 .. k - 1 : i \in 1 .. k
      BY <2>1
    <2>4. \A n \in 0 .. k : (\A i \in 1 .. n : s[i] \notin D) => n \in 0 .. k - 1
      <3> TAKE n \in 0 .. k
      <3>1. n = k => k \in 1 .. n
        BY <2>1
      <3>2. n # k => n \in 0 .. k - 1
        BY <2>1
      <3> QED
        BY <1>5, <3>1, <3>2
    <2> DEFINE q == f[k - 1]
    <2>5. /\ q \in Seq(S) /\ Len(q) <= k - 1
          /\ \A x : (\E i \in 1 .. k - 1 : s[i] = x) /\ x \notin D
                      <=> \E i \in 1 .. Len(q) : q[i] = x
          /\ Distinct => \A i, j \in 1 .. Len(q) : q[i] = q[j] => i = j
          /\ \A n \in 0 .. k - 1 : (\A i \in 1 .. n : s[i] \notin D) => Same(q, n)
      BY <1>5
    <2> HIDE DEF Distinct, Same, q
    <2>6. Len(q) <= k
      <3>1. Len(q) \in Nat
        BY <2>5, LenProperties
      <3> QED
        BY <2>1, <2>5, <3>1
    <2>7. \A x : (\E i \in 1 .. k : s[i] = x) /\ x \notin D
                  <=> \E i \in 1 .. Len(q) : q[i] = x
      BY <1>5, <2>2, <2>3, <2>5
    <2>8. \A n \in 0 .. k : (\A i \in 1 .. n : s[i] \notin D) => Same(q, n)
      BY <2>4, <2>5
    <2>9. Is(q, k)
      BY <2>5, <2>6, <2>7, <2>8
    <2> HIDE DEF Is
    <2> QED
      BY <2>1, <2>9 DEF q
  <1>6. ASSUME NEW k \in 1 .. Len(s), Is(f[k - 1], k - 1), s[k] \notin D
        PROVE  Is(f[k], k)
    <2> DEFINE q == f[k - 1]
               m == Len(q)
               e == s[k]
               r == Append(q, e)
    <2>1. f[k] = r /\ k \in Nat \ {0} /\ k \in 0 .. Len(s)
      <3>1. k \in 0 .. Len(s) /\ k # 0
        BY <1>1
      <3>2. s[k] \notin D
        BY <1>6
      <3>3. f[k] = r
        BY <1>3, <3>1, <3>2, Zenon
      <3> QED
        BY <3>1, <3>3
    <2>2. /\ q \in Seq(S) /\ m \in Nat /\ e \in S /\ m <= k - 1
          /\ \A x : (\E i \in 1 .. k - 1 : s[i] = x) /\ x \notin D <=> \E i \in 1 .. m : q[i] = x
          /\ Distinct => \A i, j \in 1 .. m : q[i] = q[j] => i = j
          /\ \A n \in 0 .. k - 1 : (\A i \in 1 .. n : s[i] \notin D) => Same(q, n)
      BY <1>1, <1>6, LenProperties
    <2>3. \A n \in 0 .. k - 1 : (\A i \in 1 .. n : s[i] \notin D)
                                   => m >= n /\ \A i \in 1 .. n : q[i] = s[i]
      BY <2>2
    <2> HIDE DEF q
    <2>4. /\ r \in Seq(S) /\ Len(r) = m + 1 /\ r[m + 1] = e
          /\ \A i \in 1 .. m : r[i] = q[i]
      BY <2>2, AppendProperties
    <2> HIDE DEF r, m, Distinct, Same
    <2>5. \A i \in 1 .. m + 1 : i = m + 1 \/ i \in 1 .. m
      BY <2>2
    <2>6. m + 1 \in 1 .. m + 1 /\ \A i \in 1 .. m : i \in 1 .. m + 1
      BY <2>2
    <2>7. /\ \A i \in 1 .. k : i = k \/ i \in 1 .. k - 1
          /\ k \in 1 .. k /\ \A i \in 1 .. k - 1 : i \in 1 .. k
      BY <2>1
    <2>8. \A x : (\E i \in 1 .. k : s[i] = x) /\ x \notin D <=> \E i \in 1 .. m + 1 : r[i] = x
      <3> TAKE x
      <3>1. CASE x = e
        BY <1>6, <2>4, <2>6, <2>7, <3>1
      <3>2. CASE x # e
        <4>1. (\E i \in 1 .. k : s[i] = x) <=> \E i \in 1 .. k - 1 : s[i] = x
          BY <2>7, <3>2
        <4>2. (\E i \in 1 .. m + 1 : r[i] = x) <=> \E i \in 1 .. m : q[i] = x
          BY <2>4, <2>5, <2>6, <3>2
        <4> QED
          BY <2>2, <4>1, <4>2
      <3> QED
        BY <3>1, <3>2
    <2>9. ASSUME Distinct, NEW i \in 1 .. m + 1, NEW j \in 1 .. m + 1, r[i] = r[j]
          PROVE  i = j
      <3>1. \A h \in 1 .. m : q[h] # e
        <4>1. SUFFICES ASSUME NEW h \in 1 .. m, q[h] = e PROVE FALSE
          OBVIOUS
        <4>2. PICK g \in 1 .. k - 1 : s[g] = e
          BY <2>2, <4>1
        <4>3. g \in 1 .. Len(s) /\ g # k
          BY <1>1, <4>2
        <4> QED
          BY <2>9, <4>2, <4>3 DEF Distinct
      <3> QED
        BY <2>2, <2>4, <2>5, <2>9, <3>1
    <2>10. ASSUME NEW n \in 0 .. k, \A i \in 1 .. n : s[i] \notin D
           PROVE  m + 1 >= n /\ \A i \in 1 .. n : r[i] = s[i]
      <3>1. CASE n # k
        <4>1. n \in 0 .. k - 1 /\ n \in Nat
          BY <2>1, <3>1
        <4>2. m >= n /\ \A i \in 1 .. n : q[i] = s[i]
          BY <2>3, <2>10, <4>1
        <4>3. \A i \in 1 .. n : i \in 1 .. m
          BY <2>2, <4>1, <4>2
        <4>4. m + 1 >= n
          BY <2>2, <4>1, <4>2
        <4> QED
          BY <2>4, <4>2, <4>3, <4>4
      <3>2. CASE n = k
        <4>1. \A i \in 1 .. k - 1 : s[i] \notin D
          BY <2>7, <2>10, <3>2
        <4>2. k - 1 \in 0 .. k - 1
          BY <2>1
        <4>3. m >= k - 1 /\ \A i \in 1 .. k - 1 : q[i] = s[i]
          BY <2>3, <4>1, <4>2
        <4>4. m = k - 1 /\ m + 1 = k
          BY <2>1, <2>2, <4>3
        <4>5. r[k] = s[k] /\ \A i \in 1 .. k - 1 : r[i] = s[i]
          BY <2>4, <4>3, <4>4
        <4> QED
          BY <2>1, <2>7, <3>2, <4>4, <4>5
      <3> QED
        BY <3>1, <3>2
    <2>11. /\ m + 1 <= k
           /\ Distinct => \A i, j \in 1 .. m + 1 : r[i] = r[j] => i = j
           /\ \A n \in 0 .. k : (\A i \in 1 .. n : s[i] \notin D) => Same(r, n)
      <3>1. m + 1 <= k
        BY <2>1, <2>2
      <3>2. Distinct => \A i, j \in 1 .. m + 1 : r[i] = r[j] => i = j
        BY <2>9
      <3>3. \A n \in 0 .. k : (\A i \in 1 .. n : s[i] \notin D) => Same(r, n)
        BY <2>4, <2>10 DEF Same
      <3> QED
        BY <3>1, <3>2, <3>3
    <2>12. Is(r, k)
      BY <2>4, <2>8, <2>11
    <2> HIDE DEF Is
    <2> QED
      BY <2>1, <2>12
  <1> DEFINE Bad == {k \in 0 .. Len(s) : ~ Is(f[k], k)}
  <1> HIDE DEF Is
  <1>7. Bad = {}
    <2>1. SUFFICES ASSUME Bad # {} PROVE FALSE
      OBVIOUS
    <2>2. Bad \in SUBSET Nat
      BY <1>1
    <2>3. PICK k \in Bad : \A j \in Bad : k <= j
      BY <2>1, <2>2, FirstOfMany
    <2>4. k # 0
      BY <1>4, <2>3
    <2>5. k \in 1 .. Len(s) /\ k - 1 \in 0 .. Len(s) /\ ~ (k <= k - 1)
      BY <1>1, <2>3, <2>4
    <2>6. Is(f[k - 1], k - 1)
      BY <2>3, <2>5
    <2> QED
      BY <1>5, <1>6, <2>3, <2>5, <2>6
  <1>8. Is(f[Len(s)], Len(s))
    BY <1>1, <1>7
  <1> QED
    BY <1>2, <1>8 DEF Is

-----------------------------------------------------------------------------
(***************************************************************************)
(* The further invariants.                                                 *)
(***************************************************************************)

(* The tasks that keep the node alive, and those that lead the chain.      *)
Core == {"reboot", "connect", "check"}
First4 == {"reboot", "connect", "send", "check"}

Has(c, t) == \E i \in 1 .. Len(c) : c[i] = t
Line(c) ==
    /\ c \in Seq(Tasks)
    /\ \A i, j \in 1 .. Len(c) : c[i] = c[j] => i = j
Leading(c) ==
    /\ Len(c) >= 4
    /\ c[1] = "reboot" /\ c[2] = "connect" /\ c[3] = "send" /\ c[4] = "check"

(* Nothing is enabled before the setup, nor used outside the loop.         *)
ChainInv ==
    /\ Line(chain)
    /\ \A t \in Tasks : task[t].on => Has(chain, t)
    /\ \A t \in Core : task[t].left = -1
    /\ Running => Leading(chain)
    /\ pc = "setup" => \A t \in Tasks : ~ task[t].on
    /\ connected \/ key # "idle" => Running

(* What is not connected any more was so for no longer than the check      *)
(* waits to be run.                                                        *)
StaleInv ==
    /\ stale \in Nat
    /\ ~ Running => stale = 0
    /\ Running => /\ task["check"].on
                  /\ stale <= task["check"].age /\ stale <= Interval["check"]
                  /\ task["check"].wait <= Interval["check"]

(* A restart or a reconnect that is asked for is due at once, and every    *)
(* pass in progress has it still before it, or the whole chain behind it:  *)
(* the pass a reconnect was begun from is past the four.                   *)
Punctual(r) == r.on => r.age >= r.wait

OrderInv ==
    /\ passes \in Seq(Tasks \cup {None})
    /\ Punctual(task["reboot"]) /\ Punctual(task["connect"])
    /\ Outer => passes[1] \notin First4
    /\ task["reboot"].on =>
          \A i \in 1 .. Len(passes) : passes[i] \notin {"connect", "send", "check"}
    /\ task["connect"].on =>
          \A i \in 1 .. Len(passes) : passes[i] \notin {"send", "check"}

(* A restart is asked for when the counter of the reconnects is used up;   *)
(* after the second miss it, or a reconnect, is on its way.                *)
CountInv ==
    /\ missed \in 0 .. 3 /\ needReset \in 0 .. MissTimeout + 2
    /\ needReset > MissTimeout => task["reboot"].on
    /\ ~ Outer /\ ~ task["connect"].on => missed <= 2 /\ (missed = 2 => task["reboot"].on)
    /\ Len(passes) = 2 /\ passes[2] \in First4 => missed <= 2

ShareInv ==     \* the counters end where the task disables itself
    /\ count \in 0 .. 11 /\ alone \in 0 .. 7
    /\ pc = "setup" => count = 0 /\ alone = 0
    /\ task["share"].on => count <= 6 /\ alone <= 6

(* A chain that only gained tasks, behind the ones that lead it.           *)
Longer(c, d) ==
    /\ Line(d)
    /\ \A t : Has(c, t) => Has(d, t)
    /\ Leading(c) => Leading(d)

LEMMA LongerWith ==
    ASSUME NEW c, Line(c), NEW t \in Tasks
    PROVE  Longer(c, With(c, t)) /\ Has(With(c, t), t)
  <1> DEFINE n == Len(c)
             d == Append(c, t)
  <1>1. c \in Seq(Tasks) /\ n \in Nat /\ DOMAIN c = 1 .. n
    BY LenProperties DEF Line
  <1>2. Contains(c, t) <=> Has(c, t)
    BY <1>1 DEF Contains, Has
  <1>3. CASE Has(c, t)
    <2>1. With(c, t) = c
      BY <1>2, <1>3 DEF With
    <2> QED
      BY <1>3, <2>1 DEF Longer
  <1>4. CASE ~ Has(c, t)
    <2>1. With(c, t) = d
      BY <1>2, <1>4 DEF With
    <2>2. /\ d \in Seq(Tasks) /\ Len(d) = n + 1 /\ d[n + 1] = t
          /\ \A i \in 1 .. n : d[i] = c[i]
      BY <1>1, Pushed
    <2> HIDE DEF d
    <2>3. \A i \in 1 .. n + 1 : i = n + 1 \/ i \in 1 .. n
      BY <1>1
    <2>4. n + 1 \in 1 .. n + 1 /\ \A i \in 1 .. n : i \in 1 .. n + 1
      BY <1>1
    <2>5. \A i, j \in 1 .. n : c[i] = c[j] => i = j
      BY DEF Line
    <2>6. \A i \in 1 .. n : c[i] # t
      BY <1>4 DEF Has
    <2>7. \A i, j \in 1 .. n + 1 : d[i] = d[j] => i = j
      BY <2>2, <2>3, <2>5, <2>6
    <2>8. Line(d)
      BY <2>2, <2>7 DEF Line
    <2>9. /\ Has(d, t)
          /\ \A u : Has(c, u) => Has(d, u)
      BY <2>2, <2>4 DEF Has
    <2>10. Leading(c) => Leading(d)
      <3>1. n >= 4 => {1, 2, 3, 4} \subseteq 1 .. n /\ n + 1 >= 4
        BY <1>1
      <3> QED
        BY <2>2, <3>1 DEF Leading
    <2> QED
      BY <2>1, <2>8, <2>9, <2>10 DEF Longer
  <1> QED
    BY <1>3, <1>4

LEMMA LongerSame ==
    ASSUME NEW c, Line(c)
    PROVE  Longer(c, c)
  BY DEF Longer

LEMMA LongerTwice ==
    ASSUME NEW c, NEW d, NEW e, Longer(c, d), Longer(d, e)
    PROVE  Longer(c, e)
  BY DEF Longer

(* stop() deletes none of the tasks that lead the chain.                   *)
LEMMA ShorterWithout ==
    ASSUME NEW c, Line(c), NEW D
    PROVE  /\ Line(Without(c, D))
           /\ \A t : Has(Without(c, D), t) <=> Has(c, t) /\ t \notin D
           /\ Leading(c) /\ First4 \cap D = {} => Leading(Without(c, D))
  <1> DEFINE d == Without(c, D)
  <1>1. c \in Seq(Tasks) /\ Len(c) \in Nat
    BY LenProperties DEF Line
  <1>2. /\ d \in Seq(Tasks)
        /\ \A x : (\E i \in 1 .. Len(c) : c[i] = x) /\ x \notin D
                    <=> \E i \in 1 .. Len(d) : d[i] = x
        /\ (\A i, j \in 1 .. Len(c) : c[i] = c[j] => i = j)
               => \A i, j \in 1 .. Len(d) : d[i] = d[j] => i = j
        /\ \A n \in 0 .. Len(c) :
               (\A i \in 1 .. n : c[i] \notin D)
                  => Len(d) >= n /\ \A i \in 1 .. n : d[i] = c[i]
    BY <1>1, WithoutKeeps
  <1> HIDE DEF d
  <1>3. ASSUME Leading(c), First4 \cap D = {}
        PROVE  Leading(d)
    <2>1. 4 \in 0 .. Len(c) /\ \A i \in 1 .. 4 : i \in {1, 2, 3, 4}
      BY <1>1, <1>3 DEF Leading
    <2>2. \A i \in 1 .. 4 : c[i] \notin D
      BY <1>3, <2>1 DEF Leading, First4
    <2>3. Len(d) >= 4 /\ \A i \in 1 .. 4 : d[i] = c[i]
      BY <1>2, <2>1, <2>2
    <2>4. 1 \in 1 .. 4 /\ 2 \in 1 .. 4 /\ 3 \in 1 .. 4 /\ 4 \in 1 .. 4
      OBVIOUS
    <2> QED
      BY <1>3, <2>3, <2>4 DEF Leading
  <1>4. Line(d)
    BY <1>2 DEF Line
  <1>5. \A t : Has(d, t) <=> Has(c, t) /\ t \notin D
    BY <1>2 DEF Has
  <1> QED
    BY <1>3, <1>4, <1>5 DEF d

-----------------------------------------------------------------------------
(* What a step may do to the chain and the tasks: the chain gains tasks,   *)
(* what it enables is in the chain, and of the three tasks that keep the   *)
(* node alive it changes those of D only.                                  *)
Grows(D) ==
    /\ Longer(chain, chain')
    /\ \A t \in Tasks : task'[t].on => task[t].on \/ Has(chain', t)
    /\ \A t \in Core \ D : task'[t] = task[t]

Goes ==
    /\ pc' = pc \/ (Running /\ Running')
    /\ connected' => connected \/ Running
    /\ key' # "idle" => key # "idle" \/ Running
    /\ pc = "setup" => task' = task

LEMMA ChainKept ==
    ASSUME ChainInv, Goes, NEW D, Grows(D), \A t \in D : task'[t].left = -1
    PROVE  ChainInv'
  <1>1. Line(chain') /\ \A t : Has(chain, t) => Has(chain', t)
    BY DEF Grows, Longer
  <1>2. \A t \in Tasks : task'[t].on => Has(chain', t)
    BY <1>1 DEF Grows, ChainInv
  <1>3. \A t \in Core : task'[t].left = -1
    BY DEF Grows, ChainInv
  <1>4. Running' => Running
    BY DEF Goes, Running
  <1>5. Running' => Leading(chain')
    BY <1>4 DEF Grows, Longer, ChainInv
  <1>6. pc' = "setup" => pc = "setup"
    BY DEF Goes, Running
  <1>7. pc' = "setup" => \A t \in Tasks : ~ task'[t].on
    BY <1>6 DEF Goes, ChainInv
  <1>8. Running => Running'
    BY DEF Goes, Running
  <1>9. connected' \/ key' # "idle" => Running'
    BY <1>8 DEF Goes, ChainInv
  <1> QED
    BY <1>1, <1>2, <1>3, <1>5, <1>7, <1>9 DEF ChainInv

LEMMA CoreTasks ==
    /\ Core \subseteq Tasks /\ Core \cap Notes = {} /\ First4 \cap Notes = {}
    /\ "read" \notin Core /\ "share" \notin Core /\ "send" \notin Core
    /\ First4 \subseteq Tasks
    /\ \A t \in Core : Times[t] = -1
    /\ None \notin First4
  BY MeshAssumption, TasksAssumption DEF Core, First4, Fixed

(* Steps that add no task to the chain, and enable only what is in it.     *)
LEMMA GrowsSame ==
    ASSUME ChainInv, chain' = chain, NEW D,
           \A t \in Tasks : task'[t].on => task[t].on \/ Has(chain, t),
           \A t \in Core \ D : task'[t] = task[t]
    PROVE  Grows(D)
  BY LongerSame DEF Grows, ChainInv

LEMMA InLine ==
    ASSUME ChainInv, Running, NEW t \in First4
    PROVE  Has(chain, t)
  <1>1. Len(chain) \in Nat
    BY LenProperties DEF ChainInv, Line
  <1>2. 1 \in 1 .. Len(chain) /\ 2 \in 1 .. Len(chain)
        /\ 3 \in 1 .. Len(chain) /\ 4 \in 1 .. Len(chain)
    BY <1>1 DEF ChainInv, Leading
  <1> QED
    BY <1>2 DEF ChainInv, Leading, Has, First4

-----------------------------------------------------------------------------
(* A change of the table at one task leaves the others alone.              *)
LEMMA SetAt ==
    ASSUME NEW tab, Table(tab), NEW t, NEW r
    PROVE  \A u \in Tasks : u # t => [tab EXCEPT ![t] = r][u] = tab[u]
  BY DEF Table

LEMMA AfterAll ==
    ASSUME Table(task), NEW t \in Tasks
    PROVE  /\ \A u \in Tasks : u # t => After(t)[u] = task[u]
           /\ After(t)[t] = Ran(t, task[t])
           /\ \A u \in Tasks : After(t)[u].on = task[u].on
  <1>1. \A u \in Tasks : u # t => After(t)[u] = task[u]
    BY SetAt DEF After
  <1>2. After(t)[t] = Ran(t, task[t])
    BY DEF After, Table
  <1>3. task[t] \in Record
    BY DEF Table
  <1>4. Ran(t, task[t]).on = task[t].on
    BY <1>3, RecordOf
  <1> QED
    BY <1>1, <1>2, <1>4

LEMMA SchedulerGrows ==
    ASSUME NestInv, ChainInv, Begin \/ PassOver \/ End
    PROVE  Grows({}) /\ chain' = chain /\ Goes
  <1>1. chain' = chain
    BY DEF Begin, PassOver, End, Skip, Expire, EndPass
  <1>2. ASSUME Begin \/ (PassOver /\ Skip) \/ End
        PROVE  Grows({})
    <2>1. task' = task
      BY <1>2 DEF Begin, PassOver, End, Skip, EndPass
    <2> QED
      BY <1>1, <2>1, GrowsSame
  <1>3. ASSUME PassOver, Expire
        PROVE  Grows({})
    <2>1. task' = [task EXCEPT ![Top] = Disabled(task[Top])] /\ task[Top].left = 0
      BY <1>3 DEF Expire, UsedUp
    <2>2. Top \notin Core
      BY <2>1 DEF ChainInv
    <2>3. \A u \in Tasks : u # Top => task'[u] = task[u]
      BY <2>1, SetAt DEF NestInv, Typed
    <2>4. Top \in Tasks => ~ task'[Top].on
      <3> SUFFICES ASSUME Top \in Tasks PROVE ~ task'[Top].on
        OBVIOUS
      <3>1. task[Top] \in Record /\ task'[Top] = Disabled(task[Top])
        BY <2>1 DEF NestInv, Typed, Table
      <3> QED
        BY <3>1, RecordOf
    <2>5. \A t \in Tasks : task'[t].on => task[t].on
      BY <2>3, <2>4
    <2> HIDE DEF ChainInv
    <2> QED
      BY <1>1, <2>2, <2>3, <2>5, CoreTasks, GrowsSame
  <1>4. Goes
    BY DEF Begin, PassOver, End, Goes, Running, node, sender, mvars
  <1> QED
    BY <1>1, <1>2, <1>3, <1>4 DEF PassOver

LEMMA NoteGrows ==
    ASSUME NestInv, ChainInv, NEW n \in Notes, RunNew(n) \/ RunChanged(n)
    PROVE  Grows({}) /\ chain' = chain /\ Goes
  <1>1. chain' = chain /\ task' = After(n) /\ Table(task) /\ n \in Tasks /\ n \notin Core
    BY TasksApart, CoreTasks DEF RunNew, RunChanged, NestInv, Typed
  <1>2. \A t \in Tasks : task'[t].on => task[t].on
    BY <1>1, AfterAll
  <1>3. \A t \in Core : task'[t] = task[t]
    BY <1>1, AfterAll, CoreTasks
  <1>4. Goes
    BY DEF RunNew, RunChanged, Goes, Running, sender
  <1> QED
    BY <1>1, <1>2, <1>3, <1>4, GrowsSame

LEMMA SendGrows ==
    ASSUME NestInv, ChainInv, RunSend \/ SendType \/ SendClear \/ SendDone
    PROVE  Grows({}) /\ chain' = chain /\ Goes
  <1>1. chain' = chain
    BY DEF RunSend, SendType, SendClear, SendDone, tvars
  <1>2. ASSUME RunSend PROVE Grows({})
    <2> DEFINE r == Disabled(After("send")["send"])
    <2>1. task' = [After("send") EXCEPT !["send"] = r] /\ Has(chain, "send")
      <3>1. task["send"].on /\ "send" \in Tasks
        BY <1>2, TasksApart DEF RunSend, Take, Due
      <3>2. Has(chain, "send")
        BY <3>1 DEF ChainInv
      <3>3. task' = [After("send") EXCEPT !["send"] = r]
        BY <1>2 DEF RunSend
      <3> QED
        BY <3>2, <3>3
    <2> HIDE DEF r
    <2>2. Table(task) /\ Table(After("send")) /\ "send" \in Tasks
      BY AfterOf, TasksApart DEF NestInv, Typed
    <2>3. \A u \in Tasks : u # "send" => task'[u] = After("send")[u]
      BY <2>1, <2>2, SetAt
    <2>4. \A u \in Tasks : u # "send" => After("send")[u] = task[u]
      BY <2>2, AfterAll
    <2>5. \A u \in Tasks : u # "send" => task'[u] = task[u]
      BY <2>3, <2>4
    <2>6. \A u \in Tasks : task'[u].on => task[u].on \/ Has(chain, u)
      BY <2>1, <2>5
    <2>7. \A u \in Core \ {} : task'[u] = task[u]
      BY <2>5, CoreTasks
    <2> QED
      BY <1>1, <2>6, <2>7, GrowsSame
  <1>3. ASSUME SendType \/ SendClear \/ SendDone PROVE Grows({})
    <2>1. task' = task
      BY <1>3 DEF SendType, SendClear, SendDone, tvars
    <2> QED
      BY <1>1, <2>1, GrowsSame
  <1>4. /\ pc' = pc /\ connected' = connected /\ key' = key
        /\ pc = "setup" => task' = task
    <2>1. RunSend => pc = "pass"
      BY DEF RunSend
    <2>2. /\ pc' = pc /\ connected' = connected /\ key' = key
      BY DEF RunSend, SendType, SendClear, SendDone, sender, node
    <2> QED
      BY <2>1, <2>2 DEF SendType, SendClear, SendDone, tvars
  <1>5. Goes
    BY <1>4 DEF Goes
  <1> QED
    BY <1>1, <1>2, <1>3, <1>5

(* What asks for a restart: the task that makes it is enabled, or was.     *)
Asked(r) ==
    task'["reboot"] = r \/ task'["reboot"] = EnabledIfNot("reboot", r)

LEMMA RestartingAt ==
    ASSUME NEW tab, Table(tab)
    PROVE  /\ \A u \in Tasks : u # "reboot" => Restarting(tab)[u] = tab[u]
           /\ Restarting(tab)["reboot"] = EnabledIfNot("reboot", tab["reboot"])
  <1>1. "reboot" \in Tasks
    BY TasksApart
  <1>2. \A u \in Tasks : u # "reboot" => Restarting(tab)[u] = tab[u]
    BY SetAt DEF Restarting
  <1>3. Restarting(tab)["reboot"] = EnabledIfNot("reboot", tab["reboot"])
    BY <1>1 DEF Restarting, Table
  <1> QED
    BY <1>2, <1>3

LEMMA MeshSendAt ==
    ASSUME NEW tab, Table(tab), NEW m, MeshSend(tab, m)
    PROVE  \A u \in Tasks : u # "send" => task'[u] = tab[u]
  <1>1. CASE connected
    <2> DEFINE r == Forced("send", EnabledIfNot("send", tab["send"]))
    <2>1. task' = [tab EXCEPT !["send"] = r]
      BY <1>1 DEF MeshSend
    <2> HIDE DEF r
    <2> QED
      BY <2>1, SetAt
  <1>2. CASE ~ connected
    BY <1>2 DEF MeshSend
  <1> QED
    BY <1>1, <1>2

LEMMA ShareGrows ==
    ASSUME NestInv, ChainInv, NEW m, RunShare(m)
    PROVE  Grows({"reboot"}) /\ Asked(task["reboot"]) /\ chain' = chain /\ Goes
  <1> DEFINE tab == After("share")
             r == Disabled(tab["share"])
             off == [tab EXCEPT !["share"] = r]
  <1>1. chain' = chain /\ pc = "pass" /\ pc' = pc /\ connected' = connected /\ key' = key
    BY DEF RunShare, node, sender
  <1>2. \/ task' = tab
        \/ MeshSend(tab, m)
        \/ task' = Restarting(off)
    BY DEF RunShare
  <1>3. Running /\ Has(chain, "share") /\ Has(chain, "send") /\ Has(chain, "reboot")
    <2>1. task["share"].on /\ "share" \in Tasks
      BY TasksApart DEF RunShare, Take, Due
    <2>2. Running
      BY <1>1 DEF Running
    <2>3. Has(chain, "share")
      BY <2>1 DEF ChainInv
    <2> QED
      BY <2>2, <2>3, InLine DEF First4
  <1>4. /\ Table(tab) /\ "share" \in Tasks
        /\ \A u \in Tasks : u # "share" => tab[u] = task[u]
    <2>1. "share" \in Tasks /\ Table(task)
      BY TasksApart DEF NestInv, Typed
    <2>2. Table(tab) /\ SameOn(tab, task)
      BY <2>1, AfterOf
    <2>3. \A u \in Tasks : u # "share" => tab[u] = task[u]
      BY <2>1, AfterAll
    <2> QED
      BY <2>1, <2>2, <2>3
  <1> HIDE DEF tab
  <1>5. Table(off) /\ \A u \in Tasks : u # "share" => off[u] = tab[u]
    <2>1. tab["share"] \in Record /\ "share" \in Tasks \ {"connect", "send"}
      BY <1>4, TasksApart DEF Table
    <2>2. r \in Record
      BY <2>1, RecordOf
    <2> HIDE DEF r
    <2> QED
      BY <1>4, <2>1, <2>2, OtherSet, SetAt
  <1> HIDE DEF off, r
  <1>6. /\ \A u \in Tasks \ {"share", "send", "reboot"} : task'[u] = task[u]
        /\ Asked(task["reboot"])
    <2>1. "reboot" \in Tasks /\ "reboot" # "share" /\ "reboot" # "send"
      BY TasksApart
    <2>2. CASE task' = tab
      BY <1>4, <2>1, <2>2 DEF Asked
    <2>3. CASE MeshSend(tab, m)
      <3>1. \A u \in Tasks : u # "send" => task'[u] = tab[u]
        BY <1>4, <2>3, MeshSendAt
      <3> QED
        BY <1>4, <2>1, <3>1 DEF Asked
    <2>4. CASE task' = Restarting(off)
      <3>1. /\ \A u \in Tasks : u # "reboot" => task'[u] = off[u]
            /\ task'["reboot"] = EnabledIfNot("reboot", off["reboot"])
        BY <1>5, <2>4, RestartingAt
      <3> QED
        BY <1>4, <1>5, <2>1, <3>1 DEF Asked
    <2> QED
      BY <1>2, <2>2, <2>3, <2>4
  <1>7. \A t \in Tasks : task'[t].on => task[t].on \/ Has(chain, t)
    BY <1>3, <1>6
  <1>8. \A t \in Core \ {"reboot"} : task'[t] = task[t]
    BY <1>6, CoreTasks
  <1>9. Goes
    BY <1>1 DEF Goes
  <1> QED
    BY <1>1, <1>6, <1>7, <1>8, <1>9, GrowsSame

(* A note is put in the chain, or is there, and no other task is touched.  *)
LEMMA NoteIn ==
    ASSUME NEW tab, notes \in Seq(Notes), NEW k, AddNote(tab, k), Line(chain), Table(tab)
    PROVE  /\ Longer(chain, chain')
           /\ \A u \in Tasks : task'[u] = tab[u] \/ Has(chain', u)
           /\ \A u \in Tasks \ Notes : task'[u] = tab[u]
  <1> DEFINE n == Pick(tab, notes)
  <1>1. n \in Notes
    BY PickNote DEF AddNote
  <1>2. chain' = With(chain, n) /\ task' = [tab EXCEPT ![n] = Armed(n)]
    BY DEF AddNote
  <1> HIDE DEF n
  <1>3. Longer(chain, chain') /\ Has(chain', n)
    BY <1>1, <1>2, LongerWith, TasksApart
  <1>4. \A u \in Tasks : u # n => task'[u] = tab[u]
    BY <1>2, SetAt
  <1> QED
    BY <1>1, <1>3, <1>4

LEMMA NotesIn ==
    ASSUME NEW tab, notes \in Seq(Notes), NEW k1, NEW k2, AddNotes(tab, k1, k2),
           Line(chain), Table(tab)
    PROVE  /\ Longer(chain, chain')
           /\ \A u \in Tasks : task'[u] = tab[u] \/ Has(chain', u)
           /\ \A u \in Tasks \ Notes : task'[u] = tab[u]
  <1> DEFINE n1 == Pick(tab, notes)
             tab1 == [tab EXCEPT ![n1] = Armed(n1)]
             ns1 == IF n1 \in ToSet(notes) THEN notes ELSE <<n1>> \o notes
             n2 == Pick(tab1, ns1)
             mid == With(chain, n1)
  <1>1. /\ CanNote(tab1, ns1) /\ CanNote(tab, notes)
        /\ task' = [tab1 EXCEPT ![n2] = Armed(n2)]
        /\ chain' = With(mid, n2)
    BY DEF AddNotes
  <1>2. n1 \in Notes
    BY <1>1, PickNote
  <1> HIDE DEF n1
  <1>3. ns1 \in Seq(Notes)
    BY <1>2, ConcatProperties
  <1>4. \A u \in Tasks : u # n1 => tab1[u] = tab[u]
    BY SetAt
  <1>5. DOMAIN tab1 = Tasks
    BY DEF Table
  <1>6. Longer(chain, mid) /\ Has(mid, n1)
    BY <1>2, LongerWith, TasksApart
  <1> HIDE DEF tab1, ns1
  <1>7. n2 \in Notes
    BY <1>1, <1>3, PickNote
  <1> HIDE DEF n2, mid
  <1>8. Longer(mid, chain') /\ Has(chain', n2)
    BY <1>1, <1>6, <1>7, LongerWith, TasksApart DEF Longer
  <1>9. \A u \in Tasks : u # n2 => task'[u] = tab1[u]
    BY <1>1, <1>5
  <1>10. Longer(chain, chain') /\ Has(chain', n1)
    BY <1>6, <1>8, LongerTwice DEF Longer
  <1> QED
    BY <1>2, <1>4, <1>7, <1>8, <1>9, <1>10

LEMMA ReadGrows ==
    ASSUME NestInv, ChainInv, NEW m, RunRead(m)
    PROVE  Grows({"reboot"}) /\ Asked(task["reboot"]) /\ Goes
  <1> DEFINE tab == After("read")
  <1>1. /\ pc = "pass" /\ pc' = pc /\ connected' = connected /\ key' = key
        /\ Has(chain, "read") /\ Has(chain, "send") /\ Has(chain, "reboot")
        /\ Line(chain)
    <2>1. task["read"].on /\ "read" \in Tasks /\ pc = "pass"
      BY TasksApart DEF RunRead, Take, Due
    <2>2. Has(chain, "read") /\ Line(chain)
      BY <2>1 DEF ChainInv
    <2>3. pc' = pc /\ connected' = connected /\ key' = key
      BY DEF RunRead, node, sender
    <2> QED
      BY <2>1, <2>2, <2>3, InLine DEF First4, Running
  <1>2. \/ task' = tab /\ chain' = chain
        \/ AddNotes(tab, "new", "changed")
        \/ AddNote(tab, "changed")
        \/ MeshSend(tab, m) /\ chain' = chain
        \/ task' = Restarting(tab) /\ chain' = chain
    BY DEF RunRead
  <1>3. /\ Table(tab) /\ notes \in Seq(Notes)
        /\ \A u \in Tasks : u # "read" => tab[u] = task[u]
    <2>1. "read" \in Tasks /\ Table(task) /\ notes \in Seq(Notes)
      BY TasksApart DEF NestInv, Typed
    <2>2. Table(tab) /\ SameOn(tab, task)
      BY <2>1, AfterOf
    <2>3. \A u \in Tasks : u # "read" => tab[u] = task[u]
      BY <2>1, AfterAll
    <2> QED
      BY <2>1, <2>2, <2>3
  <1> HIDE DEF tab
  <1>4. /\ Longer(chain, chain')
        /\ \A u \in Tasks : u # "read" => task'[u] = task[u] \/ Has(chain', u)
        /\ \A u \in Tasks \ (Notes \cup {"read", "send", "reboot"}) : task'[u] = task[u]
        /\ Asked(task["reboot"])
    <2>1. /\ "reboot" \in Tasks \ Notes /\ "reboot" # "read" /\ "reboot" # "send"
          /\ "read" \notin Notes
      BY MeshAssumption DEF Fixed
    <2>2. CASE task' = tab /\ chain' = chain
      BY <1>1, <1>3, <2>1, <2>2, LongerSame DEF Asked
    <2>3. CASE AddNotes(tab, "new", "changed")
      <3>1. /\ Longer(chain, chain')
            /\ \A u \in Tasks : task'[u] = tab[u] \/ Has(chain', u)
            /\ \A u \in Tasks \ Notes : task'[u] = tab[u]
        BY <1>1, <1>3, <2>3, NotesIn
      <3> QED
        BY <1>3, <2>1, <3>1 DEF Asked
    <2>4. CASE AddNote(tab, "changed")
      <3>1. /\ Longer(chain, chain')
            /\ \A u \in Tasks : task'[u] = tab[u] \/ Has(chain', u)
            /\ \A u \in Tasks \ Notes : task'[u] = tab[u]
        BY <1>1, <1>3, <2>4, NoteIn
      <3> QED
        BY <1>3, <2>1, <3>1 DEF Asked
    <2>5. CASE MeshSend(tab, m) /\ chain' = chain
      <3>1. \A u \in Tasks : u # "send" => task'[u] = tab[u]
        BY <1>3, <2>5, MeshSendAt
      <3> QED
        BY <1>1, <1>3, <2>1, <2>5, <3>1, LongerSame DEF Asked
    <2>6. CASE task' = Restarting(tab) /\ chain' = chain
      <3>1. /\ \A u \in Tasks : u # "reboot" => task'[u] = tab[u]
            /\ task'["reboot"] = EnabledIfNot("reboot", tab["reboot"])
        BY <1>3, <2>6, RestartingAt
      <3> QED
        BY <1>1, <1>3, <2>1, <2>6, <3>1, LongerSame DEF Asked
    <2> QED
      BY <1>2, <2>2, <2>3, <2>4, <2>5, <2>6
  <1>5. Has(chain', "read")
    BY <1>1, <1>4 DEF Longer
  <1>6. \A t \in Tasks : task'[t].on => task[t].on \/ Has(chain', t)
    BY <1>4, <1>5
  <1>7. \A t \in Core \ {"reboot"} : task'[t] = task[t]
    BY <1>4, CoreTasks
  <1>8. Goes
    BY <1>1 DEF Goes
  <1> QED
    BY <1>4, <1>6, <1>7, <1>8 DEF Grows

LEMMA KeyGrows ==
    ASSUME NestInv, ChainInv, KeyEnable \/ KeyForce
    PROVE  Grows({}) /\ chain' = chain /\ Goes
  <1>1. /\ pc' = pc /\ connected' = connected /\ key # "idle" /\ chain' = chain
    BY DEF KeyEnable, KeyForce, node
  <1>2. Running
    BY <1>1 DEF ChainInv
  <1>3. Has(chain, "send")
    BY <1>2, InLine DEF First4
  <1>4. \A u \in Tasks : u # "send" => task'[u] = task[u]
    <2>1. Table(task)
      BY DEF NestInv, Typed
    <2>2. \E r : task' = [task EXCEPT !["send"] = r]
      BY DEF KeyEnable, KeyForce
    <2> QED
      BY <2>1, <2>2, SetAt
  <1>5. \A t \in Tasks : task'[t].on => task[t].on \/ Has(chain, t)
    BY <1>3, <1>4
  <1>6. \A t \in Core \ {} : task'[t] = task[t]
    BY <1>4, CoreTasks
  <1>7. Goes
    BY <1>1, <1>2 DEF Goes, Running
  <1> QED
    BY <1>1, <1>5, <1>6, <1>7, GrowsSame

LEMMA IdleGrows ==
    ASSUME NestInv, ChainInv,
           \/ KeyData \/ KeyType \/ EventGive \/ LinkCleared
           \/ (\E m \in Msgs : KeySend(m)) \/ UNCHANGED vars
    PROVE  Grows({}) /\ chain' = chain /\ Goes
  <1>1. /\ chain' = chain /\ task' = task /\ pc' = pc /\ connected' = connected
    BY DEF KeyData, KeyType, EventGive, LinkCleared, KeySend, vars, tvars, mvars, node
  <1>2. key' # "idle" => key # "idle" \/ connected
    BY DEF KeyData, KeyType, EventGive, LinkCleared, KeySend, vars, mvars, sender
  <1>3. Grows({})
    BY <1>1, GrowsSame
  <1>4. Goes
    BY <1>1, <1>2 DEF Goes, ChainInv
  <1> QED
    BY <1>1, <1>3, <1>4

LEMMA NetworkGrows ==
    ASSUME NestInv, ChainInv,
           Accept \/ LinkDown \/ \E p \in Packets : Arrive(p)
    PROVE  Grows({}) /\ Goes
  <1>1. /\ Running /\ pc' = pc /\ connected' = connected /\ key' = key
    BY DEF Accept, LinkDown, Arrive, node, sender
  <1>2. Table(task) /\ "read" \in Tasks /\ Line(chain) /\ notes \in Seq(Notes)
    BY TasksApart DEF NestInv, Typed, ChainInv
  <1>3. /\ Longer(chain, chain')
        /\ \A t \in Tasks : task'[t].on => task[t].on \/ Has(chain', t)
        /\ \A u \in Tasks \ Notes : u # "read" => task'[u] = task[u]
    <2>1. CASE Accept
      <3>1. CASE task["read"].on
        BY <1>2, <2>1, <3>1, LongerSame DEF Accept
      <3>2. CASE ~ task["read"].on
        <4> DEFINE r == [Fresh("read") EXCEPT !.on = TRUE, !.wait = Interval["read"]]
        <4>1. chain' = With(chain, "read") /\ task' = [task EXCEPT !["read"] = r]
          BY <2>1, <3>2 DEF Accept
        <4> HIDE DEF r
        <4>2. Longer(chain, chain') /\ Has(chain', "read")
          BY <1>2, <4>1, LongerWith
        <4>3. \A u \in Tasks : u # "read" => task'[u] = task[u]
          BY <1>2, <4>1, SetAt
        <4> QED
          BY <4>2, <4>3
      <3> QED
        BY <3>1, <3>2
    <2>2. CASE LinkDown
      <3> DEFINE r == Disabled(task["read"])
                 tab == [task EXCEPT !["read"] = r]
      <3>1. AddNote(tab, "changed") /\ task["read"].on
        BY <2>2 DEF LinkDown
      <3>2. task["read"] \in Record /\ "read" \in Tasks \ {"connect", "send"}
        BY <1>2, TasksApart DEF Table
      <3>3. r \in Record
        BY <3>2, RecordOf
      <3> HIDE DEF r
      <3>4. Table(tab) /\ \A u \in Tasks : u # "read" => tab[u] = task[u]
        BY <1>2, <3>2, <3>3, OtherSet, SetAt
      <3> HIDE DEF tab
      <3>5. /\ Longer(chain, chain')
            /\ \A u \in Tasks : task'[u] = tab[u] \/ Has(chain', u)
            /\ \A u \in Tasks \ Notes : task'[u] = tab[u]
        BY <1>2, <3>1, <3>4, NoteIn
      <3> QED
        BY <3>1, <3>4, <3>5
    <2>3. CASE \E p \in Packets : Arrive(p)
      <3> DEFINE r == Forced("read", task["read"])
      <3>1. chain' = chain /\ task' = [task EXCEPT !["read"] = r] /\ task["read"].on
        BY <2>3 DEF Arrive
      <3> HIDE DEF r
      <3>2. \A u \in Tasks : u # "read" => task'[u] = task[u]
        BY <1>2, <3>1, SetAt
      <3> QED
        BY <1>2, <3>1, <3>2, LongerSame
    <2> QED
      BY <2>1, <2>2, <2>3
  <1>4. \A t \in Core \ {} : task'[t] = task[t]
    BY <1>3, CoreTasks
  <1>5. Goes
    BY <1>1 DEF Goes, Running
  <1> QED
    BY <1>3, <1>4, <1>5 DEF Grows

LEMMA AskedLeft ==
    ASSUME NestInv, ChainInv, Asked(task["reboot"])
    PROVE  /\ task'["reboot"].left = -1
           /\ task["reboot"].on => task'["reboot"] = task["reboot"]
  <1>1. "reboot" \in Tasks /\ task["reboot"] \in Record /\ task["reboot"].left = -1
    BY TasksApart DEF NestInv, Typed, Table, ChainInv, Core
  <1>2. EnabledIfNot("reboot", task["reboot"]).left = -1
    BY <1>1, RecordOf
  <1>3. task["reboot"].on => EnabledIfNot("reboot", task["reboot"]) = task["reboot"]
    BY DEF EnabledIfNot
  <1> QED
    BY <1>1, <1>2, <1>3 DEF Asked

LEMMA ConnectGrows ==
    ASSUME NestInv, ChainInv, RunConnect
    PROVE  Grows({"connect"}) /\ chain' = chain /\ Goes
  <1> DEFINE tab == After("connect")
             r == Disabled(tab["connect"])
  <1>1. /\ chain' = chain /\ pc = "pass" /\ pc' = pc /\ ~ connected' /\ key' = key
        /\ task["connect"].on /\ task' = [tab EXCEPT !["connect"] = r]
    BY DEF RunConnect, Take, Due, sender
  <1> HIDE DEF r
  <1>2. Table(task) /\ "connect" \in Tasks
    BY TasksApart DEF NestInv, Typed
  <1>3. Table(tab) /\ \A u \in Tasks : u # "connect" => tab[u] = task[u]
    BY <1>2, AfterOf, AfterAll
  <1> HIDE DEF tab
  <1>4. \A u \in Tasks : u # "connect" => task'[u] = task[u]
    <2>1. \A u \in Tasks : u # "connect" => task'[u] = tab[u]
      BY <1>1, <1>3, SetAt
    <2> QED
      BY <1>3, <2>1
  <1>5. Has(chain, "connect")
    BY <1>1, <1>2 DEF ChainInv
  <1>6. \A t \in Tasks : task'[t].on => task[t].on \/ Has(chain, t)
    BY <1>4, <1>5
  <1>7. \A t \in Core \ {"connect"} : task'[t] = task[t]
    BY <1>4, CoreTasks
  <1>8. Goes
    BY <1>1 DEF Goes
  <1> QED
    BY <1>1, <1>6, <1>7, <1>8, GrowsSame

LEMMA CheckGrows ==
    ASSUME NestInv, ChainInv, RunCheck
    PROVE  /\ Grows({"check", "reboot"}) /\ chain' = chain /\ Goes
           /\ Asked(task["reboot"])
           /\ task'["check"] = Ran("check", task["check"])
  <1> DEFINE tab == After("check")
  <1>1. /\ chain' = chain /\ pc = "pass" /\ pc' = pc /\ key' = key
        /\ task' = tab \/ task' = Restarting(tab)
    BY DEF RunCheck, Take, sender
  <1>2. Table(task) /\ "check" \in Tasks /\ "reboot" \in Tasks
    BY TasksApart DEF NestInv, Typed
  <1>3. /\ Table(tab) /\ tab["check"] = Ran("check", task["check"])
        /\ \A u \in Tasks : u # "check" => tab[u] = task[u]
    BY <1>2, AfterOf, AfterAll
  <1> HIDE DEF tab
  <1>4. /\ \A u \in Tasks : u # "check" /\ u # "reboot" => task'[u] = task[u]
        /\ task'["check"] = tab["check"]
        /\ Asked(task["reboot"])
    <2>1. CASE task' = tab
      BY <1>2, <1>3, <2>1 DEF Asked
    <2>2. CASE task' = Restarting(tab)
      <3>1. /\ \A u \in Tasks : u # "reboot" => task'[u] = tab[u]
            /\ task'["reboot"] = EnabledIfNot("reboot", tab["reboot"])
        BY <1>3, <2>2, RestartingAt
      <3> QED
        BY <1>2, <1>3, <3>1 DEF Asked
    <2> QED
      BY <1>1, <2>1, <2>2
  <1>5. Has(chain, "check") /\ Has(chain, "reboot") /\ Running
    BY <1>1, InLine DEF First4, Running
  <1>6. \A t \in Tasks : task'[t].on => task[t].on \/ Has(chain, t)
    BY <1>4, <1>5
  <1>7. \A t \in Core \ {"check", "reboot"} : task'[t] = task[t]
    BY <1>4, CoreTasks
  <1>8. Goes
    BY <1>1, <1>5 DEF Goes
  <1> QED
    BY <1>1, <1>3, <1>4, <1>6, <1>7, <1>8, GrowsSame

LEMMA ReenabledAt ==
    ASSUME NEW tab, Table(tab)
    PROVE  /\ \A u \in Tasks : u # "connect" => Reenabled(tab)[u] = tab[u]
           /\ Reenabled(tab)["connect"] = EnabledIfNot("connect", tab["connect"])
           /\ Reenabled(tab)["connect"].on /\ Reenabled(tab)["connect"].left = -1
  <1>1. "connect" \in Tasks /\ tab["connect"] \in Record /\ tab["connect"].left = -1
    BY TasksApart DEF Table
  <1>2. \A u \in Tasks : u # "connect" => Reenabled(tab)[u] = tab[u]
    BY SetAt DEF Reenabled
  <1>3. Reenabled(tab)["connect"] = EnabledIfNot("connect", tab["connect"])
    BY <1>1 DEF Reenabled, Table
  <1> QED
    BY <1>1, <1>2, <1>3, RecordOf

(* Both halves of a reconnect: what the stop deletes is not in the chain   *)
(* any more, and disabled.                                                 *)
LEMMA ReconnectChain ==
    ASSUME NestInv, ChainInv, Reconnect \/ ReconnectStop
    PROVE  /\ ChainInv'
           /\ \A t \in Core \ {"connect"} : task'[t] = task[t]
           /\ task'["connect"] = EnabledIfNot("connect", task["connect"])
           /\ task'["connect"].on /\ Leading(chain)
  <1>1. /\ pc = "pass" /\ pc' = pc /\ key' = key /\ Running /\ Running'
    BY DEF Reconnect, ReconnectStop, sender, mvars, Running
  <1>2. Leading(chain) /\ Line(chain)
    BY <1>1 DEF ChainInv
  <1>3. ASSUME NEW tab, Table(tab), task' = Reenabled(tab),
               \A u \in Core : tab[u] = task[u], Line(chain'), Leading(chain'),
               \A u \in Tasks : tab[u].on => Has(chain', u)
        PROVE  /\ ChainInv'
               /\ \A t \in Core \ {"connect"} : task'[t] = task[t]
               /\ task'["connect"] = EnabledIfNot("connect", task["connect"])
               /\ task'["connect"].on
    <2>1. /\ \A u \in Tasks : u # "connect" => task'[u] = tab[u]
          /\ task'["connect"] = EnabledIfNot("connect", tab["connect"])
          /\ task'["connect"].on /\ task'["connect"].left = -1
      BY <1>3, ReenabledAt
    <2>2. Has(chain', "connect")
      <3>1. Len(chain') \in Nat
        BY <1>3, LenProperties DEF Line
      <3>2. 2 \in 1 .. Len(chain')
        BY <1>3, <3>1 DEF Leading
      <3> QED
        BY <1>3, <3>2 DEF Has, Leading
    <2>3. \A t \in Tasks : task'[t].on => Has(chain', t)
      BY <1>3, <2>1, <2>2
    <2>4. \A t \in Core \ {"connect"} : task'[t] = task[t]
      BY <1>3, <2>1, CoreTasks
    <2>5. \A t \in Core : task'[t].left = -1
      BY <2>1, <2>4 DEF ChainInv
    <2>6. task'["connect"] = EnabledIfNot("connect", task["connect"])
      BY <1>3, <2>1 DEF Core
    <2>7. pc' # "setup"
      BY <1>1
    <2> HIDE DEF Running, Line, Leading
    <2>8. ChainInv'
      BY <1>1, <1>3, <2>3, <2>5, <2>7 DEF ChainInv
    <2> QED
      BY <2>1, <2>4, <2>6, <2>8
  <1>4. CASE Reconnect
    <2>1. task' = Reenabled(task) /\ chain' = chain
      BY <1>4 DEF Reconnect
    <2>2. Table(task) /\ \A u \in Tasks : task[u].on => Has(chain, u)
      BY DEF NestInv, Typed, ChainInv
    <2> QED
      BY <1>2, <1>3, <2>1, <2>2
  <1>5. CASE ReconnectStop
    <2> DEFINE tab == [t \in Tasks |-> IF t \in Deleted THEN Fresh(t) ELSE task[t]]
    <2>1. task' = Reenabled(tab) /\ chain' = Without(chain, Deleted)
      BY <1>5 DEF ReconnectStop
    <2>2. \A t \in Tasks : task[t] \in Record /\ Fresh(t) \in Record /\ ~ Fresh(t).on
      BY RecordOf DEF NestInv, Typed, Table
    <2>3. Deleted \subseteq Notes \cup {"read"}
      <3>1. \A i \in DOMAIN notes : notes[i] \in Notes
        BY LenProperties, ElementOfSeq DEF NestInv, Typed
      <3> QED
        BY <3>1 DEF Deleted, ToSet
    <2>4. First4 \cap Deleted = {}
      BY <2>3, CoreTasks DEF First4
    <2>5. \A u \in First4 : tab[u] = task[u]
      BY <2>4, CoreTasks
    <2>6. tab \in [Tasks -> Record]
      BY <2>2
    <2>7. Table(tab)
      BY <2>5, <2>6 DEF Table, First4, NestInv, Typed
    <2>8. /\ Line(chain') /\ Leading(chain')
          /\ \A t : Has(chain', t) <=> Has(chain, t) /\ t \notin Deleted
      BY <1>2, <2>1, <2>4, ShorterWithout
    <2>9. \A u \in Tasks : tab[u].on => Has(chain', u)
      <3>1. \A u \in Tasks : task[u].on => Has(chain, u)
        BY DEF ChainInv
      <3>2. \A u \in Tasks : tab[u].on => u \notin Deleted /\ task[u].on
        BY <2>2
      <3> QED
        BY <2>8, <3>1, <3>2
    <2>10. \A u \in Core : tab[u] = task[u]
      BY <2>5 DEF Core, First4
    <2> HIDE DEF tab
    <2> QED
      BY <1>2, <1>3, <2>1, <2>7, <2>8, <2>9, <2>10
  <1> QED
    BY <1>2, <1>4, <1>5

LEMMA PreparedLine ==
    /\ Line(Prepared) /\ Leading(Prepared)
    /\ \A t : Has(Prepared, t) <=> t \in ToSet(Prepared)
  <1> DEFINE p == <<"reboot", "connect", "send", "check">>
             q == <<"reboot", "connect", "send", "check", "share">>
  <1>1. /\ "reboot" \in Tasks /\ "connect" \in Tasks /\ "send" \in Tasks
        /\ "check" \in Tasks /\ "share" \in Tasks
    BY TasksApart
  <1>2. p \in Seq(Tasks) /\ q \in Seq(Tasks) /\ Len(p) = 4 /\ Len(q) = 5
    BY <1>1
  <1>3. /\ p[1] = "reboot" /\ p[2] = "connect" /\ p[3] = "send" /\ p[4] = "check"
        /\ q[1] = "reboot" /\ q[2] = "connect" /\ q[3] = "send" /\ q[4] = "check"
        /\ q[5] = "share"
    OBVIOUS
  <1>4. Prepared = p \/ Prepared = q
    BY DEF Prepared
  <1> HIDE DEF p, q
  <1>5. /\ \A i \in 1 .. 4 : i \in {1, 2, 3, 4}
        /\ \A i \in 1 .. 5 : i \in {1, 2, 3, 4, 5}
    OBVIOUS
  <1>6. Line(p)
    BY <1>2, <1>3, <1>5 DEF Line
  <1>7. Line(q)
    BY <1>2, <1>3, <1>5 DEF Line
  <1>8. Leading(p) /\ Leading(q)
    BY <1>2, <1>3 DEF Leading
  <1>9. \A t : Has(Prepared, t) <=> t \in ToSet(Prepared)
    <2>1. DOMAIN Prepared = 1 .. Len(Prepared)
      BY <1>2, <1>4, LenProperties
    <2> QED
      BY <2>1 DEF Has, ToSet
  <1> QED
    BY <1>4, <1>6, <1>7, <1>8, <1>9

LEMMA SetupChain ==
    ASSUME NestInv, ChainInv, Setup
    PROVE  /\ ChainInv' /\ pc' \in {"idle", "off"}
           /\ task'["connect"] = task["connect"]
           /\ \/ pc' = "off" /\ task'["reboot"] = Enabled("reboot", task["reboot"])
              \/ /\ pc' = "idle" /\ task'["reboot"] = task["reboot"]
                 /\ task'["check"] = Enabled("check", task["check"])
  <1>1. /\ pc = "setup" /\ ~ Running /\ connected' = connected /\ key' = key
        /\ Table(task)
    BY DEF Setup, Running, node, sender, NestInv, Typed
  <1>2. ~ connected' /\ key' = "idle" /\ \A t \in Tasks : ~ task[t].on
    BY <1>1 DEF ChainInv
  <1>3. /\ "reboot" \in Tasks /\ "connect" \in Tasks /\ "check" \in Tasks
        /\ "share" \in Tasks
    BY TasksApart
  <1>4. \A t \in Tasks : /\ task[t] \in Record
                         /\ Enabled(t, task[t]).left = task[t].left
    BY <1>1, RecordOf DEF Table
  <1>5. CASE mode = "config_sendall" /\ ~ old
    <2>1. /\ pc' = "off" /\ chain' = <<"reboot">>
          /\ task' = [task EXCEPT !["reboot"] = Enabled("reboot", task["reboot"])]
      BY <1>5 DEF Setup
    <2>2. \A u \in Tasks : u # "reboot" => task'[u] = task[u]
      BY <1>1, <2>1, SetAt
    <2>3. task'["reboot"] = Enabled("reboot", task["reboot"])
      BY <1>1, <1>3, <2>1 DEF Table
    <2>4. Line(chain') /\ Has(chain', "reboot")
      <3>1. /\ chain' \in Seq(Tasks) /\ Len(chain') = 1 /\ chain'[1] = "reboot"
            /\ \A i \in 1 .. 1 : i = 1
        BY <1>3, <2>1
      <3> QED
        BY <3>1 DEF Line, Has
    <2>5. \A t \in Tasks : task'[t].on => Has(chain', t)
      BY <1>2, <2>2, <2>4
    <2>6. \A t \in Core : task'[t].left = -1
      BY <1>3, <1>4, <2>2, <2>3, CoreTasks DEF ChainInv
    <2>7. ~ Running' /\ pc' # "setup"
      BY <2>1 DEF Running
    <2>8. ChainInv'
      BY <1>2, <2>4, <2>5, <2>6, <2>7 DEF ChainInv
    <2> QED
      BY <1>2, <1>3, <2>1, <2>2, <2>3, <2>8
  <1>6. CASE ~ (mode = "config_sendall" /\ ~ old)
    <2>1. /\ pc' = "idle" /\ chain' = Prepared
          /\ task' = [t \in Tasks |->
                         IF t \in {"check", "share"} /\ t \in ToSet(Prepared)
                         THEN Enabled(t, task[t]) ELSE task[t]]
      BY <1>6 DEF Setup
    <2>2. /\ Line(chain') /\ Leading(chain')
          /\ \A t : Has(chain', t) <=> t \in ToSet(Prepared)
      BY <2>1, PreparedLine
    <2>3. \A t \in Tasks : task'[t].on => Has(chain', t)
      BY <1>2, <2>1, <2>2
    <2>4. \A t \in Core : task'[t].left = -1
      BY <1>4, <2>1, CoreTasks DEF ChainInv
    <2>5. Running' /\ pc' # "setup"
      BY <2>1 DEF Running
    <2>6. ChainInv'
      BY <2>2, <2>3, <2>4, <2>5 DEF ChainInv
    <2>7. "check" \in ToSet(Prepared)
      <3>1. Has(Prepared, "check")
        <4>1. Len(Prepared) \in Nat /\ Len(Prepared) >= 4 /\ Prepared[4] = "check"
          BY PreparedLine, LenProperties DEF Line, Leading
        <4>2. 4 \in 1 .. Len(Prepared)
          BY <4>1
        <4> QED
          BY <4>1, <4>2 DEF Has
      <3> QED
        BY <3>1, PreparedLine
    <2>8. /\ task'["check"] = Enabled("check", task["check"])
          /\ task'["reboot"] = task["reboot"] /\ task'["connect"] = task["connect"]
      BY <1>3, <2>1, <2>7
    <2> QED
      BY <2>1, <2>6, <2>8
  <1> QED
    BY <1>5, <1>6

LEMMA WaitTasks ==
    ASSUME NestInv, Wait, NEW t \in Tasks
    PROVE  /\ task'[t].on = task[t].on /\ task'[t].left = task[t].left
           /\ task'[t].wait = task[t].wait
           /\ task'[t].age = IF task[t].on /\ task[t].age < MaxTicks
                             THEN task[t].age + 1 ELSE task[t].age
           /\ task[t].age \in Int /\ task[t].wait \in Nat
  <1> DEFINE a == IF task[t].age < MaxTicks THEN task[t].age + 1 ELSE task[t].age
  <1>1. task[t] \in Record
    BY DEF NestInv, Typed, Table
  <1>2. task'[t] = IF task[t].on THEN [task[t] EXCEPT !.age = a] ELSE task[t]
    BY DEF Wait, Tick
  <1>3. task[t].age \in Int /\ task[t].wait \in Nat
    BY <1>1 DEF Record
  <1>4. CASE task[t].on
    <2>1. task'[t] = [task[t] EXCEPT !.age = a]
      BY <1>2, <1>4
    <2> HIDE DEF a
    <2>2. /\ task'[t].on = task[t].on /\ task'[t].left = task[t].left
          /\ task'[t].wait = task[t].wait /\ task'[t].age = a
      BY <1>1, <2>1 DEF Record
    <2> QED
      BY <1>3, <1>4, <2>2 DEF a
  <1>5. CASE ~ task[t].on
    BY <1>2, <1>3, <1>5
  <1> QED
    BY <1>4, <1>5

LEMMA WaitChain ==
    ASSUME NestInv, ChainInv, Wait
    PROVE  ChainInv'
  <1>1. /\ chain' = chain /\ pc' = pc /\ connected' = connected /\ key' = key
        /\ pc # "setup"
    BY DEF Wait, Tick, mvars
  <1>2. \A t \in Tasks : task'[t].on = task[t].on /\ task'[t].left = task[t].left
    BY WaitTasks
  <1>3. \A t \in Core : task'[t].left = -1
    BY <1>2, CoreTasks DEF ChainInv
  <1>4. Running' <=> Running
    BY <1>1 DEF Running
  <1> HIDE DEF Line, Leading
  <1> QED
    BY <1>1, <1>2, <1>3, <1>4 DEF ChainInv

(* A life of the node begins: no task is in the chain, none is enabled.    *)
LEMMA BirthChain ==
    ASSUME NEW c, c = <<>>, NEW tab, tab = [t \in Tasks |-> Fresh(t)]
    PROVE  /\ Line(c) /\ \A t \in Tasks : ~ tab[t].on
           /\ \A t \in Core : tab[t].left = -1
  <1>1. c \in Seq(Tasks) /\ Len(c) = 0
    BY EmptySeq
  <1>2. Line(c)
    BY <1>1 DEF Line
  <1>3. \A t \in Tasks : ~ tab[t].on /\ tab[t].left = Times[t]
    BY DEF Fresh
  <1> QED
    BY <1>2, <1>3, CoreTasks

LEMMA RestartChain ==
    ASSUME Restart
    PROVE  ChainInv'
  <1>1. /\ Line(chain') /\ \A t \in Tasks : ~ task'[t].on
        /\ \A t \in Core : task'[t].left = -1
    BY BirthChain DEF Restart
  <1>2. pc' = "setup" /\ ~ connected' /\ key' = "idle" /\ ~ Running'
    BY DEF Restart, Running
  <1> QED
    BY <1>1, <1>2 DEF ChainInv

LEMMA InitChain == Init => ChainInv
  <1> SUFFICES ASSUME Init
               PROVE  ChainInv
    OBVIOUS
  <1>1. /\ Line(chain) /\ \A t \in Tasks : ~ task[t].on
        /\ \A t \in Core : task[t].left = -1
    BY BirthChain DEF Init, TasksInit
  <1>2. pc = "setup" /\ ~ connected /\ key = "idle" /\ ~ Running
    BY DEF Init, Running
  <1> QED
    BY <1>1, <1>2 DEF ChainInv

LEMMA NextChain == NestInv /\ NestInv' /\ ChainInv /\ [Next]_vars => ChainInv'
  <1> SUFFICES ASSUME NestInv, NestInv', ChainInv, [Next]_vars
               PROVE  ChainInv'
    OBVIOUS
  <1>1. CASE Restarts
    BY <1>1, RestartChain DEF Restarts, GiveFails, StopCrash, RunReboot, PowerCut
  <1>2. CASE Begin \/ PassOver \/ End
    BY <1>2, SchedulerGrows, ChainKept
  <1>3. CASE \E n \in Notes : RunNew(n) \/ RunChanged(n)
    BY <1>3, NoteGrows, ChainKept
  <1>4. CASE RunSend \/ SendType \/ SendClear \/ SendDone
    BY <1>4, SendGrows, ChainKept
  <1>5. CASE \E m \in Msgs : RunShare(m) \/ RunRead(m)
    BY <1>5, ShareGrows, ReadGrows, AskedLeft, ChainKept
  <1>6. CASE KeyEnable \/ KeyForce
    BY <1>6, KeyGrows, ChainKept
  <1>7. CASE \/ KeyData \/ KeyType \/ EventGive \/ LinkCleared
             \/ (\E m \in Msgs : KeySend(m)) \/ UNCHANGED vars
    BY <1>7, IdleGrows, ChainKept
  <1>8. CASE Accept \/ LinkDown \/ \E p \in Packets : Arrive(p)
    BY <1>8, NetworkGrows, ChainKept
  <1>9. CASE RunConnect
    <2>1. task'["connect"].left = -1
      BY DEF NestInv, Typed, Table
    <2> QED
      BY <1>9, <2>1, ConnectGrows, ChainKept
  <1>10. CASE RunCheck
    <2>1. /\ Grows({"check", "reboot"}) /\ Goes /\ Asked(task["reboot"])
          /\ task'["check"] = Ran("check", task["check"])
      BY <1>10, CheckGrows
    <2>2. task'["reboot"].left = -1
      BY <2>1, AskedLeft
    <2>3. task'["check"].left = -1
      <3>1. "check" \in Tasks /\ task["check"] \in Record /\ task["check"].left = -1
        BY TasksApart DEF NestInv, Typed, Table, ChainInv, Core
      <3> QED
        BY <2>1, <3>1, RecordOf
    <2> QED
      BY <2>1, <2>2, <2>3, ChainKept
  <1>11. CASE Reconnect \/ ReconnectStop
    BY <1>11, ReconnectChain
  <1>12. CASE Setup \/ Wait
    BY <1>12, SetupChain, WaitChain
  <1> QED
    BY <1>1, <1>2, <1>3, <1>4, <1>5, <1>6, <1>7, <1>8, <1>9, <1>10, <1>11, <1>12
    DEF Next, Loop, Callback, Key, Network, Restarts

-----------------------------------------------------------------------------
(***************************************************************************)
(* How long _Mesh_IsConnected may be wrong.                                *)
(***************************************************************************)
LEMMA EnabledTimes ==
    ASSUME NEW t \in Tasks, NEW r \in Record
    PROVE  Enabled(t, r).age = Interval[t] /\ Enabled(t, r).wait = Interval[t]
  <1> DEFINE q == [r EXCEPT !.on = TRUE]
  <1>1. q \in Record /\ q.on
    BY RecordFlagged
  <1> HIDE DEF q
  <1>2. Forced(t, q) = [q EXCEPT !.age = Interval[t], !.wait = Interval[t]]
    BY <1>1 DEF Forced
  <1>3. Forced(t, q).age = Interval[t] /\ Forced(t, q).wait = Interval[t]
    BY <1>1, <1>2 DEF Record
  <1> QED
    BY <1>3 DEF Enabled, q

LEMMA RanTimes ==
    ASSUME NEW t \in Tasks, NEW r \in Record
    PROVE  Ran(t, r).age = r.age - r.wait /\ Ran(t, r).wait = Interval[t]
  BY DEF Ran, Record

LEMMA QuietStale ==
    ASSUME StaleInv, Goes, task'["check"] = task["check"], stale' = stale \/ stale' = 0,
           task["check"].age \in Int
    PROVE  StaleInv'
  <1>1. Running' <=> Running
    BY DEF Goes, Running
  <1>2. Running => stale' <= task["check"].age /\ stale' <= Interval["check"]
    <2>1. stale \in Nat /\ Interval["check"] \in Nat
      BY TasksApart, TasksAssumption DEF StaleInv
    <2>2. Running => stale <= task["check"].age /\ stale <= Interval["check"]
      BY DEF StaleInv
    <2> HIDE DEF Running
    <2> QED
      BY <2>1, <2>2
  <1>3. stale' \in Nat /\ (~ Running' => stale' = 0)
    BY <1>1 DEF StaleInv
  <1> HIDE DEF Running
  <1> QED
    BY <1>1, <1>2, <1>3 DEF StaleInv

LEMMA CheckStale ==
    ASSUME NestInv, ChainInv, StaleInv, RunCheck
    PROVE  StaleInv'
  <1>1. stale' = 0 /\ pc = "pass" /\ pc' = "pass" /\ task["check"].age >= task["check"].wait
    BY DEF RunCheck, Take, Due, Still
  <1>2. task'["check"] = Ran("check", task["check"])
    BY CheckGrows
  <1>3. "check" \in Tasks /\ task["check"] \in Record /\ Interval["check"] \in Nat
    BY TasksApart, TasksAssumption DEF NestInv, Typed, Table
  <1>4. task["check"].age \in Int /\ task["check"].wait \in Nat
    BY <1>3 DEF Record
  <1>5. /\ task'["check"].on = task["check"].on
        /\ task'["check"].age = task["check"].age - task["check"].wait
        /\ task'["check"].wait = Interval["check"]
    <2> DEFINE r == task["check"]
    <2>1. Ran("check", r).on = r.on
      BY <1>3, RecordOf
    <2>2. Ran("check", r).age = r.age - r.wait /\ Ran("check", r).wait = Interval["check"]
      BY <1>3, RanTimes
    <2> HIDE DEF r
    <2> QED
      BY <1>2, <2>1, <2>2 DEF r
  <1>6. task["check"].on
    BY <1>1 DEF StaleInv, Running
  <1>7. stale' <= task'["check"].age
    BY <1>1, <1>4, <1>5
  <1>8. Running'
    BY <1>1 DEF Running
  <1> QED
    BY <1>1, <1>3, <1>5, <1>6, <1>7, <1>8 DEF StaleInv

LEMMA SetupStale ==
    ASSUME NestInv, ChainInv, StaleInv, Setup
    PROVE  StaleInv'
  <1>1. stale' = 0
    BY DEF Setup, StaleInv, Running
  <1>2. \/ pc' = "off"
        \/ task'["check"] = Enabled("check", task["check"])
    BY SetupChain
  <1>3. "check" \in Tasks /\ task["check"] \in Record /\ Interval["check"] \in Nat
    BY TasksApart, TasksAssumption DEF NestInv, Typed, Table
  <1>4. CASE pc' = "off"
    BY <1>1, <1>4 DEF StaleInv, Running
  <1>5. CASE task'["check"] = Enabled("check", task["check"])
    <2>1. /\ task'["check"].on /\ task'["check"].age = Interval["check"]
          /\ task'["check"].wait = Interval["check"]
      <3> DEFINE r == task["check"]
      <3>1. Enabled("check", r).on
        BY <1>3, RecordOf
      <3>2. Enabled("check", r).age = Interval["check"] /\ Enabled("check", r).wait = Interval["check"]
        BY <1>3, EnabledTimes
      <3> HIDE DEF r
      <3> QED
        BY <1>5, <3>1, <3>2 DEF r
    <2> QED
      BY <1>1, <1>3, <2>1 DEF StaleInv
  <1> QED
    BY <1>2, <1>4, <1>5

(* Time only passes when the check is not due: before that its age, which  *)
(* the time of being wrong never exceeds, has not reached the interval.    *)
LEMMA WaitStale ==
    ASSUME NestInv, ChainInv, StaleInv, Wait
    PROVE  StaleInv'
  <1>1. /\ pc' = pc /\ chain' = chain /\ pc \in {"idle", "off"}
        /\ stale' = IF connected /\ ~ peers THEN stale + 1 ELSE 0
        /\ pc = "idle" => \A i \in DOMAIN chain : ~ HasWork(chain[i])
    BY DEF Wait, Tick, mvars
  <1>2. "check" \in Tasks /\ Interval["check"] \in Nat /\ MaxTicks \in Nat
        /\ Interval["check"] <= MaxTicks
    BY TasksApart, TasksAssumption
  <1>3. /\ task'["check"].on = task["check"].on /\ task'["check"].wait = task["check"].wait
        /\ task'["check"].age = IF task["check"].on /\ task["check"].age < MaxTicks
                                THEN task["check"].age + 1 ELSE task["check"].age
        /\ task["check"].age \in Int /\ task["check"].wait \in Nat
    BY <1>2, WaitTasks
  <1>4. stale \in Nat /\ stale' \in Nat
    BY <1>1 DEF StaleInv
  <1>5. CASE pc = "off"
    <2>1. ~ Running /\ ~ Running'
      BY <1>1, <1>5 DEF Running
    <2>2. ~ connected
      BY <2>1 DEF ChainInv
    <2> QED
      BY <1>1, <2>1, <2>2 DEF StaleInv
  <1>6. CASE pc = "idle"
    <2>1. Running /\ Running'
      BY <1>1, <1>6 DEF Running
    <2>2. Has(chain, "check") /\ DOMAIN chain = 1 .. Len(chain)
      BY <2>1, InLine, LenProperties DEF First4, ChainInv, Line
    <2>3. ~ Due("check")
      BY <1>1, <1>6, <2>2 DEF Has, HasWork
    <2>4. /\ task["check"].on /\ stale <= task["check"].age
          /\ task["check"].wait <= Interval["check"]
      BY <2>1 DEF StaleInv
    <2>5. task["check"].left # 0
      BY DEF ChainInv, Core
    <2>6. task["check"].age < task["check"].wait
      BY <1>3, <2>3, <2>4, <2>5 DEF Due
    <2>7. task'["check"].age = task["check"].age + 1
          /\ task["check"].age + 1 <= Interval["check"]
      BY <1>2, <1>3, <2>4, <2>6
    <2>8. stale' <= stale + 1
      BY <1>1, <1>4
    <2>9. stale' <= task'["check"].age /\ stale' <= Interval["check"]
      BY <1>2, <1>3, <1>4, <2>4, <2>7, <2>8
    <2> QED
      BY <1>3, <1>4, <2>1, <2>4, <2>9 DEF StaleInv
  <1> QED
    BY <1>1, <1>5, <1>6

LEMMA NextStale == NestInv /\ ChainInv /\ StaleInv /\ [Next]_vars => StaleInv'
  <1> SUFFICES ASSUME NestInv, ChainInv, StaleInv, [Next]_vars
               PROVE  StaleInv'
    OBVIOUS
  <1>1. "check" \in Core /\ "check" # "reboot" /\ "check" # "connect" /\ task["check"].age \in Int
    <2>1. task["check"] \in Record
      BY TasksApart DEF NestInv, Typed, Table
    <2> QED
      BY <2>1 DEF Core, Record
  <1>2. CASE Restarts
    <2>1. Restart
      BY <1>2 DEF Restarts, GiveFails, StopCrash, RunReboot, PowerCut
    <2>2. pc' = "setup" /\ stale' = 0
      BY <2>1 DEF Restart
    <2> QED
      BY <2>2 DEF StaleInv, Running
  <1>3. ASSUME \E D : Grows(D) /\ "check" \notin D, Goes,
               stale' = stale \/ stale' = 0
        PROVE  StaleInv'
    BY <1>1, <1>3, QuietStale DEF Grows
  <1>4. CASE Begin \/ PassOver \/ End
    <2>1. stale' = stale
      BY <1>4 DEF Begin, PassOver, End, hvars
    <2> QED
      BY <1>3, <1>4, <2>1, SchedulerGrows
  <1>5. CASE \E n \in Notes : RunNew(n) \/ RunChanged(n)
    <2>1. stale' = stale \/ stale' = 0
      BY <1>5 DEF RunNew, RunChanged, Still
    <2> QED
      BY <1>3, <1>5, <2>1, NoteGrows
  <1>6. CASE RunSend \/ SendType \/ SendClear \/ SendDone
    <2>1. stale' = stale
      BY <1>6 DEF RunSend, SendType, SendClear, SendDone, hvars
    <2> QED
      BY <1>3, <1>6, <2>1, SendGrows
  <1>7. CASE \E m \in Msgs : RunShare(m) \/ RunRead(m)
    <2>1. stale' = stale
      BY <1>7 DEF RunShare, RunRead
    <2>2. Grows({"reboot"}) /\ Goes
      BY <1>7, ShareGrows, ReadGrows
    <2> QED
      BY <1>1, <1>3, <2>1, <2>2
  <1>8. CASE KeyEnable \/ KeyForce
    <2>1. stale' = stale
      BY <1>8 DEF KeyEnable, KeyForce, hvars
    <2> QED
      BY <1>3, <1>8, <2>1, KeyGrows
  <1>9. CASE \/ KeyData \/ KeyType \/ EventGive \/ LinkCleared
             \/ (\E m \in Msgs : KeySend(m)) \/ UNCHANGED vars
    <2>1. stale' = stale
      BY <1>9 DEF KeyData, KeyType, EventGive, LinkCleared, KeySend, vars, hvars
    <2> QED
      BY <1>3, <1>9, <2>1, IdleGrows
  <1>10. CASE Accept \/ LinkDown \/ \E p \in Packets : Arrive(p)
    <2>1. stale' = stale
      BY <1>10 DEF Accept, LinkDown, Arrive
    <2> QED
      BY <1>3, <1>10, <2>1, NetworkGrows
  <1>11. CASE RunConnect
    <2>1. stale' = 0
      BY <1>11 DEF RunConnect, Still
    <2>2. Grows({"connect"}) /\ Goes
      BY <1>11, ConnectGrows
    <2> QED
      BY <1>1, <1>3, <2>1, <2>2
  <1>12. CASE Reconnect \/ ReconnectStop
    <2>1. stale' = stale /\ Goes
      BY <1>12 DEF Reconnect, ReconnectStop, hvars, mvars, Goes, sender
    <2>2. task'["check"] = task["check"]
      BY <1>1, <1>12, ReconnectChain
    <2> QED
      BY <1>1, <2>1, <2>2, QuietStale
  <1>13. CASE RunCheck \/ Setup \/ Wait
    BY <1>13, CheckStale, SetupStale, WaitStale
  <1> QED
    BY <1>2, <1>4, <1>5, <1>6, <1>7, <1>8, <1>9, <1>10, <1>11, <1>12, <1>13
    DEF Next, Loop, Callback, Key, Network, Restarts

(* A node that believes in neighbours it has not stops doing so within the *)
(* interval of Mesh__CheckRootAlive: the check is never out of the chain,  *)
(* never disabled, and time does not pass it by (mesh.h:207-229).          *)
THEOREM StaleIsBounded == Spec => []StaleBounded
  <1>1. Init => StaleInv
    BY DEF Init, StaleInv, Running
  <1>2. StaleInv => StaleBounded
    <2>1. Interval["check"] \in Nat
      BY TasksApart, TasksAssumption
    <2> QED
      BY <2>1 DEF StaleInv, StaleBounded
  <1> QED
    BY <1>1, <1>2, InitNest, NextNest, InitChain, NextChain, NextStale, PTL DEF Spec

-----------------------------------------------------------------------------
(***************************************************************************)
(* The order of a pass: what it goes on with.                              *)
(***************************************************************************)
LEMMA FollowingIs ==
    ASSUME Line(chain), NEW t
    PROVE  /\ Following(t) \in Tasks \cup {None}
           /\ Leading(chain) /\ t \notin {"reboot", "connect", "send"}
                 => Following(t) \notin First4
  <1> DEFINE at == {i \in DOMAIN chain : chain[i] = t /\ i < Len(chain)}
             n == Len(chain)
  <1>1. /\ n \in Nat /\ DOMAIN chain = 1 .. n
        /\ \A i \in 1 .. n : chain[i] \in Tasks
    BY LenProperties, ElementOfSeq DEF Line
  <1>2. CASE at = {}
    <2>1. Following(t) = None
      BY <1>2 DEF Following
    <2> QED
      BY <2>1, CoreTasks
  <1>3. CASE at # {}
    <2>1. PICK i \in at : Following(t) = chain[1 + i]
      BY <1>3 DEF Following
    <2>2. /\ i \in 1 .. n /\ 1 + i \in 1 .. n /\ chain[i] = t
      BY <1>1, <2>1
    <2>3. ASSUME Leading(chain), t \notin {"reboot", "connect", "send"}
          PROVE  chain[1 + i] \notin First4
      <3>1. i # 1 /\ i # 2 /\ i # 3
        BY <2>2, <2>3 DEF Leading
      <3>2. 1 + i # 1 /\ 1 + i # 2 /\ 1 + i # 3 /\ 1 + i # 4
        BY <2>2, <3>1
      <3>3. 1 \in 1 .. n /\ 2 \in 1 .. n /\ 3 \in 1 .. n /\ 4 \in 1 .. n
        BY <1>1, <2>3 DEF Leading
      <3>4. \A k, j \in 1 .. n : chain[k] = chain[j] => k = j
        BY DEF Line
      <3> QED
        BY <2>2, <2>3, <3>2, <3>3, <3>4 DEF Leading, First4
    <2> QED
      BY <1>1, <2>1, <2>2, <2>3
  <1> QED
    BY <1>2, <1>3

(* Tasks with nothing to do are passed over, and no other.                 *)
LEMMA NextAt ==
    ASSUME Line(chain), NEW t
    PROVE  LET n == Len(chain)
               Late(k) == HasWork(chain[k]) /\ \E j \in 1 .. n : chain[j] = t /\ j < k
           IN  \/ NextWith(t) = None /\ \A k \in 1 .. n : ~ Late(k)
               \/ \E i \in 1 .. n : /\ NextWith(t) = chain[i] /\ Late(i)
                                    /\ \A k \in 1 .. n : Late(k) => i <= k
  <1> DEFINE n == Len(chain)
             Late(k) == HasWork(chain[k]) /\ \E j \in 1 .. n : chain[j] = t /\ j < k
             after == {k \in 1 .. n : Late(k)}
  <1>1. n \in Nat /\ DOMAIN chain = 1 .. n
    BY LenProperties DEF Line
  <1>2. NextWith(t) = IF after = {} THEN None ELSE chain[Min(after)]
    BY <1>1 DEF NextWith
  <1>3. CASE after = {}
    BY <1>2, <1>3
  <1>4. CASE after # {}
    <2>1. after \in SUBSET Nat
      BY <1>1
    <2>2. \E i \in after : \A k \in after : i <= k
      BY <1>4, <2>1, FirstOfMany
    <2> HIDE DEF after
    <2>3. Min(after) \in after /\ \A k \in after : Min(after) <= k
      BY <2>2 DEF Min
    <2> QED
      BY <1>2, <1>4, <2>3 DEF after
  <1> QED
    BY <1>3, <1>4

LEMMA NextIs ==
    ASSUME Line(chain), NEW t
    PROVE  /\ NextWith(t) \in Tasks \cup {None}
           /\ Leading(chain) /\ t \notin {"reboot", "connect", "send"}
                 => NextWith(t) \notin First4
           /\ Leading(chain) /\ t = "reboot" /\ HasWork("connect")
                 => NextWith(t) = "connect"
  <1> DEFINE n == Len(chain)
             Late(k) == HasWork(chain[k]) /\ \E j \in 1 .. n : chain[j] = t /\ j < k
  <1>1. /\ n \in Nat
        /\ \A i \in 1 .. n : chain[i] \in Tasks
        /\ \A k, j \in 1 .. n : chain[k] = chain[j] => k = j
    BY LenProperties, ElementOfSeq DEF Line
  <1>2. Leading(chain) => 1 \in 1 .. n /\ 2 \in 1 .. n /\ 3 \in 1 .. n /\ 4 \in 1 .. n
    BY <1>1 DEF Leading
  <1>3. CASE NextWith(t) = None /\ \A k \in 1 .. n : ~ Late(k)
    <2>1. Leading(chain) /\ t = "reboot" => ~ HasWork("connect")
      <3> SUFFICES ASSUME Leading(chain), t = "reboot" PROVE ~ HasWork("connect")
        OBVIOUS
      <3>1. 1 \in 1 .. n /\ 2 \in 1 .. n /\ chain[1] = t /\ chain[2] = "connect" /\ 1 < 2
        BY <1>2 DEF Leading
      <3> QED
        BY <1>3, <3>1
    <2> QED
      BY <1>3, <2>1, CoreTasks
  <1>4. ASSUME NEW i \in 1 .. n, NextWith(t) = chain[i], Late(i),
               \A k \in 1 .. n : Late(k) => i <= k
        PROVE  /\ NextWith(t) \in Tasks \cup {None}
               /\ Leading(chain) /\ t \notin {"reboot", "connect", "send"}
                     => NextWith(t) \notin First4
               /\ Leading(chain) /\ t = "reboot" /\ HasWork("connect")
                     => NextWith(t) = "connect"
    <2>1. PICK j \in 1 .. n : chain[j] = t /\ j < i
      BY <1>4
    <2>2. ASSUME Leading(chain), t \notin {"reboot", "connect", "send"}
          PROVE  chain[i] \notin First4
      <3>1. j # 1 /\ j # 2 /\ j # 3
        BY <2>1, <2>2 DEF Leading
      <3>2. i # 1 /\ i # 2 /\ i # 3 /\ i # 4
        BY <1>1, <2>1, <3>1
      <3> QED
        BY <1>1, <1>2, <2>2, <3>2 DEF Leading, First4
    <2>3. ASSUME Leading(chain), t = "reboot", HasWork("connect")
          PROVE  chain[i] = "connect"
      <3>1. /\ 1 \in 1 .. n /\ 2 \in 1 .. n /\ chain[1] = t /\ chain[2] = "connect" /\ 1 < 2
            /\ HasWork(chain[2])
        BY <1>2, <2>3 DEF Leading
      <3>2. i <= 2
        BY <1>4, <3>1
      <3>3. j = 1
        BY <1>1, <2>1, <3>1
      <3>4. i = 2
        BY <1>1, <2>1, <3>2, <3>3
      <3> QED
        BY <3>1, <3>4
    <2> QED
      BY <1>1, <1>4, <2>2, <2>3
  <1>5. \/ NextWith(t) = None /\ \A k \in 1 .. n : ~ Late(k)
        \/ \E i \in 1 .. n : /\ NextWith(t) = chain[i] /\ Late(i)
                             /\ \A k \in 1 .. n : Late(k) => i <= k
    BY NextAt
  <1> HIDE DEF Late
  <1> QED
    BY <1>3, <1>4, <1>5

LEMMA FirstIs ==
    ASSUME Line(chain)
    PROVE  First \in Tasks \cup {None} /\ (Leading(chain) => First = "reboot")
  <1>1. Len(chain) \in Nat /\ \A i \in 1 .. Len(chain) : chain[i] \in Tasks
    BY LenProperties, ElementOfSeq DEF Line
  <1>2. CASE chain = <<>>
    BY <1>2 DEF First, Leading
  <1>3. CASE chain # <<>>
    <2>1. First = chain[1] /\ Len(chain) # 0
      BY <1>3, EmptySeq, HeadTailProperties DEF First, Line
    <2>2. 1 \in 1 .. Len(chain)
      BY <1>1, <2>1
    <2> QED
      BY <1>1, <2>1, <2>2 DEF Leading
  <1> QED
    BY <1>2, <1>3

LEMMA TopIs ==
    ASSUME NestInv, OrderInv, Scanning
    PROVE  /\ Top = passes[Len(passes)] /\ Len(passes) \in {1, 2}
           /\ Len(passes) = 2 => Outer
           /\ Outer => Len(passes) = 2
           /\ Len(passes) \in 1 .. Len(passes) /\ Len(passes) \in Nat \ {0}
  <1>1. /\ Len(passes) = Len(active) + 1 /\ Len(active) \in {0, 1}
        /\ Len(active) = 1 => Outer
    BY ScanningShape
  <1>2. Top = passes[Len(passes)]
    BY DEF Top, Last
  <1>3. Len(active) = 0 => ~ Outer
    BY DEF Outer
  <1>4. Len(passes) \in {1, 2} /\ (Len(passes) = 2 => Outer) /\ (Outer => Len(passes) = 2)
    <2>1. CASE Len(active) = 0
      BY <1>1, <1>3, <2>1
    <2>2. CASE Len(active) = 1
      BY <1>1, <2>2
    <2> QED
      BY <1>1, <2>1, <2>2
  <1>5. Len(passes) \in 1 .. Len(passes) /\ Len(passes) \in Nat \ {0}
    BY <1>4
  <1> QED
    BY <1>2, <1>4, <1>5

(* The top pass goes on with e: what it may not be while a restart or a    *)
(* reconnect is on its way.                                                *)
Moves(e) ==
    /\ passes' = [passes EXCEPT ![Len(passes)] = e]
    /\ e \in Tasks \cup {None}

LEMMA MovesAt ==
    ASSUME NestInv, OrderInv, Scanning, NEW e, Moves(e)
    PROVE  /\ passes' \in Seq(Tasks \cup {None}) /\ Len(passes') = Len(passes)
           /\ passes'[Len(passes)] = e
           /\ \A i \in 1 .. Len(passes) : i # Len(passes) => passes'[i] = passes[i]
  <1> DEFINE P == Tasks \cup {None}
             n == Len(passes)
  <1>1. passes \in Seq(P) /\ e \in P /\ n \in 1 .. n
    BY TopIs DEF OrderInv, Moves
  <1>2. passes' = [passes EXCEPT ![n] = e]
    BY DEF Moves
  <1> HIDE DEF P
  <1>3. /\ passes' \in Seq(P) /\ Len(passes') = n
        /\ \A i \in 1 .. n : passes'[i] = IF i = n THEN e ELSE passes[i]
    BY <1>1, <1>2, ExceptSeq
  <1> QED
    BY <1>1, <1>3 DEF P

LEMMA OrderMoves ==
    ASSUME NestInv, OrderInv, Scanning, NEW e, Moves(e), Outer' => Outer,
           Punctual(task'["reboot"]), Punctual(task'["connect"]),
           task'["reboot"].on => e \notin {"connect", "send", "check"},
           task'["connect"].on => e \notin {"send", "check"}
    PROVE  OrderInv'
  <1> DEFINE n == Len(passes)
  <1>1. n \in {1, 2} /\ (n = 2 => Outer) /\ (Outer => n = 2) /\ n \in 1 .. n
    BY TopIs
  <1>2. /\ passes' \in Seq(Tasks \cup {None}) /\ Len(passes') = n
        /\ passes'[n] = e
        /\ \A i \in 1 .. n : i # n => passes'[i] = passes[i]
    BY MovesAt
  <1>3. \A i \in 1 .. n : i # n => passes'[i] \notin First4 /\ i = 1
    <2> SUFFICES ASSUME NEW i \in 1 .. n, i # n
                 PROVE  passes'[i] \notin First4 /\ i = 1
      OBVIOUS
    <2>1. i = 1 /\ n = 2
      <3>1. i \in 1 .. n /\ i # n
        OBVIOUS
      <3> HIDE DEF n
      <3>2. CASE n = 1
        BY <3>1, <3>2
      <3>3. CASE n = 2
        BY <3>1, <3>3
      <3> QED
        BY <1>1, <3>2, <3>3
    <2> QED
      BY <1>1, <1>2, <2>1 DEF OrderInv
  <1>4. Outer' => passes'[1] \notin First4
    <2> SUFFICES ASSUME Outer' PROVE passes'[1] \notin First4
      OBVIOUS
    <2>1. n = 2 /\ 1 \in 1 .. n
      BY <1>1
    <2> QED
      BY <1>3, <2>1
  <1> HIDE DEF n
  <1>5. \A i \in 1 .. n : passes'[i] = e \/ passes'[i] \notin First4
    BY <1>2, <1>3
  <1> QED
    BY <1>2, <1>4, <1>5 DEF OrderInv, First4

LEMMA Moving ==
    ASSUME NestInv, ChainInv, OrderInv, Scanning, MoveOn
    PROVE  /\ Moves(Following(Top))
           /\ Running /\ Top \notin {"reboot", "connect", "send"}
                 => Following(Top) \notin First4
  BY FollowingIs DEF ChainInv, MoveOn, Moves

LEMMA QuietOrder ==
    ASSUME OrderInv, passes' = passes, Outer' => Outer,
           task'["reboot"] = task["reboot"], task'["connect"] = task["connect"]
    PROVE  OrderInv'
  BY DEF OrderInv

(* What is enabled is due.                                                 *)
LEMMA EnabledPunctual ==
    ASSUME NestInv, NEW t \in Tasks, Punctual(task[t])
    PROVE  Punctual(EnabledIfNot(t, task[t])) /\ Punctual(Enabled(t, task[t]))
  <1>1. task[t] \in Record /\ Interval[t] \in Nat
    BY TasksAssumption DEF NestInv, Typed, Table
  <1>2. Enabled(t, task[t]).age = Interval[t] /\ Enabled(t, task[t]).wait = Interval[t]
    BY <1>1, EnabledTimes
  <1>3. Punctual(Enabled(t, task[t]))
    BY <1>1, <1>2 DEF Punctual
  <1> QED
    BY <1>3 DEF EnabledIfNot

LEMMA AskedPunctual ==
    ASSUME NestInv, OrderInv, Asked(task["reboot"])
    PROVE  Punctual(task'["reboot"])
  BY EnabledPunctual, TasksApart DEF Asked, OrderInv

LEMMA CoreAt ==
    /\ "reboot" \in Core /\ "connect" \in Core /\ "check" \in Core
    /\ "reboot" # "connect" /\ "reboot" # "check" /\ "connect" # "check"
  BY DEF Core

LEMMA BeginOrder ==
    ASSUME NestInv, ChainInv, OrderInv, Begin
    PROVE  OrderInv' /\ Len(passes') = 1 /\ ~ Outer /\ ~ Outer'
  <1>1. /\ passes' = Append(passes, First) /\ active' = active /\ task' = task
        /\ pc = "idle"
    BY DEF Begin, Execute
  <1>2. Len(passes) = 0 /\ Len(active) = 0 /\ Running
    BY <1>1 DEF NestInv, Depth, Running
  <1>3. First = "reboot" /\ First \in Tasks \cup {None}
    BY <1>2, FirstIs DEF ChainInv
  <1> DEFINE P == Tasks \cup {None}
  <1>4. passes \in Seq(P) /\ First \in P
    BY <1>3 DEF OrderInv
  <1> HIDE DEF P
  <1>5. passes' \in Seq(P) /\ Len(passes') = 1 /\ passes'[1] = "reboot"
    BY <1>1, <1>2, <1>3, <1>4, Pushed
  <1>6. \A i \in 1 .. Len(passes') : passes'[i] = "reboot"
    BY <1>5
  <1>7. ~ Outer /\ ~ Outer'
    BY <1>1, <1>2 DEF Outer
  <1> QED
    BY <1>1, <1>5, <1>6, <1>7 DEF OrderInv, P

LEMMA EndOrder ==
    ASSUME NestInv, ChainInv, OrderInv, End
    PROVE  OrderInv' /\ Len(passes') # 2 /\ active' = active
  <1>1. /\ passes' = Front(passes) /\ active' = active /\ task' = task /\ Scanning
    BY DEF End, EndPass
  <1>2. /\ Len(passes) \in {1, 2} /\ (Outer => Len(passes) = 2)
        /\ Len(passes) # 0
    BY <1>1, TopIs
  <1> DEFINE P == Tasks \cup {None}
  <1>3. passes \in Seq(P)
    BY DEF OrderInv
  <1> HIDE DEF P
  <1>4. /\ passes' \in Seq(P) /\ Len(passes') = Len(passes) - 1
        /\ \A i \in 1 .. Len(passes) - 1 : passes'[i] = passes[i]
    BY <1>1, <1>2, <1>3, Popped
  <1>5. CASE Len(passes) = 1
    <2>1. Len(passes') = 0 /\ \A i \in 1 .. 0 : FALSE
      BY <1>4, <1>5
    <2>2. ~ Outer'
      <3>1. ~ Outer
        BY <1>2, <1>5
      <3> QED
        BY <1>1, <3>1 DEF Outer
    <2> QED
      BY <1>1, <1>4, <2>1, <2>2 DEF OrderInv, P
  <1>6. CASE Len(passes) = 2
    <2>1. /\ Len(passes') = 1 /\ passes'[1] = passes[1]
          /\ \A i \in 1 .. 1 : i = 1
      <3>1. 2 - 1 = 1 /\ 1 \in 1 .. 2 - 1
        OBVIOUS
      <3>2. Len(passes') = 2 - 1 /\ \A i \in 1 .. 2 - 1 : passes'[i] = passes[i]
        BY <1>4, <1>6
      <3> QED
        BY <3>1, <3>2
    <2>2. Outer' => Outer
      BY <1>1 DEF Outer
    <2>3. 1 \in 1 .. Len(passes)
      BY <1>6
    <2>4. \A i \in 1 .. Len(passes') : passes'[i] = passes[1]
      BY <2>1
    <2>5. Len(passes') # 2
      BY <2>1
    <2>6. Outer' => passes'[1] \notin First4
      BY <2>1, <2>2 DEF OrderInv
    <2> QED
      BY <1>1, <1>4, <2>3, <2>4, <2>5, <2>6 DEF OrderInv, P
  <1> QED
    BY <1>2, <1>5, <1>6

(* What is enabled and due has work, so that no pass leaves it behind.     *)
LEMMA CoreHasWork ==
    ASSUME ChainInv, OrderInv, NEW t \in {"reboot", "connect"}, task[t].on
    PROVE  HasWork(t)
  <1>1. task[t].left = -1
    BY DEF ChainInv, Core
  <1>2. task[t].age >= task[t].wait
    BY DEF OrderInv, Punctual
  <1> QED
    BY <1>1, <1>2 DEF HasWork, Due

(* Where the top of the passes goes.                                       *)
Onward == \E e : Moves(e) /\ (Top \notin First4 => e \notin First4)

LEMMA OnwardMoved ==
    ASSUME NestInv, ChainInv, OrderInv, Scanning, MoveOn, Running
    PROVE  Onward
  BY Moving DEF Onward, First4

LEMMA SkipOrder ==
    ASSUME NestInv, ChainInv, OrderInv, pc = "pass", Skip
    PROVE  OrderInv' /\ Onward
  <1>1. /\ Scanning /\ ~ HasWork(Top) /\ task' = task /\ active' = active
        /\ passes' = [passes EXCEPT ![Len(passes)] = NextWith(Top)]
    BY DEF Skip
  <1>2. Line(chain) /\ Leading(chain)
    BY DEF ChainInv, Running
  <1> DEFINE e == NextWith(Top)
  <1>3. /\ e \in Tasks \cup {None}
        /\ Top \notin {"reboot", "connect", "send"} => e \notin First4
        /\ Top = "reboot" /\ HasWork("connect") => e = "connect"
    BY <1>2, NextIs
  <1> HIDE DEF e
  <1>4. Moves(e)
    BY <1>1, <1>3 DEF Moves, e
  <1>5. Outer' => Outer
    BY <1>1 DEF Outer
  <1>6. /\ Top = passes[Len(passes)] /\ Len(passes) \in 1 .. Len(passes)
    BY <1>1, TopIs
  <1>7. /\ task["reboot"].on => Top \notin {"reboot", "connect", "send", "check"}
        /\ task["connect"].on => Top \notin {"connect", "send", "check"}
    <2>1. /\ task["reboot"].on => HasWork("reboot") /\ Top \notin {"connect", "send", "check"}
          /\ task["connect"].on => HasWork("connect") /\ Top \notin {"send", "check"}
      BY <1>6, CoreHasWork DEF OrderInv
    <2> QED
      BY <1>1, <2>1
  <1>8. task["reboot"].on => e \notin {"connect", "send", "check"}
    BY <1>3, <1>7 DEF First4
  <1>9. task["connect"].on => e \notin {"send", "check"}
    <2>1. task["connect"].on => HasWork("connect")
      BY CoreHasWork
    <2> QED
      BY <1>3, <1>7, <2>1 DEF First4
  <1>10. Punctual(task'["reboot"]) /\ Punctual(task'["connect"])
    BY <1>1 DEF OrderInv
  <1>11. OrderInv'
    BY <1>1, <1>4, <1>5, <1>8, <1>9, <1>10, OrderMoves
  <1>12. Top \notin First4 => e \notin First4
    BY <1>3 DEF First4
  <1> QED
    BY <1>4, <1>11, <1>12 DEF Onward

(* A callback behind the four tasks that lead the chain: whatever it       *)
(* enables of them, the pass is past them.                                 *)
LEMMA LateOrder ==
    ASSUME NestInv, ChainInv, OrderInv, Scanning, MoveOn, pc = "pass",
           Top \notin {"reboot", "connect", "send"}, Outer' => Outer,
           Punctual(task'["reboot"]), Punctual(task'["connect"])
    PROVE  OrderInv' /\ Onward /\ Following(Top) \notin First4
  <1> DEFINE e == Following(Top)
  <1>1. Running
    BY DEF Running
  <1>2. Moves(e) /\ e \notin First4
    BY <1>1, Moving
  <1> HIDE DEF e
  <1>3. e \notin {"connect", "send", "check"}
    BY <1>2 DEF First4
  <1>4. OrderInv'
    BY <1>2, <1>3, OrderMoves
  <1> QED
    BY <1>2, <1>4 DEF Onward, e

LEMMA ExpireOrder ==
    ASSUME NestInv, ChainInv, OrderInv, pc = "pass", PassOver, Expire
    PROVE  OrderInv' /\ Onward
  <1>1. /\ Scanning /\ MoveOn /\ active' = active /\ task[Top].left = 0
    BY DEF Expire, UsedUp
  <1>2. Top \notin First4
    BY <1>1 DEF First4, ChainInv, Core, NestInv, Typed, Table
  <1>3. Grows({})
    BY SchedulerGrows
  <1>4. task'["reboot"] = task["reboot"] /\ task'["connect"] = task["connect"]
    BY <1>3, CoreAt DEF Grows
  <1>5. Punctual(task'["reboot"]) /\ Punctual(task'["connect"])
    BY <1>4 DEF OrderInv
  <1>6. Outer' => Outer
    BY <1>1 DEF Outer
  <1>7. Top \notin {"reboot", "connect", "send"}
    BY <1>2 DEF First4
  <1> QED
    BY <1>1, <1>5, <1>6, <1>7, LateOrder

(* Mesh__StopToReconnect begins a pass of its own at the restart.          *)
LEMMA StopOrder ==
    ASSUME NestInv, ChainInv, OrderInv, Scanning, pc = "pass", ~ trying,
           NEW t, t = Top, t \notin {"reboot", "connect", "send"}, StopToReconnect(t),
           t \in Tasks,
           task'["reboot"] = task["reboot"], task'["connect"] = task["connect"]
    PROVE  OrderInv' /\ Outer' /\ Len(passes') = 2 /\ passes'[2] = "reboot" /\ ~ Outer
           /\ ~ task'["connect"].on
  <1> DEFINE P == Tasks \cup {None}
             e == Following(t)
             s == [passes EXCEPT ![Len(passes)] = e]
  <1>1. /\ passes' = Append(s, First) /\ active' = Append(active, t)
    BY DEF StopToReconnect
  <1>2. ~ Outer /\ ~ task["connect"].on
    BY DEF NestInv, Attempt
  <1>3. Len(passes) = 1 /\ Len(active) = 0
    <2>1. Len(passes) \in {1, 2} /\ (Len(passes) = 2 => Outer)
      BY TopIs
    <2>2. Len(passes) = 1
      BY <1>2, <2>1
    <2>3. Len(passes) = Len(active) + 1 /\ Len(active) \in {0, 1}
          /\ (Len(active) = 1 => Outer)
      BY ScanningShape
    <2> QED
      BY <1>2, <2>2, <2>3
  <1>4. Line(chain) /\ Leading(chain)
    BY DEF ChainInv, Running
  <1>5. e \in P /\ e \notin First4 /\ First \in P /\ First = "reboot"
    BY <1>4, FollowingIs, FirstIs
  <1> HIDE DEF e
  <1>6. passes \in Seq(P)
    BY DEF OrderInv
  <1> HIDE DEF P
  <1>7. s \in Seq(P) /\ Len(s) = 1 /\ s[1] = e
    <2>1. 1 \in 1 .. Len(passes) /\ s = [passes EXCEPT ![1] = e]
      BY <1>3
    <2>2. /\ [passes EXCEPT ![1] = e] \in Seq(P)
          /\ Len([passes EXCEPT ![1] = e]) = Len(passes)
          /\ \A i \in 1 .. Len(passes) : [passes EXCEPT ![1] = e][i] = IF i = 1 THEN e ELSE passes[i]
      BY <1>5, <1>6, <2>1, ExceptSeq
    <2> QED
      BY <1>3, <2>1, <2>2
  <1> HIDE DEF s
  <1>8. /\ passes' \in Seq(P) /\ Len(passes') = 2 /\ passes'[1] = e /\ passes'[2] = "reboot"
    <2>1. /\ Append(s, First) \in Seq(P) /\ Len(Append(s, First)) = Len(s) + 1
          /\ \A i \in 1 .. Len(s) : Append(s, First)[i] = s[i]
          /\ Append(s, First)[Len(s) + 1] = First
      <3>1. First \in P
        BY <1>5
      <3>2. s \in Seq(P)
        BY <1>7
      <3> QED
        BY <3>1, <3>2, Pushed
    <2> DEFINE q == Append(s, First)
    <2>2. /\ q \in Seq(P) /\ Len(q) = 1 + 1 /\ q[1 + 1] = First
          /\ \A i \in 1 .. 1 : q[i] = s[i]
      BY <1>7, <2>1
    <2> HIDE DEF q
    <2>3. 1 \in 1 .. 1 /\ 1 + 1 = 2
      OBVIOUS
    <2>4. Len(q) = 2 /\ q[1] = e /\ q[2] = "reboot"
      BY <1>5, <1>7, <2>2, <2>3
    <2> QED
      BY <1>1, <2>2, <2>4 DEF q
  <1>9. Outer'
    <2>1. active \in Seq(Tasks)
      BY DEF NestInv, Typed
    <2>2. Len(active') = Len(active) + 1 /\ active'[Len(active) + 1] = t
      BY <1>1, <2>1, Pushed
    <2>3. 0 + 1 = 1
      OBVIOUS
    <2>4. Len(active') = 1 /\ active'[1] = t
      BY <1>3, <2>2, <2>3
    <2> QED
      BY <2>4 DEF Outer
  <1>10. \A i \in 1 .. Len(passes') : passes'[i] \notin {"connect", "send", "check"}
    <2>1. \A i \in 1 .. 2 : i = 1 \/ i = 2
      OBVIOUS
    <2> QED
      BY <1>5, <1>8, <2>1 DEF First4
  <1> QED
    BY <1>2, <1>5, <1>8, <1>9, <1>10 DEF OrderInv, P

-----------------------------------------------------------------------------
(***************************************************************************)
(* How often a check may miss its neighbours: a check that has missed      *)
(* twice leaves a restart or a reconnect behind, and each comes before the *)
(* next check of any pass but the one that is made at that moment.         *)
(***************************************************************************)
LEMMA OnwardCount ==
    ASSUME NestInv, OrderInv, Scanning, Onward
    PROVE  Len(passes') = 2 /\ passes'[2] \in First4
               => Len(passes) = 2 /\ passes[2] \in First4
  <1>1. PICK e : Moves(e) /\ (Top \notin First4 => e \notin First4)
    BY DEF Onward
  <1>2. Len(passes') = Len(passes) /\ passes'[Len(passes)] = e
    BY <1>1, MovesAt
  <1>3. Top = passes[Len(passes)]
    BY TopIs
  <1> QED
    BY <1>1, <1>2, <1>3

QuietPasses ==
    /\ Outer => Outer'
    /\ Len(passes') = 2 /\ passes'[2] \in First4
          => Len(passes) = 2 /\ passes[2] \in First4

LEMMA QuietCount ==
    ASSUME CountInv, QuietPasses, missed' = missed, needReset' = needReset,
           task["reboot"].on => task'["reboot"].on,
           task["connect"].on => task'["connect"].on
    PROVE  CountInv'
  <1>1. missed' \in 0 .. 3 /\ needReset' \in 0 .. MissTimeout + 2
    BY DEF CountInv
  <1>2. needReset' > MissTimeout => task'["reboot"].on
    BY DEF CountInv
  <1>3. ~ Outer' /\ ~ task'["connect"].on
            => missed' <= 2 /\ (missed' = 2 => task'["reboot"].on)
    BY DEF CountInv, QuietPasses
  <1>4. Len(passes') = 2 /\ passes'[2] \in First4 => missed' <= 2
    BY DEF CountInv, QuietPasses
  <1> QED
    BY <1>1, <1>2, <1>3, <1>4 DEF CountInv

LEMMA StillPasses ==
    ASSUME passes' = passes, active' = active
    PROVE  QuietPasses /\ (Outer' => Outer)
  BY DEF QuietPasses, Outer

(* Steps that touch neither the passes nor the tasks of a restart and a    *)
(* reconnect.                                                              *)
LEMMA QuietBoth ==
    ASSUME OrderInv, CountInv, passes' = passes, active' = active,
           missed' = missed, needReset' = needReset,
           task'["reboot"] = task["reboot"], task'["connect"] = task["connect"]
    PROVE  OrderInv' /\ CountInv'
  BY StillPasses, QuietCount, QuietOrder

LEMMA BeginCount ==
    ASSUME NestInv, ChainInv, OrderInv, CountInv, Begin \/ PassOver \/ End
    PROVE  OrderInv' /\ CountInv'
  <1>1. /\ missed' = missed /\ needReset' = needReset /\ active' = active
    BY DEF Begin, PassOver, End, node, mvars, Skip, Expire, EndPass
  <1>2. /\ task'["reboot"] = task["reboot"] /\ task'["connect"] = task["connect"]
    BY SchedulerGrows, CoreAt DEF Grows
  <1>3. OrderInv' /\ QuietPasses
    <2>1. Outer => Outer'
      BY <1>1 DEF Outer
    <2>2. CASE Begin
      BY <2>1, <2>2, BeginOrder DEF QuietPasses
    <2>3. CASE End
      BY <2>1, <2>3, EndOrder DEF QuietPasses
    <2>4. CASE PassOver
      <3>1. pc = "pass" /\ (Skip \/ Expire)
        BY <2>4 DEF PassOver
      <3>2. OrderInv' /\ Onward /\ Scanning
        BY <2>4, <3>1, SkipOrder, ExpireOrder DEF Skip, Expire
      <3> QED
        BY <2>1, <3>2, OnwardCount DEF QuietPasses
    <2> QED
      BY <2>2, <2>3, <2>4
  <1> QED
    BY <1>1, <1>2, <1>3, QuietCount

LEMMA NoteCount ==
    ASSUME NestInv, ChainInv, OrderInv, CountInv, NEW n \in Notes,
           RunNew(n) \/ RunChanged(n)
    PROVE  OrderInv' /\ CountInv'
  <1>1. /\ Scanning /\ Top = n /\ pc = "pass" /\ missed' = missed /\ needReset' = needReset
    BY DEF RunNew, RunChanged, Take
  <1>2. /\ task'["reboot"] = task["reboot"] /\ task'["connect"] = task["connect"]
    BY NoteGrows, CoreAt DEF Grows
  <1>3. /\ n \in Tasks /\ n \notin First4 /\ n \notin {"reboot", "connect", "send"}
    BY CoreTasks, TasksApart DEF First4
  <1>4. Punctual(task'["reboot"]) /\ Punctual(task'["connect"])
    BY <1>2 DEF OrderInv
  <1>5. CASE MoveOn /\ active' = active
    <2>1. Outer' <=> Outer
      BY <1>5 DEF Outer
    <2>2. OrderInv' /\ Onward
      BY <1>1, <1>3, <1>4, <1>5, <2>1, LateOrder
    <2>3. QuietPasses
      BY <1>1, <2>1, <2>2, OnwardCount DEF QuietPasses
    <2> QED
      BY <1>1, <1>2, <2>2, <2>3, QuietCount
  <1>6. CASE ~ trying /\ StopToReconnect(n)
    <2>1. /\ OrderInv' /\ Outer' /\ ~ Outer /\ ~ task'["connect"].on
      BY <1>1, <1>2, <1>3, <1>6, StopOrder
    <2>2. missed <= 2
      BY <1>2, <2>1 DEF CountInv
    <2>3. missed' \in 0 .. 3 /\ needReset' \in 0 .. MissTimeout + 2
      BY <1>1 DEF CountInv
    <2>4. needReset' > MissTimeout => task'["reboot"].on
      BY <1>1, <1>2 DEF CountInv
    <2> QED
      BY <1>1, <2>1, <2>2, <2>3, <2>4 DEF CountInv
  <1>7. \/ MoveOn /\ active' = active
        \/ ~ trying /\ StopToReconnect(n)
    BY DEF RunNew, RunChanged, StopToReconnect
  <1> QED
    BY <1>5, <1>6, <1>7

(* The callbacks of a share and of a package, which may ask for a restart. *)
LEMMA ReadCount ==
    ASSUME NestInv, ChainInv, OrderInv, CountInv, NEW m, RunShare(m) \/ RunRead(m)
    PROVE  OrderInv' /\ CountInv'
  <1>1. /\ Scanning /\ Top \in {"share", "read"} /\ pc = "pass" /\ MoveOn
        /\ active' = active
        /\ missed' = missed /\ needReset' = needReset
    BY DEF RunShare, RunRead, Take, node
  <1>2. Grows({"reboot"}) /\ Asked(task["reboot"])
    BY ShareGrows, ReadGrows
  <1>3. task'["connect"] = task["connect"]
    BY <1>2, CoreAt DEF Grows
  <1>4. Punctual(task'["reboot"]) /\ Punctual(task'["connect"])
    BY <1>2, <1>3, AskedPunctual DEF OrderInv
  <1>5. Outer' <=> Outer
    BY <1>1 DEF Outer
  <1>6. OrderInv' /\ Onward
    BY <1>1, <1>4, <1>5, LateOrder
  <1>7. QuietPasses
    BY <1>1, <1>5, <1>6, OnwardCount DEF QuietPasses
  <1>8. task["reboot"].on => task'["reboot"].on
    BY <1>2, AskedLeft
  <1> QED
    BY <1>1, <1>3, <1>6, <1>7, <1>8, QuietCount

LEMMA SendCount ==
    ASSUME NestInv, ChainInv, OrderInv, CountInv,
           RunSend \/ SendType \/ SendClear \/ SendDone
    PROVE  OrderInv' /\ CountInv'
  <1>1. missed' = missed /\ needReset' = needReset
    BY DEF RunSend, SendType, SendClear, SendDone, node
  <1>2. task'["reboot"] = task["reboot"] /\ task'["connect"] = task["connect"]
    BY SendGrows, CoreAt DEF Grows
  <1>3. CASE RunSend
    <2>1. /\ Scanning /\ MoveOn /\ Top = "send" /\ pc = "pass"
      BY <1>3 DEF RunSend, Take
    <2>2. Outer' <=> Outer
      BY <1>3, RunSendNest
    <2>3. ~ task["reboot"].on /\ ~ task["connect"].on
      <3>1. Top = passes[Len(passes)] /\ Len(passes) \in 1 .. Len(passes)
        BY <2>1, TopIs
      <3> QED
        BY <2>1, <3>1 DEF OrderInv
    <2>4. Moves(Following(Top)) /\ Onward
      BY <2>1, Moving, OnwardMoved DEF Running
    <2>5. OrderInv'
      BY <1>2, <2>1, <2>2, <2>3, <2>4, OrderMoves DEF Punctual
    <2>6. QuietPasses
      BY <2>1, <2>2, <2>4, OnwardCount DEF QuietPasses
    <2> QED
      BY <1>1, <1>2, <2>5, <2>6, QuietCount
  <1>4. CASE SendType \/ SendClear
    BY <1>1, <1>2, <1>4, QuietBoth DEF SendType, SendClear, tvars
  <1>5. CASE SendDone
    <2>1. passes' = passes /\ (Outer' <=> Outer)
      BY <1>5, SendDoneNest DEF SendDone
    <2>2. OrderInv'
      BY <1>2, <2>1, QuietOrder
    <2>3. QuietPasses
      BY <2>1 DEF QuietPasses
    <2> QED
      BY <1>1, <1>2, <2>2, <2>3, QuietCount
  <1> QED
    BY <1>3, <1>4, <1>5

LEMMA ConnectCount ==
    ASSUME NestInv, ChainInv, OrderInv, CountInv, RunConnect
    PROVE  OrderInv' /\ CountInv'
  <1>1. /\ Scanning /\ MoveOn /\ Top = "connect" /\ pc = "pass" /\ active' = active
        /\ missed' = 0 /\ needReset' = needReset
    BY DEF RunConnect, Take
  <1>2. task'["reboot"] = task["reboot"] /\ ~ task'["connect"].on
    <2>1. task'["reboot"] = task["reboot"]
      BY ConnectGrows, CoreAt DEF Grows
    <2>2. Table(After("connect")) /\ "connect" \in Tasks
      BY AfterOf, TasksApart DEF NestInv, Typed
    <2>3. task'["connect"] = Disabled(After("connect")["connect"])
      BY <2>2 DEF RunConnect, Table
    <2>4. ~ Disabled(After("connect")["connect"]).on
      BY <2>2, RecordOf DEF Table
    <2> QED
      BY <2>1, <2>3, <2>4
  <1>3. Outer' <=> Outer
    BY <1>1 DEF Outer
  <1>4. ~ task["reboot"].on
    <2>1. Top = passes[Len(passes)] /\ Len(passes) \in 1 .. Len(passes)
      BY <1>1, TopIs
    <2> QED
      BY <1>1, <2>1 DEF OrderInv
  <1>5. Moves(Following(Top))
    BY <1>1, Moving DEF Running
  <1>6. OrderInv'
    BY <1>1, <1>2, <1>3, <1>4, <1>5, OrderMoves DEF Punctual
  <1>7. needReset' > MissTimeout => task'["reboot"].on
    BY <1>1, <1>2 DEF CountInv
  <1>8. missed' \in 0 .. 3 /\ needReset' \in 0 .. MissTimeout + 2
    BY <1>1 DEF CountInv
  <1> QED
    BY <1>1, <1>6, <1>7, <1>8 DEF CountInv

LEMMA CheckCount ==
    ASSUME NestInv, ChainInv, OrderInv, CountInv, RunCheck
    PROVE  OrderInv' /\ CountInv'
  <1>1. /\ Scanning /\ Top = "check" /\ pc = "pass"
        /\ "check" \notin {"reboot", "connect", "send"} /\ "check" \in Tasks
    BY TasksApart DEF RunCheck, Take
  <1>2. ~ task["reboot"].on /\ ~ task["connect"].on
        /\ (Outer => Len(passes) = 2 /\ passes[2] \in First4)
    <2>1. /\ Top = passes[Len(passes)] /\ Len(passes) \in 1 .. Len(passes)
          /\ Outer => Len(passes) = 2
      BY <1>1, TopIs
    <2> QED
      BY <1>1, <2>1 DEF OrderInv, First4
  <1>3. /\ missed \in 0 .. 2 /\ (~ Outer => missed \in 0 .. 1)
        /\ needReset \in 0 .. MissTimeout /\ MissTimeout \in 0 .. 253
    <2>1. MissTimeout \in 0 .. 253 /\ missed \in 0 .. 3 /\ needReset \in 0 .. MissTimeout + 2
      BY MeshAssumption DEF CountInv
    <2>2. ~ (needReset > MissTimeout)
      BY <1>2 DEF CountInv
    <2>3. missed <= 2 /\ (~ Outer => missed <= 2 /\ missed # 2)
      BY <1>2 DEF CountInv
    <2>4. missed \in 0 .. 2 /\ (~ Outer => missed \in 0 .. 1)
      BY <2>1, <2>3
    <2>5. needReset \in 0 .. MissTimeout
      BY <2>1, <2>2
    <2> QED
      BY <2>1, <2>4, <2>5
  <1>4. task'["connect"] = task["connect"] /\ Asked(task["reboot"])
    BY CheckGrows, CoreAt DEF Grows
  <1>5. Punctual(task'["reboot"]) /\ Punctual(task'["connect"])
    BY <1>4, AskedPunctual DEF OrderInv
  <1>6. ASSUME MoveOn, active' = active
        PROVE  /\ OrderInv' /\ (Outer' <=> Outer)
               /\ ~ (Len(passes') = 2 /\ passes'[2] \in First4)
    <2>1. Outer' <=> Outer
      BY <1>6 DEF Outer
    <2>2. OrderInv' /\ Following(Top) \notin First4
      BY <1>1, <1>5, <1>6, <2>1, LateOrder
    <2>3. Moves(Following(Top))
      BY <1>1, <1>6, Moving
    <2>4. Len(passes') = Len(passes) /\ passes'[Len(passes)] = Following(Top)
      BY <1>1, <2>3, MovesAt
    <2> QED
      BY <2>1, <2>2, <2>4
  <1>7. CASE peers
    <2>1. /\ missed' = 0 /\ needReset' = 0 /\ MoveOn /\ active' = active
      BY <1>7 DEF RunCheck
    <2>2. needReset' <= MissTimeout /\ needReset' \in 0 .. MissTimeout + 2
      BY <1>3, <2>1
    <2>3. OrderInv'
      BY <1>6, <2>1
    <2> QED
      BY <1>3, <2>1, <2>2, <2>3 DEF CountInv
  <1>8. CASE ~ peers /\ missed + 1 < 2
    <2>1. /\ missed' = missed + 1 /\ needReset' = needReset /\ MoveOn /\ active' = active
      BY <1>3, <1>8 DEF RunCheck
    <2>2. OrderInv'
      BY <1>6, <2>1
    <2>3. missed' \in 0 .. 3 /\ missed' <= 1 /\ needReset' \in 0 .. MissTimeout + 2
          /\ ~ (needReset' > MissTimeout)
      BY <1>3, <1>8, <2>1
    <2>4. missed' <= 2 /\ missed' # 2
      BY <2>3
    <2> QED
      BY <2>2, <2>3, <2>4 DEF CountInv
  <1>9. CASE ~ peers /\ missed + 1 >= 2 /\ needReset + 2 > MissTimeout
    <2>1. /\ missed' = missed + 1 /\ needReset' = needReset + 2
          /\ MoveOn /\ active' = active /\ task' = Restarting(After("check"))
      BY <1>3, <1>9 DEF RunCheck
    <2>2. task'["reboot"].on
      <3>1. Table(After("check")) /\ "reboot" \in Tasks
        BY <1>1, AfterOf, TasksApart DEF NestInv, Typed
      <3>2. task'["reboot"] = EnabledIfNot("reboot", After("check")["reboot"])
        BY <2>1, <3>1, RestartingAt
      <3>3. After("check")["reboot"] \in Record
        BY <3>1 DEF Table
      <3> QED
        BY <3>1, <3>2, <3>3, RecordOf
    <2>3. OrderInv' /\ (Outer' <=> Outer) /\ ~ (Len(passes') = 2 /\ passes'[2] \in First4)
      BY <1>6, <2>1
    <2>4. missed' \in 0 .. 3 /\ needReset' \in 0 .. MissTimeout + 2
          /\ (~ Outer => missed' <= 2)
      BY <1>3, <2>1
    <2> QED
      BY <2>2, <2>3, <2>4 DEF CountInv
  <1>10. CASE ~ peers /\ missed + 1 >= 2 /\ ~ (needReset + 2 > MissTimeout)
    <2>1. /\ missed' = missed + 1 /\ needReset' = needReset + 2
          /\ task' = After("check") /\ StopToReconnect("check")
      BY <1>3, <1>10 DEF RunCheck
    <2>2. missed' \in 0 .. 3 /\ needReset' \in 0 .. MissTimeout + 2
          /\ ~ (needReset' > MissTimeout) /\ (~ Outer => missed' <= 2)
      BY <1>3, <1>10, <2>1
    <2>3. CASE trying
      <3>1. Outer /\ MoveOn /\ active' = active
        BY <1>2, <2>1, <2>3 DEF NestInv, Attempt, StopToReconnect
      <3>2. OrderInv' /\ Outer' /\ ~ (Len(passes') = 2 /\ passes'[2] \in First4)
        BY <1>6, <3>1
      <3> QED
        BY <2>2, <3>2 DEF CountInv
    <2>4. CASE ~ trying
      <3>1. task'["reboot"] = task["reboot"]
        BY <1>1, <2>1, AfterAll, TasksApart DEF NestInv, Typed
      <3>2. OrderInv' /\ Outer' /\ ~ Outer
        BY <1>1, <1>4, <2>1, <2>4, <3>1, StopOrder
      <3> QED
        BY <2>2, <3>2 DEF CountInv
    <2> QED
      BY <2>3, <2>4
  <1> QED
    BY <1>3, <1>7, <1>8, <1>9, <1>10

LEMMA ReconnectCount ==
    ASSUME NestInv, ChainInv, OrderInv, CountInv, Reconnect \/ ReconnectStop
    PROVE  OrderInv' /\ CountInv'
  <1>1. /\ missed' = missed /\ needReset' = needReset
    BY DEF Reconnect, ReconnectStop, mvars
  <1>2. Outer /\ ~ Outer' /\ Len(passes) = 1
    BY ReconnectNest
  <1>3. /\ task'["reboot"] = task["reboot"] /\ task'["connect"].on
        /\ task'["connect"] = EnabledIfNot("connect", task["connect"])
    BY ReconnectChain, CoreAt
  <1>4. Punctual(task'["reboot"]) /\ Punctual(task'["connect"])
    BY <1>3, EnabledPunctual, TasksApart DEF OrderInv
  <1> DEFINE P == Tasks \cup {None}
  <1>5. /\ passes' \in Seq(P) /\ Len(passes') = 1 /\ passes'[1] \notin First4
    <2>1. passes \in Seq(P) /\ passes[1] \notin First4 /\ None \in P /\ 1 \in 1 .. Len(passes)
      BY <1>2 DEF OrderInv
    <2>2. passes' = passes \/ passes' = [passes EXCEPT ![1] = None] \/ passes' = [passes EXCEPT ![1] = @]
      BY <1>2 DEF Reconnect, ReconnectStop
    <2> HIDE DEF P
    <2>3. /\ [passes EXCEPT ![1] = None] \in Seq(P)
          /\ Len([passes EXCEPT ![1] = None]) = Len(passes)
          /\ [passes EXCEPT ![1] = None][1] = None
      BY <2>1, ExceptSeq
    <2>4. [passes EXCEPT ![1] = @] = passes
      BY <2>1, LenProperties
    <2> QED
      BY <1>2, <2>1, <2>2, <2>3, <2>4, CoreTasks
  <1>6. \A i \in 1 .. Len(passes') : passes'[i] \notin First4
    <2>1. \A i \in 1 .. 1 : i = 1
      OBVIOUS
    <2> QED
      BY <1>5, <2>1
  <1>7. OrderInv'
    BY <1>2, <1>4, <1>5, <1>6 DEF OrderInv, First4
  <1>8. missed' \in 0 .. 3 /\ needReset' \in 0 .. MissTimeout + 2
    BY <1>1 DEF CountInv
  <1>9. needReset' > MissTimeout => task'["reboot"].on
    BY <1>1, <1>3 DEF CountInv
  <1>10. Len(passes') # 2
    BY <1>5
  <1> QED
    BY <1>3, <1>7, <1>8, <1>9, <1>10 DEF CountInv

(* Outside a pass nothing is in progress: what holds of the passes does.   *)
LEMMA RestOrder ==
    ASSUME NestInv, OrderInv, pc # "pass", passes' = passes, active' = active,
           Punctual(task'["reboot"]), Punctual(task'["connect"])
    PROVE  OrderInv' /\ QuietPasses
  <1>1. Len(passes) = 0 /\ Len(active) = 0
    BY DEF NestInv, Depth
  <1>2. ~ Outer' /\ QuietPasses
    BY <1>1, StillPasses DEF Outer
  <1>3. \A i \in 1 .. Len(passes') : FALSE
    BY <1>1
  <1> QED
    BY <1>2, <1>3 DEF OrderInv

LEMMA SetupCount ==
    ASSUME NestInv, ChainInv, OrderInv, CountInv, Setup
    PROVE  OrderInv' /\ CountInv'
  <1>1. /\ pc = "setup" /\ passes' = passes /\ active' = active
        /\ missed' = missed /\ needReset' = needReset
    BY DEF Setup, node
  <1>2. \A t \in Tasks : ~ task[t].on
    BY <1>1 DEF ChainInv
  <1>3. "reboot" \in Tasks /\ "connect" \in Tasks
    BY TasksApart
  <1>4. /\ task'["connect"] = task["connect"]
        /\ \/ task'["reboot"] = task["reboot"]
           \/ task'["reboot"] = Enabled("reboot", task["reboot"])
    BY SetupChain
  <1>5. Punctual(task'["reboot"]) /\ Punctual(task'["connect"])
    BY <1>3, <1>4, EnabledPunctual DEF OrderInv
  <1>6. OrderInv' /\ QuietPasses
    BY <1>1, <1>5, RestOrder
  <1> QED
    BY <1>1, <1>2, <1>3, <1>6, QuietCount

LEMMA WaitCount ==
    ASSUME NestInv, OrderInv, CountInv, Wait
    PROVE  OrderInv' /\ CountInv'
  <1>1. /\ pc # "pass" /\ passes' = passes /\ active' = active
        /\ missed' = missed /\ needReset' = needReset
    BY DEF Wait, Tick, mvars
  <1>2. ASSUME NEW t \in Tasks, Punctual(task[t])
        PROVE  Punctual(task'[t])
    <2>1. /\ task'[t].on = task[t].on /\ task'[t].wait = task[t].wait
          /\ task'[t].age = IF task[t].on /\ task[t].age < MaxTicks
                            THEN task[t].age + 1 ELSE task[t].age
          /\ task[t].age \in Int /\ task[t].wait \in Nat
      BY WaitTasks
    <2>2. CASE task[t].on
      <3>1. task[t].age >= task[t].wait /\ task'[t].age \in {task[t].age, task[t].age + 1}
        BY <1>2, <2>1, <2>2 DEF Punctual
      <3>2. task'[t].age >= task'[t].wait
        <4> DEFINE a == task[t].age
                   w == task[t].wait
        <4>1. \A b \in {a, a + 1} : b >= w
          <5>1. a >= w /\ a \in Int /\ w \in Nat
            BY <2>1, <3>1
          <5> HIDE DEF a, w
          <5> QED
            BY <5>1
        <4> QED
          BY <2>1, <3>1, <4>1
      <3> QED
        BY <3>2 DEF Punctual
    <2>3. CASE ~ task[t].on
      BY <2>1, <2>3 DEF Punctual
    <2> QED
      BY <2>2, <2>3
  <1>3. "reboot" \in Tasks /\ "connect" \in Tasks
    BY TasksApart
  <1>4. Punctual(task'["reboot"]) /\ Punctual(task'["connect"])
    BY <1>2, <1>3 DEF OrderInv
  <1>5. OrderInv' /\ QuietPasses
    BY <1>1, <1>4, RestOrder
  <1>6. task'["reboot"].on = task["reboot"].on /\ task'["connect"].on = task["connect"].on
    BY <1>3, WaitTasks
  <1> QED
    BY <1>1, <1>5, <1>6, QuietCount

(* A life of the node begins without a miss, and without a pass.           *)
LEMMA BirthOrder ==
    ASSUME NEW ps, ps = <<>>, NEW as, as = <<>>
    PROVE  /\ ps \in Seq(Tasks \cup {None}) /\ Len(ps) = 0 /\ Len(as) = 0
           /\ \A i \in 1 .. Len(ps) : FALSE
           /\ 0 \in 0 .. 3 /\ 0 \in 0 .. MissTimeout + 2 /\ ~ (0 > MissTimeout)
  <1>1. MissTimeout \in 0 .. 253
    BY MeshAssumption
  <1>2. 0 \in 0 .. 3 /\ 0 \in 0 .. MissTimeout + 2 /\ ~ (0 > MissTimeout)
    BY <1>1
  <1>3. ps \in Seq(Tasks \cup {None}) /\ Len(ps) = 0 /\ Len(as) = 0
    BY EmptySeq
  <1>4. \A i \in 1 .. 0 : FALSE
    OBVIOUS
  <1> QED
    BY <1>2, <1>3, <1>4

LEMMA RestartCount ==
    ASSUME Restart
    PROVE  OrderInv' /\ CountInv'
  <1>1. /\ passes' = <<>> /\ active' = <<>> /\ missed' = 0 /\ needReset' = 0
        /\ task' = [t \in Tasks |-> Fresh(t)]
    BY DEF Restart
  <1>2. ~ task'["reboot"].on /\ ~ task'["connect"].on
    BY <1>1, TasksApart DEF Fresh
  <1>3. /\ passes' \in Seq(Tasks \cup {None}) /\ Len(passes') = 0 /\ Len(active') = 0
        /\ \A i \in 1 .. Len(passes') : FALSE
        /\ missed' \in 0 .. 3 /\ needReset' \in 0 .. MissTimeout + 2
        /\ ~ (needReset' > MissTimeout)
    BY <1>1, BirthOrder
  <1>4. ~ Outer'
    BY <1>3 DEF Outer
  <1>5. OrderInv'
    BY <1>2, <1>3, <1>4 DEF OrderInv, Punctual
  <1>6. missed' <= 2 /\ missed' # 2 /\ Len(passes') # 2
    BY <1>1, <1>3
  <1> QED
    BY <1>3, <1>5, <1>6 DEF CountInv

LEMMA InitCount == Init => OrderInv /\ CountInv
  <1> SUFFICES ASSUME Init
               PROVE  OrderInv /\ CountInv
    OBVIOUS
  <1>1. /\ passes = <<>> /\ active = <<>> /\ missed = 0 /\ needReset = 0
        /\ task = [t \in Tasks |-> Fresh(t)]
    BY DEF Init, TasksInit
  <1>2. ~ task["reboot"].on /\ ~ task["connect"].on
    BY <1>1, TasksApart DEF Fresh
  <1>3. /\ passes \in Seq(Tasks \cup {None}) /\ Len(passes) = 0 /\ Len(active) = 0
        /\ \A i \in 1 .. Len(passes) : FALSE
        /\ missed \in 0 .. 3 /\ needReset \in 0 .. MissTimeout + 2
        /\ ~ (needReset > MissTimeout)
    BY <1>1, BirthOrder
  <1>4. ~ Outer
    BY <1>3 DEF Outer
  <1>5. OrderInv
    BY <1>2, <1>3, <1>4 DEF OrderInv, Punctual
  <1>6. missed <= 2 /\ missed # 2 /\ Len(passes) # 2
    BY <1>1, <1>3
  <1> QED
    BY <1>3, <1>5, <1>6 DEF CountInv

LEMMA NextCount ==
    NestInv /\ ChainInv /\ OrderInv /\ CountInv /\ [Next]_vars => OrderInv' /\ CountInv'
  <1> SUFFICES ASSUME NestInv, ChainInv, OrderInv, CountInv, [Next]_vars
               PROVE  OrderInv' /\ CountInv'
    OBVIOUS
  <1>1. CASE Restarts
    BY <1>1, RestartCount DEF Restarts, GiveFails, StopCrash, RunReboot, PowerCut
  <1>2. CASE Begin \/ PassOver \/ End
    BY <1>2, BeginCount
  <1>3. CASE \E n \in Notes : RunNew(n) \/ RunChanged(n)
    BY <1>3, NoteCount
  <1>4. CASE RunSend \/ SendType \/ SendClear \/ SendDone
    BY <1>4, SendCount
  <1>5. CASE \E m \in Msgs : RunShare(m) \/ RunRead(m)
    BY <1>5, ReadCount
  <1>6. ASSUME Grows({}), passes' = passes, active' = active,
               missed' = missed, needReset' = needReset
        PROVE  OrderInv' /\ CountInv'
    BY <1>6, QuietBoth, CoreAt DEF Grows
  <1>7. CASE KeyEnable \/ KeyForce
    <2>1. /\ passes' = passes /\ active' = active /\ missed' = missed /\ needReset' = needReset
      BY <1>7 DEF KeyEnable, KeyForce, node
    <2> QED
      BY <1>6, <1>7, <2>1, KeyGrows
  <1>8. CASE \/ KeyData \/ KeyType \/ EventGive \/ LinkCleared
             \/ (\E m \in Msgs : KeySend(m)) \/ UNCHANGED vars
    <2>1. /\ passes' = passes /\ active' = active /\ missed' = missed /\ needReset' = needReset
      BY <1>8 DEF KeyData, KeyType, EventGive, LinkCleared, KeySend, vars, tvars, mvars, node
    <2> QED
      BY <1>6, <1>8, <2>1, IdleGrows
  <1>9. CASE Accept \/ LinkDown \/ \E p \in Packets : Arrive(p)
    <2>1. /\ passes' = passes /\ active' = active /\ missed' = missed /\ needReset' = needReset
      BY <1>9 DEF Accept, LinkDown, Arrive, node
    <2> QED
      BY <1>6, <1>9, <2>1, NetworkGrows
  <1>10. CASE RunConnect \/ RunCheck
    BY <1>10, ConnectCount, CheckCount
  <1>11. CASE Reconnect \/ ReconnectStop
    BY <1>11, ReconnectCount
  <1>12. CASE Setup \/ Wait
    BY <1>12, SetupCount, WaitCount
  <1> QED
    BY <1>1, <1>2, <1>3, <1>4, <1>5, <1>7, <1>8, <1>9, <1>10, <1>11, <1>12
    DEF Next, Loop, Callback, Key, Network, Restarts

-----------------------------------------------------------------------------
(***************************************************************************)
(* Sending to all: how far its two counters run.  The task that counts     *)
(* disables itself when it asks for the restart, and nothing enables it    *)
(* but the setup.                                                          *)
(***************************************************************************)
LEMMA ShareApart ==
    /\ "share" \in Tasks /\ "share" \notin Notes /\ "share" \notin {"connect", "send"}
    /\ "share" # "reboot" /\ "share" # "read" /\ "share" # "check"
  BY MeshAssumption DEF Fixed

ShareKept == task'["share"].on => task["share"].on

LEMMA SchedulerShare ==
    ASSUME NestInv, Begin \/ PassOver \/ End
    PROVE  ShareKept
  <1>1. CASE Begin \/ End \/ (PassOver /\ Skip)
    BY <1>1 DEF Begin, End, Skip, EndPass, ShareKept
  <1>2. CASE PassOver /\ Expire
    <2>1. task' = [task EXCEPT ![Top] = Disabled(task[Top])] /\ Table(task)
      BY <1>2 DEF Expire, NestInv, Typed
    <2>2. CASE Top = "share"
      <3>1. task'["share"] = Disabled(task["share"]) /\ task["share"] \in Record
        BY <2>1, <2>2, ShareApart DEF Table
      <3> QED
        BY <3>1, RecordOf, ShareApart DEF ShareKept
    <2>3. CASE Top # "share"
      <3>1. task'["share"] = task["share"]
        BY <2>1, <2>3, SetAt, ShareApart
      <3> QED
        BY <3>1 DEF ShareKept
    <2> QED
      BY <2>2, <2>3
  <1> QED
    BY <1>1, <1>2 DEF PassOver

LEMMA CallbackShare ==
    ASSUME NestInv,
           \/ RunConnect \/ RunCheck \/ RunSend
           \/ \E n \in Notes : RunNew(n) \/ RunChanged(n)
           \/ Reconnect \/ ReconnectStop
    PROVE  ShareKept
  <1>1. Table(task) /\ "share" \in Tasks
    BY ShareApart DEF NestInv, Typed
  <1>2. \A t \in Tasks : Table(After(t)) /\ After(t)["share"].on = task["share"].on
    BY <1>1, AfterOf, AfterAll
  <1>3. CASE RunConnect \/ RunSend
    <2>1. PICK t \in {"connect", "send"} : \E r : task' = [After(t) EXCEPT ![t] = r]
      BY <1>3 DEF RunConnect, RunSend
    <2>2. t \in Tasks /\ t # "share"
      BY <2>1, ShareApart, TasksApart
    <2>3. task'["share"] = After(t)["share"]
      BY <1>1, <1>2, <2>1, <2>2, SetAt
    <2> QED
      BY <1>2, <2>2, <2>3 DEF ShareKept
  <1>4. CASE RunCheck
    <2>1. "check" \in Tasks
      BY TasksApart
    <2>2. task' = After("check") \/ task' = Restarting(After("check"))
      BY <1>4 DEF RunCheck
    <2>3. task'["share"] = After("check")["share"]
      BY <1>1, <1>2, <2>1, <2>2, RestartingAt, ShareApart
    <2> QED
      BY <1>2, <2>1, <2>3 DEF ShareKept
  <1>5. CASE \E n \in Notes : RunNew(n) \/ RunChanged(n)
    <2>1. PICK n \in Notes : task' = After(n)
      BY <1>5 DEF RunNew, RunChanged
    <2> QED
      BY <1>2, <2>1, TasksApart DEF ShareKept
  <1>6. CASE Reconnect
    <2>1. task'["share"] = task["share"]
      BY <1>1, <1>6, ReenabledAt, ShareApart DEF Reconnect
    <2> QED
      BY <2>1 DEF ShareKept
  <1>7. CASE ReconnectStop
    <2> DEFINE tab == [t \in Tasks |-> IF t \in Deleted THEN Fresh(t) ELSE task[t]]
               r == EnabledIfNot("connect", tab["connect"])
    <2>1. task' = [tab EXCEPT !["connect"] = r]
      BY <1>7 DEF ReconnectStop, Reenabled
    <2>2. tab["share"].on => task["share"].on
      BY <1>1 DEF Fresh
    <2>3. DOMAIN tab = Tasks
      OBVIOUS
    <2> HIDE DEF tab, r
    <2>4. task'["share"] = tab["share"]
      BY <2>1, <2>3, ShareApart
    <2> QED
      BY <2>2, <2>4 DEF ShareKept
  <1> QED
    BY <1>3, <1>4, <1>5, <1>6, <1>7

LEMMA ReadShare ==
    ASSUME NestInv, ChainInv, NEW m, RunRead(m)
    PROVE  ShareKept
  <1> DEFINE tab == After("read")
  <1>1. /\ Table(tab) /\ notes \in Seq(Notes) /\ tab["share"].on = task["share"].on
        /\ Line(chain)
    <2>1. "read" \in Tasks /\ Table(task) /\ notes \in Seq(Notes) /\ Line(chain)
      BY TasksApart DEF NestInv, Typed, ChainInv
    <2> QED
      BY <2>1, AfterOf, AfterAll, ShareApart
  <1>2. \/ task' = tab
        \/ AddNotes(tab, "new", "changed")
        \/ AddNote(tab, "changed")
        \/ MeshSend(tab, m)
        \/ task' = Restarting(tab)
    BY DEF RunRead
  <1> HIDE DEF tab
  <1>3. CASE AddNotes(tab, "new", "changed")
    BY <1>1, <1>3, NotesIn, ShareApart DEF ShareKept
  <1>4. CASE AddNote(tab, "changed")
    BY <1>1, <1>4, NoteIn, ShareApart DEF ShareKept
  <1>5. CASE MeshSend(tab, m)
    BY <1>1, <1>5, MeshSendAt, ShareApart DEF ShareKept
  <1>6. CASE task' = tab \/ task' = Restarting(tab)
    BY <1>1, <1>6, RestartingAt, ShareApart DEF ShareKept
  <1> QED
    BY <1>2, <1>3, <1>4, <1>5, <1>6

LEMMA OutsideShare ==
    ASSUME NestInv, ChainInv,
           \/ KeyEnable \/ KeyForce \/ Accept \/ LinkDown \/ Wait
           \/ \E p \in Packets : Arrive(p)
    PROVE  ShareKept
  <1>1. Table(task) /\ "read" \in Tasks /\ Line(chain) /\ notes \in Seq(Notes)
    BY TasksApart DEF NestInv, Typed, ChainInv
  <1>2. CASE LinkDown
    <2> DEFINE r == Disabled(task["read"])
               tab == [task EXCEPT !["read"] = r]
    <2>1. AddNote(tab, "changed")
      BY <1>2 DEF LinkDown
    <2>2. task["read"] \in Record /\ "read" \in Tasks \ {"connect", "send"}
      BY <1>1, TasksApart DEF Table
    <2>3. r \in Record
      BY <2>2, RecordOf
    <2> HIDE DEF r
    <2>4. Table(tab) /\ tab["share"] = task["share"]
      BY <1>1, <2>2, <2>3, OtherSet, SetAt, ShareApart
    <2> HIDE DEF tab
    <2>5. task'["share"] = tab["share"]
      BY <1>1, <2>1, <2>4, NoteIn, ShareApart
    <2> QED
      BY <2>4, <2>5 DEF ShareKept
  <1>3. CASE Wait
    BY <1>3, WaitTasks, ShareApart DEF ShareKept
  <1>4. CASE KeyEnable \/ KeyForce \/ Accept \/ \E p \in Packets : Arrive(p)
    <2>1. \/ task' = task
          \/ \E t \in {"send", "read"} : \E r : task' = [task EXCEPT ![t] = r]
      <3>1. CASE KeyEnable \/ KeyForce
        BY <3>1 DEF KeyEnable, KeyForce
      <3>2. CASE Accept
        BY <3>2 DEF Accept
      <3>3. CASE \E p \in Packets : Arrive(p)
        BY <3>3 DEF Arrive
      <3> QED
        BY <1>4, <3>1, <3>2, <3>3
    <2>2. ASSUME NEW t \in {"send", "read"}, NEW r, task' = [task EXCEPT ![t] = r]
          PROVE  task'["share"] = task["share"]
      <3>1. t # "share"
        BY ShareApart
      <3> QED
        BY <1>1, <2>2, <3>1, SetAt, ShareApart
    <2>3. task'["share"] = task["share"]
      BY <2>1, <2>2
    <2> QED
      BY <2>3 DEF ShareKept
  <1> QED
    BY <1>2, <1>3, <1>4

LEMMA QuietShare ==
    ASSUME ShareInv, ShareKept, count' = count, alone' = alone, pc' = "setup" => pc = "setup"
    PROVE  ShareInv'
  BY DEF ShareInv, ShareKept

LEMMA RunShareShare ==
    ASSUME NestInv, ShareInv, NEW m, RunShare(m)
    PROVE  ShareInv'
  <1> DEFINE tab == After("share")
             r == Disabled(tab["share"])
             off == [tab EXCEPT !["share"] = r]
  <1>1. task["share"].on /\ pc' = "pass"
    BY DEF RunShare, Take, Due
  <1>2. count \in 0 .. 6 /\ alone \in 0 .. 6
    <2>1. count \in 0 .. 11 /\ alone \in 0 .. 7 /\ count <= 6 /\ alone <= 6
      BY <1>1 DEF ShareInv
    <2> QED
      BY <2>1
  <1>3. \/ alone < 6 /\ alone' = alone + 1 /\ count' = count
        \/ alone' = 0 /\ count < Limit /\ count' = count + 1
        \/ /\ task' = Restarting(off)
           /\ alone' \in {0, alone + 1} /\ count' \in {count + 1, 11}
    BY DEF RunShare
  <1>4. CASE alone < 6 /\ alone' = alone + 1 /\ count' = count
    BY <1>1, <1>2, <1>4 DEF ShareInv
  <1>5. CASE alone' = 0 /\ count < Limit /\ count' = count + 1
    BY <1>1, <1>2, <1>5 DEF ShareInv, Limit
  <1>6. CASE /\ task' = Restarting(off)
             /\ alone' \in {0, alone + 1} /\ count' \in {count + 1, 11}
    <2>1. Table(tab) /\ "share" \in Tasks \ {"connect", "send"} /\ tab["share"] \in Record
      BY AfterOf, ShareApart DEF NestInv, Typed, Table
    <2> HIDE DEF tab
    <2>2. r \in Record /\ ~ r.on
      BY <2>1, RecordOf
    <2> HIDE DEF r
    <2>3. Table(off)
      BY <2>1, <2>2, OtherSet
    <2>4. off["share"] = r
      BY <2>1 DEF Table
    <2> HIDE DEF off
    <2>5. task'["share"] = off["share"]
      BY <1>6, <2>1, <2>3, RestartingAt, ShareApart
    <2>6. ~ task'["share"].on
      BY <2>2, <2>4, <2>5
    <2>7. count' \in 0 .. 11 /\ alone' \in 0 .. 7
      BY <1>2, <1>6
    <2> QED
      BY <1>1, <2>6, <2>7 DEF ShareInv
  <1> HIDE DEF off
  <1> QED
    BY <1>3, <1>4, <1>5, <1>6

LEMMA BirthShare ==
    ASSUME NEW tab, tab = [t \in Tasks |-> Fresh(t)]
    PROVE  ~ tab["share"].on /\ 0 \in 0 .. 11 /\ 0 \in 0 .. 7
  <1>1. ~ tab["share"].on
    BY ShareApart DEF Fresh
  <1> QED
    BY <1>1

LEMMA NextShare == NestInv /\ ChainInv /\ ShareInv /\ [Next]_vars => ShareInv'
  <1> SUFFICES ASSUME NestInv, ChainInv, ShareInv, [Next]_vars
               PROVE  ShareInv'
    OBVIOUS
  <1>1. CASE Restarts
    <2>1. Restart
      BY <1>1 DEF Restarts, GiveFails, StopCrash, RunReboot, PowerCut
    <2>2. count' = 0 /\ alone' = 0 /\ ~ task'["share"].on
      BY <2>1, BirthShare DEF Restart
    <2> QED
      BY <2>2 DEF ShareInv
  <1>2. CASE Setup
    <2>1. /\ count' = 0 /\ alone' = 0
      BY <1>2 DEF Setup, share, ShareInv
    <2>2. 0 \in 0 .. 11 /\ 0 \in 0 .. 7 /\ 0 <= 6
      OBVIOUS
    <2> QED
      BY <2>1, <2>2 DEF ShareInv
  <1>3. CASE \E m \in Msgs : RunShare(m)
    BY <1>3, RunShareShare
  <1>4. CASE Begin \/ PassOver \/ End
    <2>1. count' = count /\ alone' = alone /\ (pc' = "setup" => pc = "setup")
      BY <1>4 DEF Begin, PassOver, End, mvars, share
    <2> QED
      BY <1>4, <2>1, QuietShare, SchedulerShare
  <1>5. CASE \/ RunConnect \/ RunCheck \/ RunSend
             \/ (\E n \in Notes : RunNew(n) \/ RunChanged(n))
             \/ Reconnect \/ ReconnectStop
    <2>1. count' = count /\ alone' = alone /\ (pc' = "setup" => pc = "setup")
      BY <1>5 DEF RunConnect, RunCheck, RunSend, RunNew, RunChanged, Reconnect,
                  ReconnectStop, mvars, share
    <2> QED
      BY <1>5, <2>1, QuietShare, CallbackShare
  <1>6. CASE \E m \in Msgs : RunRead(m)
    <2>1. count' = count /\ alone' = alone /\ (pc' = "setup" => pc = "setup")
      BY <1>6 DEF RunRead, share
    <2> QED
      BY <1>6, <2>1, QuietShare, ReadShare
  <1>7. CASE \/ KeyEnable \/ KeyForce \/ Accept \/ LinkDown \/ Wait
             \/ \E p \in Packets : Arrive(p)
    <2>1. count' = count /\ alone' = alone /\ (pc' = "setup" => pc = "setup")
      BY <1>7 DEF KeyEnable, KeyForce, Accept, LinkDown, Wait, Arrive, mvars, share
    <2> QED
      BY <1>7, <2>1, QuietShare, OutsideShare
  <1>8. CASE \/ KeyData \/ KeyType \/ EventGive \/ LinkCleared
             \/ (\E m \in Msgs : KeySend(m)) \/ UNCHANGED vars
             \/ SendType \/ SendClear \/ SendDone
    <2>1. /\ count' = count /\ alone' = alone /\ (pc' = "setup" => pc = "setup")
          /\ task' = task
      BY <1>8 DEF KeyData, KeyType, EventGive, LinkCleared, KeySend, vars, tvars, mvars,
                  share, SendType, SendClear, SendDone
    <2> QED
      BY <2>1, QuietShare DEF ShareKept
  <1> QED
    BY <1>1, <1>2, <1>3, <1>4, <1>5, <1>6, <1>7, <1>8
    DEF Next, Loop, Callback, Key, Network, Restarts

-----------------------------------------------------------------------------
(***************************************************************************)
(* The other variables.                                                    *)
(***************************************************************************)
Said == Msgs \cup {Empty}

(* A mode other than the mesh is stored only until its setup.              *)
StartInv ==
    /\ mode \in Modes \cup {"mesh"}
    /\ stored \in {"normal"} \cup (Modes \ {"mesh"})
    /\ old \in BOOLEAN

LinkInv ==
    /\ connected \in BOOLEAN /\ peers \in BOOLEAN /\ closing \in BOOLEAN
    /\ inbox \in Packets \cup {"none"}
    /\ kind \in [Notes -> {"new", "changed"}]
    /\ mutex \in {"free", "loop", "event"}

SaidInv ==
    /\ slot \in Said /\ type \in BOOLEAN /\ taken \in Said \X BOOLEAN
    /\ key \in {"idle", "data", "type", "enable", "force"} /\ given \in Said
    /\ last \in Said /\ raced \in BOOLEAN /\ sent \in Said
    /\ events \in 0 .. MaxEvents

LEMMA QuietStart ==
    ASSUME StartInv, UNCHANGED <<mode, old>>, stored' \in {stored, "normal"}
    PROVE  StartInv'
  BY DEF StartInv

LEMMA NextStart == StartInv /\ [Next]_vars => StartInv'
  <1> SUFFICES ASSUME StartInv, [Next]_vars
               PROVE  StartInv'
    OBVIOUS
  <1>1. CASE Restarts
    BY <1>1 DEF Restarts, GiveFails, StopCrash, RunReboot, PowerCut, Restart, StartInv
  <1>2. CASE Setup
    BY <1>2 DEF Setup, StartInv
  <1>3. CASE Begin \/ PassOver \/ End \/ Wait \/ UNCHANGED vars
    BY <1>3, QuietStart DEF Begin, PassOver, End, Wait, vars, mvars, start
  <1>4. CASE \/ RunConnect \/ RunCheck \/ RunSend \/ Reconnect \/ ReconnectStop
             \/ \E n \in Notes : RunNew(n) \/ RunChanged(n)
    BY <1>4, QuietStart DEF RunConnect, RunCheck, RunSend, RunNew, RunChanged, Reconnect,
                            ReconnectStop, mvars, start
  <1>5. CASE \E m \in Msgs : RunShare(m) \/ RunRead(m) \/ KeySend(m)
    BY <1>5, QuietStart DEF RunShare, RunRead, KeySend, start
  <1>6. CASE SendType \/ SendClear \/ SendDone \/ KeyData \/ KeyType \/ KeyEnable \/ KeyForce
    BY <1>6, QuietStart DEF SendType, SendClear, SendDone, KeyData, KeyType, KeyEnable,
                            KeyForce, start
  <1>7. CASE Accept \/ EventGive \/ LinkDown \/ LinkCleared \/ \E p \in Packets : Arrive(p)
    BY <1>7, QuietStart DEF Accept, EventGive, LinkDown, LinkCleared, Arrive, start
  <1> QED
    BY <1>1, <1>2, <1>3, <1>4, <1>5, <1>6, <1>7
    DEF Next, Loop, Callback, Key, Network, Restarts

LEMMA QuietLink ==
    ASSUME LinkInv, UNCHANGED <<connected, link, kind, mutex>>
    PROVE  LinkInv'
  BY DEF LinkInv, link

LEMMA NextLink == LinkInv /\ [Next]_vars => LinkInv'
  <1> SUFFICES ASSUME LinkInv, [Next]_vars
               PROVE  LinkInv'
    OBVIOUS
  <1>1. CASE Restarts
    <2>1. Restart
      BY <1>1 DEF Restarts, GiveFails, StopCrash, RunReboot, PowerCut
    <2> QED
      BY <2>1 DEF Restart, LinkInv
  <1>2. CASE Begin \/ End
    BY <1>2 DEF Begin, End, LinkInv, link, handlers, node
  <1>3. CASE \/ Setup \/ PassOver \/ Wait \/ UNCHANGED vars \/ Reconnect
             \/ RunSend \/ SendType \/ SendClear \/ SendDone
    BY <1>3, QuietLink DEF Setup, PassOver, Wait, vars, mvars, Reconnect, link, handlers,
                           node, RunSend, SendType, SendClear, SendDone
  <1>4. CASE KeyData \/ KeyType \/ KeyEnable \/ KeyForce \/ \E m \in Msgs : KeySend(m) \/ RunShare(m)
    BY <1>4, QuietLink DEF KeyData, KeyType, KeyEnable, KeyForce, KeySend, RunShare, link,
                           handlers, node
  <1>5. CASE RunConnect \/ RunCheck \/ ReconnectStop
    BY <1>5 DEF RunConnect, RunCheck, ReconnectStop, LinkInv, link, handlers
  <1>6. CASE \E n \in Notes : RunNew(n) \/ RunChanged(n)
    BY <1>6 DEF RunNew, RunChanged, LinkInv, link, handlers
  <1>7. CASE Accept \/ EventGive \/ LinkCleared \/ \E p \in Packets : Arrive(p)
    BY <1>7 DEF Accept, EventGive, LinkCleared, Arrive, LinkInv, link, handlers, node
  <1>8. ASSUME NEW tab, AddNote(tab, "changed")
        PROVE  kind' \in [Notes -> {"new", "changed"}]
    BY <1>8 DEF AddNote, LinkInv
  <1>9. ASSUME NEW tab, AddNotes(tab, "new", "changed")
        PROVE  kind' \in [Notes -> {"new", "changed"}]
    BY <1>9 DEF AddNotes, LinkInv
  <1>10. CASE \E m \in Msgs : RunRead(m)
    <2>1. /\ connected' = connected /\ closing' = closing /\ mutex' = mutex /\ inbox' = "none"
          /\ peers' = peers \/ peers' = TRUE
      BY <1>10 DEF RunRead, node
    <2>2. \/ kind' = kind
          \/ AddNote(After("read"), "changed")
          \/ AddNotes(After("read"), "new", "changed")
      BY <1>10 DEF RunRead, handlers
    <2>3. kind' \in [Notes -> {"new", "changed"}]
      BY <1>8, <1>9, <2>2 DEF LinkInv
    <2> QED
      BY <2>1, <2>3 DEF LinkInv
  <1>11. CASE LinkDown
    <2>1. /\ connected' = connected /\ closing' = TRUE /\ mutex' = mutex /\ inbox' = "none"
          /\ peers' = peers
          /\ AddNote([task EXCEPT !["read"] = Disabled(@)], "changed")
      BY <1>11 DEF LinkDown, node
    <2>2. kind' \in [Notes -> {"new", "changed"}]
      BY <1>8, <2>1
    <2> QED
      BY <2>1, <2>2 DEF LinkInv
  <1> QED
    BY <1>1, <1>2, <1>3, <1>4, <1>5, <1>6, <1>7, <1>10, <1>11
    DEF Next, Loop, Callback, Key, Network, Restarts

LEMMA QuietSaid ==
    ASSUME SaidInv,
           UNCHANGED <<slot, type, taken, key, given, last, raced, sent, events>>
    PROVE  SaidInv'
  BY DEF SaidInv

LEMMA NextSaid == SaidInv /\ [Next]_vars => SaidInv'
  <1> SUFFICES ASSUME SaidInv, [Next]_vars
               PROVE  SaidInv'
    OBVIOUS
  <1>1. CASE Restarts
    <2>1. Restart
      BY <1>1 DEF Restarts, GiveFails, StopCrash, RunReboot, PowerCut
    <2>2. 0 \in 0 .. MaxEvents
      BY MeshAssumption
    <2> QED
      BY <2>1, <2>2 DEF Restart, SaidInv, Said
  <1>2. CASE \/ Setup \/ Begin \/ PassOver \/ End \/ Wait \/ UNCHANGED vars
             \/ Reconnect \/ ReconnectStop
    BY <1>2, QuietSaid DEF Setup, Begin, PassOver, End, Wait, vars, mvars, hvars, Reconnect,
                           ReconnectStop, sending, sender
  <1>3. CASE \/ RunConnect \/ RunCheck \/ Accept \/ EventGive \/ LinkCleared
             \/ \E n \in Notes : RunNew(n) \/ RunChanged(n)
    BY <1>3, QuietSaid DEF RunConnect, RunCheck, Accept, EventGive, LinkCleared, RunNew,
                           RunChanged, sending, sender
  <1>4. ASSUME events < MaxEvents, events' = events + 1
        PROVE  events' \in 0 .. MaxEvents
    <2>1. events \in 0 .. MaxEvents /\ MaxEvents \in Nat
      BY MeshAssumption DEF SaidInv
    <2> QED
      BY <1>4, <2>1
  <1>5. CASE LinkDown \/ \E p \in Packets : Arrive(p)
    <2>1. /\ events < MaxEvents /\ events' = events + 1
          /\ UNCHANGED <<slot, type, taken, key, given, last, raced, sent>>
      BY <1>5 DEF LinkDown, Arrive, sender
    <2> QED
      BY <1>4, <2>1 DEF SaidInv
  <1>6. CASE RunSend \/ SendType \/ SendClear \/ SendDone
    <2>1. UNCHANGED <<key, given, events>>
      BY <1>6 DEF RunSend, SendType, SendClear, SendDone, sender, hvars
    <2>2. /\ taken[1] \in Said /\ taken[2] \in BOOLEAN /\ slot \in Said /\ Empty \in Said
          /\ type \in BOOLEAN /\ last \in Said /\ sent \in Said /\ taken \in Said \X BOOLEAN
          /\ raced \in BOOLEAN
      BY DEF SaidInv, Said
    <2>3. taken' \in Said \X BOOLEAN
      <3>1. \/ taken' = <<slot, FALSE>> \/ taken' = <<taken[1], type>>
            \/ taken' = <<Empty, FALSE>> \/ taken' = taken
        <4>1. RunSend => taken' = <<slot, FALSE>>
          BY DEF RunSend
        <4>2. SendType => taken' = <<taken[1], type>>
          BY DEF SendType
        <4>3. SendClear => taken' = taken
          BY DEF SendClear
        <4>4. SendDone => taken' = <<Empty, FALSE>>
          BY DEF SendDone
        <4> QED
          BY <1>6, <4>1, <4>2, <4>3, <4>4
      <3>2. \A x \in Said, b \in BOOLEAN : <<x, b>> \in Said \X BOOLEAN
        OBVIOUS
      <3>3. /\ <<slot, FALSE>> \in Said \X BOOLEAN
            /\ <<taken[1], type>> \in Said \X BOOLEAN
            /\ <<Empty, FALSE>> \in Said \X BOOLEAN
        BY <2>2, <3>2
      <3> QED
        BY <2>2, <3>1, <3>3
    <2>4. /\ slot' = slot \/ slot' = Empty
          /\ type' = type \/ type' = FALSE
          /\ last' = last \/ last' = Empty
          /\ sent' = sent \/ sent' = taken[1]
      BY <1>6 DEF RunSend, SendType, SendClear, SendDone, hvars
    <2>5. raced' \in BOOLEAN
      BY <1>6, <2>2 DEF RunSend, SendType, SendClear, SendDone, hvars
    <2> QED
      BY <2>1, <2>2, <2>3, <2>4, <2>5 DEF SaidInv
  <1>7. CASE KeyData \/ KeyType \/ KeyEnable \/ KeyForce
    BY <1>7 DEF KeyData, KeyType, KeyEnable, KeyForce, hvars, SaidInv, Said
  <1>8. ASSUME NEW m \in Msgs, KeySend(m)
        PROVE  SaidInv'
    <2>1. events' \in 0 .. MaxEvents
      BY <1>4, <1>8 DEF KeySend
    <2>2. /\ UNCHANGED <<slot, type, taken, last, sent>> /\ key' = "data" /\ given' = m
          /\ raced' \in BOOLEAN
      BY <1>8 DEF KeySend
    <2> QED
      BY <2>1, <2>2 DEF SaidInv, Said
  <1>9. ASSUME NEW m \in Msgs, RunShare(m) \/ RunRead(m)
        PROVE  SaidInv'
    <2>1. /\ UNCHANGED <<taken, key, given, sent, events>>
          /\ \/ UNCHANGED <<slot, type, last, raced>>
             \/ \E tab : MeshSend(tab, m)
      BY <1>9 DEF RunShare, RunRead, sender
    <2>2. /\ slot' \in {slot, m} /\ type' \in {type, TRUE} /\ last' \in {last, m}
          /\ raced' = raced \/ raced' \in BOOLEAN
      BY <2>1 DEF MeshSend
    <2> QED
      BY <2>1, <2>2 DEF SaidInv, Said
  <1> QED
    BY <1>1, <1>2, <1>3, <1>5, <1>6, <1>7, <1>8, <1>9
    DEF Next, Loop, Callback, Key, Network, Restarts

LEMMA InitData == Init => StartInv /\ LinkInv /\ SaidInv /\ ShareInv
  <1> SUFFICES ASSUME Init
               PROVE  StartInv /\ LinkInv /\ SaidInv /\ ShareInv
    OBVIOUS
  <1>1. StartInv
    BY DEF Init, StartInv
  <1>2. LinkInv
    BY DEF Init, LinkInv
  <1>3. 0 \in 0 .. MaxEvents
    BY MeshAssumption
  <1>4. SaidInv
    BY <1>3 DEF Init, SaidInv, Said
  <1>5. task = [t \in Tasks |-> Fresh(t)] /\ count = 0 /\ alone = 0
    BY DEF Init, TasksInit
  <1>6. ~ task["share"].on /\ 0 \in 0 .. 11 /\ 0 \in 0 .. 7
    BY <1>5, BirthShare
  <1>7. ShareInv
    BY <1>5, <1>6 DEF ShareInv
  <1> QED
    BY <1>1, <1>2, <1>4, <1>7

AllInv ==
    /\ NestInv /\ ChainInv /\ StaleInv /\ OrderInv /\ CountInv /\ ShareInv
    /\ StartInv /\ LinkInv /\ SaidInv

LEMMA TypesSound == AllInv => TypeOK
  <1> SUFFICES ASSUME AllInv
               PROVE  TypeOK
    OBVIOUS
  <1>1. NestInv /\ ChainInv /\ OrderInv
    BY DEF AllInv
  <1>2. TasksType
    BY <1>1 DEF NestInv, Typed, Table, Record, ChainInv, Line, OrderInv, TasksType
  <1>3. TasksSound
    <2>1. DOMAIN chain = 1 .. Len(chain)
      BY <1>1, LenProperties DEF ChainInv, Line
    <2>2. \A i, j \in DOMAIN chain : chain[i] = chain[j] => i = j
      BY <1>1, <2>1 DEF ChainInv, Line
    <2>3. \A t \in Tasks : task[t].on => InChain(t)
      BY <1>1, <2>1 DEF ChainInv, Has, InChain, Contains
    <2> QED
      BY <1>1, <2>2, <2>3 DEF NestInv, Depth, TasksSound
  <1>4. missed \in 0 .. 255 /\ needReset \in 0 .. 255
    <2>1. missed \in 0 .. 3 /\ needReset \in 0 .. MissTimeout + 2 /\ MissTimeout \in 0 .. 253
      BY MeshAssumption DEF AllInv, CountInv
    <2> QED
      BY <2>1
  <1>5. stored \in {"normal"} \cup Sendall
    BY MeshAssumption DEF AllInv, StartInv
  <1>6. stale \in Nat /\ count \in 0 .. 11 /\ alone \in 0 .. 7
    BY DEF AllInv, StaleInv, ShareInv
  <1>7. /\ pc \in {"setup", "idle", "pass", "off"} /\ trying \in BOOLEAN
        /\ step \in {"none", "type", "clear", "done"} /\ notes \in Seq(Notes)
    BY <1>1 DEF NestInv, Typed
  <1>8. /\ mode \in Modes \cup {"mesh"} /\ old \in BOOLEAN
    BY DEF AllInv, StartInv
  <1> QED
    BY <1>2, <1>3, <1>4, <1>5, <1>6, <1>7, <1>8 DEF AllInv, LinkInv, SaidInv, Said, TypeOK

(* The type invariant of a node, and with it the scheduler: no order of    *)
(* calls puts a task into the chain twice, or leaves one enabled that is   *)
(* not in it (addTask, deleteTask, enable); and the counters of the check  *)
(* and of sending to all, which are bytes, never wrap (mesh.h:207-229,     *)
(* sendall.h).                                                             *)
THEOREM NodeIsTyped == Spec => []TypeOK
  <1>1. Init => AllInv
    <2>1. Init => StaleInv
      BY DEF Init, StaleInv, Running
    <2> QED
      BY <2>1, InitNest, InitChain, InitCount, InitData DEF AllInv
  <1>2. AllInv /\ [Next]_vars => AllInv'
    <2> SUFFICES ASSUME AllInv, [Next]_vars
                 PROVE  AllInv'
      OBVIOUS
    <2>1. NestInv'
      BY NextNest DEF AllInv
    <2> QED
      BY <2>1, NextChain, NextStale, NextCount, NextShare, NextStart, NextLink, NextSaid
      DEF AllInv
  <1> QED
    BY <1>1, <1>2, TypesSound, PTL DEF Spec
=============================================================================
