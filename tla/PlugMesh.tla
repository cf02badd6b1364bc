------------------------------ MODULE PlugMesh ------------------------------
(***************************************************************************)
(* A node of the wifi mesh: mesh.h and sendall.h over the scheduler of     *)
(* PlugTasks and the parts of painlessMesh they lean on (init, stop and    *)
(* update of mesh.hpp, addTask of plugin.hpp, the tasks a connection adds).*)
(*                                                                         *)
(* Four threads: the loop, Mesh__Loop, whose update() makes a pass of the  *)
(* scheduler under the semaphore of the mesh; the key task, whose commands *)
(* end in Mesh__Send; the network task, which accepts connections under    *)
(* the semaphore and delivers data and disconnects without it; the world.  *)
(*                                                                         *)
(* A tick is 15 seconds.  The tasks of all connections are one task, read, *)
(* and their neighbours one answer, peers: getNodeList is not empty.       *)
(***************************************************************************)
EXTENDS PlugTasks

CONSTANTS Notes,        \* bound: the anonymous tasks there may be at a time
          Msgs,         \* what a sender passes to Mesh__Send
          Empty,        \* the empty String
          MissTimeout,  \* MESH__MISSTIMEOUT
          MaxEvents,    \* bound: packages, losses, keys per start
          Modes         \* the start modes a run begins in

Sendall == {"config_sendall", "reboot_sendall"}
Fixed == {"reboot", "connect", "send", "check", "read", "share"}
Packets == {"sync", "modbus", "restart"}

ASSUME MeshAssumption ==
    /\ Tasks = Fixed \cup Notes /\ Fixed \cap Notes = {}
    /\ \A n \in Notes : Interval[n] = 0 /\ Times[n] = 1
    /\ \A t \in Fixed : Times[t] = -1    \* TASK_FOREVER
    /\ Empty \notin Msgs
    /\ MissTimeout \in 0 .. 253    \* the counter is a byte and grows by 2
    /\ MaxEvents \in Nat
    /\ Modes \subseteq {"mesh"} \cup Sendall

VARIABLES
    mode, stored,   \* the mode started in, _StartMode of the settings
    old,            \* _MeshNameOld is not empty
    pc,             \* the loop: setup, idle, pass, off
    step,           \* how far Mesh__SendByTask is, when it is in progress
    connected,      \* _Mesh_IsConnected
    missed,         \* MeshCon_Missed
    needReset,      \* MeshCon_NeedReset
    trying,         \* MeshCon_Trying
    peers,          \* getNodeList() is not empty
    closing,        \* a lost connection has queued its note, not yet cleared
    inbox,          \* a package received and not yet read
    notes, kind,    \* taskList of the package handler, what each note runs
    slot, type,     \* _Mesh_SendData, _Mesh_SendType
    taken,          \* data and type of Mesh__SendByTask
    key, given,     \* how far the key's Mesh__Send is, and its message
    count, alone,   \* SendallCount, SendallCountDisconnect
    mutex           \* who holds the semaphore the mesh object knows

VARIABLES
    last,           \* the message of the latest Mesh__Send, until it is taken
    raced,          \* Mesh__Send overlapped another call of it or its task
    sent,           \* what was handed to sendBroadcast
    events,         \* packages, losses of the link and keys so far
    stale           \* ticks since connected was right, while it is wrong

mvars == <<mode, stored, old, pc, step, connected, missed, needReset, trying,
           peers, closing, inbox, notes, kind, slot, type, taken, key, given,
           count, alone, mutex>>
hvars == <<last, raced, sent, events, stale>>
vars == <<tvars, mvars, hvars>>

link == <<peers, closing, inbox>>
node == <<connected, missed, needReset, trying>>
sending == <<step, slot, type, taken, last, raced, sent, events>>
sender == <<key, given>>
share == <<count, alone>>
start == <<mode, stored, old>>
handlers == <<notes, kind>>

-----------------------------------------------------------------------------
(***************************************************************************)
(* Calls.                                                                  *)
(***************************************************************************)

(* addTask of the package handler: the first task of its list that is not  *)
(* enabled is used again, else a new one is put at the end of the chain    *)
(* and the front of the list.  tab and ns are task and notes so far.       *)
Reusable(tab, ns) == {i \in DOMAIN ns : ~ tab[ns[i]].on}
Unused(ns) == Notes \ ToSet(ns)
CanNote(tab, ns) == Reusable(tab, ns) # {} \/ Unused(ns) # {}   \* bound: Notes

Pick(tab, ns) ==
    IF Reusable(tab, ns) # {}
    THEN ns[CHOOSE i \in Reusable(tab, ns) : \A j \in Reusable(tab, ns) : i <= j]
    ELSE CHOOSE n \in Unused(ns) : TRUE

AddNote(tab, k) ==
    /\ CanNote(tab, notes)
    /\ LET n == Pick(tab, notes)
       IN  /\ task' = [tab EXCEPT ![n] = Armed(n)]
           /\ kind' = [kind EXCEPT ![n] = k]
           /\ notes' = IF n \in ToSet(notes) THEN notes ELSE <<n>> \o notes
           /\ chain' = With(chain, n)

(* handleNodeSync of a new neighbour queues two notes, new then changed.   *)
AddNotes(tab, k1, k2) ==
    LET n1 == Pick(tab, notes)
        tab1 == [tab EXCEPT ![n1] = Armed(n1)]
        ns1 == IF n1 \in ToSet(notes) THEN notes ELSE <<n1>> \o notes
        n2 == Pick(tab1, ns1)
    IN  /\ CanNote(tab, notes) /\ CanNote(tab1, ns1)
        /\ task' = [tab1 EXCEPT ![n2] = Armed(n2)]
        /\ kind' = [kind EXCEPT ![n1] = k1, ![n2] = k2]
        /\ notes' = IF n2 \in ToSet(ns1) THEN ns1 ELSE <<n2>> \o ns1
        /\ chain' = With(With(chain, n1), n2)

(* Tools__SetMode("normal", true) of common.h: the task that restarts.     *)
Restarting(tab) == [tab EXCEPT !["reboot"] = EnabledIfNot("reboot", @)]

(* A restart loses everything but the settings.  A stored "normal" runs    *)
(* the mesh on this circuit.                                               *)
Restart ==
    /\ mode' = IF stored = "normal" THEN "mesh" ELSE stored
    /\ pc' = "setup" /\ step' = "none"
    /\ connected' = FALSE /\ missed' = 0 /\ needReset' = 0 /\ trying' = FALSE
    /\ peers' = FALSE /\ closing' = FALSE /\ inbox' = "none"
    /\ notes' = <<>> /\ kind' = [n \in Notes |-> "new"]
    /\ slot' = Empty /\ type' = FALSE /\ taken' = <<Empty, FALSE>>
    /\ key' = "idle" /\ given' = Empty
    /\ count' = 0 /\ alone' = 0 /\ mutex' = "free"
    /\ chain' = <<>> /\ task' = [t \in Tasks |-> Fresh(t)]
    /\ passes' = <<>> /\ active' = <<>>
    /\ last' = Empty /\ raced' = FALSE /\ sent' = Empty
    /\ events' = 0 /\ stale' = 0
    /\ UNCHANGED <<stored, old>>

-----------------------------------------------------------------------------
(* The tasks in the chain after Tools__TaskSetup and the setup.            *)
Prepared ==
    IF mode = "mesh" THEN <<"reboot", "connect", "send", "check">>
                     ELSE <<"reboot", "connect", "send", "check", "share">>

(* Mutant: the test for an old mesh name is inverted.                      *)
SetupInverted ==
    /\ pc = "setup"
    /\ stored' = "normal"
    /\ IF mode = "config_sendall" /\ old
       THEN /\ pc' = "off"
            /\ chain' = <<"reboot">>
            /\ task' = [task EXCEPT !["reboot"] = Enabled("reboot", @)]
            /\ old' = old
       ELSE /\ pc' = "idle"
            /\ chain' = Prepared
            /\ task' = [t \in Tasks |->
                           IF t \in {"check", "share"} /\ t \in ToSet(Prepared)
                           THEN Enabled(t, task[t]) ELSE task[t]]
            /\ old' = (old /\ mode = "mesh")
    /\ UNCHANGED <<mode, passes, active, node, link, handlers, sending, sender,
                   share, mutex, stale>>

(***************************************************************************)
(* Mesh__Setup and Sendall__Setup, up to their loop.  A config_sendall     *)
(* without an old mesh asks for a restart and returns: nothing runs the    *)
(* scheduler in that mode, so the restart is never made.                   *)
(***************************************************************************)
Setup ==
    /\ pc = "setup"
    /\ stored' = "normal"
    /\ IF mode = "config_sendall" /\ ~ old
       THEN /\ pc' = "off"
            /\ chain' = <<"reboot">>
            /\ task' = [task EXCEPT !["reboot"] = Enabled("reboot", @)]
            /\ old' = old
       ELSE /\ pc' = "idle"
            /\ chain' = Prepared
            /\ task' = [t \in Tasks |->
                           IF t \in {"check", "share"} /\ t \in ToSet(Prepared)
                           THEN Enabled(t, task[t]) ELSE task[t]]
            /\ old' = (old /\ mode = "mesh")
    /\ UNCHANGED <<mode, passes, active, node, link, handlers, sending, sender,
                   share, mutex, stale>>

(***************************************************************************)
(* Mesh__Loop: update() takes the semaphore, makes a pass and gives the    *)
(* semaphore the object knows by then.  Giving one another task holds is   *)
(* an assertion of FreeRTOS, and the chip restarts.  A pass that finds     *)
(* nothing to do changes nothing.                                          *)
(***************************************************************************)
Begin ==
    /\ pc = "idle" /\ mutex = "free"
    /\ \E i \in DOMAIN chain : HasWork(chain[i])
    /\ pc' = "pass" /\ mutex' = "loop"
    /\ Execute
    /\ UNCHANGED <<chain, task, active, start, step, node, link, handlers, slot,
                   type, taken, sender, share, hvars>>

PassOver ==
    /\ pc = "pass"
    /\ Skip \/ Expire
    /\ UNCHANGED <<mvars, hvars>>

End ==
    /\ pc = "pass" /\ (mutex = "event" => Len(passes) > 1)
    /\ EndPass
    /\ IF Len(passes) = 1 THEN pc' = "idle" /\ mutex' = "free"
                          ELSE UNCHANGED <<pc, mutex>>
    /\ UNCHANGED <<start, step, node, link, handlers, slot, type, taken,
                   sender, share, hvars>>

GiveFails ==
    /\ pc = "pass" /\ mutex = "event" /\ Len(passes) = 1
    /\ Scanning /\ Top = None
    /\ Restart

-----------------------------------------------------------------------------
(* Mutant: Mesh__StopToReconnect without its look at MeshCon_Trying.       *)
StopToReconnectAgain(t) ==
    /\ trying' = TRUE
    /\ passes' = Append([passes EXCEPT ![Len(passes)] = Following(t)], First)
    /\ active' = Append(active, t)

(***************************************************************************)
(* Mesh__StopToReconnect: unless one is in progress, it makes a pass of    *)
(* its own from inside the callback t, and goes on in Reconnect.           *)
(***************************************************************************)
StopToReconnect(t) ==
    IF trying
    THEN trying' = trying /\ MoveOn /\ active' = active
    ELSE /\ trying' = TRUE
         /\ passes' = Append([passes EXCEPT ![Len(passes)] = Following(t)], First)
         /\ active' = Append(active, t)

Stopping == active # <<>> /\ Last(active) # "send" /\ ~ Scanning

(* Mutant: Mesh__StopToReconnect never enables Mesh__Connect_Task.         *)
ReenabledNever(tab) == tab

Reenabled(tab) == [tab EXCEPT !["connect"] = EnabledIfNot("connect", @)]

Reconnect ==
    /\ pc = "pass" /\ Stopping /\ ~ connected
    /\ task' = Reenabled(task)
    /\ Return
    /\ UNCHANGED <<chain, passes, mvars, hvars>>

(* What stop() deletes from the chain: the notes and the tasks of the      *)
(* connections it closes.                                                  *)
Deleted == ToSet(notes) \cup {"read"}

(* A pass inside the callback found a neighbour: the object is stopped     *)
(* from inside its own callbacks.  The caller may be a note that is now    *)
(* freed, or go on with one: a crash, or the end of the pass.              *)
ReconnectStop ==
    /\ pc = "pass" /\ Stopping /\ connected
    /\ connected' = FALSE
    /\ peers' = FALSE /\ closing' = FALSE /\ inbox' = "none"
    /\ chain' = Without(chain, Deleted)
    /\ task' = Reenabled([t \in Tasks |-> IF t \in Deleted THEN Fresh(t) ELSE task[t]])
    /\ notes' = <<>>
    /\ passes' = [passes EXCEPT ![Len(passes)] = IF @ \in Deleted THEN None ELSE @]
    /\ Return
    /\ UNCHANGED <<start, pc, step, missed, needReset, trying, kind, slot, type,
                   taken, sender, share, mutex, hvars>>

StopCrash ==
    /\ pc = "pass" /\ Stopping /\ connected
    /\ Last(active) \in Deleted \/ Last(passes) \in Deleted
    /\ Restart
-----------------------------------------------------------------------------
(***************************************************************************)
(* The callbacks.                                                          *)
(***************************************************************************)
After(t) == [task EXCEPT ![t] = Ran(t, @)]

(* The history of connected: now is its next value.                        *)
Still(now) == IF now /\ ~ peers THEN stale ELSE 0

RunReboot == pc = "pass" /\ Take("reboot") /\ Restart

(* Mutant: a reconnect clears MeshCon_NeedReset too.                       *)
RunConnectResets ==
    /\ pc = "pass" /\ Take("connect")
    /\ task' = [After("connect") EXCEPT !["connect"] = Disabled(@)]
    /\ connected' = FALSE /\ missed' = 0 /\ trying' = FALSE /\ needReset' = 0
    /\ mutex' = "free" /\ stale' = Still(FALSE)
    /\ MoveOn
    /\ UNCHANGED <<chain, active, start, pc, link, handlers, sending,
                   sender, share>>

(* init gives the object a new semaphore, inside the pass that holds the   *)
(* old one.                                                                *)
RunConnect ==
    /\ pc = "pass" /\ Take("connect")
    /\ task' = [After("connect") EXCEPT !["connect"] = Disabled(@)]
    /\ connected' = FALSE /\ missed' = 0 /\ trying' = FALSE
    /\ mutex' = "free" /\ stale' = Still(FALSE)
    /\ MoveOn
    /\ UNCHANGED <<chain, active, start, pc, needReset, link, handlers, sending,
                   sender, share>>

(* Mutant: the check clears _Mesh_IsConnected at the second miss only, and *)
(* reconnects nothing.                                                     *)
RunCheckLate ==
    /\ pc = "pass" /\ Take("check")
    /\ connected' = (peers \/ (connected /\ missed = 0))
    /\ stale' = Still(connected')
    /\ missed' = IF peers THEN 0 ELSE 1
    /\ task' = After("check") /\ MoveOn
    /\ UNCHANGED <<chain, active, start, pc, needReset, trying, link, handlers,
                   sending, sender, share, mutex>>

RunCheck ==
    /\ pc = "pass" /\ Take("check")
    /\ connected' = peers /\ stale' = Still(peers)
    /\ IF peers
       THEN /\ missed' = 0 /\ needReset' = 0
            /\ task' = After("check") /\ MoveOn
            /\ UNCHANGED <<trying, stored, active>>
       ELSE /\ missed' = missed + 1
            /\ needReset' = IF missed' >= 2 THEN needReset + 2 ELSE needReset
            /\ CASE missed' < 2 ->
                      task' = After("check") /\ MoveOn
                      /\ UNCHANGED <<trying, stored, active>>
                 [] missed' >= 2 /\ needReset' > MissTimeout ->
                      stored' = "normal"
                      /\ task' = Restarting(After("check")) /\ MoveOn
                      /\ UNCHANGED <<trying, active>>
                 [] OTHER ->
                      task' = After("check") /\ StopToReconnect("check")
                      /\ stored' = stored
    /\ UNCHANGED <<chain, mode, old, pc, link, handlers, sending, sender, share,
                   mutex>>

(* Mesh__OnNewConnection.                                                  *)
RunNew(n) ==
    /\ pc = "pass" /\ Take(n) /\ kind[n] = "new"
    /\ task' = After(n)
    /\ connected' = TRUE
    /\ MoveOn
    /\ UNCHANGED <<chain, active, start, pc, missed, needReset, trying, link,
                   handlers, sending, sender, share, mutex, stale>>

(* Mesh__OnChangedConnection.                                              *)
RunChanged(n) ==
    /\ pc = "pass" /\ Take(n) /\ kind[n] = "changed"
    /\ task' = After(n) /\ kind' = [kind EXCEPT ![n] = "new"]
    /\ connected' = peers /\ stale' = Still(peers)
    /\ IF peers THEN MoveOn /\ UNCHANGED <<trying, active>>
                ELSE StopToReconnect(n)
    /\ UNCHANGED <<chain, start, pc, missed, needReset, link, notes, sending,
                   sender, share, mutex>>

(* Mutant: Mesh__Send forces a task it does not enable.                    *)
MeshSendForced(tab, m) ==
    IF connected
    THEN /\ slot' = m /\ type' = TRUE /\ last' = m
         /\ raced' = (key # "idle" \/ (raced /\ tab["send"].on))
         /\ task' = [tab EXCEPT !["send"] = Forced("send", @)]
    ELSE task' = tab /\ UNCHANGED <<slot, type, last, raced>>

(* Mesh__Send in one go, from the loop itself.                             *)
MeshSend(tab, m) ==
    IF connected
    THEN /\ slot' = m /\ type' = TRUE /\ last' = m
         /\ raced' = (key # "idle" \/ (raced /\ tab["send"].on))
         /\ task' = [tab EXCEPT !["send"] = Forced("send", EnabledIfNot("send", @))]
    ELSE task' = tab /\ UNCHANGED <<slot, type, last, raced>>

Limit == IF mode = "reboot_sendall" THEN 2 ELSE 6

(* Sendall__ShareData, every 15 seconds.                                   *)
RunShare(m) ==
    /\ pc = "pass" /\ Take("share")
    /\ \/ /\ alone < 6 /\ ~ connected
          /\ alone' = alone + 1
          /\ task' = After("share")
          /\ UNCHANGED <<count, stored, slot, type, last, raced>>
       \/ /\ alone < 6 /\ connected /\ count < Limit
          /\ alone' = 0 /\ count' = count + 1
          /\ MeshSend(After("share"), m)
          /\ stored' = stored
       \/ /\ alone >= 6 \/ (connected /\ count >= Limit)
          /\ alone' = IF alone < 6 THEN 0 ELSE alone + 1
          /\ count' = IF alone < 6 THEN count + 1 ELSE 11
          /\ task' = Restarting([After("share") EXCEPT !["share"] = Disabled(@)])
          /\ stored' = "normal"
          /\ UNCHANGED <<slot, type, last, raced>>
    /\ MoveOn
    /\ UNCHANGED <<chain, active, mode, old, pc, step, taken, node, link, handlers,
                   sender, mutex, sent, events, stale>>

(***************************************************************************)
(* Mesh__SendByTask.  The arrays that hold data and type are compared with *)
(* literals by their address, so a type is never one of those it sends.    *)
(***************************************************************************)
ArrayIs(isLiteral) == FALSE

RunSend ==
    /\ pc = "pass" /\ Take("send")
    /\ task' = [After("send") EXCEPT !["send"] = Disabled(@)]
    /\ taken' = <<slot, FALSE>>
    /\ step' = "type"
    /\ raced' = (raced \/ key # "idle")
    /\ active' = Append(active, "send") /\ MoveOn
    /\ UNCHANGED <<chain, start, pc, node, link, handlers, slot, type, sender,
                   share, mutex, last, sent, events, stale>>

SendType ==
    /\ step = "type"
    /\ taken' = <<taken[1], type>>
    /\ step' = "clear"
    /\ UNCHANGED <<tvars, start, pc, node, link, handlers, slot, type, sender,
                   share, mutex, hvars>>

SendClear ==
    /\ step = "clear"
    /\ slot' = Empty
    /\ step' = "done"
    /\ UNCHANGED <<tvars, start, pc, node, link, handlers, type, taken, sender,
                   share, mutex, hvars>>

SendDone ==
    /\ step = "done"
    /\ type' = FALSE
    /\ sent' = IF ArrayIs(taken[2]) THEN taken[1] ELSE sent
    /\ last' = IF taken = <<last, TRUE>> THEN Empty ELSE last
    /\ taken' = <<Empty, FALSE>>
    /\ step' = "none"
    /\ Return
    /\ UNCHANGED <<chain, task, passes, start, pc, node, link, handlers, slot,
                   sender, share, mutex, raced, events, stale>>

(* readBufferTask of a connection, and what its package leads to: a layout *)
(* (handleNodeSync), or a message (Mesh__OnReceive), which is a command it *)
(* may answer, or settings or a share that restart it: the mode stored is  *)
(* "normal" since the setup in both.                                       *)
RunRead(m) ==
    /\ pc = "pass" /\ Take("read")
    /\ inbox' = "none"
    /\ LET tab == After("read") IN
       \/ /\ inbox = "none"
          /\ task' = tab
          /\ UNCHANGED <<chain, peers, handlers, stored, slot, type, last, raced>>
       \/ /\ inbox = "sync" /\ ~ peers
          /\ AddNotes(tab, "new", "changed")
          /\ peers' = TRUE
          /\ UNCHANGED <<stored, slot, type, last, raced>>
       \/ /\ inbox = "sync" /\ peers
          /\ AddNote(tab, "changed")
          /\ UNCHANGED <<peers, stored, slot, type, last, raced>>
       \/ /\ inbox = "modbus"
          /\ MeshSend(tab, m)
          /\ UNCHANGED <<chain, peers, handlers, stored>>
       \/ /\ inbox = "restart"
          /\ task' = Restarting(tab)
          /\ stored' = "normal"
          /\ UNCHANGED <<chain, peers, handlers, slot, type, last, raced>>
    /\ MoveOn
    /\ UNCHANGED <<active, mode, old, pc, step, taken, node, closing, sender,
                   share, mutex, sent, events, stale>>

-----------------------------------------------------------------------------
(***************************************************************************)
(* Mesh__Send from the key task.                                           *)
(***************************************************************************)
KeySend(m) ==
    /\ events < MaxEvents /\ events' = events + 1
    /\ key = "idle" /\ mode = "mesh" /\ connected
    /\ key' = "data" /\ given' = m
    /\ raced' = (step # "none" \/ (raced /\ task["send"].on))
    /\ UNCHANGED <<tvars, start, pc, step, node, link, handlers, slot, type, taken,
                   share, mutex, last, sent, stale>>

KeyData ==
    /\ key = "data" /\ key' = "type"
    /\ slot' = given
    /\ UNCHANGED <<tvars, start, pc, step, node, link, handlers, type, taken, given,
                   share, mutex, hvars>>

KeyType ==
    /\ key = "type" /\ key' = "enable"
    /\ type' = TRUE
    /\ UNCHANGED <<tvars, start, pc, step, node, link, handlers, slot, taken, given,
                   share, mutex, hvars>>

KeyEnable ==
    /\ key = "enable" /\ key' = "force"
    /\ task' = [task EXCEPT !["send"] = EnabledIfNot("send", @)]
    /\ UNCHANGED <<chain, passes, active, start, pc, step, node, link, handlers, slot,
                   type, taken, given, share, mutex, hvars>>

KeyForce ==
    /\ key = "force" /\ key' = "idle"
    /\ task' = [task EXCEPT !["send"] = Forced("send", @)]
    /\ last' = given /\ given' = Empty
    /\ UNCHANGED <<chain, passes, active, start, pc, step, node, link, handlers, slot,
                   type, taken, share, mutex, raced, sent, events, stale>>

-----------------------------------------------------------------------------
(***************************************************************************)
(* The network.                                                            *)
(***************************************************************************)
Running == pc \in {"idle", "pass"}

(* Mutant: a connection adds its task to the chain, there or not.          *)
AcceptTwice ==
    /\ Running /\ mutex = "free"
    /\ mutex' = IF pc = "pass" THEN "event" ELSE "free"
    /\ chain' = Append(chain, "read")
    /\ task' = [task EXCEPT !["read"] = [Fresh("read") EXCEPT !.on = TRUE]]
    /\ UNCHANGED <<passes, active, start, pc, node, link, handlers, sending,
                   sender, share, stale>>

(* A connection is accepted, or an event of the wifi handled, under the    *)
(* semaphore: between two passes, or in one that runs on a semaphore the   *)
(* object does not know any more.                                          *)
Accept ==
    /\ Running /\ mutex = "free"
    /\ mutex' = IF pc = "pass" THEN "event" ELSE "free"
    /\ IF task["read"].on
       THEN UNCHANGED <<chain, task>>
       ELSE /\ chain' = With(chain, "read")
            /\ task' = [task EXCEPT !["read"] = [Fresh("read") EXCEPT !.on = TRUE,
                                                              !.wait = Interval["read"]]]
    /\ UNCHANGED <<passes, active, start, pc, node, link, handlers, sending,
                   sender, share, stale>>

EventGive ==
    /\ mutex = "event"
    /\ mutex' = "free"
    /\ UNCHANGED <<tvars, start, pc, node, link, handlers, sending, sender, share,
                   stale>>

(* Bound: a layout is received when the notes it may queue are free.       *)
Arrive(p) ==
    /\ events < MaxEvents /\ events' = events + 1
    /\ Running /\ task["read"].on /\ inbox = "none" /\ ~ closing
    /\ IF p = "sync" THEN Cardinality({n \in Notes : ~ task[n].on}) >= 2 ELSE peers
    /\ inbox' = p
    /\ task' = [task EXCEPT !["read"] = Forced("read", @)]
    /\ UNCHANGED <<chain, passes, active, start, pc, node, peers, closing, handlers,
                   step, slot, type, taken, last, raced, sent, sender, share,
                   mutex, stale>>

(* The last neighbour is lost: close() of its connection queues the note   *)
(* from the network task, and clears what is known of it after that.       *)
LinkDown ==
    /\ events < MaxEvents /\ events' = events + 1
    /\ Running /\ task["read"].on /\ peers /\ ~ closing
    /\ AddNote([task EXCEPT !["read"] = Disabled(@)], "changed")
    /\ closing' = TRUE /\ inbox' = "none"
    /\ UNCHANGED <<passes, active, start, pc, node, peers, step, slot, type, taken, last, raced, sent,
                   sender, share, mutex, stale>>

LinkCleared ==
    /\ closing
    /\ closing' = FALSE /\ peers' = FALSE
    /\ UNCHANGED <<tvars, start, pc, node, inbox, handlers, sending, sender, share,
                   mutex, stale>>

(* What a cut leaves does not depend on where in a pass it comes.          *)
PowerCut == pc # "pass" /\ Restart

(* Time passes between two passes, when no task has anything to do.        *)
Wait ==
    /\ pc \in {"idle", "off"} /\ mutex = "free" /\ key = "idle" /\ ~ closing
    /\ pc = "idle" => \A i \in DOMAIN chain : ~ HasWork(chain[i])
    /\ Tick
    /\ stale' = IF connected /\ ~ peers THEN stale + 1 ELSE 0
    /\ UNCHANGED <<mvars, last, raced, sent, events>>

-----------------------------------------------------------------------------
Init ==
    /\ TasksInit
    /\ mode \in Modes
    /\ stored = IF mode = "mesh" THEN "normal" ELSE mode
    /\ old \in IF mode = "config_sendall" THEN BOOLEAN ELSE {FALSE}
    /\ pc = "setup" /\ step = "none"
    /\ connected = FALSE /\ missed = 0 /\ needReset = 0 /\ trying = FALSE
    /\ peers = FALSE /\ closing = FALSE /\ inbox = "none"
    /\ notes = <<>> /\ kind = [n \in Notes |-> "new"]
    /\ slot = Empty /\ type = FALSE /\ taken = <<Empty, FALSE>>
    /\ key = "idle" /\ given = Empty
    /\ count = 0 /\ alone = 0 /\ mutex = "free"
    /\ last = Empty /\ raced = FALSE /\ sent = Empty
    /\ events = 0 /\ stale = 0

Callback ==
    \/ RunReboot \/ RunConnect \/ RunCheck
    \/ \E n \in Notes : RunNew(n) \/ RunChanged(n)
    \/ RunSend \/ SendType \/ SendClear \/ SendDone
    \/ \E m \in Msgs : RunShare(m) \/ RunRead(m)
    \/ Reconnect \/ ReconnectStop \/ StopCrash

Loop == Setup \/ PassOver \/ End \/ GiveFails \/ Callback

Key == KeyData \/ KeyType \/ KeyEnable \/ KeyForce

Network ==
    \/ Accept \/ LinkDown
    \/ \E p \in Packets : Arrive(p)

Next ==
    \/ Loop \/ Begin
    \/ Key \/ \E m \in Msgs : KeySend(m)
    \/ Network \/ EventGive \/ LinkCleared
    \/ PowerCut \/ Wait

(* The threads go on with what they began, and time passes.                *)
Fairness ==
    /\ WF_vars(Loop \/ Begin)
    /\ WF_vars(Key) /\ WF_vars(LinkCleared)
    /\ WF_vars(Wait)

Spec == Init /\ [][Next]_vars /\ Fairness

-----------------------------------------------------------------------------
(***************************************************************************)
(* Properties.                                                             *)
(***************************************************************************)

(* Types, and the scheduler kept as its code keeps it: no task twice in    *)
(* the chain, only tasks of the chain enabled, passes and callbacks nested.*)
TypeOK ==
    /\ TasksType /\ TasksSound
    /\ mode \in Modes \cup {"mesh"} /\ stored \in {"normal"} \cup Sendall
    /\ old \in BOOLEAN
    /\ pc \in {"setup", "idle", "pass", "off"}
    /\ step \in {"none", "type", "clear", "done"}
    /\ connected \in BOOLEAN /\ missed \in 0 .. 255 /\ needReset \in 0 .. 255
    /\ trying \in BOOLEAN /\ peers \in BOOLEAN /\ closing \in BOOLEAN
    /\ inbox \in Packets \cup {"none"}
    /\ notes \in Seq(Notes) /\ kind \in [Notes -> {"new", "changed"}]
    /\ slot \in Msgs \cup {Empty} /\ type \in BOOLEAN
    /\ taken \in (Msgs \cup {Empty}) \X BOOLEAN
    /\ key \in {"idle", "data", "type", "enable", "force"}
    /\ given \in Msgs \cup {Empty}
    /\ count \in 0 .. 11 /\ alone \in 0 .. 7
    /\ mutex \in {"free", "loop", "event"}
    /\ last \in Msgs \cup {Empty} /\ raced \in BOOLEAN
    /\ sent \in Msgs \cup {Empty} /\ events \in 0 .. MaxEvents /\ stale \in Nat

InStop == \E i \in DOMAIN active : active[i] # "send"

(* While MeshCon_Trying is set, every further Mesh__StopToReconnect gives  *)
(* up at once: so a reconnect must be on its way, in the half of the call  *)
(* still to come or as the enabled Mesh__Connect_Task.                     *)
ReconnectComing ==
    trying => (InStop \/ task["connect"].on)

(* Mesh__StopToReconnect runs the scheduler from inside a callback.  That  *)
(* never goes a level deeper, and never runs Mesh__Connect inside another  *)
(* callback, where init would swap the semaphore and the handlers of the   *)
(* object in use.                                                          *)
NestedOnce ==
    /\ Len(passes) <= 2
    /\ Len(passes) = 2 => ~ task["connect"].on

(* A message stored by Mesh__Send is taken by Mesh__SendByTask whole, with *)
(* its type, or overwritten by a later one: data and type are shared       *)
(* variables, and only two threads in Mesh__Send or its task at the same   *)
(* time lose a message.                                                    *)
SlotDelivers ==
    (last # Empty /\ key = "idle" /\ ~ raced)
        => \/ task["send"].on /\ slot = last /\ type
           \/ step # "none" /\ taken[1] = last

(* _Mesh_IsConnected stays wrong for no longer than the interval of        *)
(* Mesh__CheckRootAlive after the neighbours are gone, whatever order the  *)
(* queued notes and the disconnect take.                                   *)
StaleBounded == stale <= Interval["check"]

(* Sending settings or a restart to all comes to its end, with or without  *)
(* neighbours, and the node runs its normal mode again; a config_sendall   *)
(* without an old mesh name is the exception, and never does.              *)
SendallEnds == (mode # "mesh" /\ (mode = "config_sendall" => old) /\ pc = "setup") ~> mode = "mesh"

(* A node whose neighbours are gone for good is restarted.                 *)
LonelyRestarts == ~ peers ~> (peers \/ pc \in {"setup", "off"})

(* "Send Data On WifiMesh" (mesh.h:84): a message with a valid type that   *)
(* Mesh__SendByTask took was handed to sendBroadcast when it is done.      *)
MessageIsBroadcast ==
    [][SendDone /\ taken[1] # Empty /\ taken[2] => sent' = taken[1]]_vars
=============================================================================
