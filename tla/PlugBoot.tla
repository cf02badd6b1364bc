------------------------------ MODULE PlugBoot ------------------------------
(***************************************************************************)
(* Start modes, the config panel and restarts: setup() in the .ino,        *)
(* Config__Setup, Config__Loop and the requests of the panel (config.h),   *)
(* Manual_SwichToConfig and the scheduler's reboot task.                   *)
(*                                                                         *)
(* "main" runs setup() and stays in Config__Loop; the key task may switch  *)
(* the start mode and ask for a restart; TaskTimerLoop, where it exists,   *)
(* grants it.  A Memo* call is one step here: PlugEeprom says what it is   *)
(* made of.  One pass of Config__Loop is the unit of time.                 *)
(***************************************************************************)
EXTENDS Integers, Sequences

CONSTANTS Kept,     \* settings Tools__SettingSave stores below EP_MEMORYSTART: 4
          Wiped,    \* the settings it stores above, which MemoClean erases: 9
          Content,  \* what a setting can be set to
          MeshContent,  \* the contents whose circuit is wifi or wirefi
          Requests, \* bound: how many requests that reset the timeout arrive
          Timeout,  \* ten minutes, in passes of Config__Loop
          Word,     \* millis() counts modulo Word: 2^32 in the code
          BeginTries    \* EEPROM.begin calls that fail before a restart: 7

Default == 0
Erased == 255

ASSUME SettingsAssumption == Kept \in Nat \ {0} /\ Wiped \in Nat \ {0}
ASSUME ContentAssumption ==
    /\ Default \in Content /\ Content \subseteq Nat \ {Erased}
    /\ MeshContent \subseteq Content \ {Default}
ASSUME TimeAssumption ==
    /\ Timeout \in Nat \ {0} /\ Word \in Nat /\ Word % 2 = 0
    /\ 2 * (Timeout + 1) < Word
ASSUME BoundAssumption == Requests \in Nat /\ BeginTries \in Nat \ {0}

(* Cells of the EEPROM: the settings in the order they are saved (the last *)
(* one stands for the mesh name, password and channel), then the mesh they *)
(* replace, the start mode and the mark that the device was configured.    *)
Last == Kept + Wiped
Settings == 1 .. Last
Circuit == 1
OLDMESH == Last + 1
STARTMODE == Last + 2
CONFIGURED == Last + 3
Cell == 1 .. Last + 3

(* Start modes as Tools__Memory_StrSet stores them.                        *)
Normal == 0
ConfigSendall == 8
ConfigPanel == 9

VARIABLES eeprom,     \* the cells
          ram,        \* the settings in RAM
          startMode,  \* _StartMode, as read at boot
          taskloop,   \* whether TaskTimerLoop exists
          panelOpen,  \* _ConfigPanelIsOpen
          rebootDue,  \* Tools__Reboot_Task is enabled
          main,       \* where the task that runs setup() is
          todo,       \* the stores the request being served has still to do
          closing,    \* whether that request ends in a restart
          key,        \* where the key task is in Manual_SwichToConfig
          now,        \* millis()
          deadline,   \* _ConfigTimeout
          tries,      \* EEPROM.begin calls that failed
          left,       \* how many more requests may arrive
          quiet,      \* history: passes since the last request that counts
          mixed       \* history: the stored settings are known to be a mixture

request == <<todo, closing>>
clock   == <<now, deadline, quiet>>
vars == <<eeprom, ram, startMode, taskloop, panelOpen, rebootDue, main, request,
          key, clock, tries, left, mixed>>

----------------------------------------------------------------------------
(* A request of the panel: the stores its handler makes, in order, what it *)
(* leaves in RAM, whether it restarts the device, whether it resets the    *)
(* timeout and whether the settings are whole when it is through.          *)

Fill(s)  == [i \in 1 .. Last |-> <<i, s>>]
KeepOld(all) == IF all THEN <<<<OLDMESH, ram[Last]>>>> ELSE <<>>

(* Mutant: the device is marked as configured first.                       *)
SaveMarkFirst(s, all) ==
    <<<<CONFIGURED, 1>>>> \o KeepOld(all) \o Fill(s)
        \o (IF all THEN <<<<STARTMODE, ConfigSendall>>>> ELSE <<>>)

(* section "network": Tools__SettingSave, then _Configured, then the mode. *)
SaveStores(s, all) ==
    KeepOld(all) \o Fill(s) \o <<<<CONFIGURED, 1>>>>
        \o (IF all THEN <<<<STARTMODE, ConfigSendall>>>> ELSE <<>>)

RestoreStores(all) ==
    KeepOld(all) \o Fill(Default)
        \o <<<<STARTMODE, IF all THEN ConfigSendall ELSE Normal>>>>

(* MemoClean from EP_MEMORYSTART on: the settings below it, the start mode *)
(* and the configured mark stay, and so does what is in RAM.               *)
CleanStores == [i \in 1 .. Wiped + 1 |-> <<Kept + i, Erased>>]

(* "reboot" and "close" have become "exit" before the section is chosen.   *)
ExitStores == <<<<STARTMODE, Normal>>>>

----------------------------------------------------------------------------
(* Boot.                                                                   *)

(* Settings that were never written, or erased, read as their defaults.    *)
Read(cell) == IF eeprom[cell] = Erased THEN Default ELSE eeprom[cell]

ModeRead ==
    IF eeprom[STARTMODE] \in {ConfigSendall, ConfigPanel}
    THEN eeprom[STARTMODE] ELSE Normal

(* Mutant: the scheduler runs for the config panel only.                   *)
NeedTaskloopPanelOnly == ModeRead = ConfigPanel

(* _Need_Taskloop: in mesh mode Mesh__Loop runs the scheduler itself.      *)
NeedTaskloop ==
    \/ ModeRead = ConfigPanel
    \/ ModeRead = Normal /\ Read(Circuit) \notin MeshContent

BeginFails ==
    /\ main = "begin"
    /\ tries < BeginTries
    /\ tries' = tries + 1
    /\ UNCHANGED <<eeprom, ram, startMode, taskloop, panelOpen, rebootDue, main,
                   request, key, clock, left, mixed>>

BeginGivesUp ==
    /\ main = "begin"
    /\ tries = BeginTries
    /\ main' = "restart"
    /\ UNCHANGED <<eeprom, ram, startMode, taskloop, panelOpen, rebootDue,
                   request, key, clock, tries, left, mixed>>

(* The settings are read, the key task and the timer loop are created.  Of *)
(* the four modes' setups only Config__Setup is called; the calls of the   *)
(* others are commented out, and setup() returns.                          *)
Booted ==
    /\ main = "begin"
    /\ tries < BeginTries
    /\ tries' = 0
    /\ ram' = [i \in Settings |-> Read(i)]
    /\ startMode' = ModeRead
    /\ taskloop' = NeedTaskloop
    /\ main' = IF ModeRead = ConfigPanel THEN "panel" ELSE "loop"
    /\ key' = "idle"
    /\ UNCHANGED <<eeprom, panelOpen, rebootDue, request, clock, left, mixed>>

(* Config__Setup: the restart point first, then the access point.          *)
PanelStore ==
    /\ main = "panel"
    /\ eeprom' = [eeprom EXCEPT ![STARTMODE] = Normal]
    /\ deadline' = (now + Timeout) % Word
    /\ quiet' = 0
    /\ main' = "panelStored"
    /\ UNCHANGED <<ram, startMode, taskloop, panelOpen, rebootDue, request, key,
                   now, tries, left, mixed>>

PanelOpen ==
    /\ main = "panelStored"
    /\ panelOpen' = TRUE
    /\ main' = "serve"
    /\ UNCHANGED <<eeprom, ram, startMode, taskloop, rebootDue, request, key,
                   clock, tries, left, mixed>>

----------------------------------------------------------------------------
(* Config__Loop: one client, the timeout, the delay.                       *)

(* Mutant: the web page's alive poll resets the timeout like the others.   *)
AliveResets ==
    /\ main = "serve"
    /\ deadline' = (now + Timeout) % Word
    /\ quiet' = 0
    /\ main' = "check"
    /\ UNCHANGED <<eeprom, ram, startMode, taskloop, panelOpen, rebootDue, request,
                   key, now, tries, left, mixed>>

(* No client, or an alive poll: neither changes anything.                  *)
NothingToServe ==
    /\ main = "serve"
    /\ main' = "check"
    /\ UNCHANGED <<eeprom, ram, startMode, taskloop, panelOpen, rebootDue, request,
                   key, clock, tries, left, mixed>>

(* Every other request resets the timeout before anything else.            *)
Serve(stores, s, restarts, wholeBefore) ==
    /\ main = "serve"
    /\ left > 0
    /\ left' = left - 1
    /\ deadline' = (now + Timeout) % Word
    /\ quiet' = 0
    /\ todo' = stores
    /\ closing' = restarts
    /\ ram' = s
    /\ mixed' = (mixed \/ ~wholeBefore)
    /\ main' = "work"
    /\ UNCHANGED <<eeprom, startMode, taskloop, panelOpen, rebootDue, key, now, tries>>

All(s) == [i \in Settings |-> s]

(* A page, a "get", a "wrong" answer; the device's own settings, which are *)
(* kept in cells of their own.  A save gives all the settings, as the web  *)
(* page does.                                                              *)
ServePage == Serve(<<>>, ram, FALSE, TRUE)
ServeExit == Serve(ExitStores, ram, TRUE, TRUE)
ServeClean == Serve(CleanStores, ram, FALSE, FALSE)
ServeSave(s, all) == Serve(SaveStores(s, all), All(s), all, TRUE)
ServeRestore(all) == Serve(RestoreStores(all), All(Default), TRUE, TRUE)

(* Config__PageFirmware restarts without closing the panel.                *)
ServeFirmware ==
    /\ main = "serve"
    /\ left > 0
    /\ left' = left - 1
    /\ deadline' = (now + Timeout) % Word
    /\ quiet' = 0
    /\ main' = "restart"
    /\ UNCHANGED <<eeprom, ram, startMode, taskloop, panelOpen, rebootDue, request,
                   key, now, tries, mixed>>

Request ==
    \/ ServePage
    \/ ServeFirmware
    \/ ServeExit
    \/ ServeClean
    \/ \E s \in Content, all \in BOOLEAN : ServeSave(s, all)
    \/ \E all \in BOOLEAN : ServeRestore(all)

(* A store that completes the settings ends what an interrupted save left. *)
Work ==
    /\ main = "work"
    /\ todo # <<>>
    /\ eeprom' = [eeprom EXCEPT ![todo[1][1]] = todo[1][2]]
    /\ todo' = Tail(todo)
    /\ mixed' = (mixed /\ ~(todo[1][1] = Last /\ todo[1][2] # Erased))
    /\ UNCHANGED <<ram, startMode, taskloop, panelOpen, rebootDue, main, closing,
                   key, clock, tries, left>>

(* Mutant: the answer that restarts the device comes before the stores.    *)
AnswerEarly ==
    /\ main = "work"
    /\ closing \/ todo = <<>>
    /\ main' = IF closing THEN "closing" ELSE "check"
    /\ panelOpen' = ~closing
    /\ UNCHANGED <<eeprom, ram, startMode, taskloop, rebootDue, request, key,
                   clock, tries, left, mixed>>

(* Config__ResponseJSON: with needRestart the panel closes, the reboot     *)
(* task is enabled, and half a second later the handler restarts itself.   *)
Answer ==
    /\ main = "work"
    /\ todo = <<>>
    /\ main' = IF closing THEN "closing" ELSE "check"
    /\ panelOpen' = ~closing
    /\ UNCHANGED <<eeprom, ram, startMode, taskloop, rebootDue, request, key,
                   clock, tries, left, mixed>>

Close ==
    /\ main = "closing"
    /\ rebootDue' = TRUE
    /\ main' = "restart"
    /\ UNCHANGED <<eeprom, ram, startMode, taskloop, panelOpen, request, key,
                   clock, tries, left, mixed>>

(* Mutant: the deadline is compared with the clock.                        *)
ExpiredCompared == now > deadline

(* int timer = _ConfigTimeout - millis(); timer < 0: the difference wraps  *)
(* with the clock and its sign is taken.                                   *)
Expired == (deadline - now) % Word >= Word \div 2

CheckTimeout ==
    /\ main = "check"
    /\ main' = IF Expired THEN "restart" ELSE "wait"
    /\ UNCHANGED <<eeprom, ram, startMode, taskloop, panelOpen, rebootDue, request,
                   key, clock, tries, left, mixed>>

Wait ==
    /\ main = "wait"
    /\ now' = (now + 1) % Word
    /\ quiet' = quiet + 1
    /\ main' = "serve"
    /\ UNCHANGED <<eeprom, ram, startMode, taskloop, panelOpen, rebootDue, request,
                   key, deadline, tries, left, mixed>>

----------------------------------------------------------------------------
(* The key task.                                                           *)

(* Mutant: the key toggles the mode that is stored.                        *)
KeyStoreToggles ==
    /\ key = "idle"
    /\ eeprom' = [eeprom EXCEPT ![STARTMODE] = IF @ = ConfigPanel THEN Normal ELSE ConfigPanel]
    /\ key' = "stored"
    /\ UNCHANGED <<ram, startMode, taskloop, panelOpen, rebootDue, main, request,
                   clock, tries, left, mixed>>

(* Manual_SwichToConfig: the mode the device runs in decides.              *)
KeyStore ==
    /\ key = "idle"
    /\ eeprom' = [eeprom EXCEPT ![STARTMODE] =
                    IF startMode = ConfigPanel THEN Normal ELSE ConfigPanel]
    /\ key' = "stored"
    /\ UNCHANGED <<ram, startMode, taskloop, panelOpen, rebootDue, main, request,
                   clock, tries, left, mixed>>

KeyAsk ==
    /\ key = "stored"
    /\ rebootDue' = TRUE
    /\ key' = "idle"
    /\ UNCHANGED <<eeprom, ram, startMode, taskloop, panelOpen, main, request,
                   clock, tries, left, mixed>>

----------------------------------------------------------------------------
(* A restart loses all but the EEPROM; the request it interrupts is never  *)
(* finished.                                                               *)

Restart ==
    /\ ram' = All(Default)
    /\ startMode' = Normal
    /\ taskloop' = FALSE
    /\ panelOpen' = FALSE
    /\ rebootDue' = FALSE
    /\ main' = "begin"
    /\ todo' = <<>>
    /\ closing' = FALSE
    /\ key' = "off"
    /\ now' = 0
    /\ deadline' = 0
    /\ quiet' = 0
    /\ tries' = 0
    /\ mixed' = (mixed \/ (main = "work" /\ todo # <<>>))
    /\ UNCHANGED <<eeprom, left>>

Reboot == main = "restart" /\ Restart

TimerReboot == taskloop /\ rebootDue /\ Restart

PowerCut == Restart

----------------------------------------------------------------------------
Init ==
    /\ eeprom = [c \in Cell |-> Erased]
    /\ ram = All(Default)
    /\ startMode = Normal
    /\ taskloop = FALSE
    /\ panelOpen = FALSE
    /\ rebootDue = FALSE
    /\ main = "begin"
    /\ todo = <<>>
    /\ closing = FALSE
    /\ key = "off"
    /\ now = 0
    /\ deadline = 0
    /\ quiet = 0
    /\ tries = 0
    /\ left = Requests
    /\ mixed = FALSE

Boot == BeginFails \/ BeginGivesUp \/ Booted \/ PanelStore \/ PanelOpen

Main == Boot \/ NothingToServe \/ Work \/ Answer \/ Close \/ CheckTimeout \/ Wait \/ Reboot

Next ==
    \/ Main
    \/ Request
    \/ KeyStore
    \/ KeyAsk
    \/ TimerReboot
    \/ PowerCut

Spec == Init /\ [][Next]_vars

(* The scheduler is preemptive, so each task keeps going; nobody has to    *)
(* use the panel or the key, or to cut the power.                          *)
FairSpec ==
    /\ Spec
    /\ WF_vars(Main)
    /\ WF_vars(TimerReboot)
    /\ WF_vars(KeyAsk)

----------------------------------------------------------------------------
(* Properties.                                                             *)

Value == Content \cup {Erased, Normal, ConfigSendall, ConfigPanel, 1}
InPanel == {"panel", "panelStored", "serve", "work", "check", "wait", "closing"}

TypeOK ==
    /\ eeprom \in [Cell -> Value]
    /\ ram \in [Settings -> Content]
    /\ startMode \in {Normal, ConfigSendall, ConfigPanel}
    /\ taskloop \in BOOLEAN /\ panelOpen \in BOOLEAN /\ rebootDue \in BOOLEAN
    /\ main \in InPanel \cup {"begin", "loop", "restart"}
    /\ todo \in Seq(Cell \X Value) /\ closing \in BOOLEAN
    /\ key \in {"off", "idle", "stored"}
    /\ now \in 0 .. Word - 1 /\ deadline \in 0 .. Word - 1
    /\ quiet \in 0 .. Timeout + 1
    /\ tries \in 0 .. BeginTries /\ left \in 0 .. Requests /\ mixed \in BOOLEAN

(* The config mode is left by any restart: whenever the panel waits for a  *)
(* request, a power cut, a restart by the timeout and a restart by the key *)
(* all start the device normally, however often the key was held.          *)
(* (config.h Config__Setup, dvcbutton.h Manual_SwichToConfig)              *)
PanelIsOneShot == main \in {"serve", "check", "wait"} => eeprom[STARTMODE] = Normal

(* A device marked as configured has had all the settings that MemoClean   *)
(* keeps stored at least once, even if the power is cut or the key held    *)
(* while they are being saved.  (config.h Config__APISet, network)         *)
ConfiguredIsComplete ==
    eeprom[CONFIGURED] = 1 => \A i \in 1 .. Kept : eeprom[i] # Erased

(* The stored settings are those of one save or restore, unless a restart  *)
(* cut a request off or the memory was cleaned since: the restart that a   *)
(* request asks for never overtakes its own stores.                        *)
SettingsWhole == main # "work" /\ ~mixed => \A i \in Settings : eeprom[i] = eeprom[1]

(* The panel times out exactly when more than Timeout has passed since the *)
(* last request, also when the clock wraps in between.                     *)
TimeoutExact == main = "check" => (Expired <=> quiet > Timeout)

(* A web page left open, which polls /alive, does not keep the device in   *)
(* config mode: it is left after the last real request.                    *)
PanelCloses == panelOpen ~> ~panelOpen

(* Where the scheduler runs, a restart that was asked for takes place.     *)
RebootHappens ==
    rebootDue /\ (startMode = ConfigPanel \/ (startMode = Normal /\ ram[Circuit] \notin MeshContent))
        ~> ~rebootDue

(* sendall.h:9, the restart point of config_sendall: a device that started *)
(* to send its settings to all goes back to the normal mode.               *)
SendallIsOneShot == startMode = ConfigSendall ~> eeprom[STARTMODE] = Normal
=============================================================================
