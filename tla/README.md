# A verification of the ESP32 plug firmware

The repository is the firmware of a mains plug with one latching relay, a key, an
LED and an ESP32 (Arduino, C++). These TLA+ modules model the parts of it that
keep state across tasks, power cuts and restarts; TLC checks them on small
instances and TLAPS proves the most important results for every instance.

## 1. Inventory

The firmware proper is `ESP32_Plug_IOT.ino` and eight headers that it includes;
`lib/` is vendored code, of which `lib/eeprom/EEPROM2.cpp`, `lib/task/TaskScheduler.h` and
what `mesh.h` and `iot.h` lean on in `lib/mesh` and `lib/wifi` are modelled.

| part | state | operations | interacts with |
|---|---|---|---|
| **Settings store** (`EEPROM2.cpp`, `common.h` 301-344) | RAM image, dirty flag, NVS blob | `MemoWriteByte`, `MemoWriteString`, `MemoClean`; `write`, `commit` | called by every task, no lock |
| **Line** (`dvc.h`) | `_Dvc_Led`, `_Dvc_Relay`, `W_RelayON/OFF`, `_Dvc_RelayTimeout` | frames F0-F4, scenes, `Dvc__RelayControl`, `Dvc__SendData` | store, network |
| **Key task** (`dvcbutton.h`) | learn window, blink counters | press, learn, change to config mode, boot of the line | line, store, scheduler |
| **Boot and modes** (`.ino`, `common.h` 1007-1017) | start mode, which tasks exist, the reboot task | `setup`, `Tools__SetMode`, `Tools__Reboot`, `TaskTimerLoop` | all |
| **Config panel** (`config.h`) | `_ConfigPanelIsOpen`, `_ConfigTimeout`, settings in RAM | web requests, timeout | store, reboot task |
| **IOT** (`iot.h`) | connection step, connected flags | WiFi events, checker task, MQTT callback, send | line, scheduler |
| **Mesh** (`mesh.h`) | one message slot, connected flag, miss counters | receive, send task, reconnect task, root check | line, store, scheduler |
| **Send to all** (`sendall.h`) | counters, the message | share task | mesh, store |
| **Layout, scenes** (`definitions.h` 75-98, `common.h` 1049-1283) | scene and condition tables in overlapping ranges | load, save, run | store, panel, line |
| **Task scheduler** (`lib/task/TaskScheduler.h`) | chain of tasks, their times | add, enable, disable, force, `execute`, which callbacks may call again | mesh, IOT, restarts |
| **Frames** (`common.h`, `dvc.h` 23-67) | none | hex, CRC, splitting, JSON | line |

*What is hard here.* The key task and the network task share `_Dvc_Led`, the coil
flags, the store and the mesh's message slot without a lock, and each command is a chain of steps (read
the state, pulse, wait, release, store, commit, report) that the other may enter
anywhere. Power may go at any of them. The blob call can fail, and nobody looks.
Restarts come from four places (a request's answer, the panel's timeout, the
scheduler, the power) and cut off whatever is being stored. The mesh runs the
scheduler from inside the scheduler's own callbacks; the IOT mode is steered by a step
number that two threads write. What must hold for each part is stated by the
properties below.

`setup()` of this commit has the calls of `IOT__Setup`, `Mesh__Setup` and
`Sendall__Setup` commented out (`ESP32_Plug_IOT.ino` 227-235). `PlugBoot` models this
commit's `setup()`. `Dvc__AnalyzeData` and all of `mesh.h`, `sendall.h` and `iot.h` are only
reached in a build that puts one of those calls back; `PlugRelay`, `PlugMesh`, `PlugIot` and
the codes of `PlugScenes` model what the code does there.

## 2. Modules

    PlugEeprom  <-- INSTANCE --  PlugRelay          PlugBoot
        |                            |                  |
    PlugEepromMC                PlugRelayMC        PlugBootMC       (TLC)
    PlugEepromProofs            PlugRelayProofs    PlugBootProofs   (TLAPS)
                                     |
                          PlugRelayRecordProofs
                                     |
                          PlugRelayCommandProofs

    PlugTasks  <-- EXTENDS --  PlugMesh       PlugIot         PlugScenes
                                  |              |                |
                              PlugMeshMC     PlugIotMC       PlugScenesMC
                              PlugMeshProofs PlugIotProofs    PlugScenesProofs

**PlugEeprom**: the store. `data`, `dirty`, `flash` are `_data`, `_dirty` and the
NVS blob. A call of a task is a sequence of stores (`todo`) with a commit at the
end (`MemoWriteByte`, `MemoWriteString`) or after each (`MemoClean`). `Store` and
`Mark` are the two assignments of `write`, `CommitTest`, `SetBlob`, `Publish`,
`PublishFails` and `Clear` the steps of `commit`. NVS serialises blob calls
(`nvs`) and replaces a blob atomically (`snap` is what it was given). A
`PowerCut` puts every task out of its call and `begin` reloads the image.
`raced` and `alone` are history: whether calls have overlapped. `Fields` are the sets of cells that
each call leaves alone or writes whole, with its commit at the end: a string's, and not what `MemoClean` erases.

**PlugRelay**: one line (`RELAY_MAX` is 1), with the store inside it as instance
`E`. `pc`, `ret`, `reg`, `cnt` are each task's place in the code, the place it
returns to, its copy of `led` and its blink counter. Every read of `_Dvc_Led` and the write or pulse
that depends on it are two steps. A store is the call (`E!Invoke`), the store's own
steps (`StoreStep`) and the return (`Await`). Frames are records with the address,
value, IO and type already converted; `rest` is the `Data` string that is still to
be parsed. The answer to a lock request is built into that string (`dvc.h` 102-107): its header, IO 17 and a valid checksum make one frame of
whatever followed, which is parsed next. `AfterLock` is the set of what it may be (`Rebuilt`): an F1 stays one, an F2 has the checksum for its value and
so pulses a remote relay, an F4 the checksum for its mode and value, and what was dropped for its checksum may now act. Checksums are not computed: one is
any of the values that the branches tell apart (`Checksum`). `Ignored` holds every reason for which the code drops a frame,
`FrameIgnored` drops it, the `F2...`, `F4...`, `Scene...`, `Lock...`, `Save...`
and `Blink...` actions are the branches of `Dvc__AnalyzeData`, the `Learn...`
actions `Manual__SetAddressLine`, the `Boot...` actions `Manual__Setup`, and the
`Switch...` actions `Manual_SwichToConfig`. `owed` and `solo` are history: they tell whether the
last commands overlapped, or changed `led` without driving or reporting it.

**PlugBoot**: `setup`, `Config__Setup`, `Config__Loop`, the panel's requests, the
key's change of mode and the restarts. One Memo call is one step; what it is made
of is PlugEeprom's subject. A request is the list of stores its handler makes
(`SaveStores`, `RestoreStores`, `CleanStores`, `ExitStores`), which `Work` does one
by one, then `Answer` and `Close`. The settings are `Kept` cells below
`EP_MEMORYSTART`, which `MemoClean` leaves alone, and `Wiped` cells above it; the last stands for mesh name, password
and channel together. A save gives every setting, as the web page does. One pass
of `Config__Loop` is the unit of time and `now` wraps.

**PlugTasks**: the scheduler, a module of operators and actions for others to extend.
`chain` is the list from `iFirst` on, `task[t]` the enabled flag and the times of a task,
`passes` the executions of `execute` in progress, each with the task it goes on with
(`nextTask`, read before the callback), `active` the callbacks in progress. A pass may be
begun inside a callback. Tasks with nothing to do are passed over in one step. `With` and `Without` are `addTask` and
`deleteTask` on the chain. No interval is longer than `MaxTicks`, the bound of a task's age: past it a task is due all the same.

**PlugMesh**: a node of the mesh, and the device that sends settings or a restart to all. Threads:
`Mesh__Loop` (passes of the scheduler under the semaphore), the key (`Mesh__Send`, one step for each
shared variable), the network thread (accepts under the semaphore, data and disconnects without),
the world. The callbacks are the `Run...` actions; `Mesh__SendByTask` is four steps, because the key
can come in between. `Mesh__StopToReconnect` is two: `StopToReconnect` begins a pass inside the
callback, `Reconnect` or `ReconnectStop` goes on after it. painlessMesh appears as what `mesh.h`
sees of it: notes, the anonymous tasks it queues for new and changed connections and reuses (`AddNote`),
the list of connections (`peers`), its semaphore, which a second `init` replaces (`mutex`),
and what `stop` deletes. One task, `read`, stands for those of all connections. `MissTimeout` is below 254, since
`MeshCon_NeedReset` is a byte and can pass its limit by 2.

**PlugIot**: the checker, the wifi event thread and the loop. Every access to `_MqttCon_Steps` and
`_MqttCon_IsConnected` is a step. `Library` is the vendored library's own part of an event, its status
and its `Reconnect`, which is `disconnect()` and the `begin()` without a network; `BeginNetwork` is the checker's `begin`. They differ: the first only looks at the
library's status, the second also leaves a link alone that is up or joining. Either may fail in a call of the driver (`Join`; `refused` remembers the last), and
the checker does not look. An expired authentication (`"expired"`) does not change the status, so if that says connected neither `begin` joins again: `GivenUp` is
a station that is off for one of these two reasons. The driver (`LinkUp`, `LinkFails`, `queue`) and the MQTT client's session are
external. `lost` and `late` are history: the checker wrote over what an event had written.

**PlugScenes**: the cells 611 to 1175 with the ranges as the code uses them, not as `definitions.h` names
their ends. A request of the panel changes the tables in RAM and leaves the entries it saves in `later`; `Save` begins the next
one, with its writes in `todo`, in the order of the code, and `Store` makes one of them. `Restart` may come between any two and loads the tables. `asked` and
`whole` are history: what the tables were last asked to be, and which of it was stored to the end. `OwnCells` looks at the
activation cell of scene 8 as the EEPROM has it, because the network may switch that scene on although none was loaded (`dvcbutton.h:176-179`).

## 3. What the runs check

| run | properties | what it shows |
|---|---|---|
| `eeprom` | `TypeOK` `DirtyTruthful` `AloneCallRepairs` `StringsNeverTorn` `CallsReturn` | the flag is truthful unless calls overlapped; a call that nobody overlaps publishes everything; strings are never half published; all calls return |
| `relay_commands` | `TypeOK` `Coherent` `Durable` `Reported` `CoilReleased` `RecordIsStored` `TypeCommitsLast` | led, coil, record, image, flash and report agree when commands that did not overlap have ended; no coil stays energised; what a cut in the middle of learning can leave |
| `relay_frames` | `CoilReleased` `FramesFinish` | strings of several frames are worked off, for a lamp and a remote relay, with lock requests followed by F1, F2 and a scene, whatever their answers become |
| `relay_lock` (violation) | `LockFrameLocks` | finding 1 |
| `relay_hold` (violation) | `HoldExpires` | finding 2 |
| `boot` | `TypeOK` `PanelIsOneShot` `ConfiguredIsComplete` `SettingsWhole` `TimeoutExact` `PanelCloses` `RebootHappens` | config mode is left by any restart; mark and settings are truthful; the timeout is exact across the wrap; asked-for restarts come |
| `boot_sendall` (violation) | `SendallIsOneShot` | finding 3 |
| `mesh` | `TypeOK` `ReconnectComing` `NestedOnce` `SlotDelivers` `StaleBounded` `SendallEnds` `LonelyRestarts` | the scheduler stays sound under nested passes; a reconnect is always on its way and never runs inside another callback; messages leave the slot whole; a wrong connected flag lasts no longer than a check; sending to all ends; a lonely node restarts |
| `mesh_broadcast` (violation) | `MessageIsBroadcast` | finding 4 |
| `iot` | `TypeOK` `NoStall` `FlagsHonest` `Reaches` | step 1 waits only for an event that comes; the flags tell the truth once the events are handled; with a network and a broker that stay the node is connected in the end. Each but for what the code does not do: the races named by `lost` and `late`, and a station that is left off (`GivenUp`) |
| `scenes` | `TypeOK` `VirtualConditions` `CodeConditions` `OwnCells` | what overlaps nothing is loaded as it was stored, whatever else was stored or cut short; nothing loaded exceeds its array |
| `scenes_kept` (violation) | `SceneKept` | finding 5 |

### Bounds

- `eeprom`: two tasks (the key task and the one of the network, which are all that
  write at the same time), three cells: a two-byte string field and one shared byte;
  bytes 0, 1 and 255; strings shorter and longer than the field; a clean that ends one
  past the image. Two cells would make a torn string impossible to see, a third task
  adds no new pair of steps.
- `PlugRelay`: strings of one to three frames. Each run takes the frames that its question
  needs and together they fire every action. `relay_commands` has two devices, a lamp and one
  fresh from the factory, and the action constraint `Apart` keeps the two kinds of story apart: the lamp is commanded by
  frames (lock frames, with what their answers become, among them),
  scenes and the key, and its blobs may fail; the new device learns, is searched and given a serial
  number; both may go to config mode and lose power at any step. Mixing them would add longer histories of the
  same record, more than TLC can visit. The blinks are
  2 instead of 6 for `FindBlinks` (it has to be even) and 1 instead of 9 for `ConfigBlinks`:
  led is set to 0 before the last toggle, so that the number before it does
  not change where the key leaves the line.
- `boot`: one kept and two wiped settings (a save can be cut off before, between and
  after them), one wired and one mesh content, three requests that reset the timeout (save, clean,
  save is the longest story the settings tell), a timeout of two passes and a clock of
  eight, so that it wraps several times; two failing `begin` calls instead of
  seven. Power cuts are not bounded in these runs.
- `mesh`: a tick is 15 seconds; the intervals are those of the code, with the shorter ones (reconnect,
  send, restart) taken as one tick. Three notes (a new neighbour queues two, a lost one a third) and
  three events per start (a neighbour comes, sends or is sent to, and is lost); the
  limit of `MeshCon_NeedReset` is 2 instead of 50, so that the restart comes after two
  reconnects; one message, since a second one only shows that the later replaces the earlier.
- `iot`: two events in the driver's queue and two changes of access point or broker; the races
  need one event while the checker is between its read and its write, and a second that
  makes it wrong.
- `scenes`: six documents of scenes (long and short names, with and without texts, a security scene, one that leaves relay and codes out, and 103,
  which is not looked up), four of conditions, three requests or restarts. All ten scenes and fifteen rows
  have their real cells.

### Fairness

The ESP32 runs FreeRTOS: tasks are preempted and all of these sleep in each loop, so a
task that can go on does (weak fairness for each task's steps). The NVS lock
wakes its waiters, so a task that finds it free again and again gets it: strong
fairness for `SetBlob` only. In `PlugBoot` the scheduler's `execute` is called in a loop where
`TaskTimerLoop` exists, hence weak fairness for `TimerReboot`, which is disabled
elsewhere. In `PlugMesh` the loop and a key that is in `Mesh__Send` go on, a disconnect that began ends, and
time passes; in `PlugIot` the checker and the event thread go on, the driver brings a link up that can come up or says that it
cannot, and a dead session is noticed at some time. There is no fairness for pressing the key, sending a frame, using the
panel, failing calls, power cuts, packages, neighbours, or the access point and the broker.

### Findings

1. *A lock frame unlocks.* `dvc.h:80` reads the value of F1 from `Data`, which by then
   holds what follows the frame, instead of `Data2`; its comment says "Lock=255 & Unlock=0".
2. *The hold time never ends.* The block "Relay Remote Time" (`dvcbutton.h:130`) comes
   after an endless `for(;;)`.
3. *A device that was to send its settings to all stays in that mode.* `sendall.h:9`
   sets the "Powercut Restart-Point", but `ESP32_Plug_IOT.ino:227` does not call it, and no
   scheduler task is created in that mode either.
4. *Nothing is broadcast.* `mesh.h:95-107` compares `char` arrays with string literals, by address:
   every message ends in the branch for wrong types.
5. *Scenes overwrite each other.* Ten names of twelve bytes from `EP_SCENARIO_NAME_S` on do not end at
   `EP_SCENARIO_NAME_E` but 101 cells later, over states, relays and virtual codes of other scenes (`definitions.h` 75-82); the code
   states lie over the texts in the same way.

Facts the models rest on and a maintainer may want to look at: clearing the text of the last, unused code condition
clears the first one's scene (`common.h:1269`); the security scene 103 can never be stored (`config.h:78`); a
`config_sendall` without an old mesh name waits for ever for its restart (`sendall.h:12`); the event that gives the IOT mode an
address may be overwritten by the checker's step 1 (`iot.h:163`), after which nothing happens until the next event; a link lost
to AUTH_EXPIRE leaves the library's status at `WL_CONNECTED` (`WiFiGeneric.cpp:962`), so that its reconnect disconnects and skips
`esp_wifi_connect` (`WiFiSTA.cpp:314`), the checker's `begin` returns early (261), and the node waits in step 1 with its station off; the serial number is never
read back at boot (`ESP32_Plug_IOT.ino:132` is commented out), so F0 mode 1 is accepted again
after every restart; F2 does not look at the lock, F4 does; a remote relay that F2
switches off is not stored; `clean` leaves the configured mark and the settings below
`EP_MEMORYSTART`. PROJECT.json lists the hazards line by line.

## 4. What is proved

TLAPS proves these for every value of the constants, under the `ASSUME`s of the
modules (which TLC evaluates on every run).

- **PlugEepromProofs.** `Typed`: `Spec => []TypeOK`, with the strengthening that what is
  left of a call consists of requests. `FlagIsTruthful`: `Spec => []DirtyTruthful`. `DirtyTruthful` alone is not inductive:
  whether the flag may be cleared depends on the image the blob call was
  given, so the invariant relates `snap`, `data` and `flash` for each phase of the one
  task that is inside a call while calls do not overlap. `Repair`: `Spec => AloneCallRepairs`, an action
  property from the same invariant. `StringsWhole`: `Spec => StringsNeverTorn`, for every field of the calls; on top of that invariant
  `FieldInv` says that a field in RAM is whole (`Settled`) or belongs to the one call under way, which has given or will give each of its cells the new
  value and publishes nothing before (`Filling`).
- **PlugRelayProofs.** `LineTyped`: types of the line and of its store, jointly, since the
  bytes handed to the store come from the line and the line's boot from the store. `StoreImplemented`:
  `Spec => E!Spec`, every step of the line is a step of the store or leaves it
  alone. `LineFlagIsTruthful` then carries the store's theorem over. `CoilAlwaysReleased`:
  `Spec => []CoilReleased`; the pair of conjuncts is inductive with the types, because the copy of
  `led` that chose the line to raise also chooses the one to release.
- **PlugRelayRecordProofs**: `RecordKept` and `TypeIsLast`. `RecordIsStored` is silent while a record is
  rewritten, so the invariant says at each of those labels which cells have been stored, and which one is being stored
  (`LearnProgress`, `SaveProgress`, `LockKept`); for that it must know the labels a task may have a call under way at and the cell it stores there
  (`Shape`, `CallInv`), so that the other task's calls cannot touch the record. `TypeInFlash` follows a step behind, through the store's
  `DirtyTruthful` and `NoRace`: the one step that is not covered by them is a `write` between its store and its flag, when flash still holds the image before.
- **PlugRelayCommandProofs**: `CoilFollowsLed`, `StateSurvives` and `NetworkIsTold`. The three properties speak of the moments when
  nothing runs; the invariant says of every label what a task that commands alone has done so far (`Progressed`: the copy of led is led, the
  coil was pulsed by it, its byte is stored or on its way) and what it is still going to do (`Commanding`, `Reporting`). `SoloInv` is why one task is enough:
  the other is quiet or nobody is `solo` and everything is owed. Blinking needs its parity (`Shown`): the frame that asks for it may
  leave led as it was only because `FindBlinks` is even, which the module assumes of the code's 6.
- **PlugIotProofs.** `IotTyped`, `FlagsAreHonest` and `OneIsAnswered`. The flags differ from the
  link while events are on their way, so the invariant says of every difference which event will make it up: the latest
  event not yet handled tells what the link is (`LinkNews`), and without one the flags do (`Handled`, `FlagTold`, `SuccessTold`). `NoStall` needs the
  same for the step: what wrote it, and what the checker that is about to write 1 began with (`StatusTold` to `OneJoins`). A status that says connected while
  the step is 0 is the one an expired authentication left, so that the station is off for that reason or was told to join, and then joins unless the driver refused.
- **PlugMeshProofs.** `PassesNestOnce`, `AttemptGoesOn` and `MessagesAreTaken`, for any messages, intervals and number of
  anonymous tasks. `NestedOnce` and `ReconnectComing` need each other: the invariant (`Depth`, `Attempt`) says which callbacks can be in
  progress, and that `MeshCon_Trying` is set exactly while one of them is in `Mesh__StopToReconnect` or `Mesh__Connect_Task` is
  enabled, never both. That the fixed tasks are `TASK_FOREVER` is needed: a task whose iterations end is disabled by the scheduler, and the
  flag would stay set. On top of it `SlotInv` says for each step of `Mesh__Send` and `Mesh__SendByTask` where the message is.
  `StaleIsBounded` needs the check of the root to be in time: `ChainInv` says that the four tasks of the setup lead
  the chain as long as the node runs, whatever is added and deleted behind them (`WithoutKeeps`, about a recursive function on sequences, goes by its
  least counterexample, since induction cannot be cited), and `StaleInv` that the check stays enabled and that time passes only while it is not due.
  `NodeIsTyped` bounds the counters, which is about the order of the callbacks: a check that missed twice leaves a restart or a reconnect
  behind, and that comes before the next check of any pass, nested ones included (`OrderInv`), so that there are at most 3 misses and
  `MeshCon_NeedReset` is at most 2 over its limit (`CountInv`). The rest are the shapes of what the threads hold (`ShareInv`, `StartInv`,
  `LinkInv`, `SaidInv`).
- **PlugScenesProofs.** `Types`, `VirtualLoaded`, `CodesLoaded` and `ScenesOwn`, for any documents of the panel. The invariant `Inv` says that the tables in RAM are
  what was asked for in all that is left to save (`Asked`), that an entry saved to the end has the cells it is to have (`Saved`), and of the entry in hand that each of those cells
  has its value or gets it from a write that is left, and no write left gives it another (`Doing`, with `Makes`). The work is in the footprints: no write of another entry touches what
  an entry is to have (`Foot`, `FootApart`), by arithmetic over the ranges as the code uses them. For codes they do touch: clearing an unused row's text
  runs into the next row's length, so `Order` has to say that the rows behind one are saved after it, and clearing the last one's runs into the first's scene, which
  `WantCode` takes into account as the property does. `Unused` is that an unused row has neither condition nor scene. `Loaded` carries the cells through a restart.
- **PlugBootProofs.** `ConfigModeIsLeft` and `ConfiguredHasSettings`. The invariant
  speaks about the rest of a request's stores: it never erases a kept setting, it stores
  the mark only after them, and unless the request ends in a restart it leaves the
  start mode alone. The plans of each request are lemmas of their own.
  `TimeoutIsExact`, `SettingsAreWhole` and `BootTyped` go on from it. The clock's invariant says
  that `deadline - now` is `Timeout - quiet` up to one wrap on either side, which with `2 * (Timeout + 1) < Word` makes its sign modulo `Word`
  exact. `SettingsWhole` says nothing while a request works, so the invariant says what is left of it (`Filling`): it touches no setting,
  or every setting has the new content or gets it yet, or it erases, and the mixture is already recorded.

Every invariant of every run, and both action properties, have a theorem. Only model-checked is liveness (`CallsReturn`,
`FramesFinish`, `PanelCloses`, `RebootHappens`, `SendallEnds`, `LonelyRestarts`, `Reaches`): TLAPS does not reason about
`ENABLED` and fairness. No module declares a RECURSIVE operator.

## 5. Not modelled

- `EEPROM.begin` with a size that differs from the blob's; out-of-bounds accesses (blinking and
  the serial number walk over arrays of one element, scene numbers that are no scene's); F3, which
  only answers; F4 with a range of channels; relay types 2 and 3, which need more than one relay.
- The mode `reboot_sendall` in `PlugBoot`: the request that would store it has become "exit" before it is
  looked at (`config.h:274`). `PlugMesh` starts in it all the same, as `sendall.h` does.
- Settings given in part by a request that is not the web page's; the pages, the JSON, the
  addresses the panel sets.
- What goes through the mesh and the broker: the other nodes, routing, the layout tree, time sync; `Mqtt__OnRecieve`
  and `Mqtt__Send`, which convert between the broker's texts and `Dvc__AnalyzeData`. What a second `init` of a mesh
  object that was not stopped leaves of the first. Loads and stores of a list that another thread changes, which are undefined.
- Hex, CRC, JSON, random numbers, the console: conversions without state.
- Some 35000 of the repository's 45000 lines are headers of FreeRTOS and the C++ library, drivers of LEDs and port expanders, DNS, a web
  server, over-the-air updates and web pages as C strings. The firmware calls them for their effect on hardware or uses their
  declarations; there is no state of the plug in them beyond what the modules above name.
- The composition of `PlugRelay` with `PlugMesh` or `PlugIot`: the frames they deliver are those `PlugRelay` receives at any
  time and in any order, which is more than either would deliver.

## 6. Plan

Done: `PlugEeprom`, `PlugRelay`, `PlugBoot`, `PlugTasks`, `PlugMesh` (with what was to be a module of its own for sending to
all), `PlugIot`, `PlugScenes`. What is left, most useful first:

1. The steps that carry liveness as action properties with proofs of their own: in `PlugRelay` that `rest` only gets shorter while a string is parsed, in
   `PlugBoot` that an asked-for restart is only withdrawn by a restart.
2. `begin` with a growing image in `PlugEeprom`: the erase and the write of the blob with a power cut in between.
3. Several nodes in `PlugMesh`, with old and new mesh names: which of them a save to all reaches.
