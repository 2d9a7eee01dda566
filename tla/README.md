# FlySight 2 firmware: specifications, model checking and proofs

TLA+ models of the control logic of the FlySight 2 firmware (`src/FlySight`,
`src/STM32_WPAN/App`, and the desktop client `src/Tools/flysight_ble.py`), the TLC
runs that check them, and theorems checked by TLAPS. The firmware runs on one
Cortex-M4: a cooperative sequencer (`stm32_seq.c`) runs tasks to completion,
interrupts (EXTI, timer server, USB) preempt them, and a second core runs the
Bluetooth stack behind a command/response mailbox. What is hard in it is not
parallelism in the usual sense but the following:

* interrupts push into rings that tasks drain, and act on state that a task is
  in the middle of changing;
* a task that waits for a response of the radio core runs *all other tasks*
  inside its wait, itself included;
* a resource (the microSD card) is shared by clients of which some check and
  some do not;
* a Go-Back-N protocol over bounded rings on both sides, a file system that may
  fail at every call, and peers that time out, die or disconnect;
* a link to the glasses that is brought up in a dozen steps, torn down by whoever
  notices first, and whose commands the controller may refuse, while the mode that
  wants it comes and goes;
* a write-back cache that the USB interrupt uses while a task flushes it.

## 1. Inventory

| Part (files) | State it keeps | Operations | Interacts with |
|---|---|---|---|
| Mode machine (`mode.c`) | `mode_state`, `requested_state`, `pending_terminal_action`, `button_state`, event ring of 4 | `FS_Mode_PushQueue`, `FS_Mode_RequestState`, `FS_Mode_RequestTerminalAction`, `FS_Mode_Update` with one handler per mode | interrupts and timers push events; `device_state.c` requests; handlers call Init/DeInit of the modes |
| Button, VBUS (`button.c`, `vbus.c`) | debounced level, sample count, busy flag | EXTI handler, debounce timer | push events |
| Modes (`active_mode.c`, `config_mode.c`, `start_mode.c`, `usb_mode.c`, `pairing_mode.c`) | what they have started | Init, DeInit, exit callbacks | resource manager, radio commands, mode machine (`FORCE_UPDATE`) |
| Device State control point (`device_state.c`, `cp_log.c`) | one deferred request, response timer, trace ring | write handler, indication complete, TX callback, fallback timer | TX ring below, mode machine |
| Resource manager (`resource_manager.c`) | three counters | request, release; VCC under MICROSD under FATFS | everyone who uses the card |
| File transfer (`crs.c`) | state, open file or directory, packet counters, file pointer, timer | task with states IDLE, READ, WRITE, DIR | RX ring of `custom_app.c`, TX ring, FatFs, resource manager |
| TX ring (`ble_tx_queue.c`) | 8 packets, flow status | reserve, send, transmit, pool available | every producer of notifications; callbacks |
| Custom service (`custom_app.c`) | RX ring, connection, CCCD mirrors, idle timer | connect, disconnect, write handlers | all services |
| Desktop client (`flysight_ble.py`) | upload window, inbox, retries | read, write, mkdir, keep-alive | the device over the air |
| Advertising and pairing (`app_ble.c`) | advertising type, pairing callback, bonds | `FS_Adv_Request`, pairing, reset | ACI commands and their waits |
| Glasses link and HUD (`activelook.c`, `activelook_client.c`, `activelook_mode0.c`) | link and discovery state, flow control, pending frame, watchdogs | scan, connect, discover, draw, self-heal | lifecycle of ACTIVE, `app_ble.c` |
| USB mass storage (`usbd_storage_if.c`, `usb_storage_cache.c`) | cache window and dirty mask | read, write, flush | USB interrupt, `usb_mode.c`, scratch buffer |
| Logger (`log.c`) | rings per sensor, open files, batch buffer | producers in interrupts, update task, sync task | sensors, card |
| Diagnostic log (`ble_diag.c`, `ble_diag_sink.c`) | ring of lines, loss count | log, flush | card (acquire or skip) |
| Persistent state (`state.c`) | `flysight.txt` | init, update | card, radio |
| Sensors, audio, navigation, flight detection, LEDs, charger | per driver | per driver | logger, HUD |

What makes each part correct:

* *Mode machine*: one mode at a time, left through its DeInit; a reset only from
  SLEEP; an accepted request is carried out or dropped for a reason, never
  stranded (a stranded one answers BUSY for ever).
* *Control point*: a request is handed over exactly once, whichever of completion
  and timer comes first; none is forgotten.
* *Resource manager and card*: one owner, nothing mounted on a card without power,
  no halt but for a card that fails; the volume does not change under an open file,
  and is not mounted while the USB cache is ahead of the card.
* *File transfer*: the file is what was acknowledged, the receiver gets what was
  asked for, and every transfer gives the card back, unless nobody ends its idle link.
* *USB cache*: the host sees a plain disk, whatever is in which window, and the card
  holds all of it in the end; what a command costs that comes in the middle of the last
  flush is bounded.
* *Glasses*: while ACTIVE something is always under way that leads to a scan, a
  connection or a picture; a link that was given up, or that nobody wants any
  longer, ends; a display that is held is shown again.
* *Logger*: no sample or line is overwritten before it is written; the sensor file is
  what was drained, each row once and whole.

`PROJECT.json` lists every component with its status, and every hazard found with
its line and the properties that watch it.

## 2. Modules

| Module | Models | Notes |
|---|---|---|
| `ModeService` | what `mode.c` promises | abstract: a mode, a change under way, at most one request, up or down |
| `ModeControl` | `mode.c` with its interrupts, timers and the nested task | refines `ModeService` |
| `DeviceControl` | deferred requests of `device_state.c` | composed of `ModeService` (INSTANCE) and the TX ring |
| `ResourceManager` | `resource_manager.c` with clients that keep the contract | parameterised by the set of clients |
| `CardUsers` | the firmware's own clients of the card | instantiates `ResourceManager` |
| `Crs` | `crs.c`, the RX ring and the TX ring | one step per packet consumed or produced |
| `FileTransfer` | `Crs` composed with `CrsClient` of `flysight_ble.py` and a link that loses packets | EXTENDS `Crs` |
| `BlockDevice` | what mass storage promises the host | abstract: a disk, a card, the last answer |
| `UsbStorageCache` | `usb_storage_cache.c` under `usbd_storage_if.c`, `usb_mode.c` and the logger's claim of the scratch buffer | refines `BlockDevice` |
| `GlassesLink` | `activelook.c`, `activelook_client.c` and the central role of `app_ble.c` with the radio core and the glasses | a display update is one write |
| `GlassesDisplay` | the frame queue of `activelook_mode0.c`, flow control and watchdogs | the link is up, ending or down |
| `SensorLog` | `log.c` with its interrupts, tasks and sessions | |
| `*_proofs` | theorems about the module of that name; `CardUsers_proofs` holds those of `ResourceManager` too | TLAPS |

Operators whose comment starts with *Fault* (for example `PushQueueAsleep`) are
deliberate bugs. They are used by no specification; each shows that a property
can be broken by a plausible mistake in the operator defined after it.

### ModeControl

`queue` is the contents of the event ring between `queue_read` and
`queue_write`. `frames` is the stack of activations of `FS_Mode_Update`: each is at
the head of its loop (`loop`), about to run a handler (`run`, with `oldMode` and
the event it has read) or inside an Init or DeInit (`op`). Inside an operation
that sends an ACI command (`SendsCommand`: entering or leaving PAIRING, leaving
USB) the sequencer may start the task again, which pushes a frame. Interrupts
may come at every point. One action stands for each branch of each handler;
`EndIteration` is the tail of the loop body, so that a pending terminal action is
executed in the same step in which the handler returns, as in the code.
`RequestState` takes the request and pushes its event in one step: in the code an
interrupt can come between the two, but all it can do there is push an event of
its own (a second request is refused because the first is pending). The ghost
variables are `lost` (request events the ring has dropped), `reentered`, and `live`
(modes whose Init was called and whose DeInit has not returned).

### DeviceControl

`deferred` is `pending_request` with what it waits for (`waiting_for_tx`,
`waiting_for_completion`, or the timer alone after a blind write). The handler
that completes an indication has two steps, because the fallback timer is an
interrupt and can come between its test and its run; all else is atomic, being
one task or under PRIMASK. The mode machine below moves by `Machine!Move`, which is
justified by the refinement (section 4).

### ResourceManager and CardUsers

A request of FATFS counts FATFS, MICROSD and VCC; one that is refused changes nothing.
`Error_Handler` is reached in two ways, which `halted` tells apart: "fault", the driver or
the volume fails while FatFs is brought up or down (`MountFails` after
`resource_manager.c:151`, with MICROSD and VCC counted; `UnmountFails` after :178), and
"misuse", a release of what is not held. A device that has halted does nothing more.

`CardUsers` has the transfers of `crs.c`, which check, the modes, which do not, the
diagnostic log, which acquires or skips, and `FS_State_Update`, which USB calls at
its end; its `counters` and `stopped` are the manager's `counts` and `halted`.
`FS_USBMode_DeInit` is taken apart (`unplug`): the first flush, `USBD_DeInit`, the second
flush, the release of MICROSD, the mount of `FS_State_Update` and its release. Each of the first
three may fail and halt the device, and the host writes until the second is done. No other
task runs in between, and the command for the radio with which `FS_State_Update` may end is
in `ModeControl`. `trespass` records that a mode was entered although its request
was refused. What the code does afterwards (unmount under an open file, or
`Error_Handler`) is in the model.

### Crs and FileTransfer

A run of `FS_CRS_Update` is taken apart into steps (`run`: off, receive, send,
leave), between which only the timer's interrupt can come. Data are frames, so a
file is a sequence of frame numbers; a partial write leaves `Torn`. Any FatFs call
named in `Faults` may fail. The client is `CrsClient`: `phase` and the fields of
`UploadWindow`. A listing (`READ_DIR`) is taken by the phone application, whose
code is not in the repository: `ReceiveEntry` is marked external. The client looks
at its inbox and writes between runs of the task: the connection interrupts of the
stack are themselves tasks.

`idle` is the timer of `custom_app.c`: armed by a connection and by every write, also one
that finds the ring full. `IdleExpires` is its interrupt, which comes at any step of the
device once the client has nothing under way (a client with an operation writes or pings every
10 s, `flysight_ble.py:714`). The timer is single-shot and the callback does not look at the
status of `aci_gap_terminate`, so a termination that is refused leaves the timer off until the
next write; one that is accepted ends the connection by its event (`IdleDisconnect`).

### UsbStorageCache and BlockDevice

`mode`, `base`, `count` and `dirty` are the window of `usb_storage_cache.c` (the mask
as a set), `buffer` and `owner` the scratch buffer it shares with the logger, `card` the
card. A command of the host is an interrupt and one action, a flush inside it
included: nothing can come between (`Flushed` is the set of its outcomes, one for each
run at which the card may fail). The flush with which `FS_USBMode_DeInit`
begins runs in a task and the code masks no interrupt in it, so it is taken apart at every
access to what it shares with the interrupt, and a command may come at each: the test of
a bit (`Look`, `Skip`, `RunBegins`, `RunGrows`, `RunEnds`), the transfer of the run, and the
load and the store of the 64-bit mask with which the bits of the run are cleared. `start`,
`next` and `mask` are what the task has in registers. What the compiler may do with a variable
that is not volatile is a choice of the model: the mask is read again for each
block or kept during a search, the bits are cleared one by one or several with one store. Between a
search and the next the code calls the driver, so nothing is kept across it. A run that is being
transferred while the host writes into it puts the old or the new content on the card.

`Disk` maps all of it to `BlockDevice`: the host sees the dirty blocks over the card (`View`).
`BlockDevice` has a state "leaving", in which a command may cost something, and the history
variable `torn` says what:

* a write into the window in place, at an offset of the run in hand or under a mask that
  is loaded and not stored yet (`AtRisk`), may lose its own block: its bit is cleared although the
  card does not have it, or the store of the mask overwrites it;
* a command that flushes or replaces the window while the task works on a run of it (`Crosses`),
  or that talks to the card in the middle of the task's transfer (`Collides`: the SPI driver is not
  made to be entered twice), may tear the whole disk: `torn` is then every block, the card's
  contents and the answers are arbitrary, and nothing but the types, the owner of the buffer
  and the end of the flush is claimed until USB has ended.

In the model nothing else is lost in that flush: a write into the window in place costs something only from
the begin of the run's transfer to the last store of its bits, and a command between two runs costs nothing.

### GlassesLink

`fsm` and `timer` are `activelook.c`, `client` is the GATT client, `engo` is the part of
`app_ble.c` that scans, connects and terminates, `radio` and `glasses` the outside. A
task that sends a command waits (`call`) for an answer, which is an action of its
own: the second core may refuse any command, and does if it cannot carry it
out. Meanwhile the tasks of the list in `app_conf.h:693` are paused and the mode
task is not, so `Enter` and `Leave` come at every point, as do both timer interrupts.
`NextStep` is the order of the discovery for glasses with a given set of services,
characteristics and descriptors (`Kinds`). `orphan` is a slot of the timer server that
was deleted and started again by number, which `HW_TS_Start` does not notice.

Assumed: a general discovery (10 s) outlasts the commands, tasks and events that wait when it
starts; a connection comes about, after an advertising interval at least, later than the HCI
task handles the end of the last one (the guard of `Connects`); and, with `Sluggish = FALSE`, a discovery does not succeed after its watchdog has
given it up. The run with `Sluggish = TRUE` is about exactly that. Not
in the model: advertisements of others, the resolving list, the phone's link and
its advertising, which share the command path but no state.

### GlassesDisplay

`left` is the number of packets of the frame that are not sent yet; the first of them is the
HOLD, the last the FLUSH, and `held` is what the glasses make of it. Every packet waits
for an answer (`PacketTaken`, `PacketRefused`), the glasses say stop and resume at any time
(`flow`), and the pool fills and frees. `stuck` is a stop that has lasted six seconds.

### SensorLog

A sample is its number in the order its ring has accepted it, a row is two units of
the batch, so that a batch of three cuts a row in the middle as a cluster does.
The update task reads the head of a ring, makes the row, writes it and moves the index:
samples arrive between `RowBegins` and `RowEnds`. Times are left out:
`FS_Log_GetNextSensor` may choose any ring that is not empty, and a run may end at any
point, which is more than the code does. `FS_Log_WriteEventAsync` in a task takes
three steps, in an interrupt one. A task that was set in one session may run
after `FS_Log_DeInit`, or in the next session with other files.

## 3. Model checking

Run `tlc -workers 2 -config <cfg> <module>`. Times are for two cores.

| Run | Config | Bounds | Shows |
|---|---|---|---|
| mode_once | `ModeControl_once.cfg` | ring 2, no nesting, requests SLEEP, PAIRING, RESET, 327 K states, 39 s | `TypeOK`; the refinement `ServiceSpec`; `RequestsSettled` under fairness |
| mode_nested | `ModeControl_nested.cfg` | ring 1, nesting 2, 2.4 M states, 29 s | `NoStrandedRequest`, `LiveModeIsTheMode`, `ResetOnlyAfterDeInit` with re-entry |
| device | `DeviceControl.cfg` | TX ring 2, 3 requests, 120 K states, 10 s | `TypeOK`, `DeferralIsArmed`, `HandedOverOnce`, `EveryDeferralDecided` |
| manager | `ResourceManager.cfg` | 4 clients, VCC up to 5, 160 states | `OneOwner`, `HaltsOnlyOnFault`, `HeldIsUp` |
| card | `CardUsers.cfg` | 2 diagnostic lines, 735 states | `SharedInPeace`, `CacheEmptyBeforeMount` |
| transfer | `FileTransfer.cfg` | window 2, counters modulo 4, 2 frames, every fault, one mishap, 11.1 M states, 2 min | `TypeOK`, `FileIsWhatWasAcked`, `AckedIsWritten`, `ReceivedIsExact` |
| transfer_ends | `FileTransfer_ends.cfg` | window 1, 1 frame, 219 K states, 35 s | `TransferEnds` under fairness |
| usb | `UsbStorageCache.cfg` | windows of 3 on a card of 4, 2 contents, 712 K states, 3 min | `TypeOK`, `DirtyBufferKept`, `ReadWindowIsCard`; the refinement `DiskSpec`; `LeavingEnds` |
| glasses | `GlassesLink.cfg` | glasses with a battery service, 1 event waits, 649 K states, 155 s | `TypeOK`, `NeverStranded`, `SetupInOrder`; `NoLinkOutsideActive` and `JudgedSetupEnds` under fairness |
| glasses_display | `GlassesDisplay.cfg` | frames of 4, 2 failed writes, 2 events, 24 K states, 3 s | `TypeOK`, `HoldIsBalanced`; `HeldDisplayShown` and `WedgedLinkDrops` under fairness |
| log | `SensorLog.cfg` | 2 sensors, rings of 2, batch of 3, 3 samples a session, 2 sessions, 2 lines, 5.7 M states, 71 s | `TypeOK`, `NeverHalts`, `RingsKept`, `EventsKept`, `SensorFileIsExact`, `NothingLeftUnsynced` |
| glasses_stranded | `GlassesLink_stranded.cfg` | glasses without a battery service, `Sluggish` | `NeverStranded` is violated |

Why the bounds are enough. The ring of events overflows at length 1 as it does
at 4, and at 1 every push can drop a request. A nesting of 2 is the
first at which an activation runs inside another; the proofs cover every depth.
Three requests are the first at which one is deferred, one handed over and one refused
in the same behaviour. Counters modulo twice the window are the tightest that the
protocol can work with (256 is 32 windows in the code), a file of as many frames as the
window plus the empty packet makes both ends of the window move and the counter
pass the half of its range, and one mishap
with every fault of FatFs already gives a lost ACK, a repeated packet, a rewind, a
full ring and a failed rollback in one behaviour. Bounds that limit behaviours
rather than instances are `MaxNesting`, `MaxWrites`, `MaxVcc`, `MaxOperations`,
`MaxMishaps`, `LinkLength` and `DiagLines`; each is a guard of the action it
bounds and is said to be one where it is declared. In the USB cache a window of
three can have a run, a gap and a run, and a card of four cuts the second window to one
block; with a run of two there is a bit to clear while another of the run is still set, and a
write before, in and behind the run. The theorems cover every size. The glasses of the run are those with the most steps but
the TX characteristic; the invariants hold with two and with three waiting events
as well (0.9 M and 3.6 M states), and are proved for any number. A frame of HOLD, two packets and FLUSH can stop before, inside and at the end.
A batch of a row and a half is cut in the middle every other time, and the rings of two
wrap in the first session; the log's invariants hold with two places for events and
three lines as well (17 M states). `MaxEvents`, `MaxSessions`, `MaxSamples` and
`MaxLines` bound the behaviours of the newer modules.

Fairness. `ModeControl`: weak fairness of the task and of boot (the sequencer always
returns to a task that is set, every ACI command is answered). `DeviceControl`:
weak fairness of the fallback timer and of a handler that has begun; none of the
mode machine, the central or the radio. `FileTransfer`: weak fairness of the
device's task, timers and buffer pool, strong fairness of transmission, of the client and
of the idle timer with the disconnection that an accepted termination brings, because a run of
the task or of the client disables them again and again; none of the connection, and none that a
termination is accepted. `UsbStorageCache`: the task that leaves USB goes on between the
interrupts. That its search ends rests on `cacheBlockCount` being read once for the test of the loop and of
the block found (`NothingFound`), as the build with -Os does it. `GlassesLink` and `GlassesDisplay`: timers expire, commands are answered, a task that
is set runs; strong fairness for the HCI and the disconnect task of `GlassesLink`, which are
disabled whenever a command waits, because the sequencer takes the tasks that are set in turn
(`stm32_seq.c`); `GlassesDisplay` has that turn in its state (`last`) and needs weak fairness
only. A link that is ending ends, and a terminate that is asked for again and again is not refused
for ever: without it no retry could help. Nothing is assumed of advertisements, of connections, of
procedures or of the glasses' resume. Deadlock is not checked in the runs of `DeviceControl`,
`ResourceManager`, `CardUsers`, `UsbStorageCache`, `GlassesLink` and `SensorLog`: after `MaxWrites` requests nothing
need happen any more, and `Error_Handler` halts the processor; outside USB, ACTIVE or a session
nothing need happen at all.

The violation run says that `NeverStranded` does not survive a discovery that completes
after its watchdog has fired and the terminate was refused: the retry's timer
is stopped, its flags are not cleared, and `activelook.c:453` ("each tick asks again until the
controller accepts or the link is gone") is not kept (`findings` of `PROJECT.json`).

Seen while modelling, read off the models and the code, and claimed by no run:

* `app_conf.h:714` ("Add in that list all tasks that never send a ACI/HCI command") lists
  the mode task, but the Init and DeInit of PAIRING and the DeInit of USB send commands: two
  can be in flight.
* A request answered SUCCESS may be refused afterwards (BUSY), because `device_state.c:448`
  does not ask whether `mode.c` has an earlier one pending; `src/Docs/ble.md:346` says that SUCCESS is
  returned "when the request is accepted".
* `mode.c:327` says that in USB "the host owns the microSD through FS_RESOURCE_MICROSD", but
  `FS_USBMode_Init` ignores the result of its request: entered during a file transfer, the host
  writes to a mounted card (`trespass` in `CardUsers`).
* `crs.c:683` says "A packet goes into the file exactly when it is ACKed, never
  otherwise": the rollback after a full TX ring seeks and does not truncate, so that a
  transfer that ends then leaves unacknowledged bytes at the end of the file.
* `src/Docs/ble.md:190` says that "The receiver still ACKs this final zero-data-length packet": with a full TX
  ring the file is closed without an ACK and the repetition is answered by a NAK.
* `usb_mode.c:55` says "Flush any deferred USB mass-storage writes before shutting down". A command
  that rewrites a block between its transfer and the clearing of its bit, or marks one while the
  mask is loaded, loses that write, and one that needs the card in the middle of the flush
  enters the SPI driver a second time: the USB interrupt stays on until :67. The second flush, of
  `FS_USBStorageCache_DeInit`, saves what comes after the first. It needs a host that still sends
  commands when VBUS is low already; `torn` has these cases and `DiskSpec` excludes no other.
* `src/Docs/ble.md:56` says that the connection is terminated when nothing is written for 30 s. When
  `aci_gap_terminate` is refused, `custom_app.c:870` does not notice and its timer does not run again:
  the link stays up, and a transfer that a dead client has left open keeps FatFs until the next
  write or disconnection. `TransferEnds` names the case (`idle = "refused"`).
* `FS_Log_Init` and `FS_Log_DeInit` reset the rings of the sensors and not that of the
  events: lines of one session appear in the file of the next. Samples that are in the
  rings at `FS_Log_DeInit` are not written. An update that was set before it may write rows into
  the scratch buffer that it has released.
* `device_state.c:138` says that the slot reservation of `FS_Log_WriteEventAsync` is not
  interrupt-safe; `mode.c:165`, `imu.c:435`, `sensor.c:168` and `baro.c:206` call it from
  interrupts. `EventsKept` is therefore claimed until the first overlap only.
* `HW_TS_Start` (`activelook.c:345`) may start the timer that `FS_ActiveLook_DeInit` has just deleted,
  when ACTIVE is left inside the write of the CLEAR state: the slot ticks on
  and sets the display's task outside ACTIVE (`orphan`), until it is given to someone else.
* A command behind a CANCEL stays in the RX ring until the next write; a WRITE
  that is refused because its ACK finds no buffer has emptied the file; the TX ring
  is not reset on a disconnection; FILE_ACKs put aside by `_await_ack` from an
  earlier upload are replayed to the window of the next one; a download whose last ACK is
  lost keeps FatFs until a CANCEL or the end of the idle link.

## 4. Proofs

`tlapm <module>_proofs.tla` proves every obligation (Z3, Zenon, LS4). The assumptions
are the named ASSUMEs of the modules, which TLC evaluates in the runs.

* **CardUsers_proofs, the manager.** Inductive invariant: each counter is the number of
  pairs (client, resource it holds) whose chain contains the counter's resource
  (`CountersAreExact`), and at most one pair owns the card, as long as the device runs: a mount that
  fails leaves MICROSD counted for nobody, and halts. `OneOwner`, `HaltsOnlyOnFault`
  and `HeldIsUp` follow, for every set of clients.
* **ModeControl_proofs.** `TypeCorrect` first. `StackInv`: every frame below the top
  is inside an operation that sends a command, and an operation under way is
  an Init out of SLEEP or a DeInit into it. `LiveInv` adds what `live` is while the
  only activation is at each of its phases; it gives `LiveModeIsTheMode` until
  the first re-entry, and `ResetOnlyAfterDeInit` always. `RequestInv` says where the
  event that serves a request can be (in the ring, in a frame that has not
  reached the point where the request is cleared, or lost) at every depth of nesting:
  the plain property is not inductive, because it does not say that the frame which
  holds the event will not return with the request still set.
  The refinement comes last. `ServiceImplemented`: with `MaxNesting = 1` every step of
  `ModeControl` is a step of `ModeService` or a stutter under the mapping of
  `ModeControl!Service`. `ServiceInv` is needed to know that a request is void when a
  handler drops it.
* **DeviceControl_proofs.** `SlotInv` relates the slot, the timer, the handler in its
  middle and the fate of each request: at most one request is deferred and it is
  the one in the slot. It gives `DeferralIsArmed` and `HandedOverOnce`.
* **CardUsers_proofs, the firmware's clients.** `PeaceInv`: until a trespass the counters are those of exactly
  the transfer and the mode that hold the card, never both. It gives
  `SharedInPeace` and, with what is unsynced at each step of `FS_USBMode_DeInit`,
  `CacheEmptyBeforeMount`.
* **UsbStorageCache_proofs.** `ViewIsContents` and `CleanView`: what the host sees is a disk, and with
  no dirty block it is the card. A flush that succeeds or fails at any run changes nothing of it, because a
  bit is cleared only for a block that the card has. The invariant `Inv` has five parts: the types;
  `Shape`, which ties the window to its base and count; `Lending`, the owner of the buffer;
  `ReadWindowIsCard`; and `Working`, what the task's registers know of the window as long as the disk is not
  torn: the run in hand is dirty and within the window, after its transfer the card has it but for torn
  blocks, and a loaded mask differs from the one in memory by torn blocks only. `CacheImplementsDisk`
  follows step by step (`CommandRefines`, `TaskRefines`): every action is a step of `BlockDevice` or
  leaves the host's view alone. It has no hypothesis.
* **GlassesLink_proofs.** For any kinds of glasses and any number of waiting events.
  `SetupInOrder` speaks of a step that may be done, asked for, running, answered or waiting in
  the queue of the HCI task, so `SetupInv` follows one connection through all of
  them: what the queue tells of it is in order and ends with its end (`QueueInv`), the client
  is open only while the link or the event of its end is there (`LifeInv`,
  `ClosedInv`), and at most one procedure is asked for, running or answered (`GattInv`,
  `UpInv`). This gives `SetupAlwaysInOrder`, also with `Sluggish`. `NeverStranded` needs to
  know who moves next. `OwnerInv` says that without a connection some part of the search is under way
  (`SearchInv`, on top of `EngoInv` and `ScanInv` for the flags of `app_ble.c` and
  `MachineInv` for the states of `activelook.c`), and that a link that is up is ending or
  in one of five hands (`LinkedInv`): being set up, retried, given up, cleared or displaying. It
  gives `NeverStrandedAlways` under `~Sluggish`; the hypothesis is needed, as the run
  glasses_stranded shows. TLC has checked the parts of both invariants for three kinds of glasses
  (1.2 M states with one waiting event, 2.3 M with two).
  The guard of `Connects` came out of this proof: without it TLC finds
  `SetupInOrder` violated with three events waiting (38 states: the end of a
  connection and the result of its last procedure wait while `ConnectRequest` is
  answered and the glasses connect again, and the next step of the old setup goes to the
  new link).
* **GlassesDisplay_proofs.** `HoldInv` adds to `HoldIsBalanced` what is on its way: while
  a packet waits for its answer there is one left, and a new frame is begun only
  when none is. It covers frames of every length.
* **SensorLog_proofs.** `RunInv` says that the snapshot a run was begun with is covered by
  the rings, and `FlagInv` that a ring with samples has its file: together they give
  `NeverHalts` also for a run that was set in another session. For `EventsKept` the
  writer in its three steps is part of the invariant: its place is free until its index moves.
  `CountInv` ties what has been taken from a ring to its read index; a batch cut anywhere
  and written in pieces then leaves the file with the samples in order
  (`SensorFileIsAlwaysExact`), and a file the sync task passes over synchronised
  (`NothingIsLeftUnsynced`).
* **FileTransfer_proofs.** `TypesAlwaysRight` needs no bound on the operations. The other
  three theorems are about one operation of the client (`MaxOperations = 1`), of any
  kind, with every fault, loss, repetition and timeout, for every window, every number of
  counters that is at least twice the window, and files of any length.
  The hypothesis is needed, not convenient: packets of an earlier operation that
  `_await_ack` has put aside are replayed into the window of the next
  (`flysight_ble.py:777`, listed under `hazards`), and a frame counter of the earlier one then stands for a
  frame of the later. The properties say nothing of how packets on their way are numbered, and
  are far from inductive. The invariant `IInv` has five parts. `OneInv`: only
  packets of the operation are under way. `OpenInv`: its command is there once, nothing
  of it precedes the answer that opens it. `WriteInv`, `ReadInv` and `DirInv` say, for an
  upload, a download and a listing, where the packets on their way stand. A packet
  carries a counter; `Lift(n, b)` is the number from `b` on that has the counter `n`, and
  the invariant bounds the lifted numbers: every DATA is less than a window from what is
  expected, one that is behind another is less than a window before it, ACKs in flight
  are in order and of frames that are in the file. `CounterTells` and `LiftMoves` turn this into
  what the code relies on: the frame with the counter expected is the frame expected
  (`FrameExpected`), and an ACK read cumulatively moves the client's window no
  further than the device has come (`AckedUpToSafe`). A listing has no retransmission: its
  part of the invariant, and of `ReceivedIsExact`, holds while nothing has been lost
  (`mishaps = 0`). Steps that leave the transfer where it is share `Shape` and `Still`, so that
  what they keep is proved once.

Only model-checked: liveness (`RequestsSettled`, `EveryDeferralDecided`, `TransferEnds`,
`LeavingEnds`, `NoLinkOutsideActive`, `JudgedSetupEnds`, `HeldDisplayShown`, `WedgedLinkDrops`), which
TLAPS does not reach. Every invariant, action property and refinement of the runs that pass has a
theorem, under the hypotheses named above. That `ModeControl` with
nesting still implements `ModeService` is not claimed: a re-entry breaks it.

## 5. Not modelled

The reasons are in `PROJECT.json`. In short: the trace of the control point,
button debouncing, the countdown of START, flight detection and the binding file are
within reach and in the plan; sensor registers, audio synthesis, layout, geometry
in floating point and text parsing are I/O or arithmetic that a model would only
repeat. Nine tenths of the repository's lines are Drivers (CMSIS, HAL, BSP), Middlewares (the
BLE stack's interface, FatFs, the USB device library) and generated start-up code:
they are vendored, and modelled only by what the firmware relies on.

## 6. Plan

Done, in this order: `ModeService`, `ModeControl`, `DeviceControl`, `ResourceManager`,
`CardUsers`, `Crs`, `FileTransfer`, `UsbStorageCache` with `BlockDevice`, `GlassesLink`,
`GlassesDisplay`, `SensorLog`, and the proofs above. Left:

1. `ControlPointTrace` (`cp_log.c`), `Button` (debouncing), `StartCountdown`,
   `FlightDetect` (time of week modulo the week), `EngoBind`, the I2C queue of `sensor.c`, the list
   of `hw_timerserver.c`.
2. `FileTransfer` with two operations in a row.
