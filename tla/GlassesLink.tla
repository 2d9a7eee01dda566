---------------------------- MODULE GlassesLink ----------------------------
(***************************************************************************)
(* The link to the ActiveLook glasses: the machine of activelook.c, its      *)
(* GATT client (activelook_client.c), and the scan, connect and terminate    *)
(* requests of app_ble.c.  They run in five tasks of the sequencer and two  *)
(* timer interrupts.  What a display update writes is one step here; its    *)
(* packets are the module GlassesDisplay.                                   *)
(*                                                                         *)
(* A task that sends an ACI command waits for its answer.  Meanwhile the    *)
(* tasks that may send commands are paused (app_conf.h), and the mode task  *)
(* is not: it may leave ACTIVE, and enter it again, inside the wait.        *)
(***************************************************************************)
EXTENDS Integers, Sequences, Functions

CONSTANTS Kinds,      \* kinds of glasses: the services, characteristics and
                      \* descriptors that a discovery finds on them
          Sluggish,   \* a discovery may go on although its link was given up
          MaxEvents   \* bound: events of the radio that wait for the HCI task

Features == {"service", "rx", "ctrl", "ctrlCccd", "battery", "batteryLevel", "batteryCccd",
             "tx", "txCccd"}

ASSUME KindsAssumption == Kinds \subseteq SUBSET Features
ASSUME BoundsAssumption ==
  /\ Sluggish \in BOOLEAN
  /\ MaxEvents \in Nat \ {0}

VARIABLES
  fsm,     \* activelook.c: running, state; discovering (s_discoveryInProgress), late
           \* (s_discoveryTimedOut), retry, due (s_terminateRetry, s_terminateRetryDue)
  timer,   \* its shared timer: "free", "stopped", "running"
  orphan,  \* a slot of the timer server that was deleted and runs
  client,  \* activelook_client.c: open (connHandle), step (discState), linkUp,
           \* terminating, refused (terminateRefused)
  engo,    \* app_ble.c: status, found (EndDevice1Found), scanAgain, endAgain
           \* (engo_scan_retry_pending, engo_terminate_retry_pending), endDue
  tasks,   \* the tasks of the sequencer that are set; HCI is, as long as events wait
  call,    \* the ACI command whose answer a task waits for, and what follows it
  radio,   \* the second core: scan, conn, link, gatt (its procedure)
  events,  \* its events, in the queue of the HCI task
  glasses  \* the peer of the link: its kind, CB9 subscribed

hud  == <<fsm, timer, orphan>>
host == <<hud, client, engo, tasks, call>>
vars == <<host, radio, events, glasses>>

Steps == {"EXCH_MTU", "SVC", "CHAR", "CHAR_BAT", "DESC", "BATTERY_NOTIFY",
          "BATTERY_READ", "TX_DESC", "TX_NOTIFY", "CTRL_DESC", "CTRL_NOTIFY"}
NoCall == [cmd |-> "none", then |-> "none"]
Calls  ==
  {NoCall} \cup [cmd : {"gatt"}, then : Steps \cup {"battery"}]
    \cup [cmd : {"write"}, then : {"clear", "draw"}]
    \cup [cmd : {"terminate"}, then : {"request", "unwanted", "setup", "timed_out",
                                       "retry", "watchdog"}]
    \cup [cmd : {"scan", "connect", "stop_scan", "stop_connect"}, then : {"request"}]

TypeOK ==
  /\ fsm \in [running : BOOLEAN, state : {"INIT", "CLEAR", "READY", "UPDATE"},
              discovering : BOOLEAN, late : BOOLEAN, retry : BOOLEAN, due : BOOLEAN]
  /\ timer \in {"free", "stopped", "running"} /\ orphan \in BOOLEAN
  /\ client \in [open : BOOLEAN, step : Steps \cup {"IDLE"}, linkUp : BOOLEAN,
                 terminating : BOOLEAN, refused : BOOLEAN]
  /\ engo \in [status : {"IDLE", "CONNECTING", "CONNECTED"}, found : BOOLEAN,
               scanAgain : BOOLEAN, endAgain : BOOLEAN, endDue : BOOLEAN]
  /\ tasks \subseteq {"SCAN", "CONN", "DISC", "HUD"}
  /\ call \in Calls
  /\ radio \in [scan : {"off", "on", "ended"}, conn : {"off", "trying", "cancelled"},
                link : {"down", "up", "ending"},
                gatt : Steps \cup {"none", "battery"}]
  /\ events \in Seq({"found", "scanned", "scan_failed", "opened", "open_failed",
                     "closed", "gatt_ok", "gatt_error"})
  /\ glasses \in [kind : Kinds, subscribed : BOOLEAN]

ClosedClient == [open |-> FALSE, step |-> "IDLE", linkUp |-> FALSE, terminating |-> FALSE,
                 refused |-> FALSE]
IdleFsm(running) == [running |-> running, state |-> "INIT", discovering |-> FALSE,
                     late |-> FALSE, retry |-> FALSE, due |-> FALSE]

Init ==
  /\ fsm = IdleFsm(FALSE) /\ timer = "free" /\ orphan = FALSE
  /\ client = ClosedClient
  /\ engo = [status |-> "IDLE", found |-> FALSE, scanAgain |-> FALSE,
             endAgain |-> FALSE, endDue |-> FALSE]
  /\ tasks = {} /\ call = NoCall /\ events = <<>>
  /\ radio = [scan |-> "off", conn |-> "off", link |-> "down", gatt |-> "none"]
  /\ glasses \in [kind : Kinds, subscribed : {FALSE}]
-----------------------------------------------------------------------------
(* Helpers of the handlers.                                                 *)

\* UTIL_SEQ_Run: a task that is set runs when no command waits for its answer.
Runs(t) == call = NoCall /\ t \in tasks /\ tasks' = tasks \ {t}

Waits(cmd, then) == call' = [cmd |-> cmd, then |-> then]
Returns == call' = NoCall

\* Fault: only a display that was up is asked again to end.
TerminatePendingUp(c) == c.refused /\ ~c.terminating /\ c.linkUp

\* FS_ActiveLook_Client_TerminatePending
TerminatePending(c) == c.refused /\ ~c.terminating /\ c.open

\* HW_TS_Start does not ask whether its timer exists.
TimerStart ==
  IF timer = "free" THEN orphan' = TRUE /\ UNCHANGED timer
  ELSE timer' = "running" /\ UNCHANGED orphan
\* Every HW_TS_Stop of the machine is behind its s_running.
TimerStop ==
  /\ timer' = IF fsm.running THEN "stopped" ELSE timer
  /\ UNCHANGED orphan

\* Fault: a scan that cannot start is not tried again.
ScanRetryForgotten(e) == e

\* Schedule_Engo_Scan_Retry
ScanRetry(e) ==
  IF fsm.running /\ ~e.endAgain THEN [e EXCEPT !.scanAgain = TRUE] ELSE e

\* Fault: a terminate that is refused is not asked for again.
TerminateRetryForgotten(e) == [e EXCEPT !.scanAgain = FALSE]

\* Schedule_Engo_Terminate_Retry
TerminateRetry(e) == [e EXCEPT !.scanAgain = FALSE, !.endAgain = TRUE]

\* FS_ActiveLook_Client_ForceDisconnect, up to the answer of aci_gap_terminate.
\* Asked for once; without a link there is nothing to ask.
ForceDisconnect(c, then) ==
  IF ~c.terminating /\ c.open
  THEN client' = c /\ Waits("terminate", then)
  ELSE client' = [c EXCEPT !.terminating = TRUE] /\ Returns
-----------------------------------------------------------------------------
(* Entering and leaving ACTIVE, in the mode task.                           *)

\* FS_ActiveLook_Init with a binding
Enter ==
  /\ ~fsm.running
  /\ fsm' = IdleFsm(TRUE) /\ timer' = "stopped"
  /\ tasks' = tasks \cup {"SCAN"}
  /\ UNCHANGED <<orphan, client, engo, call, radio, events, glasses>>

\* FS_ActiveLook_DeInit
Leave ==
  /\ fsm.running
  /\ fsm' = IdleFsm(FALSE) /\ timer' = "free"
  /\ tasks' = tasks \cup {"DISC"}
  /\ UNCHANGED <<orphan, client, engo, call, radio, events, glasses>>
-----------------------------------------------------------------------------
(* Timer interrupts.                                                        *)

\* FS_ActiveLook_Timer.  The callback is the same for a slot that was deleted.
Tick ==
  /\ timer = "running" \/ orphan
  /\ \/ fsm.retry /\ fsm' = [fsm EXCEPT !.due = TRUE]
     \/ ~fsm.retry /\ fsm.discovering /\ (Sluggish \/ events = <<>>)
        /\ fsm' = [fsm EXCEPT !.late = TRUE]
     \/ ~fsm.retry /\ ~fsm.discovering /\ fsm.state = "READY"
        /\ fsm' = [fsm EXCEPT !.state = "UPDATE"]
  /\ tasks' = tasks \cup {"HUD"}
  /\ UNCHANGED <<timer, orphan, client, engo, call, radio, events, glasses>>

\* Engo_Scan_Retry_Timer
RetryTimer ==
  \/ /\ engo.endAgain
     /\ engo' = [engo EXCEPT !.endAgain = FALSE, !.endDue = TRUE]
     /\ tasks' = tasks \cup {"DISC"}
     /\ UNCHANGED <<hud, client, call, radio, events, glasses>>
  \/ /\ ~engo.endAgain /\ engo.scanAgain
     /\ engo' = [engo EXCEPT !.scanAgain = FALSE]
     /\ tasks' = IF fsm.running THEN tasks \cup {"SCAN"} ELSE tasks
     /\ UNCHANGED <<hud, client, call, radio, events, glasses>>
-----------------------------------------------------------------------------
(* The tasks of app_ble.c.                                                  *)

ScanRequest ==
  /\ Runs("SCAN")
  /\ \/ /\ fsm.running /\ engo.status # "CONNECTED"
        /\ engo' = [engo EXCEPT !.scanAgain = FALSE, !.found = FALSE]
        /\ Waits("scan", "request")
     \/ /\ fsm.running /\ engo.status = "CONNECTED"
        /\ engo' = [engo EXCEPT !.scanAgain = FALSE] /\ UNCHANGED call
     \/ /\ ~fsm.running
        /\ engo' = [engo EXCEPT !.scanAgain = FALSE, !.found = FALSE] /\ UNCHANGED call
  /\ UNCHANGED <<hud, client, radio, events, glasses>>

ConnectRequest ==
  /\ Runs("CONN")
  /\ \/ /\ ~fsm.running
        /\ engo' = [engo EXCEPT !.found = FALSE, !.status = "IDLE"] /\ UNCHANGED call
     \/ /\ fsm.running /\ engo.status = "IDLE" /\ Waits("connect", "request")
        /\ UNCHANGED engo
     \/ fsm.running /\ engo.status # "IDLE" /\ UNCHANGED <<engo, call>>
  /\ UNCHANGED <<hud, client, radio, events, glasses>>

\* Leaving ACTIVE, or a terminate that is asked for again.
DisconnectRequest ==
  /\ Runs("DISC")
  /\ engo' = [engo EXCEPT !.endDue = FALSE,
                          !.scanAgain = @ /\ fsm.running]
  /\ \/ engo.endDue /\ engo.status # "CONNECTED" /\ UNCHANGED call
     \/ engo.status = "CONNECTED" /\ Waits("terminate", "request")
     \/ ~engo.endDue /\ engo.status = "CONNECTING" /\ Waits("stop_connect", "request")
     \/ ~engo.endDue /\ engo.status = "IDLE" /\ Waits("stop_scan", "request")
  /\ UNCHANGED <<hud, client, radio, events, glasses>>
-----------------------------------------------------------------------------
(* The discovery of activelook_client.c: one GATT procedure after another.  *)

\* Fault: glasses without the TX characteristic are linked up at once.
AfterBatteryUp(k) == IF "tx" \in k THEN "TX_DESC" ELSE "UP"

AfterBattery(k) == IF "tx" \in k THEN "TX_DESC" ELSE "CTRL_DESC"

\* What follows step s when it has succeeded: a step, the link, or a failure.
NextStep(s, k) ==
  CASE s = "EXCH_MTU" -> "SVC"
    [] s = "SVC" -> IF "service" \in k THEN "CHAR" ELSE "FAIL"
    [] s = "CHAR" -> IF ~({"rx", "ctrl"} \subseteq k) THEN "FAIL"
                     ELSE IF "battery" \in k THEN "CHAR_BAT" ELSE AfterBattery(k)
    [] s = "CHAR_BAT" -> IF "batteryLevel" \in k THEN "DESC" ELSE AfterBattery(k)
    [] s = "DESC" -> IF "batteryCccd" \in k THEN "BATTERY_NOTIFY" ELSE AfterBattery(k)
    [] s = "BATTERY_NOTIFY" -> "BATTERY_READ"
    [] s = "BATTERY_READ" -> AfterBattery(k)
    [] s = "TX_DESC" -> IF "txCccd" \in k THEN "TX_NOTIFY" ELSE "CTRL_DESC"
    [] s = "TX_NOTIFY" -> "CTRL_DESC"
    [] s = "CTRL_DESC" -> IF "ctrlCccd" \in k THEN "CTRL_NOTIFY" ELSE "FAIL"
    [] s = "CTRL_NOTIFY" -> "UP"

\* FS_ActiveLook_Client_SetupStatusFailed, ...ProcedureFailed, ...FlowControlFailed
SetupFails == ForceDisconnect([client EXCEPT !.step = "IDLE"], "setup")

\* OnActiveLookDiscoveryComplete: ACTIVE may have been left in the meantime.
DiscoveryComplete ==
  LET c == [client EXCEPT !.step = "IDLE", !.linkUp = TRUE]
  IN \/ ~fsm.running /\ ForceDisconnect(c, "setup") /\ UNCHANGED <<hud, tasks>>
     \/ /\ fsm.running
        /\ client' = c
        /\ fsm' = [fsm EXCEPT !.discovering = FALSE, !.late = FALSE, !.state = "CLEAR"]
        /\ TimerStop
        /\ tasks' = tasks \cup {"HUD"}
        /\ IF {"battery", "batteryLevel", "batteryCccd"} \subseteq glasses.kind
           THEN Waits("gatt", "battery") ELSE Returns

Proceed(next) ==
  \/ next = "FAIL" /\ SetupFails /\ UNCHANGED <<hud, tasks>>
  \/ next = "UP" /\ DiscoveryComplete
  \/ /\ next \in Steps
     /\ client' = [client EXCEPT !.step = next]
     /\ Waits("gatt", next) /\ UNCHANGED <<hud, tasks>>
-----------------------------------------------------------------------------
(* The HCI task: one event of the radio.                                    *)

Event(e) == /\ events # <<>> /\ Head(events) = e /\ call = NoCall
            /\ events' = Tail(events)

\* An advertising report of the glasses that are bound
Found ==
  /\ Event("found")
  /\ engo' = [engo EXCEPT !.found = TRUE]
  /\ UNCHANGED <<hud, client, tasks, call, radio, glasses>>

\* ACI_GAP_PROC_COMPLETE of the general discovery, status 0
Scanned ==
  /\ Event("scanned")
  /\ engo' = [engo EXCEPT !.found = @ /\ fsm.running]
  /\ tasks' = IF ~fsm.running \/ engo.status = "CONNECTED" THEN tasks
              ELSE tasks \cup {IF engo.found THEN "CONN" ELSE "SCAN"}
  /\ UNCHANGED <<hud, client, call, radio, glasses>>

\* ... and any other status
ScanFailed ==
  /\ Event("scan_failed")
  /\ engo' = ScanRetry(engo)
  /\ UNCHANGED <<hud, client, tasks, call, radio, glasses>>

\* LE Connection Complete, status 0, role central
Opened ==
  /\ Event("opened")
  /\ engo' = [engo EXCEPT !.status = "CONNECTED"]
  /\ \/ /\ fsm.running
        /\ fsm' = [fsm EXCEPT !.late = FALSE, !.retry = FALSE, !.due = FALSE,
                              !.discovering = TRUE]
        /\ timer' = "running"
        /\ client' = [ClosedClient EXCEPT !.open = TRUE, !.step = "EXCH_MTU"]
        /\ Waits("gatt", "EXCH_MTU")
     \/ ~fsm.running /\ Waits("terminate", "unwanted") /\ UNCHANGED <<fsm, timer, client>>
  /\ UNCHANGED <<orphan, tasks, radio, glasses>>

\* ... any other status.  Without an attempt of ours it is taken for the phone's.
OpenFailed ==
  /\ Event("open_failed")
  /\ engo' = IF engo.status = "CONNECTING"
             THEN ScanRetry([engo EXCEPT !.status = "IDLE", !.found = FALSE]) ELSE engo
  /\ UNCHANGED <<hud, client, tasks, call, radio, glasses>>

\* Disconnection Complete, FS_ActiveLook_Client_OnDisconnect, FS_ActiveLook_OnDisconnect
Closed ==
  /\ Event("closed")
  /\ engo' = [engo EXCEPT !.status = "IDLE", !.endAgain = FALSE, !.endDue = FALSE]
  /\ client' = ClosedClient
  /\ fsm' = IdleFsm(fsm.running) /\ TimerStop
  /\ tasks' = IF fsm.running THEN tasks \cup {"SCAN"} ELSE tasks
  /\ UNCHANGED <<call, radio, glasses>>

\* ACI_GATT_PROC_COMPLETE.  A battery level that cannot be read is tolerated.
ProcComplete ==
  \/ /\ Event("gatt_ok") \/ (Event("gatt_error") /\ client.step = "BATTERY_READ")
     /\ client.step # "IDLE"
     /\ Proceed(NextStep(client.step, glasses.kind))
     /\ UNCHANGED <<engo, radio, glasses>>
  \/ /\ Event("gatt_error") /\ client.step \notin {"IDLE", "BATTERY_READ"}
     /\ SetupFails
     /\ UNCHANGED <<hud, engo, tasks, radio, glasses>>
  \/ /\ Event("gatt_ok") \/ Event("gatt_error")
     /\ client.step = "IDLE"
     /\ UNCHANGED <<host, radio, glasses>>

-----------------------------------------------------------------------------
(* FS_ActiveLook_Task.                                                      *)

ReadyFsm(f) == [f EXCEPT !.state = "READY"]

RetryTerminate ==
  /\ Runs("HUD") /\ fsm.due
  /\ \/ /\ TerminatePending(client)
        /\ fsm' = [fsm EXCEPT !.due = FALSE]
        /\ ForceDisconnect(client, "retry") /\ UNCHANGED <<timer, orphan>>
     \/ /\ ~TerminatePending(client)
        /\ fsm' = [fsm EXCEPT !.due = FALSE, !.retry = FALSE]
        /\ TimerStop /\ UNCHANGED <<client, call>>
  /\ UNCHANGED <<engo, radio, events, glasses>>

DiscoveryTimedOut ==
  /\ Runs("HUD") /\ ~fsm.due /\ fsm.late
  /\ fsm' = [fsm EXCEPT !.late = FALSE, !.discovering = FALSE]
  /\ TimerStop
  /\ ForceDisconnect(client, "timed_out")
  /\ UNCHANGED <<engo, radio, events, glasses>>

InState(s) == Runs("HUD") /\ ~fsm.due /\ ~fsm.late /\ fsm.state = s

\* Best effort, then READY with the display timer.
Cleared == fsm' = ReadyFsm(fsm) /\ TimerStart

Clear ==
  /\ InState("CLEAR")
  /\ \/ client.linkUp /\ Waits("write", "clear") /\ UNCHANGED <<fsm, timer, orphan>>
     \/ Cleared /\ UNCHANGED call
  /\ UNCHANGED <<client, engo, radio, events, glasses>>

\* Nothing is due: the packets that are left, if any, are the display's.
Idle ==
  /\ InState("INIT") \/ InState("READY")
  /\ UNCHANGED <<hud, client, engo, call, radio, events, glasses>>

\* The flow-control watchdog or the failed writes give the link up, or packets are
\* written, or the glasses said stop.
Update ==
  /\ InState("UPDATE")
  /\ \/ /\ ForceDisconnect(client, "watchdog")
        /\ fsm' = IF call' = NoCall THEN ReadyFsm(fsm) ELSE fsm
     \/ client.linkUp /\ Waits("write", "draw") /\ UNCHANGED <<fsm, client>>
     \/ fsm' = ReadyFsm(fsm) /\ UNCHANGED <<client, call>>
  /\ UNCHANGED <<timer, orphan, engo, radio, events, glasses>>
-----------------------------------------------------------------------------
(* Answers to the commands.  The second core may refuse any of them, and it *)
(* does when it cannot carry it out.                                        *)

Answer(cmd) == call.cmd = cmd
Quiet == radio.scan = "off" /\ radio.conn = "off"

ScanAnswer ==
  /\ Answer("scan") /\ Returns
  /\ \/ Quiet /\ radio' = [radio EXCEPT !.scan = "on"] /\ UNCHANGED engo
     \/ engo' = ScanRetry(engo) /\ UNCHANGED radio
  /\ UNCHANGED <<hud, client, tasks, events, glasses>>

ConnectAnswer ==
  /\ Answer("connect") /\ Returns
  /\ \/ /\ Quiet /\ radio.link = "down"
        /\ radio' = [radio EXCEPT !.conn = "trying"]
        /\ engo' = [engo EXCEPT !.status = "CONNECTING"]
     \/ engo' = ScanRetry([engo EXCEPT !.status = "IDLE"]) /\ UNCHANGED radio
  /\ UNCHANGED <<hud, client, tasks, events, glasses>>

StopConnectAnswer ==
  /\ Answer("stop_connect") /\ Returns
  /\ \/ radio.conn = "trying" /\ radio' = [radio EXCEPT !.conn = "cancelled"]
     \/ UNCHANGED radio
  /\ engo' = [engo EXCEPT !.status = "IDLE"]
  /\ UNCHANGED <<hud, client, tasks, events, glasses>>

\* A discovery that is ended completes with a status that is not 0.
StopScanAnswer ==
  /\ Answer("stop_scan") /\ Returns
  /\ \/ radio.scan = "on" /\ radio' = [radio EXCEPT !.scan = "ended"]
     \/ UNCHANGED radio
  /\ engo' = [engo EXCEPT !.found = FALSE]
  /\ UNCHANGED <<hud, client, tasks, events, glasses>>

TerminateTaken ==
  /\ Answer("terminate") /\ radio.link = "up"
  /\ radio' = [radio EXCEPT !.link = "ending"]
  /\ Returns
  /\ IF call.then \in {"request", "unwanted"}
     THEN /\ engo' = IF call.then = "request" THEN [engo EXCEPT !.status = "IDLE"] ELSE engo
          /\ UNCHANGED <<fsm, timer, orphan, client>>
     ELSE /\ client' = [client EXCEPT !.terminating = TRUE, !.refused = FALSE]
          /\ fsm' = CASE call.then = "watchdog" -> ReadyFsm(fsm)
                      [] call.then = "retry" -> [fsm EXCEPT !.retry = FALSE]
                      [] OTHER -> fsm
          /\ IF call.then = "retry" THEN TimerStop ELSE UNCHANGED <<timer, orphan>>
          /\ UNCHANGED engo
  /\ UNCHANGED <<tasks, events, glasses>>

\* FS_ActiveLook_OnTerminateRefused while ACTIVE, APP_BLE_Engo_TerminateRefused outside
TerminateRefused ==
  /\ Answer("terminate") /\ Returns
  /\ IF call.then \in {"request", "unwanted"}
     THEN engo' = TerminateRetry(engo) /\ UNCHANGED <<fsm, timer, client>>
     ELSE /\ client' = [client EXCEPT !.refused = TRUE]
          /\ LET arms == fsm.running /\ fsm.state = "INIT" /\ ~fsm.retry
                 f    == IF arms THEN [IdleFsm(TRUE) EXCEPT !.retry = TRUE] ELSE fsm
             IN /\ fsm' = IF call.then = "watchdog" THEN ReadyFsm(f) ELSE f
                /\ timer' = IF arms THEN "running" ELSE timer
          /\ engo' = IF ~fsm.running /\ engo.status = "CONNECTED"
                     THEN TerminateRetry(engo) ELSE engo
  /\ UNCHANGED <<orphan, tasks, radio, events, glasses>>

\* Fault: the link is up when the subscription to CB9 is asked for.
GattTakenHasty ==
  /\ Answer("gatt") /\ radio.link = "up" /\ radio.gatt = "none"
  /\ radio' = [radio EXCEPT !.gatt = call.then]
  /\ IF call.then = "CTRL_NOTIFY" THEN DiscoveryComplete
     ELSE Returns /\ UNCHANGED <<hud, client, tasks>>
  /\ UNCHANGED <<engo, events, glasses>>

GattTaken ==
  /\ Answer("gatt") /\ radio.link = "up" /\ radio.gatt = "none"
  /\ radio' = [radio EXCEPT !.gatt = call.then] /\ Returns
  /\ UNCHANGED <<hud, client, engo, tasks, events, glasses>>

GattRefused ==
  /\ Answer("gatt")
  /\ CASE call.then = "battery" -> Returns /\ UNCHANGED client
       [] call.then = "BATTERY_READ" ->
            /\ client' = [client EXCEPT !.step = AfterBattery(glasses.kind)]
            /\ Waits("gatt", AfterBattery(glasses.kind))
       [] OTHER -> SetupFails
  /\ UNCHANGED <<hud, engo, tasks, radio, events, glasses>>

\* Packets that are taken or refused: what becomes of them is the display's.
WriteAnswer ==
  /\ Answer("write") /\ Returns
  /\ CASE call.then = "clear" -> Cleared
       [] call.then = "draw" -> fsm' = ReadyFsm(fsm) /\ UNCHANGED <<timer, orphan>>
  /\ UNCHANGED <<client, engo, tasks, radio, events, glasses>>
-----------------------------------------------------------------------------
(* The second core and the glasses, which are its only central link.        *)

Sends(e) == events' = Append(events, e)
Room == Len(events) < MaxEvents

\* A second report of a discovery changes nothing.
Advertised ==
  /\ Room /\ ~engo.found /\ radio.scan = "on" /\ radio.link = "down" /\ Sends("found")
  /\ UNCHANGED <<host, radio, glasses>>

\* A discovery lasts ten seconds: longer than a command, a task that is set or an event
\* of before waits.
ScanEnds ==
  /\ Room /\ radio' = [radio EXCEPT !.scan = "off"]
  /\ \/ /\ radio.scan = "on" /\ Sends("scanned")
        /\ tasks = {} /\ call = NoCall /\ Range(events) \subseteq {"found"}
     \/ radio.scan # "off" /\ Sends("scan_failed")
  /\ UNCHANGED <<host, glasses>>

\* A connection may still come about when its attempt is being cancelled.  It takes an
\* advertising interval at least: longer than the end of the last one waits.
Connects ==
  /\ Room /\ radio.conn # "off" /\ radio.link = "down" /\ "closed" \notin Range(events)
  /\ radio' = [radio EXCEPT !.conn = "off", !.link = "up"]
  /\ glasses' \in [kind : Kinds, subscribed : {FALSE}]
  /\ Sends("opened")
  /\ UNCHANGED <<host>>

ConnectFails ==
  /\ Room /\ radio.conn # "off" /\ radio' = [radio EXCEPT !.conn = "off"]
  /\ Sends("open_failed")
  /\ UNCHANGED <<host, glasses>>

\* By a terminate, or the glasses are gone.  It has room always, to be fair to it.
LinkEnds ==
  /\ radio.link # "down"
  /\ radio' = [radio EXCEPT !.link = "down", !.gatt = "none"]
  /\ glasses' = [glasses EXCEPT !.subscribed = FALSE]
  /\ Sends("closed")
  /\ UNCHANGED <<host>>

\* The watchdog of the discovery has fired, and nothing has come of it yet.
GivenUp == fsm.late \/ call.then = "timed_out" \/ client.refused

GattEnds ==
  /\ Room /\ radio.gatt # "none" /\ radio' = [radio EXCEPT !.gatt = "none"]
  /\ \/ /\ Sends("gatt_ok") /\ (Sluggish \/ ~GivenUp)
        /\ glasses' = [glasses EXCEPT !.subscribed = @ \/ radio.gatt = "CTRL_NOTIFY"]
     \/ Sends("gatt_error") /\ UNCHANGED glasses
  /\ UNCHANGED <<host>>
-----------------------------------------------------------------------------
HciTask == \/ Found \/ Scanned \/ ScanFailed \/ Opened \/ OpenFailed \/ Closed
           \/ ProcComplete
HudTask == \/ RetryTerminate \/ DiscoveryTimedOut \/ Clear \/ Idle \/ Update
Answered == \/ ScanAnswer \/ ConnectAnswer \/ StopConnectAnswer \/ StopScanAnswer
            \/ TerminateTaken \/ TerminateRefused \/ GattTaken \/ GattRefused
            \/ WriteAnswer
Radio == \/ Advertised \/ ScanEnds \/ Connects \/ ConnectFails \/ LinkEnds \/ GattEnds

Next == \/ Enter \/ Leave \/ Tick \/ RetryTimer
        \/ ScanRequest \/ ConnectRequest \/ DisconnectRequest
        \/ HciTask \/ HudTask \/ Answered \/ Radio

Spec == Init /\ [][Next]_vars

\* The sequencer runs the tasks in turn, so that none that is set waits for ever; timers
\* expire, commands are answered, a link that is terminated ends, and a terminate is not
\* refused for ever.
Fairness ==
  /\ WF_vars(Tick) /\ WF_vars(RetryTimer) /\ WF_vars(ScanRequest)
  /\ WF_vars(ConnectRequest) /\ SF_vars(DisconnectRequest) /\ SF_vars(HciTask)
  /\ WF_vars(HudTask) /\ WF_vars(Answered) /\ SF_vars(TerminateTaken)
  /\ WF_vars(radio.link = "ending" /\ LinkEnds)

FairSpec == Spec /\ Fairness
-----------------------------------------------------------------------------
\* While ACTIVE the link is never stranded: something will happen, of which the next
\* scan, connection or picture comes.  (The retry paths of app_ble.c and activelook.c)
NeverStranded ==
  fsm.running =>
    \/ call # NoCall \/ tasks # {} \/ events # <<>>
    \/ radio.scan # "off" \/ radio.conn # "off" \/ radio.link = "ending"
    \/ engo.scanAgain \/ engo.endAgain
    \/ radio.link = "up" /\ timer = "running"

\* A setup runs in its order: the stack is asked for one GATT procedure of a
\* connection at a time, none while another one runs, and a frame is drawn only on
\* glasses that can say stop.  (activelook_client.c:637, :691)
SetupInOrder ==
  radio.link = "up" =>
    /\ call.cmd = "gatt" => radio.gatt = "none"
    /\ call.cmd = "write" => glasses.subscribed

\* A setup that was given up is torn down: the controller is asked to end its link until
\* it does, or the link is gone.  (activelook_client.c:1053, activelook.c:451)
JudgedSetupEnds == (client.refused /\ ~client.linkUp) ~> (~client.refused)

\* A link outside ACTIVE is dropped.  (activelook.c:591, app_ble.c:795)
NoLinkOutsideActive == (~fsm.running /\ radio.link # "down")
                         ~> (fsm.running \/ radio.link = "down")
=============================================================================
