---------------------------- MODULE ModeControl ----------------------------
(***************************************************************************)
(* The mode machine of FlySight/mode.c: interrupt handlers, timers and the *)
(* Device State control point push events into a bounded ring that drops   *)
(* its OLDEST entry when full; the task FS_Mode_Update drains it through    *)
(* one handler per mode.                                                    *)
(*                                                                          *)
(* Handlers call the Init and DeInit of the modes.  Those of PAIRING, and   *)
(* the DeInit of USB, send ACI commands and wait for the response inside    *)
(* UTIL_SEQ_WaitEvt.  The wait runs the sequencer again with every task     *)
(* allowed (UTIL_SEQ_EvtIdle in Core/Src/app_entry.c), and the mode task is *)
(* not among those BLE_StatusNot pauses, so FS_Mode_Update can run NESTED   *)
(* inside itself.  Its activations are therefore a stack of frames.         *)
(***************************************************************************)
EXTENDS Naturals, Sequences, FiniteSets, SequencesExt

CONSTANTS QueueLength,  \* QUEUE_LENGTH, 4 in mode.c
          MaxNesting,   \* bound on the depth of nested FS_Mode_Update calls
          Requestable,  \* the states and terminal actions asked for (a bound)
          ActiveModes   \* what Active_Mode of flysight.txt may select

None == "none"   \* FS_MODE_STATE_COUNT, FS_TERMINAL_ACTION_NONE, "no event"

HoldModes  == {"ACTIVE", "START"}     \* left by holding the button
ShortModes == {"CONFIG", "PAIRING"}   \* left by a press or FORCE_UPDATE
Modes      == {"SLEEP", "USB"} \cup HoldModes \cup ShortModes
Terminals  == {"RESET", "INSTALL"}
Gestures   == {"IDLE", "FIRST_PRESS", "RELEASED", "SECOND_PRESS"}
Events     == {"BUTTON_PRESSED", "BUTTON_RELEASED", "TIMER", "VBUS_HIGH",
               "VBUS_LOW", "FORCE_UPDATE", "REQUEST_STATE", "TERMINAL_ACTION"}
RequestEvents == {"REQUEST_STATE", "TERMINAL_ACTION"}

ASSUME QueueLengthAssumption == QueueLength \in Nat \ {0}
ASSUME MaxNestingAssumption  == MaxNesting \in Nat \ {0}
ASSUME RequestableAssumption == Requestable \subseteq Modes \cup Terminals
ASSUME ActiveModesAssumption == ActiveModes \subseteq HoldModes

VARIABLES
  mode,       \* mode_state
  requested,  \* requested_state
  terminal,   \* pending_terminal_action
  gesture,    \* button_state
  queue,      \* event_queue between queue_read and queue_write
  taskSet,    \* CFG_TASK_FS_MODE_UPDATE_ID is set in the sequencer
  holdTimer,  \* the one-second hold timer is armed
  frames,     \* activations of FS_Mode_Update, the running one last
  live,       \* modes whose Init was called and whose DeInit has not returned
  force,      \* modes whose exit callback has still to push FORCE_UPDATE
  pressed,    \* debounced button level
  vbus, edge, \* level of the VBUS pin; its EXTI interrupt is pending
  power,      \* "on", or the kind of reset that was executed
  lost,       \* request events the ring has dropped since boot
  reentered   \* an activation has run inside another since boot

requestVars == <<requested, terminal>>
envVars     == <<pressed, vbus, edge>>
vars == <<mode, requestVars, gesture, queue, taskSet, holdTimer, frames, live,
          force, envVars, power, lost, reentered>>

LoopFrame == [phase |-> "loop", old |-> "SLEEP", event |-> None, next |-> "SLEEP"]
Frame == [phase : {"loop", "run", "op"}, old : Modes,
          event : Events \cup {None}, next : Modes]

TypeOK ==
  /\ mode \in Modes /\ requested \in Modes \cup {None}
  /\ terminal \in Terminals \cup {None} /\ gesture \in Gestures
  /\ queue \in Seq(Events) /\ Len(queue) <= QueueLength
  /\ taskSet \in BOOLEAN /\ holdTimer \in BOOLEAN
  /\ frames \in Seq(Frame) /\ Len(frames) <= MaxNesting
  /\ live \subseteq Modes /\ force \subseteq ShortModes
  /\ pressed \in BOOLEAN /\ vbus \in BOOLEAN /\ edge \in BOOLEAN
  /\ power \in {"on"} \cup Terminals
  /\ lost \subseteq RequestEvents /\ reentered \in BOOLEAN
-----------------------------------------------------------------------------
(* The event ring.                                                          *)

\* Faults: the overflow is not detected; the task is not set.
PushQueueUnbounded(e) ==
  /\ queue' = Append(queue, e)
  /\ taskSet' = TRUE /\ UNCHANGED lost
PushQueueAsleep(e) ==
  /\ queue' = Append(IF Len(queue) = QueueLength THEN Tail(queue) ELSE queue, e)
  /\ UNCHANGED <<taskSet, lost>>

\* FS_Mode_PushQueue: a full ring loses its oldest entry, not the new one.
PushQueue(e) ==
  /\ queue' = Append(IF Len(queue) = QueueLength THEN Tail(queue) ELSE queue, e)
  /\ lost' = lost \cup (IF Len(queue) = QueueLength
                        THEN {Head(queue)} \cap RequestEvents ELSE {})
  /\ taskSet' = TRUE

HasPendingRequest == requested # None \/ terminal # None

\* Fault: USB is refused as a target only.
AllowedByTarget(target) == target # "USB" /\ (mode = "SLEEP" \/ target = "SLEEP")

StateRequestAllowed(target) ==   \* the mode tests of FS_Mode_ValidateStateRequest
  /\ mode # "USB" /\ target # "USB"
  /\ mode = "SLEEP" \/ target = "SLEEP"

\* FS_Mode_RequestState when the answer is FS_MODE_REQUEST_ACCEPTED.  It may
\* come from the fallback timer's interrupt, so at any point of the mode task.
RequestState(target) ==
  /\ power = "on"
  /\ ~HasPendingRequest /\ StateRequestAllowed(target)
  /\ requested' = target
  /\ gesture' = "IDLE"
  /\ PushQueue("REQUEST_STATE")
  /\ UNCHANGED <<mode, terminal, holdTimer, frames, live, force, envVars,
                 power, reentered>>

\* FS_Mode_RequestTerminalAction, accepted.
RequestTerminalAction(action) ==
  /\ power = "on"
  /\ ~HasPendingRequest /\ mode # "USB"
  /\ terminal' = action
  /\ gesture' = "IDLE"
  /\ PushQueue("TERMINAL_ACTION")
  /\ UNCHANGED <<mode, requested, holdTimer, frames, live, force, envVars,
                 power, reentered>>
-----------------------------------------------------------------------------
(* Interrupts and callbacks that push events.                               *)

ButtonEvent ==   \* FS_Button_Timer: the debounced level alternates
  /\ power = "on"
  /\ pressed' = ~pressed
  /\ PushQueue(IF pressed THEN "BUTTON_RELEASED" ELSE "BUTTON_PRESSED")
  /\ UNCHANGED <<mode, requestVars, gesture, holdTimer, frames, live, force, vbus, edge, power, reentered>>

HoldTimerExpires ==   \* FS_Mode_Timer, single shot
  /\ power = "on" /\ holdTimer
  /\ holdTimer' = FALSE
  /\ PushQueue("TIMER")
  /\ UNCHANGED <<mode, requestVars, gesture, frames, live, force, envVars,
                 power, reentered>>

VbusChanges ==   \* the cable: an edge latches the EXTI line
  /\ vbus' = ~vbus /\ edge' = TRUE
  /\ UNCHANGED <<mode, requestVars, gesture, queue, taskSet, holdTimer, frames,
                 live, force, pressed, power, lost, reentered>>

VbusTriggered ==   \* FS_VBUS_Triggered reads the pin when the handler runs
  /\ power = "on" /\ edge
  /\ edge' = FALSE
  /\ PushQueue(IF vbus THEN "VBUS_HIGH" ELSE "VBUS_LOW")
  /\ UNCHANGED <<mode, requestVars, gesture, holdTimer, frames, live, force, pressed, vbus, power, reentered>>
-----------------------------------------------------------------------------
(* The task.                                                                *)

Top == Last(frames)
SetTop(f) == [frames EXCEPT ![Len(frames)] = f]

\* The Init or DeInit under way sends an ACI command from the mode task.
SendsCommand(f) == f.phase = "op" /\ (f.next = "PAIRING" \/ f.old \in {"PAIRING", "USB"})

\* The exit callback of m runs: the playback task of CONFIG when the last file
\* is done, or the advertising callback registered by PAIRING.
ForceUpdate(m) ==
  /\ power = "on" /\ m \in force
  /\ \/ frames = <<>>
     \/ frames # <<>> /\ m = "CONFIG" /\ Top.phase = "op"
                      /\ (Top.next = "CONFIG" \/ SendsCommand(Top))
     \/ frames # <<>> /\ m = "PAIRING" /\ SendsCommand(Top)
                      /\ (Top.old = "USB" \/ reentered)
  /\ force' = force \ {m}
  /\ PushQueue("FORCE_UPDATE")
  /\ UNCHANGED <<mode, requestVars, gesture, holdTimer, frames, live,
                 envVars, power, reentered>>

\* UTIL_SEQ_Run picks the task: from the idle loop, from the wait of an HCI task,
\* or from the wait of the mode task's own command.
StartUpdate ==
  /\ power = "on" /\ taskSet
  /\ frames # <<>> => SendsCommand(Top) /\ Len(frames) < MaxNesting
  /\ taskSet' = FALSE
  /\ frames' = Append(frames, LoopFrame)
  /\ reentered' = (reentered \/ frames # <<>>)
  /\ UNCHANGED <<mode, requestVars, gesture, queue, holdTimer, live, force, envVars,
                 power, lost>>

Looping == power = "on" /\ frames # <<>> /\ Top.phase = "loop"

PopQueue ==   \* oldMode and event are read before the table call
  /\ Looping /\ queue # <<>>
  /\ frames' = SetTop([phase |-> "run", old |-> mode, event |-> Head(queue),
                       next |-> mode])
  /\ queue' = Tail(queue)
  /\ UNCHANGED <<mode, requestVars, gesture, taskSet, holdTimer, live, force, envVars, power, lost, reentered>>

ReturnUpdate ==   \* FS_Mode_QueueEmpty() ends the while
  /\ Looping /\ queue = <<>>
  /\ frames' = Front(frames)
  /\ UNCHANGED <<mode, requestVars, gesture, queue, taskSet, holdTimer, live, force,
                 envVars, power, lost, reentered>>

\* Fault: a terminal action is executed in whatever mode the machine is.
EndIterationEager(next, term) ==
  /\ mode' = next
  /\ IF term # None
     THEN terminal' = None /\ power' = term /\ frames' = <<>>
     ELSE terminal' = term /\ frames' = SetTop(LoopFrame) /\ UNCHANGED power

\* The tail of the loop body: mode_state is written only if the handler moved,
\* then a pending terminal action is executed if the machine is in SLEEP.
EndIteration(next, term) ==
  /\ mode' = IF next # Top.old THEN next ELSE mode
  /\ IF term # None /\ mode' = "SLEEP"
     THEN terminal' = None /\ power' = term /\ frames' = <<>>
     ELSE terminal' = term /\ frames' = SetTop(LoopFrame) /\ UNCHANGED power

Handling(ms, e) ==
  /\ power = "on" /\ frames # <<>>
  /\ Top.phase = "run" /\ Top.old \in ms /\ Top.event = e

Stay == EndIteration(Top.old, terminal) /\ UNCHANGED <<live, force>>

BeginInit(m) ==
  /\ frames' = SetTop([Top EXCEPT !.phase = "op", !.next = m])
  /\ live' = live \cup {m}
  /\ force' = force \cup ({m} \cap ShortModes)
  /\ UNCHANGED <<mode, terminal, power>>

BeginDeInit ==
  /\ frames' = SetTop([Top EXCEPT !.phase = "op", !.next = "SLEEP"])
  /\ UNCHANGED <<mode, terminal, power, live, force>>

\* What no handler touches.
HandlerFrame == UNCHANGED <<queue, taskSet, envVars, lost, reentered>>

\* FS_Mode_State_Sleep
SleepPressed ==
  /\ Handling({"SLEEP"}, "BUTTON_PRESSED")
  /\ gesture' = CASE gesture = "IDLE" -> "FIRST_PRESS"
                  [] gesture = "RELEASED" -> "SECOND_PRESS"
                  [] OTHER -> gesture
  /\ holdTimer' = TRUE
  /\ Stay
  /\ UNCHANGED requested /\ HandlerFrame

SleepReleased ==   \* the hold timer is left running; enable_ble is either
  /\ Handling({"SLEEP"}, "BUTTON_RELEASED")
  /\ gesture' = IF gesture = "FIRST_PRESS" THEN "RELEASED" ELSE "IDLE"
  /\ \/ Stay
     \/ gesture = "SECOND_PRESS" /\ BeginInit("PAIRING")
  /\ UNCHANGED <<requested, holdTimer>> /\ HandlerFrame

SleepTimer ==   \* the flysight.txt Active_Mode picks ACTIVE or START
  /\ Handling({"SLEEP"}, "TIMER")
  /\ gesture' = "IDLE"
  /\ CASE gesture = "FIRST_PRESS"  -> \E m \in ActiveModes : BeginInit(m)
       [] gesture = "SECOND_PRESS" -> BeginInit("CONFIG")
       [] OTHER -> Stay
  /\ UNCHANGED <<requested, holdTimer>> /\ HandlerFrame

SleepVbusHigh ==
  /\ Handling({"SLEEP"}, "VBUS_HIGH")
  /\ BeginInit("USB")
  /\ UNCHANGED <<requested, gesture, holdTimer>> /\ HandlerFrame

EnterRequestedState ==   \* the request is cleared BEFORE the Init
  /\ Handling({"SLEEP"}, "REQUEST_STATE")
  /\ requested' = None
  /\ holdTimer' = FALSE
  /\ gesture' = "IDLE"
  /\ IF requested \in HoldModes \cup ShortModes THEN BeginInit(requested) ELSE Stay
  /\ HandlerFrame

\* FS_Mode_State_Active, FS_Mode_State_Start
HoldPressed ==
  /\ Handling(HoldModes, "BUTTON_PRESSED")
  /\ holdTimer' = TRUE
  /\ Stay
  /\ UNCHANGED <<requested, gesture>> /\ HandlerFrame

HoldReleased ==
  /\ Handling(HoldModes, "BUTTON_RELEASED")
  /\ holdTimer' = FALSE
  /\ Stay
  /\ UNCHANGED <<requested, gesture>> /\ HandlerFrame

HoldTimer ==
  /\ Handling(HoldModes, "TIMER")
  /\ BeginDeInit
  /\ UNCHANGED <<requested, gesture, holdTimer>> /\ HandlerFrame

\* Fault: the mode is left without its DeInit.
ShortExitBare ==
  /\ Handling(ShortModes, "BUTTON_PRESSED") \/ Handling(ShortModes, "FORCE_UPDATE")
  /\ EndIteration("SLEEP", terminal)
  /\ UNCHANGED <<live, force, requested, gesture, holdTimer>> /\ HandlerFrame

\* FS_Mode_State_Config, FS_Mode_State_Pairing
ShortExit ==
  /\ Handling(ShortModes, "BUTTON_PRESSED") \/ Handling(ShortModes, "FORCE_UPDATE")
  /\ BeginDeInit
  /\ UNCHANGED <<requested, gesture, holdTimer>> /\ HandlerFrame

\* REQUEST_STATE in a mode other than SLEEP and USB.  The request is cleared
\* AFTER the DeInit (FinishOp); the hold modes also stop the timer.
LeaveOnRequest ==
  /\ Handling(HoldModes \cup ShortModes, "REQUEST_STATE")
  /\ IF requested = "SLEEP"
     THEN /\ BeginDeInit
          /\ holdTimer' = (holdTimer /\ Top.old \notin HoldModes)
          /\ UNCHANGED requested
     ELSE Stay /\ requested' = None /\ UNCHANGED holdTimer
  /\ UNCHANGED gesture /\ HandlerFrame

LeaveOnTerminal ==
  /\ Handling(HoldModes \cup ShortModes, "TERMINAL_ACTION")
  /\ BeginDeInit
  /\ holdTimer' = (holdTimer /\ Top.old \notin HoldModes)
  /\ UNCHANGED <<requested, gesture>> /\ HandlerFrame

\* FS_Mode_State_USB
UsbVbusLow ==
  /\ Handling({"USB"}, "VBUS_LOW")
  /\ BeginDeInit
  /\ UNCHANGED <<requested, gesture, holdTimer>> /\ HandlerFrame

\* Faults: USB ignores the requests of either kind instead of dropping them.
UsbKeepsRequest ==
  /\ Handling({"USB"}, "REQUEST_STATE") /\ Stay
  /\ UNCHANGED <<requested, gesture, holdTimer>> /\ HandlerFrame
UsbKeepsTerminal ==
  /\ Handling({"USB"}, "TERMINAL_ACTION") /\ Stay
  /\ UNCHANGED <<requested, gesture, holdTimer>> /\ HandlerFrame

UsbDropsRequest ==
  /\ Handling({"USB"}, "REQUEST_STATE")
  /\ Stay /\ requested' = None
  /\ UNCHANGED <<gesture, holdTimer>> /\ HandlerFrame

UsbDropsTerminal ==
  /\ Handling({"USB"}, "TERMINAL_ACTION")
  /\ EndIteration(Top.old, None)
  /\ UNCHANGED <<live, force, requested, gesture, holdTimer>> /\ HandlerFrame

Handled == [m \in Modes |->
  CASE m = "SLEEP" -> {"BUTTON_PRESSED", "BUTTON_RELEASED", "TIMER", "VBUS_HIGH",
                       "REQUEST_STATE"}
    [] m = "USB" -> {"VBUS_LOW"} \cup RequestEvents
    [] m \in HoldModes -> {"BUTTON_PRESSED", "BUTTON_RELEASED", "TIMER"} \cup RequestEvents
    [] m \in ShortModes -> {"BUTTON_PRESSED", "FORCE_UPDATE"} \cup RequestEvents]

Ignored ==   \* no branch of the handler matches
  /\ power = "on" /\ frames # <<>> /\ Top.phase = "run"
  /\ Top.event \notin Handled[Top.old]
  /\ Stay
  /\ UNCHANGED <<requested, gesture, holdTimer>> /\ HandlerFrame

\* The Init or DeInit returns to the handler, the handler to FS_Mode_Update.
\* Cancelling a pairing whose callback has not run restarts the advertising,
\* which runs the callback.  The DeInit of CONFIG deletes the timer of its
\* playback task, and not a task that is set already: it may still run.
FinishOp ==
  /\ power = "on" /\ frames # <<>> /\ Top.phase = "op"
  /\ LET leaving == Top.next = "SLEEP"
         cancels == leaving /\ Top.old = "PAIRING" /\ "PAIRING" \in force
     IN /\ live' = IF leaving THEN live \ {Top.old} ELSE live
        /\ force' \in {IF leaving THEN force \ {Top.old} ELSE force}
                      \cup (IF leaving /\ Top.old = "CONFIG" THEN {force} ELSE {})
        /\ requested' = IF leaving /\ Top.event = "REQUEST_STATE" THEN None
                        ELSE requested
        /\ IF cancels THEN PushQueue("FORCE_UPDATE")
                      ELSE UNCHANGED <<queue, taskSet, lost>>
        /\ EndIteration(Top.next, terminal)
  /\ UNCHANGED <<gesture, holdTimer, envVars, reentered>>

\* The processor restarts; FS_Mode_Init looks at the pin.
Boot ==
  /\ power # "on"
  /\ power' = "on"
  /\ mode' = "SLEEP" /\ requested' = None /\ terminal' = None
  /\ gesture' = "IDLE" /\ holdTimer' = FALSE /\ frames' = <<>>
  /\ queue' = IF vbus THEN <<"VBUS_HIGH">> ELSE <<>>
  /\ taskSet' = vbus /\ edge' = FALSE
  /\ live' = {} /\ force' = {} /\ lost' = {} /\ reentered' = FALSE
  /\ UNCHANGED <<pressed, vbus>>
-----------------------------------------------------------------------------
Init ==
  /\ power = "on" /\ mode = "SLEEP" /\ requested = None /\ terminal = None
  /\ gesture = "IDLE" /\ holdTimer = FALSE /\ frames = <<>>
  /\ vbus \in BOOLEAN /\ pressed = FALSE /\ edge = FALSE
  /\ queue = (IF vbus THEN <<"VBUS_HIGH">> ELSE <<>>)
  /\ taskSet = vbus
  /\ live = {} /\ force = {} /\ lost = {} /\ reentered = FALSE

Handler ==
  \/ SleepPressed \/ SleepReleased \/ SleepTimer \/ SleepVbusHigh
  \/ EnterRequestedState \/ HoldPressed \/ HoldReleased \/ HoldTimer \/ ShortExit
  \/ LeaveOnRequest \/ LeaveOnTerminal \/ UsbVbusLow \/ UsbDropsRequest
  \/ UsbDropsTerminal \/ Ignored

ModeTask == StartUpdate \/ PopQueue \/ Handler \/ FinishOp \/ ReturnUpdate

Request ==
  \/ \E m \in Requestable \cap Modes : RequestState(m)
  \/ \E a \in Requestable \cap Terminals : RequestTerminalAction(a)

Interrupt ==
  ButtonEvent \/ HoldTimerExpires \/ VbusChanges \/ VbusTriggered
  \/ \E m \in ShortModes : ForceUpdate(m)

Next == ModeTask \/ Request \/ Interrupt \/ Boot

Spec == Init /\ [][Next]_vars

\* The sequencer always comes back to a task that is set, and every ACI command
\* is answered.
FairSpec == Spec /\ WF_vars(ModeTask) /\ WF_vars(Boot)
-----------------------------------------------------------------------------
(* Properties.                                                              *)

Outstanding(e) ==   \* e is in the ring or in the hands of an activation
  \/ \E i \in DOMAIN queue : queue[i] = e
  \/ \E i \in DOMAIN frames : frames[i].event = e

\* A request the ring has not dropped is never stranded: the event that serves
\* it is outstanding, and while events are queued the task is set or running.
\* mode.c accepts nothing while a request is pending, so a stranded one would
\* answer BUSY for ever.
NoStrandedRequest ==
  /\ requested # None /\ "REQUEST_STATE" \notin lost => Outstanding("REQUEST_STATE")
  /\ terminal # None /\ "TERMINAL_ACTION" \notin lost => Outstanding("TERMINAL_ACTION")
  /\ queue # <<>> /\ power = "on" => taskSet \/ frames # <<>>

AtRest == frames = <<>> \/ Top.phase = "loop"

\* Init and DeInit are paired: between two handlers exactly the mode that
\* mode_state names is initialized, and never two at once.  The re-entry of
\* FS_Mode_Update voids it.
LiveModeIsTheMode ==
  ~reentered => /\ AtRest /\ power = "on" => live = {mode} \ {"SLEEP"}
                /\ \A m, n \in live : m = n

\* A terminal action never cuts a mode short: the processor is reset only from
\* SLEEP, after the DeInit of the mode it was in (log files are closed there).
ResetOnlyAfterDeInit ==
  [][power = "on" /\ power' # "on" => mode' = "SLEEP" /\ (reentered \/ live' = {})]_vars

\* What mode.c promises (ModeService), as long as its task is not re-entered.
MovingTo == IF frames # <<>> /\ Top.phase = "op" THEN Top.next ELSE None

Service == INSTANCE ModeService
  WITH moving <- MovingTo,
       pending <- (IF terminal # None THEN terminal ELSE requested),
       up <- (power = "on")

ServiceSpec == Service!Spec

\* An accepted state request is always settled, and so is a terminal action (by
\* the reset, or dropped in USB), unless the ring loses its event or the task is
\* re-entered.
RequestsSettled ==
  /\ requested # None ~> requested = None \/ "REQUEST_STATE" \in lost \/ reentered
  /\ terminal # None ~> terminal = None \/ "TERMINAL_ACTION" \in lost \/ reentered
=============================================================================
