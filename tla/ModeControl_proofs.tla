-------------------------- MODULE ModeControl_proofs --------------------------
(***************************************************************************)
(* Proofs about ModeControl, for every length of the ring and every depth   *)
(* of nesting; and, without nesting, that it implements ModeService.        *)
(***************************************************************************)
EXTENDS ModeControl, SequenceTheorems, TLAPS

USE QueueLengthAssumption, MaxNestingAssumption

-----------------------------------------------------------------------------
(* The ring and the stack of frames.                                        *)

InQueue(e) == \E i \in DOMAIN queue : queue[i] = e

\* A push keeps the ring within its length; what it drops, if it is a request event,
\* is lost.
LEMMA PushType ==
  ASSUME TypeOK, NEW e \in Events, PushQueue(e)
  PROVE  /\ queue' \in Seq(Events) /\ Len(queue') <= QueueLength
         /\ taskSet' = TRUE /\ lost' \subseteq RequestEvents
<1>1. CASE Len(queue) = QueueLength
  <2>1. Tail(queue) \in Seq(Events) /\ Len(Tail(queue)) = Len(queue) - 1
    BY <1>1 DEF TypeOK
  <2>. QED  BY <1>1, <2>1 DEF TypeOK, PushQueue
<1>2. CASE Len(queue) # QueueLength
  BY <1>2 DEF TypeOK, PushQueue
<1>. QED  BY <1>1, <1>2

\* After a push the new event is in the ring, and so is every request event that was
\* there and is not lost.
LEMMA PushKeeps ==
  ASSUME TypeOK, NEW e \in Events, PushQueue(e)
  PROVE  /\ InQueue(e)' /\ queue' # <<>> /\ lost \subseteq lost'
         /\ \A r \in RequestEvents : InQueue(r) /\ r \notin lost' => InQueue(r)'
<1>1. CASE Len(queue) = QueueLength
  <2>1. queue' = Append(Tail(queue), e) /\ lost' = lost \cup ({Head(queue)} \cap RequestEvents)
    BY <1>1 DEF PushQueue
  <2>2. queue \in Seq(Events) /\ Len(queue) > 0
    BY <1>1 DEF TypeOK
  <2>3. Len(queue') = Len(queue) /\ queue'[Len(queue)] = e
    BY <2>1, <2>2
  <2>4. ASSUME NEW i \in 2 .. Len(queue) PROVE queue'[i - 1] = queue[i] /\ i - 1 \in DOMAIN queue'
    BY <2>1, <2>2, <2>3
  <2>5. ASSUME NEW r \in RequestEvents, InQueue(r), r \notin lost'
        PROVE  InQueue(r)'
    <3>1. PICK i \in 1 .. Len(queue) : queue[i] = r
      BY <2>2, <2>5 DEF InQueue
    <3>2. i # 1
      BY <2>1, <2>2, <2>5, <3>1
    <3>. QED  BY <2>2, <2>4, <3>1, <3>2 DEF InQueue
  <2>. QED  BY <2>1, <2>2, <2>3, <2>5 DEF InQueue
<1>2. CASE Len(queue) # QueueLength
  <2>1. queue' = Append(queue, e) /\ lost' = lost
    BY <1>2 DEF PushQueue
  <2>. QED  BY <2>1 DEF TypeOK, InQueue
<1>. QED  BY <1>1, <1>2

\* Replacing the top frame keeps a stack of frames of the same height.
LEMMA SetTopType ==
  ASSUME TypeOK, frames # <<>>, NEW f \in Frame
  PROVE  /\ SetTop(f) \in Seq(Frame) /\ Len(SetTop(f)) = Len(frames)
         /\ SetTop(f)[Len(frames)] = f
         /\ \A i \in 1 .. Len(frames) - 1 : SetTop(f)[i] = frames[i]
BY DEF TypeOK, SetTop

\* The top of a stack that is not empty is a frame.
LEMMA TopType ==
  ASSUME TypeOK, frames # <<>>
  PROVE  Top \in Frame /\ Top = frames[Len(frames)] /\ Len(frames) \in DOMAIN frames
BY DEF TypeOK, Top, Last

\* The frame of a FS_Mode_Update that begins is a frame.
LEMMA LoopFrameType == LoopFrame \in Frame
BY DEF LoopFrame, Frame, Modes

-----------------------------------------------------------------------------
(* Type correctness.                                                        *)

\* The ring FS_Mode_Init leaves.
LEMMA BootQueueType ==
  ASSUME NEW q, q = (IF vbus THEN <<"VBUS_HIGH">> ELSE <<>>)
  PROVE  q \in Seq(Events) /\ Len(q) <= QueueLength
<1>1. <<"VBUS_HIGH">> \in Seq(Events) /\ Len(<<"VBUS_HIGH">>) = 1
  BY DEF Events
<1>2. CASE vbus  BY <1>1, <1>2
<1>3. CASE ~vbus  BY <1>3
<1>. QED  BY <1>2, <1>3

\* The end of a pass of FS_Mode_Update keeps the machine in its type.
LEMMA EndIterationType ==
  ASSUME TypeOK, frames # <<>>, NEW next \in Modes, NEW term \in Terminals \cup {None},
         EndIteration(next, term)
  PROVE  /\ mode' \in Modes /\ terminal' \in Terminals \cup {None}
         /\ power' \in {"on"} \cup Terminals
         /\ frames' \in Seq(Frame) /\ Len(frames') <= MaxNesting
<1>1. mode' \in Modes
  BY DEF EndIteration, TypeOK
<1>2. CASE term # None /\ mode' = "SLEEP"
  <2>1. frames' = <<>> /\ terminal' = None /\ power' = term
    BY <1>2 DEF EndIteration
  <2>. QED  BY <1>1, <1>2, <2>1
<1>3. CASE ~(term # None /\ mode' = "SLEEP")
  <2>1. frames' = SetTop(LoopFrame) /\ terminal' = term /\ power' = power
    BY <1>3 DEF EndIteration
  <2>. QED  BY <1>1, <2>1, SetTopType, LoopFrameType DEF TypeOK
<1>. QED  BY <1>2, <1>3

\* The start of an Init keeps the machine in its type.
LEMMA BeginInitType ==
  ASSUME TypeOK, frames # <<>>, NEW m \in Modes, BeginInit(m)
  PROVE  /\ mode' = mode /\ terminal' = terminal /\ power' = power
         /\ live' \subseteq Modes /\ force' \subseteq ShortModes
         /\ frames' \in Seq(Frame) /\ Len(frames') <= MaxNesting
<1>1. [Top EXCEPT !.phase = "op", !.next = m] \in Frame
  BY TopType DEF Frame
<1>. QED  BY <1>1, SetTopType DEF BeginInit, TypeOK

\* The start of a DeInit keeps the machine in its type.
LEMMA BeginDeInitType ==
  ASSUME TypeOK, frames # <<>>, BeginDeInit
  PROVE  /\ mode' = mode /\ terminal' = terminal /\ power' = power
         /\ live' = live /\ force' = force
         /\ frames' \in Seq(Frame) /\ Len(frames') <= MaxNesting
<1>1. [Top EXCEPT !.phase = "op", !.next = "SLEEP"] \in Frame
  BY TopType DEF Frame, Modes
<1>. QED  BY <1>1, SetTopType DEF BeginDeInit, TypeOK

\* A handler that stays in its mode keeps the machine in its type.
LEMMA StayType ==
  ASSUME TypeOK, frames # <<>>, Stay
  PROVE  /\ mode' \in Modes /\ terminal' \in Terminals \cup {None}
         /\ power' \in {"on"} \cup Terminals /\ live' = live /\ force' = force
         /\ frames' \in Seq(Frame) /\ Len(frames') <= MaxNesting
<1>1. Top.old \in Modes /\ terminal \in Terminals \cup {None}
  BY TopType DEF Frame, TypeOK
<1>. QED  BY <1>1, EndIterationType DEF Stay

\* What the requests and the interrupts do.
LEMMA PushersType ==
  ASSUME TypeOK, Request \/ Interrupt
  PROVE  TypeOK'
<1>1. ASSUME NEW m \in Requestable \cap Modes, RequestState(m) PROVE TypeOK'
  <2>1. "REQUEST_STATE" \in Events  BY DEF Events
  <2>. QED  BY <1>1, <2>1, PushType DEF RequestState, TypeOK, envVars, Gestures
<1>2. ASSUME NEW a \in Requestable \cap Terminals, RequestTerminalAction(a) PROVE TypeOK'
  <2>1. "TERMINAL_ACTION" \in Events  BY DEF Events
  <2>. QED  BY <1>2, <2>1, PushType DEF RequestTerminalAction, TypeOK, envVars, Gestures
<1>3. CASE ButtonEvent
  <2>1. {"BUTTON_PRESSED", "BUTTON_RELEASED"} \subseteq Events  BY DEF Events
  <2>. QED  BY <1>3, <2>1, PushType DEF ButtonEvent, TypeOK, requestVars
<1>4. CASE HoldTimerExpires
  <2>1. "TIMER" \in Events  BY DEF Events
  <2>. QED  BY <1>4, <2>1, PushType DEF HoldTimerExpires, TypeOK, requestVars, envVars
<1>5. CASE VbusChanges
  BY <1>5 DEF VbusChanges, TypeOK, requestVars
<1>6. CASE VbusTriggered
  <2>1. {"VBUS_HIGH", "VBUS_LOW"} \subseteq Events  BY DEF Events
  <2>. QED  BY <1>6, <2>1, PushType DEF VbusTriggered, TypeOK, requestVars
<1>7. ASSUME NEW m \in ShortModes, ForceUpdate(m) PROVE TypeOK'
  <2>1. "FORCE_UPDATE" \in Events  BY DEF Events
  <2>. QED  BY <1>7, <2>1, PushType DEF ForceUpdate, TypeOK, requestVars, envVars
<1>. QED  BY <1>1, <1>2, <1>3, <1>4, <1>5, <1>6, <1>7 DEF Request, Interrupt

\* What the loop of the task does.
LEMMA LoopType ==
  ASSUME TypeOK, StartUpdate \/ PopQueue \/ ReturnUpdate \/ Boot
  PROVE  TypeOK'
<1>1. CASE StartUpdate
  <2>1. frames' \in Seq(Frame) /\ Len(frames') = Len(frames) + 1
    BY <1>1, LoopFrameType DEF StartUpdate, TypeOK
  <2>2. Len(frames) < MaxNesting
    BY <1>1 DEF StartUpdate
  <2>3. reentered' \in BOOLEAN
    BY <1>1, Zenon DEF StartUpdate, TypeOK
  <2>4. /\ taskSet' = FALSE
        /\ UNCHANGED <<mode, requested, terminal, gesture, queue, holdTimer, live, force,
                       pressed, vbus, edge, power, lost>>
    BY <1>1, Zenon DEF StartUpdate, requestVars, envVars
  <2>5. Len(frames') <= MaxNesting
    BY <2>1, <2>2 DEF TypeOK
  <2>. QED  BY <2>1, <2>3, <2>4, <2>5, Zenon DEF TypeOK
<1>2. CASE PopQueue
  <2>1. Head(queue) \in Events /\ Tail(queue) \in Seq(Events) /\ Len(Tail(queue)) < Len(queue)
    BY <1>2 DEF PopQueue, TypeOK
  <2>2. [phase |-> "run", old |-> mode, event |-> Head(queue), next |-> mode] \in Frame
    BY <2>1 DEF Frame, TypeOK
  <2>3. frames' \in Seq(Frame) /\ Len(frames') = Len(frames)
    BY <1>2, <2>2, SetTopType DEF PopQueue, Looping
  <2>. QED  BY <1>2, <2>1, <2>3 DEF PopQueue, TypeOK, requestVars, envVars
<1>3. CASE ReturnUpdate
  <2>1. frames' \in Seq(Frame) /\ Len(frames') < Len(frames)
    BY <1>3 DEF ReturnUpdate, Looping, TypeOK, Front
  <2>. QED  BY <1>3, <2>1 DEF ReturnUpdate, TypeOK, requestVars, envVars
<1>4. CASE Boot
  <2>1. queue' \in Seq(Events) /\ Len(queue') <= QueueLength
    BY <1>4, BootQueueType DEF Boot
  <2>2. frames' \in Seq(Frame) /\ Len(frames') <= MaxNesting
    BY <1>4 DEF Boot
  <2>. QED  BY <1>4, <2>1, <2>2 DEF Boot, TypeOK, Modes, Gestures
<1>. QED  BY <1>1, <1>2, <1>3, <1>4

\* What the handlers do.
LEMMA HandlerType ==
  ASSUME TypeOK, Handler
  PROVE  TypeOK'
<1>. USE DEF HandlerFrame, envVars
<1>0. HoldModes \subseteq Modes /\ ShortModes \subseteq Modes
      /\ {"SLEEP", "USB", "CONFIG", "PAIRING"} \subseteq Modes
  BY DEF Modes, ShortModes
<1>1. CASE SleepPressed
  BY <1>1, StayType DEF SleepPressed, Handling, TypeOK, Gestures
<1>2. CASE SleepReleased
  <2>1. CASE Stay
    BY <1>2, <2>1, StayType DEF SleepReleased, Handling, TypeOK, Gestures
  <2>2. CASE BeginInit("PAIRING")
    BY <1>2, <2>2, <1>0, BeginInitType DEF SleepReleased, Handling, TypeOK, Gestures
  <2>. QED  BY <1>2, <2>1, <2>2 DEF SleepReleased
<1>3. CASE SleepTimer
  <2>1. CASE Stay
    BY <1>3, <2>1, StayType DEF SleepTimer, Handling, TypeOK, Gestures
  <2>2. ASSUME NEW m \in ActiveModes \cup {"CONFIG"}, BeginInit(m) PROVE TypeOK'
    <3>1. m \in Modes
      BY <1>0, ActiveModesAssumption
    <3>. QED  BY <1>3, <2>2, <3>1, BeginInitType DEF SleepTimer, Handling, TypeOK, Gestures
  <2>. QED  BY <1>3, <2>1, <2>2 DEF SleepTimer
<1>4. CASE SleepVbusHigh
  BY <1>4, <1>0, BeginInitType DEF SleepVbusHigh, Handling, TypeOK
<1>5. CASE EnterRequestedState
  <2>1. CASE Stay
    BY <1>5, <2>1, StayType DEF EnterRequestedState, Handling, TypeOK, Gestures
  <2>2. CASE requested \in HoldModes \cup ShortModes /\ BeginInit(requested)
    <3>1. requested \in Modes  BY <2>2, <1>0
    <3>. QED  BY <1>5, <2>2, <3>1, BeginInitType DEF EnterRequestedState, Handling, TypeOK, Gestures
  <2>. QED  BY <1>5, <2>1, <2>2 DEF EnterRequestedState
<1>6. CASE HoldPressed
  BY <1>6, StayType DEF HoldPressed, Handling, TypeOK
<1>7. CASE HoldReleased
  BY <1>7, StayType DEF HoldReleased, Handling, TypeOK
<1>8. CASE HoldTimer
  BY <1>8, BeginDeInitType DEF HoldTimer, Handling, TypeOK
<1>9. CASE ShortExit
  BY <1>9, BeginDeInitType DEF ShortExit, Handling, TypeOK
<1>10. CASE LeaveOnRequest
  <2>1. CASE requested = "SLEEP"
    BY <1>10, <2>1, BeginDeInitType DEF LeaveOnRequest, Handling, TypeOK
  <2>2. CASE requested # "SLEEP"
    BY <1>10, <2>2, StayType DEF LeaveOnRequest, Handling, TypeOK
  <2>. QED  BY <2>1, <2>2
<1>11. CASE LeaveOnTerminal
  BY <1>11, BeginDeInitType DEF LeaveOnTerminal, Handling, TypeOK
<1>12. CASE UsbVbusLow
  BY <1>12, BeginDeInitType DEF UsbVbusLow, Handling, TypeOK
<1>13. CASE UsbDropsRequest
  BY <1>13, StayType DEF UsbDropsRequest, Handling, TypeOK
<1>14. CASE UsbDropsTerminal
  <2>1. Top.old \in Modes
    BY <1>14, TopType DEF UsbDropsTerminal, Handling, Frame
  <2>. QED  BY <1>14, <2>1, EndIterationType DEF UsbDropsTerminal, Handling, TypeOK
<1>15. CASE Ignored
  BY <1>15, StayType DEF Ignored, TypeOK
<1>. QED  BY <1>1, <1>2, <1>3, <1>4, <1>5, <1>6, <1>7, <1>8, <1>9, <1>10, <1>11, <1>12,
             <1>13, <1>14, <1>15 DEF Handler

\* The end of an Init or a DeInit keeps the machine in its type.
LEMMA FinishOpType ==
  ASSUME TypeOK, FinishOp
  PROVE  TypeOK'
<1>1. Top.next \in Modes /\ Top.old \in Modes /\ frames # <<>>
  BY TopType DEF FinishOp, Frame
<1>2. /\ mode' \in Modes /\ terminal' \in Terminals \cup {None}
      /\ power' \in {"on"} \cup Terminals
      /\ frames' \in Seq(Frame) /\ Len(frames') <= MaxNesting
  BY <1>1, EndIterationType DEF FinishOp, TypeOK
<1>3. live' \subseteq Modes /\ force' \subseteq ShortModes /\ requested' \in Modes \cup {None}
  BY DEF FinishOp, TypeOK
<1>4. queue' \in Seq(Events) /\ Len(queue') <= QueueLength /\ taskSet' \in BOOLEAN
      /\ lost' \subseteq RequestEvents
  <2>1. "FORCE_UPDATE" \in Events  BY DEF Events
  <2>2. CASE PushQueue("FORCE_UPDATE")
    BY <2>1, <2>2, PushType
  <2>3. CASE UNCHANGED <<queue, taskSet, lost>>
    BY <2>3 DEF TypeOK
  <2>. QED  BY <2>2, <2>3 DEF FinishOp
<1>. QED  BY <1>2, <1>3, <1>4 DEF FinishOp, TypeOK, envVars

\* All variables keep their types; the ring and the stack keep their bounds.
THEOREM TypeCorrect == Spec => []TypeOK
<1>1. Init => TypeOK
  <2>1. Init => queue \in Seq(Events) /\ Len(queue) <= QueueLength
    BY BootQueueType DEF Init
  <2>2. Init => frames \in Seq(Frame) /\ Len(frames) <= MaxNesting
    BY DEF Init
  <2>. QED  BY <2>1, <2>2 DEF Init, TypeOK, Modes, Gestures
<1>2. TypeOK /\ [Next]_vars => TypeOK'
  <2>1. ASSUME TypeOK, UNCHANGED vars PROVE TypeOK'
    BY <2>1 DEF vars, TypeOK, requestVars, envVars
  <2>. QED  BY <2>1, PushersType, LoopType, HandlerType, FinishOpType DEF Next, ModeTask
<1>. QED  BY <1>1, <1>2, PTL DEF Spec
-----------------------------------------------------------------------------
(* The stack of activations.                                                *)

Leaving(f) == f.phase = "op" /\ f.next = "SLEEP"

\* Only the running activation is not inside an Init or a DeInit; each of those goes
\* from SLEEP or to it; the handler runs in the mode that was read for it.
StackInv ==
  /\ \A i \in 1 .. Len(frames) - 1 : frames[i].phase = "op"
  /\ \A i \in DOMAIN frames :
       frames[i].phase = "op" => (frames[i].old = "SLEEP" <=> frames[i].next # "SLEEP")
  /\ frames # <<>> /\ Top.phase = "run" => Top.old = mode

\* f has the event e in its hands and will clear the request that goes with it.
Serves(f, e) == f.event = e /\ (f.phase = "run" \/ Leaving(f))

Served(e) == InQueue(e) \/ \E i \in DOMAIN frames : Serves(frames[i], e)

\* NoStrandedRequest, strengthened: an activation that merely holds the event on its
\* way INTO a mode has cleared its request, and does not count.
RequestInv ==
  /\ requested = None \/ terminal = None
  /\ requested # None /\ "REQUEST_STATE" \notin lost => Served("REQUEST_STATE")
  /\ terminal # None /\ "TERMINAL_ACTION" \notin lost => Served("TERMINAL_ACTION")
  /\ queue # <<>> /\ power = "on" => taskSet \/ frames # <<>>

\* LiveModeIsTheMode, strengthened by what is live during an Init or a DeInit.
LiveInv ==
  ~reentered =>
    /\ Len(frames) <= 1
    /\ AtRest \/ Top.phase = "run" => live = {mode} \ {"SLEEP"}
    /\ frames # <<>> /\ Top.phase = "op" =>
         /\ mode = Top.old
         /\ live = {IF Top.next = "SLEEP" THEN Top.old ELSE Top.next}

\* What every branch of every handler comes to: it ends the iteration where it is, or
\* it calls an Init from SLEEP, or the DeInit of the mode.
EndsInPlace == \E t \in {terminal, None} : EndIteration(Top.old, t) /\ UNCHANGED live
Enters      == \E m \in Modes \ {"SLEEP"} : Top.old = "SLEEP" /\ BeginInit(m)
Leaves      == Top.old # "SLEEP" /\ BeginDeInit

\* A handler runs in the top frame and leaves the event queue alone.
LEMMA HandlerShape ==
  ASSUME TypeOK, Handler
  PROVE  /\ power = "on" /\ frames # <<>> /\ Top.phase = "run"
         /\ UNCHANGED <<queue, taskSet, lost, reentered>>
         /\ EndsInPlace \/ Enters \/ Leaves
<1>1. {"PAIRING", "USB", "CONFIG"} \cup ActiveModes \cup HoldModes \cup ShortModes
        \subseteq Modes \ {"SLEEP"}
  BY ActiveModesAssumption DEF Modes, HoldModes, ShortModes
<1>2. Stay => EndsInPlace
  BY DEF Stay, EndsInPlace
<1>5. CASE SleepPressed \/ HoldPressed \/ HoldReleased \/ UsbDropsRequest
  BY <1>5, <1>2
     DEF SleepPressed, HoldPressed, HoldReleased, UsbDropsRequest, Handling, HandlerFrame
<1>6. CASE SleepReleased
  BY <1>6, <1>1, <1>2 DEF SleepReleased, Handling, HandlerFrame, Enters
<1>7. CASE SleepTimer
  BY <1>7, <1>1, <1>2 DEF SleepTimer, Handling, HandlerFrame, Enters
<1>8. CASE SleepVbusHigh
  BY <1>8, <1>1 DEF SleepVbusHigh, Handling, HandlerFrame, Enters
<1>9. CASE EnterRequestedState
  BY <1>9, <1>1, <1>2 DEF EnterRequestedState, Handling, HandlerFrame, Enters
<1>10. CASE HoldTimer
  BY <1>10, <1>1 DEF HoldTimer, Handling, HandlerFrame, Leaves
<1>11. CASE ShortExit
  BY <1>11, <1>1 DEF ShortExit, Handling, HandlerFrame, Leaves
<1>12. CASE LeaveOnRequest
  BY <1>12, <1>1, <1>2 DEF LeaveOnRequest, Handling, HandlerFrame, Leaves
<1>13. CASE LeaveOnTerminal
  BY <1>13, <1>1 DEF LeaveOnTerminal, Handling, HandlerFrame, Leaves
<1>14. CASE UsbVbusLow
  BY <1>14, <1>1 DEF UsbVbusLow, Handling, HandlerFrame, Leaves
<1>15. CASE UsbDropsTerminal
  BY <1>15 DEF UsbDropsTerminal, Handling, HandlerFrame, EndsInPlace
<1>16. CASE Ignored
  BY <1>16, <1>2 DEF Ignored, HandlerFrame
<1>. QED  BY <1>5, <1>6, <1>7, <1>8, <1>9, <1>10, <1>11, <1>12, <1>13, <1>14, <1>15, <1>16
          DEF Handler

\* The three things an iteration can do to the top of the stack.
LEMMA ShapeFrames ==
  ASSUME TypeOK, frames # <<>>, EndsInPlace \/ Enters \/ Leaves
  PROVE  \/ frames' = SetTop(LoopFrame) /\ power' = power
         \/ frames' = <<>>
         \/ /\ frames' = SetTop([Top EXCEPT !.phase = "op", !.next = "SLEEP"])
            /\ Top.old # "SLEEP" /\ Leaves
         \/ \E m \in Modes \ {"SLEEP"} :
              /\ frames' = SetTop([Top EXCEPT !.phase = "op", !.next = m])
              /\ Top.old = "SLEEP" /\ BeginInit(m)
<1>1. CASE EndsInPlace
  BY <1>1 DEF EndsInPlace, EndIteration
<1>2. CASE Enters
  BY <1>2 DEF Enters, BeginInit
<1>3. CASE Leaves
  BY <1>3 DEF Leaves, BeginDeInit
<1>. QED  BY <1>1, <1>2, <1>3

\* A frame that begins an Init or a DeInit is a frame.
LEMMA OpFrameType ==
  ASSUME TypeOK, frames # <<>>, NEW m \in Modes
  PROVE  /\ [Top EXCEPT !.phase = "op", !.next = m] \in Frame
         /\ [Top EXCEPT !.phase = "op", !.next = m].phase = "op"
         /\ [Top EXCEPT !.phase = "op", !.next = m].next = m
         /\ [Top EXCEPT !.phase = "op", !.next = m].old = Top.old
         /\ [Top EXCEPT !.phase = "op", !.next = m].event = Top.event
BY TopType DEF Frame

\* The top after a replacement is the frame put there.
LEMMA TopOfSetTop ==
  ASSUME TypeOK, frames # <<>>, NEW f \in Frame, frames' = SetTop(f)
  PROVE  frames' # <<>> /\ Top' = f /\ Len(frames') = Len(frames)
BY SetTopType DEF TypeOK, Top, Last

\* Replacing the top frame by a well-formed one keeps the stack invariant.
LEMMA StackAfterSetTop ==
  ASSUME TypeOK, StackInv, frames # <<>>, NEW f \in Frame, frames' = SetTop(f),
         f.phase = "op" => (f.old = "SLEEP" <=> f.next # "SLEEP"),
         f.phase = "run" => f.old = mode'
  PROVE  StackInv'
<1>1. /\ Len(frames') = Len(frames) /\ Top' = f /\ frames'[Len(frames)] = f
      /\ frames' \in Seq(Frame) /\ frames \in Seq(Frame)
      /\ \A i \in 1 .. Len(frames) - 1 : frames'[i] = frames[i]
  BY SetTopType, TopOfSetTop DEF TypeOK
<1>2. \A i \in 1 .. Len(frames') - 1 : frames'[i].phase = "op"
  BY <1>1 DEF StackInv
<1>3. ASSUME NEW i \in DOMAIN frames', frames'[i].phase = "op"
      PROVE  frames'[i].old = "SLEEP" <=> frames'[i].next # "SLEEP"
  <2>1. CASE i = Len(frames)
    BY <1>1, <1>3, <2>1
  <2>2. CASE i # Len(frames)
    <3>1. i \in 1 .. Len(frames) - 1 /\ i \in DOMAIN frames
      BY <1>1, <2>2
    <3>. QED  BY <1>1, <1>3, <3>1 DEF StackInv
  <2>. QED  BY <2>1, <2>2
<1>. QED  BY <1>1, <1>2, <1>3 DEF StackInv

\* A return leaves the frames below as they were.
LEMMA FrontIsPrefix ==
  ASSUME TypeOK, frames # <<>>, frames' = Front(frames)
  PROVE  /\ Len(frames') = Len(frames) - 1 /\ DOMAIN frames' = 1 .. Len(frames) - 1
         /\ \A i \in 1 .. Len(frames) - 1 : frames'[i] = frames[i]
<1>1. /\ Len(frames) \in Nat \ {0} /\ frames' = SubSeq(frames, 1, Len(frames) - 1)
      /\ frames \in Seq(Frame)
  BY DEF Front, TypeOK
<1>2. \A i \in 1 .. Len(frames) - 1 : frames[i] \in Frame
  BY <1>1
<1>3. ASSUME NEW n \in Nat, n = Len(frames) - 1
      PROVE  /\ Len(SubSeq(frames, 1, n)) = n
             /\ \A i \in 1 .. n : SubSeq(frames, 1, n)[i] = frames[i]
             /\ SubSeq(frames, 1, n) \in Seq(Frame)
  <2>1. /\ SubSeq(frames, 1, n) \in Seq(Frame)
        /\ Len(SubSeq(frames, 1, n)) = (IF 1 <= n THEN n - 1 + 1 ELSE 0)
        /\ \A i \in 1 .. n - 1 + 1 : SubSeq(frames, 1, n)[i] = frames[1 + i - 1]
    BY <1>2, <1>3, SubSeqProperties
  <2>. QED  BY <1>3, <2>1
<1>4. Len(frames) - 1 \in Nat
  BY <1>1
<1>5. /\ Len(frames') = Len(frames) - 1 /\ frames' \in Seq(Frame)
      /\ \A i \in 1 .. Len(frames) - 1 : frames'[i] = frames[i]
  BY <1>1, <1>3, <1>4, Zenon
<1>. QED  BY <1>5

\* The empty stack satisfies the stack invariant.
LEMMA StackEmpty == ASSUME frames' = <<>> PROVE StackInv'
BY DEF StackInv

\* Every step keeps the stack invariant.
LEMMA StackStep ==
  ASSUME TypeOK, StackInv, Next
  PROVE  StackInv'
<1>1. CASE Request \/ Interrupt
  <2>1. frames' = frames /\ mode' = mode
    BY <1>1 DEF Request, RequestState, RequestTerminalAction, Interrupt, ButtonEvent,
                HoldTimerExpires, VbusChanges, VbusTriggered, ForceUpdate
  <2>. QED  BY <2>1 DEF StackInv, Top
<1>2. CASE StartUpdate
  <2>1. /\ frames' = Append(frames, LoopFrame) /\ mode' = mode /\ frames \in Seq(Frame)
        /\ frames # <<>> => Top.phase = "op"
    BY <1>2 DEF StartUpdate, SendsCommand, TypeOK
  <2>2. /\ Len(frames') = Len(frames) + 1 /\ frames'[Len(frames')] = LoopFrame
        /\ \A i \in 1 .. Len(frames) : frames'[i] = frames[i]
        /\ DOMAIN frames' = 1 .. Len(frames) + 1
    BY <2>1, LoopFrameType
  <2>3. Top' = LoopFrame /\ LoopFrame.phase = "loop"
    BY <2>2 DEF Top, Last, LoopFrame
  <2>4. \A i \in 1 .. Len(frames) : frames'[i].phase = "op"
    BY <2>1, <2>2 DEF StackInv, Top, Last
  <2>5. ASSUME NEW i \in DOMAIN frames', frames'[i].phase = "op"
        PROVE  frames'[i].old = "SLEEP" <=> frames'[i].next # "SLEEP"
    <3>1. i \in 1 .. Len(frames)
      BY <2>1, <2>2, <2>3, <2>5
    <3>. QED  BY <2>1, <2>2, <2>5, <3>1 DEF StackInv
  <2>. QED  BY <2>1, <2>2, <2>3, <2>4, <2>5 DEF StackInv
<1>3. CASE PopQueue
  <2>. DEFINE f == [phase |-> "run", old |-> mode, event |-> Head(queue), next |-> mode]
  <2>1. f \in Frame /\ f.phase = "run" /\ f.old = mode /\ mode' = mode
    BY <1>3 DEF PopQueue, TypeOK, Frame
  <2>2. frames # <<>> /\ frames' = SetTop(f)
    BY <1>3 DEF PopQueue, Looping
  <2>. QED  BY <2>1, <2>2, StackAfterSetTop
<1>4. CASE ReturnUpdate
  <2>1. /\ frames' = Front(frames) /\ frames \in Seq(Frame) /\ frames # <<>>
    BY <1>4 DEF ReturnUpdate, Looping, TypeOK
  <2>2. /\ Len(frames') = Len(frames) - 1 /\ DOMAIN frames' = 1 .. Len(frames) - 1
        /\ \A i \in 1 .. Len(frames) - 1 : frames'[i] = frames[i]
    BY <2>1, FrontIsPrefix
  <2>3. frames' # <<>> => Top'.phase = "op"
    BY <2>1, <2>2 DEF StackInv, Top, Last
  <2>. QED  BY <2>1, <2>2, <2>3 DEF StackInv
<1>5. CASE Handler
  <2>1. frames # <<>> /\ Top.phase = "run" /\ (EndsInPlace \/ Enters \/ Leaves)
    BY <1>5, HandlerShape
  <2>2. CASE frames' = SetTop(LoopFrame)
    BY <2>1, <2>2, LoopFrameType, StackAfterSetTop DEF LoopFrame
  <2>3. CASE Top.old # "SLEEP"
             /\ frames' = SetTop([Top EXCEPT !.phase = "op", !.next = "SLEEP"])
    <3>1. "SLEEP" \in Modes  BY DEF Modes
    <3>. QED  BY <2>1, <2>3, <3>1, OpFrameType, StackAfterSetTop
  <2>4. ASSUME NEW m \in Modes \ {"SLEEP"}, Top.old = "SLEEP",
               frames' = SetTop([Top EXCEPT !.phase = "op", !.next = m])
        PROVE  StackInv'
    BY <2>1, <2>4, OpFrameType, StackAfterSetTop, ZenonT(40)
  <2>. QED  BY <2>1, <2>2, <2>3, <2>4, ShapeFrames, StackEmpty
<1>6. CASE FinishOp
  <2>1. frames # <<>> /\ (frames' = SetTop(LoopFrame) \/ frames' = <<>>)
    BY <1>6 DEF FinishOp, EndIteration
  <2>. QED  BY <2>1, LoopFrameType, StackAfterSetTop, StackEmpty DEF LoopFrame
<1>7. CASE Boot
  BY <1>7, StackEmpty DEF Boot
<1>. QED  BY <1>1, <1>2, <1>3, <1>4, <1>5, <1>6, <1>7 DEF Next, ModeTask

-----------------------------------------------------------------------------
(* Init and DeInit are paired.                                              *)

\* An iteration that ends where it is.
LEMMA EndsInPlaceEffect ==
  ASSUME TypeOK, StackInv, frames # <<>>, Top.phase = "run", EndsInPlace
  PROVE  /\ mode' = mode /\ live' = live
         /\ frames' = SetTop(LoopFrame) \/ (frames' = <<>> /\ mode = "SLEEP")
         /\ power' # power => mode = "SLEEP"
BY DEF EndsInPlace, EndIteration, StackInv

\* The return of an Init or a DeInit.
LEMMA FinishOpEffect ==
  ASSUME TypeOK, StackInv, FinishOp
  PROVE  /\ frames # <<>> /\ Top.phase = "op" /\ power = "on" /\ mode' = Top.next
         /\ Top.old = "SLEEP" <=> Top.next # "SLEEP"
         /\ live' = IF Top.next = "SLEEP" THEN live \ {Top.old} ELSE live
         /\ requested' = IF Top.next = "SLEEP" /\ Top.event = "REQUEST_STATE"
                         THEN None ELSE requested
         /\ EndIteration(Top.next, terminal) /\ reentered' = reentered
<1>1. frames # <<>> /\ Top.phase = "op"
  BY DEF FinishOp
<1>2. Top.old = "SLEEP" <=> Top.next # "SLEEP"
  BY <1>1, TopType DEF StackInv
<1>. QED  BY <1>1, <1>2 DEF FinishOp, EndIteration

\* Every step keeps LiveInv as long as no update has run inside another's Init or DeInit.
LEMMA LiveStep ==
  ASSUME TypeOK, StackInv, LiveInv, Next
  PROVE  LiveInv'
<1>. SUFFICES ASSUME ~reentered'
              PROVE  LiveInv'
  BY DEF LiveInv
<1>0. frames \in Seq(Frame)
  BY DEF TypeOK
<1>1. CASE Request \/ Interrupt
  <2>1. UNCHANGED <<frames, mode, live, reentered>>
    BY <1>1 DEF Request, RequestState, RequestTerminalAction, Interrupt, ButtonEvent,
                HoldTimerExpires, VbusChanges, VbusTriggered, ForceUpdate, envVars
  <2>. QED  BY <2>1 DEF LiveInv, AtRest, Top
<1>2. CASE StartUpdate
  <2>1. /\ frames = <<>> /\ frames' = <<LoopFrame>> /\ UNCHANGED <<mode, live>>
        /\ ~reentered
    <3>1. /\ frames = <<>> /\ ~reentered /\ frames' = Append(frames, LoopFrame)
          /\ UNCHANGED <<mode, live>>
      BY <1>2, Zenon DEF StartUpdate
    <3>. QED  BY <3>1
  <2>2. Top' = LoopFrame /\ Len(frames') = 1 /\ LoopFrame.phase = "loop"
    BY <2>1 DEF Top, Last, LoopFrame
  <2>. QED  BY <2>1, <2>2 DEF LiveInv, AtRest
<1>3. CASE PopQueue
  <2>. DEFINE f == [phase |-> "run", old |-> mode, event |-> Head(queue), next |-> mode]
  <2>1. f \in Frame /\ f.phase = "run"
    BY <1>3 DEF PopQueue, TypeOK, Frame
  <2>2. frames # <<>> /\ frames' = SetTop(f) /\ Top.phase = "loop"
        /\ UNCHANGED <<mode, live, reentered>>
    BY <1>3 DEF PopQueue, Looping
  <2>3. Top' = f /\ Len(frames') = Len(frames)
    BY <2>1, <2>2, TopOfSetTop
  <2>. QED  BY <2>1, <2>2, <2>3 DEF LiveInv, AtRest
<1>4. CASE ReturnUpdate
  <2>1. frames # <<>> /\ Top.phase = "loop" /\ frames' = Front(frames)
        /\ UNCHANGED <<mode, live, reentered>>
    BY <1>4 DEF ReturnUpdate, Looping
  <2>2. Len(frames) = 1 /\ Len(frames') = 0
    BY <1>0, <2>1, FrontIsPrefix DEF LiveInv
  <2>3. frames' = <<>>
    BY <1>4, LoopType, <2>2 DEF TypeOK
  <2>. QED  BY <2>1, <2>2, <2>3 DEF LiveInv, AtRest
<1>5. CASE Handler
  <2>1. /\ frames # <<>> /\ Top.phase = "run" /\ (EndsInPlace \/ Enters \/ Leaves)
        /\ reentered' = reentered
    BY <1>5, HandlerShape
  <2>2. mode = Top.old /\ live = {mode} \ {"SLEEP"} /\ Len(frames) <= 1
    BY <2>1 DEF StackInv, LiveInv
  <2>3. CASE EndsInPlace
    <3>1. mode' = mode /\ live' = live /\ (frames' = SetTop(LoopFrame) \/ frames' = <<>>)
      BY <2>1, <2>3, EndsInPlaceEffect
    <3>2. CASE frames' = SetTop(LoopFrame)
      <4>1. Top' = LoopFrame /\ Len(frames') = Len(frames) /\ LoopFrame.phase = "loop"
        BY <2>1, <3>2, LoopFrameType, TopOfSetTop DEF LoopFrame
      <4>. QED  BY <2>2, <3>1, <4>1 DEF LiveInv, AtRest
    <3>3. CASE frames' = <<>>
      BY <2>2, <3>1, <3>3 DEF LiveInv, AtRest
    <3>. QED  BY <3>1, <3>2, <3>3
  <2>4. CASE Enters
    <3>1. PICK m \in Modes \ {"SLEEP"} : Top.old = "SLEEP" /\ BeginInit(m)
      BY <2>4 DEF Enters
    <3>. DEFINE f == [Top EXCEPT !.phase = "op", !.next = m]
    <3>2. frames' = SetTop(f) /\ live' = live \cup {m} /\ mode' = mode
      BY <3>1 DEF BeginInit
    <3>3. f \in Frame /\ f.phase = "op" /\ f.next = m /\ f.old = Top.old
      BY <2>1, OpFrameType
    <3>4. Top' = f /\ Len(frames') = Len(frames)
      BY <2>1, <3>2, <3>3, TopOfSetTop
    <3>5. live' = {m}
      BY <2>2, <3>1, <3>2
    <3>. HIDE DEF f
    <3>6. (IF f.next = "SLEEP" THEN f.old ELSE f.next) = m /\ mode' = f.old
      BY <2>2, <3>1, <3>2, <3>3
    <3>7. Top'.phase = "op" /\ mode' = Top'.old
          /\ live' = {IF Top'.next = "SLEEP" THEN Top'.old ELSE Top'.next}
      BY <3>3, <3>4, <3>5, <3>6
    <3>8. Len(frames') <= 1 /\ ~AtRest'
      BY <2>1, <2>2, <3>2, <3>3, <3>4, TopOfSetTop DEF AtRest
    <3>. QED  BY <3>7, <3>8 DEF LiveInv
  <2>5. CASE Leaves
    <3>. DEFINE f == [Top EXCEPT !.phase = "op", !.next = "SLEEP"]
    <3>1. frames' = SetTop(f) /\ live' = live /\ mode' = mode /\ Top.old # "SLEEP"
      BY <2>5 DEF Leaves, BeginDeInit
    <3>2. f \in Frame /\ f.phase = "op" /\ f.next = "SLEEP" /\ f.old = Top.old
      <4>1. "SLEEP" \in Modes  BY DEF Modes
      <4>. QED  BY <2>1, <4>1, OpFrameType
    <3>3. Top' = f /\ Len(frames') = Len(frames)
      BY <2>1, <3>1, <3>2, TopOfSetTop
    <3>. QED  BY <2>2, <3>1, <3>2, <3>3 DEF LiveInv, AtRest
  <2>. QED  BY <2>1, <2>3, <2>4, <2>5
<1>6. CASE FinishOp
  <2>1. /\ frames # <<>> /\ Top.phase = "op" /\ mode' = Top.next /\ ~reentered
        /\ Top.old = "SLEEP" <=> Top.next # "SLEEP"
        /\ live' = IF Top.next = "SLEEP" THEN live \ {Top.old} ELSE live
        /\ frames' = SetTop(LoopFrame) \/ frames' = <<>>
    BY <1>6, FinishOpEffect DEF EndIteration
  <2>2. /\ live = {IF Top.next = "SLEEP" THEN Top.old ELSE Top.next} /\ Len(frames) <= 1
    BY <2>1 DEF LiveInv
  <2>3. live' = {mode'} \ {"SLEEP"}
    BY <2>1, <2>2
  <2>4. CASE frames' = SetTop(LoopFrame)
    <3>1. Top' = LoopFrame /\ Len(frames') = Len(frames) /\ LoopFrame.phase = "loop"
      BY <2>1, <2>4, LoopFrameType, TopOfSetTop DEF LoopFrame
    <3>. QED  BY <2>2, <2>3, <3>1 DEF LiveInv, AtRest
  <2>5. CASE frames' = <<>>
    BY <2>3, <2>5 DEF LiveInv, AtRest
  <2>. QED  BY <2>1, <2>4, <2>5
<1>7. CASE Boot
  BY <1>7 DEF Boot, LiveInv, AtRest
<1>. QED  BY <1>1, <1>2, <1>3, <1>4, <1>5, <1>6, <1>7 DEF Next, ModeTask

\* The three invariants hold together in every reachable state.
LEMMA PairingInvariant == Spec => [](TypeOK /\ StackInv /\ LiveInv)
<1>1. Init => StackInv /\ LiveInv
  BY DEF Init, StackInv, LiveInv, AtRest
<1>2. TypeOK /\ StackInv /\ LiveInv /\ [Next]_vars => (StackInv /\ LiveInv)'
  <2>1. ASSUME StackInv, LiveInv, UNCHANGED vars PROVE (StackInv /\ LiveInv)'
    BY <2>1 DEF vars, requestVars, StackInv, LiveInv, AtRest, Top
  <2>. QED  BY <2>1, StackStep, LiveStep
<1>. QED  BY <1>1, <1>2, TypeCorrect, PTL DEF Spec

\* Two modes are never initialized at once, and between two handlers exactly the one
\* of mode_state is.
THEOREM LiveModeAlways == Spec => []LiveModeIsTheMode
<1>1. TypeOK => (AtRest \/ Top.phase = "run" \/ (frames # <<>> /\ Top.phase = "op"))
  BY TopType DEF AtRest, Frame
<1>2. TypeOK /\ LiveInv => LiveModeIsTheMode
  BY <1>1 DEF LiveInv, LiveModeIsTheMode
<1>. QED  BY <1>2, PairingInvariant, PTL

\* The processor is reset out of SLEEP only, with nothing initialized.
THEOREM ResetAfterDeInitAlways == Spec => ResetOnlyAfterDeInit
<1>. DEFINE Step == power = "on" /\ power' # "on" =>
                      mode' = "SLEEP" /\ (reentered \/ live' = {})
<1>1. TypeOK /\ StackInv /\ LiveInv /\ [Next]_vars => [Step]_vars
  <2>. SUFFICES ASSUME TypeOK, StackInv, LiveInv, Next, power = "on", power' # "on"
                PROVE  mode' = "SLEEP" /\ (reentered \/ live' = {})
    OBVIOUS
  <2>1. CASE Handler
    <3>1. frames # <<>> /\ Top.phase = "run" /\ EndsInPlace
      BY <2>1, HandlerShape DEF Enters, Leaves, BeginInit, BeginDeInit
    <3>2. mode' = "SLEEP" /\ mode = "SLEEP" /\ live' = live
      BY <3>1, EndsInPlaceEffect
    <3>3. reentered \/ live = {}
      BY <3>1, <3>2 DEF LiveInv
    <3>. QED  BY <3>2, <3>3
  <2>2. CASE FinishOp
    <3>1. mode' = "SLEEP"
      BY <2>2, FinishOpEffect DEF EndIteration
    <3>2. /\ live' = live \ {Top.old} /\ frames # <<>> /\ Top.phase = "op"
          /\ Top.next = "SLEEP"
      BY <2>2, <3>1, FinishOpEffect
    <3>3. reentered \/ live = {Top.old}
      BY <3>2 DEF LiveInv
    <3>. QED  BY <3>1, <3>2, <3>3
  <2>3. CASE Request \/ Interrupt
    BY <2>3 DEF Request, RequestState, RequestTerminalAction, Interrupt, ButtonEvent,
                HoldTimerExpires, VbusChanges, VbusTriggered, ForceUpdate
  <2>4. CASE StartUpdate \/ PopQueue \/ ReturnUpdate \/ Boot
    BY <2>4 DEF StartUpdate, PopQueue, ReturnUpdate, Boot
  <2>. QED  BY <2>1, <2>2, <2>3, <2>4 DEF Next, ModeTask
<1>. QED  BY <1>1, PairingInvariant, PTL DEF Spec, ResetOnlyAfterDeInit

-----------------------------------------------------------------------------
(* No request is stranded.                                                  *)

\* An event that is served stays so when the top frame still serves it.
LEMMA ServedAfterSetTop ==
  ASSUME TypeOK, frames # <<>>, NEW f \in Frame, frames' = SetTop(f), NEW e,
         InQueue(e) => InQueue(e)', Served(e), Serves(Top, e) => Serves(f, e)
  PROVE  Served(e)'
<1>1. /\ Len(frames') = Len(frames) /\ frames'[Len(frames)] = f
      /\ \A i \in 1 .. Len(frames) - 1 : frames'[i] = frames[i]
      /\ frames' \in Seq(Frame) /\ frames \in Seq(Frame)
      /\ Top = frames[Len(frames)] /\ Len(frames) \in Nat \ {0}
  BY SetTopType, TopType DEF TypeOK
<1>2. CASE InQueue(e)
  BY <1>2 DEF Served
<1>3. ASSUME NEW i \in DOMAIN frames, Serves(frames[i], e)
      PROVE  i \in DOMAIN frames' /\ Serves(frames'[i], e)
  <2>1. i \in DOMAIN frames'
    BY <1>1
  <2>2. CASE i = Len(frames)
    BY <1>1, <1>3, <2>1, <2>2
  <2>3. CASE i # Len(frames)
    <3>1. frames'[i] = frames[i]
      BY <1>1, <2>3
    <3>. QED  BY <1>3, <2>1, <3>1
  <2>. QED  BY <2>2, <2>3
<1>. QED  BY <1>2, <1>3 DEF Served

\* An event that is served stays so when the queue takes another without losing it.
LEMMA ServedAfterPush ==
  ASSUME TypeOK, NEW x \in Events, PushQueue(x), frames' = frames, NEW e \in RequestEvents,
         Served(e), e \notin lost'
  PROVE  Served(e)'
BY PushKeeps DEF Served

\* Every mode handles REQUEST_STATE, and every mode but SLEEP TERMINAL_ACTION.
LEMMA HandledRequests ==
  ASSUME NEW m \in Modes
  PROVE  /\ "REQUEST_STATE" \in Handled[m]
         /\ m # "SLEEP" => "TERMINAL_ACTION" \in Handled[m]
BY DEF Handled, Modes, HoldModes, ShortModes, RequestEvents

\* A handler given a request event clears that request, or begins to leave its mode.
LEMMA HandlerRequests ==
  ASSUME TypeOK, StackInv, Handler
  PROVE  /\ requested' \in {requested, None} /\ terminal' \in {terminal, None}
         /\ Top.event = "REQUEST_STATE" => requested' = None \/ Leaves
         /\ Top.event = "TERMINAL_ACTION" => terminal' = None \/ Leaves
<1>1. terminal' \in {terminal, None}
  BY HandlerShape DEF EndsInPlace, EndIteration, Enters, BeginInit, Leaves, BeginDeInit
<1>2. Top.old = mode /\ Top.old \in Modes
  BY HandlerShape, TopType DEF StackInv, Frame
<1>3. CASE SleepPressed \/ SleepReleased \/ SleepTimer \/ SleepVbusHigh \/ HoldPressed
           \/ HoldReleased \/ HoldTimer \/ ShortExit \/ UsbVbusLow
  BY <1>1, <1>3 DEF SleepPressed, SleepReleased, SleepTimer, SleepVbusHigh, HoldPressed,
     HoldReleased, HoldTimer, ShortExit, UsbVbusLow, Handling
<1>4. CASE EnterRequestedState \/ UsbDropsRequest
  BY <1>1, <1>4 DEF EnterRequestedState, UsbDropsRequest, Handling
<1>5. CASE LeaveOnRequest
  BY <1>1, <1>5 DEF LeaveOnRequest, Handling, Leaves, HoldModes, ShortModes
<1>6. CASE LeaveOnTerminal
  BY <1>1, <1>6 DEF LeaveOnTerminal, Handling, Leaves, HoldModes, ShortModes
<1>7. CASE UsbDropsTerminal
  BY <1>1, <1>7 DEF UsbDropsTerminal, Handling, EndIteration
<1>8. CASE Ignored
  <2>1. requested' = requested /\ Top.event # "REQUEST_STATE"
    BY <1>2, <1>8, HandledRequests DEF Ignored
  <2>2. Top.event = "TERMINAL_ACTION" => Top.old = "SLEEP"
    BY <1>2, <1>8, HandledRequests DEF Ignored
  <2>3. Top.old = "SLEEP" => terminal' = None
    BY <1>2, <1>8 DEF Ignored, Stay, EndIteration
  <2>. QED  BY <1>1, <2>1, <2>2, <2>3
<1>. QED  BY <1>3, <1>4, <1>5, <1>6, <1>7, <1>8 DEF Handler

\* Whoever pushes an event keeps the request invariant.
LEMMA PushersRequests ==
  ASSUME TypeOK, RequestInv, Request \/ Interrupt
  PROVE  RequestInv'
<1>0. "REQUEST_STATE" \in RequestEvents /\ "TERMINAL_ACTION" \in RequestEvents
      /\ RequestEvents \subseteq Events
  BY DEF RequestEvents, Events
\* A push that accepts nothing.
<1>1. ASSUME NEW x \in Events, PushQueue(x), UNCHANGED <<frames, requested, terminal>>
      PROVE  RequestInv'
  <2>1. lost \subseteq lost' /\ taskSet' = TRUE
    BY <1>1, PushKeeps, PushType
  <2>2. ASSUME NEW e \in RequestEvents, e \notin lost', Served(e) PROVE Served(e)'
    BY <1>1, <2>2, ServedAfterPush
  <2>. QED  BY <1>0, <1>1, <2>1, <2>2 DEF RequestInv
<1>2. ASSUME NEW m \in Requestable \cap Modes, RequestState(m) PROVE RequestInv'
  <2>1. InQueue("REQUEST_STATE")' /\ taskSet' = TRUE /\ terminal' = None
    BY <1>0, <1>2, PushKeeps, PushType DEF RequestState, HasPendingRequest
  <2>. QED  BY <2>1 DEF RequestInv, Served
<1>3. ASSUME NEW a \in Requestable \cap Terminals, RequestTerminalAction(a)
      PROVE  RequestInv'
  <2>1. InQueue("TERMINAL_ACTION")' /\ taskSet' = TRUE /\ requested' = None
    BY <1>0, <1>3, PushKeeps, PushType DEF RequestTerminalAction, HasPendingRequest
  <2>. QED  BY <2>1 DEF RequestInv, Served
<1>4. CASE ButtonEvent \/ HoldTimerExpires \/ VbusTriggered
  BY <1>1, <1>4 DEF ButtonEvent, HoldTimerExpires, VbusTriggered, Events, requestVars
<1>5. ASSUME NEW m \in ShortModes, ForceUpdate(m) PROVE RequestInv'
  BY <1>1, <1>5 DEF ForceUpdate, Events, requestVars
<1>6. CASE VbusChanges
  BY <1>6 DEF VbusChanges, RequestInv, Served, InQueue, requestVars
<1>. QED  BY <1>2, <1>3, <1>4, <1>5, <1>6 DEF Request, Interrupt

\* The loop of FS_Mode_Update and a boot keep the request invariant.
LEMMA LoopRequests ==
  ASSUME TypeOK, RequestInv, StartUpdate \/ PopQueue \/ ReturnUpdate \/ Boot
  PROVE  RequestInv'
<1>1. CASE StartUpdate
  <2>1. /\ frames' = Append(frames, LoopFrame) /\ frames \in Seq(Frame)
        /\ UNCHANGED <<queue, requested, terminal, lost, power>>
    BY <1>1 DEF StartUpdate, TypeOK, requestVars
  <2>2. frames' # <<>> /\ \A i \in DOMAIN frames : i \in DOMAIN frames' /\ frames'[i] = frames[i]
    BY <2>1, LoopFrameType
  <2>3. ASSUME NEW e, Served(e) PROVE Served(e)'
    BY <2>1, <2>2, <2>3 DEF Served, InQueue
  <2>. QED  BY <2>1, <2>2, <2>3 DEF RequestInv
<1>2. CASE PopQueue
  <2>. DEFINE f == [phase |-> "run", old |-> mode, event |-> Head(queue), next |-> mode]
  <2>1. /\ frames # <<>> /\ frames' = SetTop(f) /\ Top.phase = "loop"
        /\ queue # <<>> /\ queue' = Tail(queue) /\ queue \in Seq(Events)
        /\ UNCHANGED <<requested, terminal, lost, power>>
    BY <1>2 DEF PopQueue, Looping, TypeOK, requestVars
  <2>2. f \in Frame /\ f.phase = "run" /\ f.event = Head(queue)
    BY <2>1 DEF Frame, TypeOK
  <2>. HIDE DEF f
  <2>3. frames' # <<>> /\ Top' = f /\ Len(frames') = Len(frames) /\ Len(frames') \in DOMAIN frames'
    BY <2>1, <2>2, SetTopType, TopOfSetTop
  <2>4. ASSUME NEW e, Served(e) PROVE Served(e)'
    <3>1. CASE InQueue(e) /\ e = Head(queue)
      <4>1. Serves(frames'[Len(frames')], e)
        BY <2>1, <2>2, <2>3, <3>1, SetTopType DEF Serves
      <4>. QED  BY <2>3, <4>1 DEF Served
    <3>2. CASE InQueue(e) /\ e # Head(queue)
      <4>1. PICK i \in DOMAIN queue : queue[i] = e
        BY <3>2 DEF InQueue
      <4>2. i # 1
        BY <2>1, <3>2, <4>1
      <4>3. i - 1 \in DOMAIN queue' /\ queue'[i - 1] = e
        BY <2>1, <4>1, <4>2
      <4>. QED  BY <4>3 DEF Served, InQueue
    <3>3. CASE ~InQueue(e)
      <4>1. ~Serves(Top, e)
        BY <2>1 DEF Serves, Leaving
      <4>. QED  BY <2>1, <2>2, <2>4, <3>3, <4>1, ServedAfterSetTop
    <3>. QED  BY <3>1, <3>2, <3>3
  <2>. QED  BY <2>1, <2>3, <2>4 DEF RequestInv
<1>3. CASE ReturnUpdate
  <2>1. /\ frames # <<>> /\ frames' = Front(frames) /\ Top.phase = "loop" /\ queue = <<>>
        /\ UNCHANGED <<queue, requested, terminal, lost, power>>
    BY <1>3 DEF ReturnUpdate, Looping, requestVars
  <2>2. ASSUME NEW e, Served(e) PROVE Served(e)'
    <3>1. PICK i \in DOMAIN frames : Serves(frames[i], e)
      BY <2>1, <2>2 DEF Served, InQueue
    <3>2. Top = frames[Len(frames)] /\ ~Serves(Top, e) /\ DOMAIN frames = 1 .. Len(frames)
          /\ Len(frames) \in Nat
      BY <2>1, TopType DEF Serves, Leaving, TypeOK
    <3>3. i \in 1 .. Len(frames) - 1
      BY <3>1, <3>2
    <3>4. i \in DOMAIN frames' /\ frames'[i] = frames[i]
      BY <2>1, <3>3, FrontIsPrefix
    <3>. QED  BY <3>1, <3>4 DEF Served
  <2>. QED  BY <2>1, <2>2 DEF RequestInv
<1>4. CASE Boot
  <2>1. queue' # <<>> => taskSet' = TRUE
    BY <1>4 DEF Boot
  <2>. QED  BY <1>4, <2>1 DEF Boot, RequestInv
<1>. QED  BY <1>1, <1>2, <1>3, <1>4

\* A handler keeps the request invariant.
LEMMA HandlerRequestInv ==
  ASSUME TypeOK, StackInv, RequestInv, Handler
  PROVE  RequestInv'
<1>1. /\ frames # <<>> /\ Top.phase = "run" /\ (EndsInPlace \/ Enters \/ Leaves)
      /\ UNCHANGED <<queue, taskSet, lost>> /\ power = "on"
      /\ requested' \in {requested, None} /\ terminal' \in {terminal, None}
  BY HandlerShape, HandlerRequests
<1>2. requested' = None \/ terminal' = None
  BY <1>1 DEF RequestInv
<1>3. \A e : InQueue(e) => InQueue(e)'
  BY <1>1 DEF InQueue
<1>4. CASE Leaves
  <2>. DEFINE f == [Top EXCEPT !.phase = "op", !.next = "SLEEP"]
  <2>1. frames' = SetTop(f)
    BY <1>4 DEF Leaves, BeginDeInit
  <2>2. f \in Frame /\ f.phase = "op" /\ f.next = "SLEEP" /\ f.event = Top.event
    <3>1. "SLEEP" \in Modes  BY DEF Modes
    <3>. QED  BY <1>1, <3>1, OpFrameType
  <2>. HIDE DEF f
  <2>3. frames' # <<>>
    BY <1>1, <2>1, <2>2, TopOfSetTop
  <2>4. ASSUME NEW e, Served(e) PROVE Served(e)'
    <3>1. Serves(Top, e) => Serves(f, e)
      BY <2>2 DEF Serves, Leaving
    <3>. QED  BY <1>1, <1>3, <2>1, <2>2, <2>4, <3>1, ServedAfterSetTop
  <2>. QED  BY <1>1, <1>2, <2>3, <2>4 DEF RequestInv
<1>5. ASSUME ~Leaves, NEW f \in Frame, frames' = SetTop(f)
      PROVE  RequestInv'
  <2>1. frames' # <<>>
    BY <1>1, <1>5, TopOfSetTop
  <2>2. ASSUME NEW e, Served(e), Top.event # e PROVE Served(e)'
    <3>1. ~Serves(Top, e)
      BY <2>2 DEF Serves
    <3>. QED  BY <1>1, <1>3, <1>5, <2>2, <3>1, ServedAfterSetTop
  <2>3. /\ Top.event = "REQUEST_STATE" => requested' = None
        /\ Top.event = "TERMINAL_ACTION" => terminal' = None
    BY <1>5, HandlerRequests
  <2>. QED  BY <1>1, <1>2, <2>1, <2>2, <2>3 DEF RequestInv
<1>6. ASSUME ~Leaves, frames' = <<>>
      PROVE  RequestInv'
  <2>1. CASE EndsInPlace
    <3>1. frames' # SetTop(LoopFrame)
      BY <1>1, <1>6, LoopFrameType, TopOfSetTop
    <3>2. terminal # None /\ terminal' = None /\ power' = terminal
      BY <2>1, <3>1 DEF EndsInPlace, EndIteration
    <3>3. power' # "on" /\ requested = None
      BY <3>2 DEF RequestInv, TypeOK, Terminals
    <3>. QED  BY <1>1, <3>2, <3>3 DEF RequestInv
  <2>2. CASE Enters
    BY <1>1, <1>6, <2>2, OpFrameType, TopOfSetTop DEF Enters, BeginInit
  <2>. QED  BY <1>1, <1>6, <2>1, <2>2
<1>7. CASE ~Leaves
  <2>1. frames' = <<>> \/ \E f \in Frame : frames' = SetTop(f)
    BY <1>1, <1>7, ShapeFrames, LoopFrameType, OpFrameType
  <2>. QED  BY <1>5, <1>6, <1>7, <2>1
<1>. QED  BY <1>4, <1>7

\* The end of an Init or a DeInit keeps the request invariant.
LEMMA FinishRequestInv ==
  ASSUME TypeOK, StackInv, RequestInv, FinishOp
  PROVE  RequestInv'
<1>1. /\ frames # <<>> /\ Top.phase = "op" /\ power = "on" /\ mode' = Top.next
      /\ requested' = IF Top.next = "SLEEP" /\ Top.event = "REQUEST_STATE"
                      THEN None ELSE requested
      /\ EndIteration(Top.next, terminal)
  BY FinishOpEffect
\* The cancelled pairing's callback may push; no request event is lost silently.
<1>2. /\ queue' # <<>> => taskSet' = TRUE \/ queue # <<>>
      /\ lost \subseteq lost'
      /\ \A e \in RequestEvents : InQueue(e) /\ e \notin lost' => InQueue(e)'
  <2>1. CASE PushQueue("FORCE_UPDATE")
    <3>1. "FORCE_UPDATE" \in Events  BY DEF Events
    <3>. QED  BY <2>1, <3>1, PushType, PushKeeps
  <2>2. CASE UNCHANGED <<queue, taskSet, lost>>
    BY <2>2 DEF InQueue
  <2>. QED  BY <2>1, <2>2 DEF FinishOp
<1>3. CASE terminal # None /\ mode' = "SLEEP"
  <2>1. frames' = <<>> /\ terminal' = None /\ power' = terminal
    BY <1>1, <1>3 DEF EndIteration
  <2>2. power' # "on" /\ requested' = None
    BY <1>1, <1>3, <2>1 DEF RequestInv, TypeOK, Terminals
  <2>. QED  BY <2>1, <2>2 DEF RequestInv
<1>4. CASE ~(terminal # None /\ mode' = "SLEEP")
  <2>1. frames' = SetTop(LoopFrame) /\ terminal' = terminal /\ power' = power
    BY <1>1, <1>4 DEF EndIteration
  <2>2. frames' # <<>>
    BY <1>1, <2>1, LoopFrameType, TopOfSetTop
  <2>3. ASSUME NEW e \in RequestEvents, e \notin lost', Served(e), ~Serves(Top, e)
        PROVE  Served(e)'
    BY <1>1, <1>2, <2>1, <2>3, LoopFrameType, ServedAfterSetTop
  <2>4. requested' # None => ~Serves(Top, "REQUEST_STATE")
    BY <1>1 DEF Serves, Leaving
  <2>5. terminal' # None => ~Serves(Top, "TERMINAL_ACTION")
    BY <1>1, <1>4, <2>1 DEF Serves, Leaving
  <2>6. {"REQUEST_STATE", "TERMINAL_ACTION"} \subseteq RequestEvents
    BY DEF RequestEvents
  <2>. QED  BY <1>1, <1>2, <2>1, <2>2, <2>3, <2>4, <2>5, <2>6 DEF RequestInv
<1>. QED  BY <1>3, <1>4

\* A request whose event the ring has not dropped is never stranded, at any length of
\* the ring and any depth of nesting.
THEOREM NoStrandedRequestAlways == Spec => []NoStrandedRequest
<1>1. Init => RequestInv
  BY DEF Init, RequestInv
<1>2. TypeOK /\ StackInv /\ RequestInv /\ [Next]_vars => RequestInv'
  <2>1. ASSUME RequestInv, UNCHANGED vars PROVE RequestInv'
    BY <2>1 DEF vars, requestVars, RequestInv, Served, InQueue
  <2>. QED  BY <2>1, PushersRequests, LoopRequests, HandlerRequestInv, FinishRequestInv
            DEF Next, ModeTask
<1>3. RequestInv => NoStrandedRequest
  <2>1. \A e : Served(e) => Outstanding(e)
    BY DEF Served, InQueue, Serves, Outstanding
  <2>. QED  BY <2>1 DEF RequestInv, NoStrandedRequest
<1>. QED  BY <1>1, <1>2, <1>3, PairingInvariant, PTL DEF Spec

-----------------------------------------------------------------------------
(* The refinement.  ModeControl implements ModeService as long as            *)
(* FS_Mode_Update is not re-entered, that is with MaxNesting = 1.  Nested    *)
(* activations break it: the inner one may answer the request the outer one  *)
(* is working on.                                                            *)

\* USB is never asked for, and an exit on REQUEST_STATE is one to SLEEP that is still
\* asked for when the DeInit returns.
ServiceInv ==
  /\ ~reentered
  /\ requested # "USB"
  /\ frames # <<>> /\ Leaving(Top) /\ Top.event = "REQUEST_STATE" => requested = "SLEEP"

\* A DeInit begun on REQUEST_STATE is begun because SLEEP is asked for.
LEMMA ExitOnRequest ==
  ASSUME TypeOK, Handler, Leaves, Top.event = "REQUEST_STATE"
  PROVE  requested = "SLEEP" /\ requested' = requested
<1>1. Top.old # "SLEEP" /\ Top.phase = "run" /\ frames # <<>> /\ Top \in Frame
  BY HandlerShape, TopType DEF Leaves
<1>2. frames' # SetTop(LoopFrame) /\ frames' # <<>>
  <2>1. "SLEEP" \in Modes  BY DEF Modes
  <2>2. Top'.phase = "op" /\ frames' # <<>>
    BY <1>1, <2>1, OpFrameType, TopOfSetTop DEF Leaves, BeginDeInit
  <2>. QED  BY <1>1, <2>2, LoopFrameType, TopOfSetTop DEF LoopFrame
<1>3. ~EndIteration(Top.old, terminal)
  BY <1>2 DEF EndIteration
<1>4. CASE LeaveOnRequest
  BY <1>3, <1>4 DEF LeaveOnRequest, Stay
<1>5. CASE UsbDropsRequest \/ Ignored
  BY <1>3, <1>5 DEF UsbDropsRequest, Ignored, Stay
<1>6. CASE EnterRequestedState
  BY <1>1, <1>6 DEF EnterRequestedState, Handling
<1>. QED  BY <1>4, <1>5, <1>6 DEF Handler, SleepPressed, SleepReleased, SleepTimer,
             SleepVbusHigh, HoldPressed, HoldReleased, HoldTimer, ShortExit, LeaveOnTerminal,
             UsbVbusLow, UsbDropsTerminal, Handling

\* Without nesting every step keeps ServiceInv.
LEMMA ServiceInvStep ==
  ASSUME MaxNesting = 1, TypeOK, StackInv, RequestInv, ServiceInv, Next
  PROVE  ServiceInv'
<1>0. frames \in Seq(Frame) /\ Len(frames) <= 1
  BY DEF TypeOK
<1>1. ASSUME NEW m \in Requestable \cap Modes, RequestState(m) PROVE ServiceInv'
  <2>1. /\ requested = None /\ requested' = m /\ m # "USB"
        /\ frames' = frames /\ reentered' = reentered
    BY <1>1 DEF RequestState, HasPendingRequest, StateRequestAllowed
  <2>2. frames # <<>> /\ Leaving(Top) => Top.event # "REQUEST_STATE"
    BY <2>1 DEF ServiceInv, None
  <2>. QED  BY <2>1, <2>2 DEF ServiceInv, Leaving, Top
<1>2. CASE \/ \E a \in Requestable \cap Terminals : RequestTerminalAction(a)
           \/ Interrupt
  <2>1. UNCHANGED <<requested, frames, reentered>>
    BY <1>2 DEF RequestTerminalAction, Interrupt, ButtonEvent, HoldTimerExpires,
                VbusChanges, VbusTriggered, ForceUpdate, requestVars
  <2>. QED  BY <2>1 DEF ServiceInv, Leaving, Top
<1>3. CASE StartUpdate
  <2>1. frames = <<>> /\ frames' = Append(frames, LoopFrame) /\ requested' = requested
    BY <1>0, <1>3 DEF StartUpdate, requestVars
  <2>2. ~reentered'
    BY <1>3, <2>1, Zenon DEF StartUpdate, ServiceInv
  <2>3. Top'.phase = "loop"
    BY <2>1 DEF Top, Last, LoopFrame
  <2>. QED  BY <2>1, <2>2, <2>3 DEF ServiceInv, Leaving
<1>4. CASE PopQueue
  <2>. DEFINE f == [phase |-> "run", old |-> mode, event |-> Head(queue), next |-> mode]
  <2>1. frames # <<>> /\ frames' = SetTop(f) /\ f \in Frame /\ f.phase = "run"
        /\ UNCHANGED <<requested, reentered>>
    BY <1>4 DEF PopQueue, Looping, TypeOK, Frame, requestVars
  <2>2. Top' = f
    BY <2>1, TopOfSetTop
  <2>. QED  BY <2>1, <2>2 DEF ServiceInv, Leaving
<1>5. CASE ReturnUpdate
  <2>1. frames # <<>> /\ frames' = Front(frames) /\ UNCHANGED <<requested, reentered>>
    BY <1>5 DEF ReturnUpdate, Looping, requestVars
  <2>2. Len(frames') = 0
    BY <1>0, <2>1, FrontIsPrefix
  <2>3. frames' = <<>>
    BY <1>5, <2>2, LoopType DEF TypeOK
  <2>. QED  BY <2>1, <2>3 DEF ServiceInv
<1>6. CASE Handler
  <2>1. /\ frames # <<>> /\ Top.phase = "run" /\ (EndsInPlace \/ Enters \/ Leaves)
        /\ reentered' = reentered /\ requested' \in {requested, None}
    BY <1>6, HandlerShape, HandlerRequests
  <2>2. CASE frames' = <<>>
    BY <2>1, <2>2 DEF ServiceInv, None
  <2>3. CASE frames' = SetTop(LoopFrame)
    <3>1. Top' = LoopFrame /\ LoopFrame.phase = "loop"
      BY <2>1, <2>3, LoopFrameType, TopOfSetTop DEF LoopFrame
    <3>. QED  BY <2>1, <3>1 DEF ServiceInv, Leaving, None
  <2>4. ASSUME NEW m \in Modes \ {"SLEEP"},
               frames' = SetTop([Top EXCEPT !.phase = "op", !.next = m])
        PROVE  ServiceInv'
    <3>1. Top'.next = m
      BY <2>1, <2>4, OpFrameType, TopOfSetTop
    <3>. QED  BY <2>1, <3>1 DEF ServiceInv, Leaving, None
  <2>5. CASE Leaves
    <3>1. Top'.event = Top.event
      <4>1. "SLEEP" \in Modes  BY DEF Modes
      <4>. QED  BY <2>1, <2>5, <4>1, OpFrameType, TopOfSetTop, ZenonT(40) DEF Leaves, BeginDeInit
    <3>2. Top.event = "REQUEST_STATE" => requested' = "SLEEP"
      BY <1>6, <2>5, ExitOnRequest
    <3>. QED  BY <2>1, <3>1, <3>2 DEF ServiceInv, None
  <2>. QED  BY <2>1, <2>2, <2>3, <2>4, <2>5, ShapeFrames
<1>7. CASE FinishOp
  <2>1. /\ frames # <<>> /\ reentered' = reentered /\ requested' \in {requested, None}
        /\ frames' = SetTop(LoopFrame) \/ frames' = <<>>
    BY <1>7, FinishOpEffect DEF EndIteration
  <2>2. frames' = SetTop(LoopFrame) => Top'.phase = "loop"
    BY <2>1, LoopFrameType, TopOfSetTop DEF LoopFrame
  <2>. QED  BY <2>1, <2>2 DEF ServiceInv, Leaving, None
<1>8. CASE Boot
  BY <1>8 DEF Boot, ServiceInv, None
<1>. QED  BY <1>1, <1>2, <1>3, <1>4, <1>5, <1>6, <1>7, <1>8 DEF Next, ModeTask, Request

-----------------------------------------------------------------------------
(* The steps, mapped.                                                       *)

ImplInv == TypeOK /\ StackInv /\ RequestInv /\ ServiceInv
Pending == IF terminal # None THEN terminal ELSE requested
Mapped  == [Service!Next]_Service!vars

\* The names of modes, terminal actions and power states are distinct.
LEMMA Names ==
  /\ None \notin Modes /\ None \notin Terminals /\ "SLEEP" \in Modes
  /\ "on" \notin Terminals /\ \A t \in Terminals : t \notin Modes
BY DEF None, Modes, Terminals, HoldModes, ShortModes

\* A step that changes no mapped variable is a stutter of the service.
LEMMA Stutter ==
  ASSUME UNCHANGED <<mode, MovingTo, terminal, requested, power>>
  PROVE  Mapped
BY DEF Mapped, Service!vars

\* MovingTo after the top of the stack has been replaced.
LEMMA MovingAfterSetTop ==
  ASSUME TypeOK, frames # <<>>, NEW f \in Frame, frames' = SetTop(f)
  PROVE  MovingTo' = IF f.phase = "op" THEN f.next ELSE None
BY TopOfSetTop DEF MovingTo

\* Outside an Init and a DeInit the service is not moving.
LEMMA MovingAtRest ==
  ASSUME frames = <<>> \/ Top.phase # "op"
  PROVE  MovingTo = None
BY DEF MovingTo

\* A handler that ends where it is: a reset, a discarded request, or nothing.
LEMMA EndMapped ==
  ASSUME ImplInv, frames # <<>>, Top.phase = "run", power = "on",
         NEW t \in {terminal, None}, EndIteration(Top.old, t),
         t # terminal => mode = "USB" /\ requested' = requested,
         requested' # requested =>
           /\ requested' = None
           /\ requested = mode \/ mode = "USB"
                \/ (requested \in Modes \ {"SLEEP"} /\ mode # "SLEEP")
  PROVE  Mapped
<1>1. mode' = mode /\ MovingTo = None /\ requested' \in {requested, None}
  BY MovingAtRest DEF EndIteration, ImplInv, StackInv
<1>2. CASE t # None /\ mode = "SLEEP"
  <2>1. terminal' = None /\ power' = terminal /\ frames' = <<>> /\ terminal # None
    BY <1>1, <1>2 DEF EndIteration
  <2>2. requested = None /\ requested' = None /\ terminal \in Terminals
    BY <1>1, <2>1 DEF ImplInv, RequestInv, TypeOK
  <2>3. MovingTo' = None
    BY <2>1 DEF MovingTo
  <2>4. Service!Reset
    BY <1>1, <1>2, <2>1, <2>2, <2>3, Names DEF Service!Reset
  <2>. QED  BY <2>4 DEF Mapped, Service!Next, Service!Move
<1>3. CASE ~(t # None /\ mode = "SLEEP")
  <2>1. terminal' = t /\ power' = power /\ frames' = SetTop(LoopFrame)
    BY <1>1, <1>3 DEF EndIteration
  <2>2. MovingTo' = None
    BY <2>1, LoopFrameType, MovingAfterSetTop DEF ImplInv, LoopFrame
  <2>3. requested = None \/ terminal = None
    BY DEF ImplInv, RequestInv
  <2>4. CASE Pending' = Pending
    BY <1>1, <2>1, <2>2, <2>4 DEF Mapped, Pending, Service!vars
  <2>5. CASE Pending' # Pending
    <3>1. Pending # None /\ Pending' = None
      BY <1>1, <2>1, <2>3, <2>5 DEF Pending
    <3>2. Pending = mode \/ mode = "USB" \/ (Pending \in Modes \ {"SLEEP"} /\ mode # "SLEEP")
      BY <2>1, <2>3, <2>5 DEF Pending
    <3>3. Service!Discard
      BY <1>1, <2>1, <2>2, <3>1, <3>2 DEF Service!Discard, Pending
    <3>. QED  BY <3>3 DEF Mapped, Service!Next, Service!Move
  <2>. QED  BY <2>4, <2>5
<1>. QED  BY <1>2, <1>3

\* A handler that stays maps to a step or a stutter of the service.
LEMMA StayMapped ==
  ASSUME ImplInv, frames # <<>>, Top.phase = "run", power = "on", Stay,
         requested' # requested =>
           /\ requested' = None
           /\ requested = mode \/ mode = "USB"
                \/ (requested \in Modes \ {"SLEEP"} /\ mode # "SLEEP")
  PROVE  Mapped
BY EndMapped DEF Stay

\* The start of an Init maps to a departure of the service from SLEEP.
LEMMA EnterMapped ==
  ASSUME ImplInv, frames # <<>>, Top.phase = "run", power = "on", Top.old = "SLEEP",
         NEW m \in Modes \ {"SLEEP"}, BeginInit(m),
         requested' # requested => requested' = None /\ requested = m
  PROVE  Mapped
<1>. DEFINE f == [Top EXCEPT !.phase = "op", !.next = m]
<1>1. mode = "SLEEP" /\ MovingTo = None /\ UNCHANGED <<mode, terminal, power>>
      /\ frames' = SetTop(f)
  BY MovingAtRest DEF ImplInv, StackInv, BeginInit
<1>2. f \in Frame /\ f.phase = "op" /\ f.next = m
  BY OpFrameType DEF ImplInv
<1>. HIDE DEF f
<1>3. MovingTo' = m
  BY <1>1, <1>2, MovingAfterSetTop DEF ImplInv
<1>4. Pending' = Pending \/ (Pending = m /\ Pending' = None)
  BY <1>1 DEF Pending, ImplInv, RequestInv
<1>5. Service!Enter(m)
  BY <1>1, <1>3, <1>4 DEF Service!Enter, Pending
<1>. QED  BY <1>5 DEF Mapped, Service!Next, Service!Move

\* The start of a DeInit maps to a departure of the service to SLEEP.
LEMMA LeaveMapped ==
  ASSUME ImplInv, frames # <<>>, Top.phase = "run", power = "on", Top.old # "SLEEP",
         BeginDeInit, requested' = requested
  PROVE  Mapped
<1>. DEFINE f == [Top EXCEPT !.phase = "op", !.next = "SLEEP"]
<1>1. mode # "SLEEP" /\ MovingTo = None /\ UNCHANGED <<mode, terminal, power>>
      /\ frames' = SetTop(f)
  BY MovingAtRest DEF ImplInv, StackInv, BeginDeInit
<1>2. f \in Frame /\ f.phase = "op" /\ f.next = "SLEEP"
  BY Names, OpFrameType DEF ImplInv
<1>. HIDE DEF f
<1>3. MovingTo' = "SLEEP"
  BY <1>1, <1>2, MovingAfterSetTop DEF ImplInv
<1>4. Service!Leave
  BY <1>1, <1>3 DEF Service!Leave
<1>. QED  BY <1>4 DEF Mapped, Service!Next, Service!Move

\* Every handler maps to a step or a stutter of the service.
LEMMA HandlerMapped ==
  ASSUME ImplInv, Handler
  PROVE  Mapped
<1>0. /\ frames # <<>> /\ Top.phase = "run" /\ power = "on" /\ mode = Top.old
      /\ requested \in Modes \cup {None} /\ requested # "USB"
  BY HandlerShape DEF ImplInv, StackInv, TypeOK, ServiceInv
<1>1. {"PAIRING", "USB", "CONFIG"} \cup ActiveModes \cup HoldModes \cup ShortModes
        \subseteq Modes \ {"SLEEP"}
  BY ActiveModesAssumption DEF Modes, HoldModes, ShortModes
<1>2. CASE SleepPressed \/ HoldPressed \/ HoldReleased \/ Ignored
  BY <1>0, <1>2, StayMapped DEF SleepPressed, HoldPressed, HoldReleased, Ignored
<1>3. CASE SleepReleased
  BY <1>0, <1>1, <1>3, StayMapped, EnterMapped DEF SleepReleased, Handling
<1>4. CASE SleepTimer
  <2>1. CASE Stay
    BY <1>0, <1>4, <2>1, StayMapped DEF SleepTimer
  <2>2. ASSUME NEW m \in ActiveModes \cup {"CONFIG"}, BeginInit(m) PROVE Mapped
    BY <1>0, <1>1, <1>4, <2>2, EnterMapped DEF SleepTimer, Handling
  <2>. QED  BY <1>4, <2>1, <2>2 DEF SleepTimer
<1>5. CASE SleepVbusHigh
  BY <1>0, <1>1, <1>5, EnterMapped DEF SleepVbusHigh, Handling
<1>6. CASE EnterRequestedState
  <2>1. Top.old = "SLEEP" /\ requested' = None
    BY <1>6 DEF EnterRequestedState, Handling
  <2>2. CASE requested \in HoldModes \cup ShortModes
    <3>1. BeginInit(requested)
      BY <1>6, <2>2 DEF EnterRequestedState
    <3>. QED  BY <1>0, <1>1, <2>1, <2>2, <3>1, EnterMapped
  <2>3. CASE requested \notin HoldModes \cup ShortModes
    <3>1. Stay
      BY <1>6, <2>3 DEF EnterRequestedState
    <3>2. requested \in {"SLEEP", None}
      BY <1>0, <2>3 DEF Modes
    <3>. QED  BY <1>0, <2>1, <3>1, <3>2, StayMapped
  <2>. QED  BY <2>2, <2>3
<1>7. CASE HoldTimer \/ ShortExit \/ LeaveOnTerminal \/ UsbVbusLow
  BY <1>0, <1>1, <1>7, LeaveMapped
     DEF HoldTimer, ShortExit, LeaveOnTerminal, UsbVbusLow, Handling
<1>8. CASE LeaveOnRequest
  <2>1. Top.old # "SLEEP"
    BY <1>1, <1>8 DEF LeaveOnRequest, Handling
  <2>2. CASE requested = "SLEEP"
    BY <1>0, <1>8, <2>1, <2>2, LeaveMapped DEF LeaveOnRequest
  <2>3. CASE requested # "SLEEP"
    BY <1>0, <1>8, <2>1, <2>3, StayMapped DEF LeaveOnRequest
  <2>. QED  BY <2>2, <2>3
<1>9. CASE UsbDropsRequest
  BY <1>0, <1>9, StayMapped DEF UsbDropsRequest, Handling
<1>10. CASE UsbDropsTerminal
  BY <1>0, <1>10, EndMapped DEF UsbDropsTerminal, Handling
<1>. QED  BY <1>2, <1>3, <1>4, <1>5, <1>6, <1>7, <1>8, <1>9, <1>10 DEF Handler

\* The end of an Init or a DeInit maps to an arrival of the service.
LEMMA FinishMapped ==
  ASSUME ImplInv, FinishOp
  PROVE  Mapped
<1>1. /\ frames # <<>> /\ Top.phase = "op" /\ power = "on" /\ mode' = Top.next
      /\ requested' = IF Top.next = "SLEEP" /\ Top.event = "REQUEST_STATE"
                      THEN None ELSE requested
      /\ EndIteration(Top.next, terminal)
  BY FinishOpEffect DEF ImplInv
<1>2. MovingTo = Top.next /\ MovingTo # None
  BY <1>1, TopType, Names DEF MovingTo, ImplInv, Frame
<1>3. /\ requested' # requested => MovingTo = "SLEEP" /\ requested = "SLEEP" /\ requested' = None
      /\ requested = None \/ terminal = None
  BY <1>1, <1>2 DEF ImplInv, ServiceInv, Leaving, RequestInv
<1>4. terminal \in Terminals \cup {None} /\ requested \in Modes \cup {None}
  BY DEF ImplInv, TypeOK
<1>5. CASE terminal # None /\ mode' = "SLEEP"
  <2>1. terminal' = None /\ power' = terminal /\ frames' = <<>>
    BY <1>1, <1>5 DEF EndIteration
  <2>2. MovingTo' = None
    BY <2>1 DEF MovingTo
  <2>3. requested' = None
    BY <1>3, <1>5
  <2>4. power' # "on" /\ Pending = terminal /\ Pending \in Terminals /\ Pending' = None
    BY <1>4, <1>5, <2>1, <2>3, Names DEF Pending
  <2>5. Service!Arrive
    BY <1>1, <1>2, <1>5, <2>2, <2>4 DEF Service!Arrive, Pending
  <2>. QED  BY <2>5 DEF Mapped, Service!Next, Service!Move
<1>6. CASE ~(terminal # None /\ mode' = "SLEEP")
  <2>1. frames' = SetTop(LoopFrame) /\ UNCHANGED <<terminal, power>>
    BY <1>1, <1>6 DEF EndIteration
  <2>2. MovingTo' = None
    BY <1>1, <2>1, LoopFrameType, MovingAfterSetTop DEF ImplInv, LoopFrame
  <2>3. Pending' = Pending \/ (Pending = MovingTo /\ Pending' = None)
    BY <1>3, <2>1 DEF Pending
  <2>4. ~(MovingTo = "SLEEP" /\ Pending \in Terminals)
    BY <1>1, <1>2, <1>4, <1>6, Names DEF Pending
  <2>5. Service!Arrive
    BY <1>1, <1>2, <2>1, <2>2, <2>3, <2>4 DEF Service!Arrive, Pending
  <2>. QED  BY <2>5 DEF Mapped, Service!Next, Service!Move
<1>. QED  BY <1>5, <1>6

\* FS_Mode_RequestState maps to a request or a stutter of the service.
LEMMA RequestMapped ==
  ASSUME ImplInv, Request
  PROVE  Mapped
<1>1. ASSUME NEW m \in Requestable \cap Modes, RequestState(m) PROVE Mapped
  <2>1. /\ power = "on" /\ requested = None /\ terminal = None /\ requested' = m
        /\ m # "USB" /\ mode # "USB" /\ "SLEEP" \in {mode, m}
        /\ UNCHANGED <<mode, terminal, frames, power>>
    BY <1>1 DEF RequestState, HasPendingRequest, StateRequestAllowed
  <2>2. MovingTo' = MovingTo
    BY <2>1 DEF MovingTo, Top
  <2>3. Service!Accept(m)
    BY <2>1, <2>2 DEF Service!Accept, Service!Acceptable
  <2>. QED  BY <2>3 DEF Mapped, Service!Next
<1>2. ASSUME NEW a \in Requestable \cap Terminals, RequestTerminalAction(a) PROVE Mapped
  <2>1. /\ power = "on" /\ requested = None /\ terminal = None /\ terminal' = a
        /\ mode # "USB" /\ a # None /\ UNCHANGED <<mode, requested, frames, power>>
    BY <1>2, Names DEF RequestTerminalAction, HasPendingRequest
  <2>2. MovingTo' = MovingTo
    BY <2>1 DEF MovingTo, Top
  <2>3. Service!Accept(a)
    BY <2>1, <2>2 DEF Service!Accept, Service!Acceptable
  <2>. QED  BY <2>3 DEF Mapped, Service!Next
<1>. QED  BY <1>1, <1>2 DEF Request

\* The loop of FS_Mode_Update maps to stutters of the service.
LEMMA LoopMapped ==
  ASSUME MaxNesting = 1, ImplInv, StartUpdate \/ PopQueue \/ ReturnUpdate
  PROVE  Mapped
<1>0. frames \in Seq(Frame) /\ Len(frames) <= 1
  BY DEF ImplInv, TypeOK
<1>1. UNCHANGED <<mode, terminal, requested, power>>
  BY DEF StartUpdate, PopQueue, ReturnUpdate, requestVars
<1>2. CASE StartUpdate
  <2>1. frames = <<>> /\ frames' = Append(frames, LoopFrame)
    BY <1>0, <1>2 DEF StartUpdate
  <2>2. MovingTo = None /\ MovingTo' = None
    BY <2>1 DEF MovingTo, Top, Last, LoopFrame
  <2>. QED  BY <1>1, <2>2, Stutter
<1>3. CASE PopQueue
  <2>. DEFINE f == [phase |-> "run", old |-> mode, event |-> Head(queue), next |-> mode]
  <2>1. frames # <<>> /\ Top.phase = "loop" /\ frames' = SetTop(f) /\ f \in Frame
        /\ f.phase = "run"
    BY <1>3 DEF PopQueue, Looping, ImplInv, TypeOK, Frame
  <2>. HIDE DEF f
  <2>2. MovingTo = None /\ MovingTo' = None
    BY <2>1, MovingAfterSetTop, MovingAtRest DEF ImplInv
  <2>. QED  BY <1>1, <2>2, Stutter
<1>4. CASE ReturnUpdate
  <2>1. frames # <<>> /\ Top.phase = "loop" /\ frames' = Front(frames)
    BY <1>4 DEF ReturnUpdate, Looping
  <2>2. frames' = <<>>
    BY <1>0, <1>4, <2>1, FrontIsPrefix, LoopType DEF TypeOK, ImplInv
  <2>3. MovingTo = None /\ MovingTo' = None
    BY <2>1, <2>2 DEF MovingTo
  <2>. QED  BY <1>1, <2>3, Stutter
<1>. QED  BY <1>2, <1>3, <1>4

\* An interrupt that pushes an event is a stutter of the service.
LEMMA InterruptMapped ==
  ASSUME Interrupt
  PROVE  Mapped
<1>1. UNCHANGED <<mode, terminal, requested, power, frames>>
  BY DEF Interrupt, ButtonEvent, HoldTimerExpires, VbusChanges, VbusTriggered,
         ForceUpdate, requestVars
<1>2. MovingTo' = MovingTo
  BY <1>1 DEF MovingTo, Top
<1>. QED  BY <1>1, <1>2, Stutter

\* A boot maps to a boot of the service.
LEMMA BootMapped ==
  ASSUME Boot
  PROVE  Mapped
<1>1. /\ power # "on" /\ power' = "on" /\ mode' = "SLEEP" /\ requested' = None
      /\ terminal' = None /\ frames' = <<>>
  BY DEF Boot
<1>2. MovingTo' = None
  BY <1>1 DEF MovingTo
<1>3. Service!Boot
  BY <1>1, <1>2 DEF Service!Boot
<1>. QED  BY <1>3 DEF Mapped, Service!Next

\* What mode.c promises: one mode at a time, changed by way of SLEEP, at most one
\* request, answered or discarded for cause, a reset out of SLEEP only.
THEOREM ServiceImplemented ==
  ASSUME MaxNesting = 1
  PROVE  Spec => ServiceSpec
<1>1. Init => Service!Init
  <2>1. Init => MovingTo = None
    BY DEF Init, MovingTo
  <2>. QED  BY <2>1 DEF Init, Service!Init
<1>2. Init => StackInv /\ RequestInv /\ ServiceInv
  BY DEF Init, StackInv, RequestInv, ServiceInv, None
<1>3. ImplInv /\ [Next]_vars => (StackInv /\ RequestInv /\ ServiceInv)'
  <2>1. ASSUME ImplInv, UNCHANGED vars PROVE (StackInv /\ RequestInv /\ ServiceInv)'
    BY <2>1 DEF vars, requestVars, ImplInv, StackInv, RequestInv, ServiceInv, Served,
                InQueue, Leaving, Top
  <2>2. ASSUME ImplInv, Next PROVE (StackInv /\ RequestInv /\ ServiceInv)'
    BY <2>2, StackStep, PushersRequests, LoopRequests, HandlerRequestInv,
       FinishRequestInv, ServiceInvStep DEF ImplInv, Next, ModeTask
  <2>. QED  BY <2>1, <2>2
<1>4. ImplInv /\ [Next]_vars => Mapped
  <2>1. ASSUME UNCHANGED vars PROVE Mapped
    <3>1. UNCHANGED <<mode, terminal, requested, power, frames>>
      BY <2>1 DEF vars, requestVars
    <3>2. MovingTo' = MovingTo
      BY <3>1 DEF MovingTo, Top
    <3>. QED  BY <3>1, <3>2, Stutter
  <2>. QED  BY <2>1, HandlerMapped, FinishMapped, RequestMapped, LoopMapped,
               InterruptMapped, BootMapped DEF Next, ModeTask
<1>. QED  BY <1>1, <1>2, <1>3, <1>4, TypeCorrect, PTL
          DEF Spec, ImplInv, Mapped, ServiceSpec, Service!Spec

=============================================================================
