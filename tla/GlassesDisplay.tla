--------------------------- MODULE GlassesDisplay ---------------------------
(***************************************************************************)
(* The pictures on the ActiveLook glasses: frames of activelook_mode0.c,     *)
(* built and drained by the display task of activelook.c, under the flow    *)
(* control and the watchdogs of activelook_client.c.  A frame begins with a *)
(* HOLD and ends with a FLUSH: between them the glasses show the picture of *)
(* before.                                                                 *)
(*                                                                         *)
(* A packet waits for the answer of the controller.  Meanwhile the HCI task *)
(* is paused and the mode task may leave ACTIVE.  How a link comes about,   *)
(* and how it is asked to end, is in GlassesLink.                           *)
(***************************************************************************)
EXTENDS Integers, Sequences

CONSTANTS FramePkts,  \* packets of a frame, its HOLD and its FLUSH included
          FailLimit,  \* the failed writes in a row that drop the link
          MaxEvents   \* bound: notifications that wait for the HCI task

ASSUME FrameAssumption == FramePkts \in Nat /\ FramePkts > 1
ASSUME LimitAssumption == FailLimit \in Nat \ {0} /\ MaxEvents \in Nat \ {0}

VARIABLES
  state,   \* of activelook.c
  left,    \* packets of the frame that are not sent (s_frameCount - s_frameIdx)
  client,  \* linkUp, flow (lastCtrlByte, and for how long), fails
           \* (writeFailStreak), terminating
  task,    \* the display task is set
  last,    \* the task that ran last: the sequencer takes them in turn
  call,    \* what the display task waits for the answer of
  link,    \* of the radio: "down", "up", "ending"
  full,    \* its TX pool has no room
  events,  \* notifications of CB9 and of the radio, in the queue of the HCI task
  held     \* the glasses: between a HOLD and a FLUSH

hud  == <<state, left, client>>
peer == <<link, full, held>>
vars == <<hud, task, last, call, peer, events>>

Writes == {"clear", "drain", "update", "draw"}

TypeOK ==
  /\ state \in {"INIT", "CLEAR", "READY", "UPDATE"}
  /\ left \in 0 .. FramePkts
  /\ client \in [linkUp : BOOLEAN, flow : {"ok", "stop", "stuck"},
                 fails : 0 .. FailLimit, terminating : BOOLEAN]
  /\ task \in BOOLEAN /\ last \in {"HCI", "HUD"}
  /\ call \in Writes \cup {"none", "terminate"}
  /\ link \in {"down", "up", "ending"} /\ full \in BOOLEAN /\ held \in BOOLEAN
  /\ events \in Seq({"resume", "stop", "pool", "closed"})

\* FS_ActiveLook_Client_OnDisconnect, FS_ActiveLook_Client_StartDiscovery
Cleared(up) == [linkUp |-> up, flow |-> "ok", fails |-> 0, terminating |-> FALSE]

Init ==
  /\ state = "INIT" /\ left = 0 /\ client = Cleared(FALSE)
  /\ task = FALSE /\ last = "HUD" /\ call = "none"
  /\ link = "down" /\ full = FALSE /\ held = FALSE /\ events = <<>>

CanSend == client.linkUp /\ client.flow = "ok"
Wedged  == (client.linkUp /\ client.flow = "stuck") \/ client.fails >= FailLimit
-----------------------------------------------------------------------------
(* The HCI task.                                                            *)

HciTurn == call = "none" /\ (~task \/ last = "HUD") /\ last' = "HCI"
Event(e) == events # <<>> /\ Head(events) = e /\ HciTurn /\ events' = Tail(events)

\* OnActiveLookDiscoveryComplete: FS_ActiveLook_Mode0_Init discards the frame that an
\* earlier link has left over.
LinkReady ==
  /\ link = "down" /\ events = <<>> /\ HciTurn
  /\ state' = "CLEAR" /\ left' = 0 /\ task' = TRUE
  /\ client' = Cleared(TRUE)
  /\ link' = "up"
  /\ UNCHANGED <<call, full, held, events>>

\* FS_ActiveLook_OnFlowResume, FS_ActiveLook_TxPoolAvailable
Wake == task' = (task \/ left > 0)

Resumed ==
  /\ Event("resume") /\ Wake
  /\ client' = IF client.linkUp THEN [client EXCEPT !.flow = "ok"] ELSE client
  /\ UNCHANGED <<state, left, call, peer>>

PoolAvailable == Event("pool") /\ Wake /\ UNCHANGED <<hud, call, peer>>

Stopped ==
  /\ Event("stop")
  /\ client' = IF client.linkUp /\ client.flow = "ok"
               THEN [client EXCEPT !.flow = "stop"] ELSE client
  /\ UNCHANGED <<state, left, task, call, peer>>

Closed ==
  /\ Event("closed")
  /\ state' = "INIT" /\ client' = Cleared(FALSE)
  /\ UNCHANGED <<left, task, call, peer>>

HciTask == Resumed \/ PoolAvailable \/ Stopped \/ Closed
-----------------------------------------------------------------------------
(* The mode task and the timer.                                             *)

\* FS_ActiveLook_DeInit: the link is asked to end.  (An answer may still make the display
\* READY, but its link ends all the same.)
Leave ==
  /\ link = "up" /\ state' = "INIT" /\ link' = "ending"
  /\ UNCHANGED <<left, client, task, last, call, full, held, events>>

\* FS_ActiveLook_Timer, which runs when the display is READY
Tick ==
  /\ state = "READY" /\ state' = "UPDATE" /\ task' = TRUE
  /\ UNCHANGED <<left, client, last, call, peer, events>>
-----------------------------------------------------------------------------
(* FS_ActiveLook_Task.                                                      *)

Runs(s) == /\ call = "none" /\ task /\ state = s
           /\ task' = FALSE /\ last' = "HUD" /\ UNCHANGED <<peer, events>>

Idle == Runs("INIT") /\ UNCHANGED <<hud, call>>

Clear ==
  /\ Runs("CLEAR") /\ UNCHANGED <<left, client>>
  /\ IF CanSend THEN call' = "clear" /\ UNCHANGED state
                ELSE state' = "READY" /\ UNCHANGED call

\* FS_ActiveLook_Mode0_DrainFrame
DrainFrame ==
  /\ Runs("READY") /\ UNCHANGED hud
  /\ call' = IF left > 0 /\ CanSend THEN "drain" ELSE "none"

\* FS_ActiveLook_Client_ForceDisconnect, asked for once
Watchdog ==
  /\ Wedged /\ UNCHANGED <<left, client>>
  /\ IF client.terminating THEN state' = "READY" /\ UNCHANGED call
     ELSE call' = "terminate" /\ UNCHANGED state

\* Fault: a tick that may not send leaves the display in UPDATE.
DeferredDeaf == ~Wedged /\ ~CanSend /\ UNCHANGED <<hud, call>>

Deferred == ~Wedged /\ ~CanSend /\ state' = "READY" /\ UNCHANGED <<left, client, call>>

\* The values have changed, and a new frame is built; or they have not.
Draw ==
  \/ left' = FramePkts /\ call' = "draw" /\ UNCHANGED state
  \/ left' = 0 /\ call' = "none" /\ state' = "READY"

\* Fault: the frame on its way is given up for a new one.
RedrawAnew == ~Wedged /\ CanSend /\ Draw /\ UNCHANGED client

\* FS_ActiveLook_Mode0_Update: first the frame that is on its way.
Redraw ==
  /\ ~Wedged /\ CanSend /\ UNCHANGED client
  /\ \/ left > 0 /\ call' = "update" /\ UNCHANGED <<state, left>>
     \/ left = 0 /\ Draw

Update == Runs("UPDATE") /\ (Watchdog \/ Deferred \/ Redraw)

HudTask == Idle \/ Clear \/ DrainFrame \/ Update
-----------------------------------------------------------------------------
(* Answers of the controller.                                               *)

\* Fault: the count of failed writes has no cap.
FailedUncapped(c) == [c EXCEPT !.fails = @ + 1]

\* The cap of the code is 65535; beyond FailLimit nothing changes.
Failed(c) == [c EXCEPT !.fails = IF @ < FailLimit THEN @ + 1 ELSE @]

ClearAnswered ==
  /\ call = "clear" /\ call' = "none" /\ state' = "READY"
  /\ \/ link # "down" /\ client' = [client EXCEPT !.fails = 0] /\ UNCHANGED full
     \/ /\ client' = Failed(client)
        /\ full' = (link # "down")
  /\ UNCHANGED <<left, task, last, link, held, events>>

\* What is left of the frame is sent, packet after packet.
PacketTaken ==
  /\ call \in Writes \ {"clear"} /\ link # "down" /\ ~full
  /\ client' = [client EXCEPT !.fails = 0]
  /\ held' = (left > 1)
  /\ \/ left > 1 /\ left' = left - 1 /\ UNCHANGED <<state, call>>
     \/ left = 1 /\ call = "drain" /\ left' = 0 /\ call' = "none" /\ UNCHANGED state
     \/ left = 1 /\ call = "draw" /\ left' = 0 /\ call' = "none" /\ state' = "READY"
     \/ left = 1 /\ call = "update" /\ Draw
  /\ UNCHANGED <<task, last, link, full, events>>

\* The pool is full, and an event will say when it is not; or there is another reason.
PacketRefused ==
  /\ call \in Writes \ {"clear"} /\ call' = "none"
  /\ client' = Failed(client)
  /\ full' \in {full, link # "down"}
  /\ state' = IF call = "drain" THEN state ELSE "READY"
  /\ UNCHANGED <<left, task, last, link, held, events>>

TerminateTaken ==
  /\ call = "terminate" /\ call' = "none" /\ state' = "READY" /\ link # "down"
  /\ client' = [client EXCEPT !.terminating = TRUE, !.fails = 0]
  /\ link' = "ending"
  /\ UNCHANGED <<left, task, last, full, held, events>>

TerminateRefused ==
  /\ call = "terminate" /\ call' = "none" /\ state' = "READY"
  /\ UNCHANGED <<left, client, task, last, peer, events>>

Answered == ClearAnswered \/ PacketTaken \/ PacketRefused \/ TerminateTaken \/ TerminateRefused
-----------------------------------------------------------------------------
(* The radio and the glasses.                                               *)

Sends(e) == events' = Append(events, e)
Room == Len(events) < MaxEvents

Notifies ==
  /\ Room /\ link # "down" /\ (Sends("resume") \/ Sends("stop"))
  /\ UNCHANGED <<hud, task, last, call, peer>>

PoolFrees ==
  /\ Room /\ full /\ full' = FALSE /\ Sends("pool")
  /\ UNCHANGED <<hud, task, last, call, link, held>>

LinkEnds ==
  /\ link # "down" /\ link' = "down" /\ full' = FALSE /\ held' = FALSE /\ Sends("closed")
  /\ UNCHANGED <<hud, task, last, call>>

\* FS_ActiveLook_Client_StopStuckMs passes 6 s.
StopLasts ==
  /\ client.flow = "stop" /\ client' = [client EXCEPT !.flow = "stuck"]
  /\ UNCHANGED <<state, left, task, last, call, peer, events>>
-----------------------------------------------------------------------------
Next == \/ LinkReady \/ HciTask \/ Leave \/ Tick \/ HudTask \/ Answered
        \/ Notifies \/ PoolFrees \/ LinkEnds \/ StopLasts

Spec == Init /\ [][Next]_vars

\* The tasks that are set run, the timer expires, commands are answered, a link that was
\* asked to end ends, a terminate is not refused for ever.
Fairness ==
  /\ WF_vars(HciTask) /\ WF_vars(HudTask) /\ WF_vars(Answered) /\ WF_vars(Tick)
  /\ WF_vars(StopLasts) /\ WF_vars(link = "ending" /\ LinkEnds)
  /\ SF_vars(TerminateTaken)

FairSpec == Spec /\ Fairness
-----------------------------------------------------------------------------
\* No HOLD inside a HOLD: the glasses are held exactly as long as a frame is on its way,
\* whatever is refused, stopped or left in the middle of it.  (activelook_mode0.c:750)
HoldIsBalanced == link # "down" => (held <=> left \in 1 .. FramePkts - 1)

\* Glasses that are held show the picture in the end, or lose their link.
\* (activelook.c:489, activelook_mode0.c:1004)
HeldDisplayShown == held ~> ~held

\* Glasses that have stopped for good, or cannot be written to, lose their link or
\* recover: the watchdogs are never deaf.  (activelook.c:345, :360)
WedgedLinkDrops == (link = "up" /\ Wedged) ~> (link # "up" \/ ~Wedged)
=============================================================================
