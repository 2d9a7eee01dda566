------------------------ MODULE GlassesDisplay_proofs ------------------------
(***************************************************************************)
(* Proofs about GlassesDisplay: its types, and that a HOLD is always        *)
(* answered by the FLUSH of its frame, for frames of any length and any     *)
(* limit of failed writes.                                                 *)
(***************************************************************************)
EXTENDS GlassesDisplay, SequenceTheorems, TLAPS

Notes == {"resume", "stop", "pool", "closed"}

\* The queue of the HCI task keeps its type.
LEMMA QueueTyped ==
  ASSUME events \in Seq(Notes), NEW e \in Notes
  PROVE  /\ Append(events, e) \in Seq(Notes)
         /\ events # <<>> => Tail(events) \in Seq(Notes)
<1>1. Append(events, e) \in Seq(Notes)
  BY AppendProperties
<1>2. events # <<>> => Tail(events) \in Seq(Notes)
  BY HeadTailProperties
<1> QED BY <1>1, <1>2

\* An event of the queue is taken.
LEMMA EventTyped ==
  ASSUME events \in Seq(Notes), NEW e \in Notes, Event(e)
  PROVE  events' \in Seq(Notes) /\ last' = "HCI"
BY QueueTyped DEF Event, HciTurn, Notes

\* An event of the radio is queued.
LEMMA SendTyped ==
  ASSUME events \in Seq(Notes), NEW e \in Notes, Sends(e)
  PROVE  events' \in Seq(Notes)
BY QueueTyped DEF Sends

Clients == [linkUp : BOOLEAN, flow : {"ok", "stop", "stuck"},
            fails : 0 .. FailLimit, terminating : BOOLEAN]

\* Failed writes are counted up to the limit.
LEMMA FailedTyped ==
  ASSUME NEW c \in Clients
  PROVE  Failed(c) \in Clients /\ [c EXCEPT !.fails = 0] \in Clients
BY LimitAssumption DEF Failed, Clients

\* Building a frame, or none, keeps the types.
LEMMA DrawTyped ==
  ASSUME Draw, state \in {"INIT", "CLEAR", "READY", "UPDATE"}
  PROVE  /\ left' \in {0, FramePkts} /\ call' \in {"draw", "none"}
         /\ state' \in {"INIT", "CLEAR", "READY", "UPDATE"}
BY DEF Draw

\* The initial state has its type.
LEMMA TypeInit == Init => TypeOK
<1> SUFFICES ASSUME Init PROVE TypeOK OBVIOUS
<1>1. events \in Seq({"resume", "stop", "pool", "closed"})
  BY EmptySeq DEF Init
<1>2. client \in [linkUp : BOOLEAN, flow : {"ok", "stop", "stuck"},
                  fails : 0 .. FailLimit, terminating : BOOLEAN]
  BY LimitAssumption DEF Init, Cleared
<1>3. left \in 0 .. FramePkts
  BY FrameAssumption DEF Init
<1> QED BY <1>1, <1>2, <1>3 DEF Init, TypeOK

\* Every step keeps the state in its type.
LEMMA TypeStep == TypeOK /\ [Next]_vars => TypeOK'
<1> SUFFICES ASSUME TypeOK, [Next]_vars PROVE TypeOK'
  OBVIOUS
<1> USE DEF Writes
<1>t. /\ state \in {"INIT", "CLEAR", "READY", "UPDATE"} /\ left \in 0 .. FramePkts
      /\ client \in Clients /\ events \in Seq(Notes) /\ task \in BOOLEAN
      /\ last \in {"HCI", "HUD"} /\ call \in Writes \cup {"none", "terminate"}
      /\ link \in {"down", "up", "ending"} /\ full \in BOOLEAN /\ held \in BOOLEAN
  BY DEF TypeOK, Clients, Notes
<1>g. SUFFICES
        /\ state' \in {"INIT", "CLEAR", "READY", "UPDATE"} /\ left' \in 0 .. FramePkts
        /\ client' \in Clients /\ events' \in Seq(Notes) /\ task' \in BOOLEAN
        /\ last' \in {"HCI", "HUD"} /\ call' \in Writes \cup {"none", "terminate"}
        /\ link' \in {"down", "up", "ending"} /\ full' \in BOOLEAN /\ held' \in BOOLEAN
  BY DEF TypeOK, Clients, Notes
<1>c. \A up \in BOOLEAN : Cleared(up) \in Clients
  BY LimitAssumption DEF Cleared, Clients
<1>z. 0 \in 0 .. FramePkts /\ FramePkts \in 0 .. FramePkts
  BY FrameAssumption
<1>1. CASE LinkReady
  BY <1>1, <1>t, <1>c, <1>z DEF LinkReady, HciTurn
<1>2. CASE Resumed
  <2>1. events' \in Seq(Notes) /\ last' = "HCI"
    BY <1>2, <1>t, EventTyped DEF Resumed, Notes
  <2>2. client' \in Clients
    BY <1>2, <1>t DEF Resumed, Clients
  <2>3. task' \in BOOLEAN
    BY <1>2 DEF Resumed, Wake
  <2> QED BY <1>2, <1>t, <2>1, <2>2, <2>3 DEF Resumed, peer
<1>3. CASE PoolAvailable
  <2>1. events' \in Seq(Notes) /\ last' = "HCI"
    BY <1>3, <1>t, EventTyped DEF PoolAvailable, Notes
  <2>2. task' \in BOOLEAN
    BY <1>3 DEF PoolAvailable, Wake
  <2> QED BY <1>3, <1>t, <2>1, <2>2 DEF PoolAvailable, hud, peer
<1>4. CASE Stopped
  <2>1. events' \in Seq(Notes) /\ last' = "HCI"
    BY <1>4, <1>t, EventTyped DEF Stopped, Notes
  <2>2. client' \in Clients
    BY <1>4, <1>t DEF Stopped, Clients
  <2> QED BY <1>4, <1>t, <2>1, <2>2 DEF Stopped, peer
<1>5. CASE Closed
  <2>1. events' \in Seq(Notes) /\ last' = "HCI"
    BY <1>5, <1>t, EventTyped DEF Closed, Notes
  <2> QED BY <1>5, <1>t, <1>c, <2>1 DEF Closed, peer
<1>6. CASE Leave
  BY <1>6, <1>t DEF Leave
<1>7. CASE Tick
  BY <1>7, <1>t DEF Tick, peer
<1>8. CASE Idle \/ Clear \/ DrainFrame
  BY <1>8, <1>t DEF Idle, Clear, DrainFrame, Runs, hud, peer
<1>9. CASE Update
  <2>1. events' \in Seq(Notes) /\ task' \in BOOLEAN /\ last' = "HUD" /\ UNCHANGED peer
    BY <1>9, <1>t DEF Update, Runs
  <2>2. CASE Watchdog
    BY <1>9, <1>t, <2>1, <2>2 DEF Watchdog, peer
  <2>3. CASE Deferred
    BY <1>9, <1>t, <2>1, <2>3 DEF Deferred, peer, Update, Runs
  <2>4. CASE Redraw
    BY <1>9, <1>t, <1>z, <2>1, <2>4, DrawTyped DEF Redraw, peer
  <2> QED BY <1>9, <2>2, <2>3, <2>4 DEF Update
<1>10. CASE ClearAnswered
  BY <1>10, <1>t, FailedTyped DEF ClearAnswered
<1>11. CASE PacketTaken
  <2>1. client' \in Clients /\ held' \in BOOLEAN
    BY <1>11, <1>t, FailedTyped DEF PacketTaken
  <2>2. left' \in 0 .. FramePkts /\ state' \in {"INIT", "CLEAR", "READY", "UPDATE"}
        /\ call' \in Writes \cup {"none", "terminate"}
    BY <1>11, <1>t, <1>z, DrawTyped DEF PacketTaken
  <2> QED BY <1>11, <1>t, <2>1, <2>2 DEF PacketTaken
<1>12. CASE PacketRefused
  <2>1. client' \in Clients
    BY <1>12, <1>t, FailedTyped DEF PacketRefused
  <2>2. state' \in {"INIT", "CLEAR", "READY", "UPDATE"} /\ full' \in BOOLEAN
    BY <1>12, <1>t DEF PacketRefused
  <2> QED BY <1>12, <1>t, <2>1, <2>2 DEF PacketRefused
<1>13. CASE TerminateTaken
  <2>1. client' \in Clients
    <3>1. 0 \in 0 .. FailLimit
      BY LimitAssumption
    <3> QED BY <1>13, <1>t, <3>1 DEF TerminateTaken, Clients
  <2> QED BY <1>13, <1>t, <2>1 DEF TerminateTaken
<1>14. CASE TerminateRefused
  BY <1>14, <1>t DEF TerminateRefused, peer
<1>15. CASE Notifies
  <2>1. events' \in Seq(Notes)
    BY <1>15, <1>t, SendTyped DEF Notifies, Notes
  <2> QED BY <1>15, <1>t, <2>1 DEF Notifies, hud, peer
<1>16. CASE PoolFrees
  <2>1. events' \in Seq(Notes)
    BY <1>16, <1>t, SendTyped DEF PoolFrees, Notes
  <2> QED BY <1>16, <1>t, <2>1 DEF PoolFrees, hud
<1>17. CASE LinkEnds
  <2>1. events' \in Seq(Notes)
    BY <1>17, <1>t, SendTyped DEF LinkEnds, Notes
  <2> QED BY <1>17, <1>t, <2>1 DEF LinkEnds, hud
<1>18. CASE StopLasts
  <2>1. client' \in Clients
    BY <1>18, <1>t DEF StopLasts, Clients
  <2> QED BY <1>18, <1>t, <2>1 DEF StopLasts, peer
<1>19. CASE UNCHANGED vars
  BY <1>19, <1>t DEF vars, hud, peer
<1> QED
  BY <1>1, <1>2, <1>3, <1>4, <1>5, <1>6, <1>7, <1>8, <1>9, <1>10, <1>11, <1>12, <1>13,
     <1>14, <1>15, <1>16, <1>17, <1>18, <1>19 DEF Next, HciTask, HudTask, Answered

\* Every variable keeps its type.
THEOREM DisplayTypeCorrect == Spec => []TypeOK
BY TypeInit, TypeStep, PTL DEF Spec
-----------------------------------------------------------------------------
\* Glasses without a link are not held: the invariant is inductive with this.
HoldInv == HoldIsBalanced /\ (link = "down" => ~held)

\* Every step keeps HoldInv.
LEMMA HoldStep == TypeOK /\ HoldInv /\ [Next]_vars => HoldInv'
<1> SUFFICES ASSUME TypeOK, HoldInv, [Next]_vars PROVE HoldInv'
  OBVIOUS
<1> USE FrameAssumption
<1>t. left \in 0 .. FramePkts /\ FramePkts \in Nat /\ FramePkts > 1 /\ held \in BOOLEAN
  BY DEF TypeOK
<1>i. /\ link # "down" => (held <=> left \in 1 .. FramePkts - 1)
      /\ link = "down" => ~held
  BY DEF HoldInv, HoldIsBalanced
<1>g. SUFFICES /\ link' # "down" => (held' <=> left' \in 1 .. FramePkts - 1)
               /\ link' = "down" => ~held'
  BY DEF HoldInv, HoldIsBalanced
<1>1. CASE LinkReady
  BY <1>1, <1>t, <1>i DEF LinkReady
\* Steps that touch neither the frame nor the glasses.
<1>2. CASE UNCHANGED <<left, held, link>>
  BY <1>2, <1>i
<1>3. CASE Leave \/ TerminateTaken
  BY <1>3, <1>i DEF Leave, TerminateTaken
<1>4. CASE LinkEnds
  BY <1>4 DEF LinkEnds
<1>5. CASE Update
  <2>1. CASE Watchdog \/ Deferred
    BY <1>5, <2>1, <1>2 DEF Update, Runs, Watchdog, Deferred, peer
  <2>2. CASE Redraw
    <3>1. CASE left = 0
      BY <1>5, <2>2, <3>1, <1>t, <1>i DEF Update, Runs, Redraw, Draw, peer
    <3>2. CASE left # 0
      BY <1>5, <2>2, <3>2, <1>2, <1>t DEF Update, Runs, Redraw, peer
    <3> QED BY <3>1, <3>2
  <2> QED BY <1>5, <2>1, <2>2 DEF Update
\* A packet is sent: the first one holds, the last one shows.
<1>6. CASE PacketTaken
  <2>1. link' = link /\ link # "down" /\ (held' <=> left > 1)
    BY <1>6 DEF PacketTaken
  <2>2. CASE left > 1
    BY <1>6, <2>1, <2>2, <1>t DEF PacketTaken
  <2>3. CASE left = 1
    BY <1>6, <2>1, <2>3, <1>t DEF PacketTaken, Draw
  <2> QED BY <1>6, <2>2, <2>3 DEF PacketTaken
<1>7. CASE HciTask \/ Tick \/ Idle \/ Clear \/ DrainFrame \/ ClearAnswered
             \/ PacketRefused \/ TerminateRefused \/ Notifies \/ PoolFrees \/ StopLasts
             \/ UNCHANGED vars
  <2>1. UNCHANGED <<left, held, link>>
    BY <1>7 DEF HciTask, Resumed, PoolAvailable, Stopped, Closed, Tick, Idle, Clear,
       DrainFrame, Runs, ClearAnswered, PacketRefused, TerminateRefused, Notifies,
       PoolFrees, StopLasts, vars, hud, peer
  <2> QED BY <2>1, <1>2
<1> QED
  BY <1>1, <1>3, <1>4, <1>5, <1>6, <1>7 DEF Next, HudTask, Answered

\* No HOLD inside a HOLD, and no frame without its FLUSH, as long as the link lasts:
\* whatever is refused, stopped, left or drawn in between.  (activelook_mode0.c:750)
THEOREM HoldIsAlwaysBalanced == Spec => []HoldIsBalanced
<1>1. Init => HoldInv
  BY FrameAssumption DEF Init, HoldInv, HoldIsBalanced
<1>2. HoldInv => HoldIsBalanced
  BY DEF HoldInv
<1> QED
  BY <1>1, <1>2, HoldStep, DisplayTypeCorrect, PTL DEF Spec
=============================================================================
