--------------------------- MODULE DeviceControl ---------------------------
(***************************************************************************)
(* The deferred requests of FlySight/device_state.c.  A mode or terminal    *)
(* request written to the Device State control point is validated, answered *)
(* with a status, and handed to mode.c only later: when the indication of   *)
(* the answer completes, or when a fallback timer fires in an interrupt.    *)
(*                                                                          *)
(* Below is the mode machine, through what it promises (ModeService, which  *)
(* ModeControl implements); beside it the ring of BLE_TX_Queue, which       *)
(* carries the answers and the packets of everyone else.                    *)
(***************************************************************************)
EXTENDS Naturals, Sequences

CONSTANTS Modes, Terminals,  \* the modes and terminal actions
          RingLength,        \* FS_CRS_WINDOW_LENGTH, the slots of the TX ring
          MaxWrites          \* bound on the requests written in a behaviour

None  == "none"
NoReq == 0                   \* no request; requests are numbered from 1
Ids   == 1 .. MaxWrites

ASSUME RingLengthAssumption == RingLength \in Nat \ {0}
ASSUME MaxWritesAssumption  == MaxWrites \in Nat
ASSUME ModesAssumption      == {"SLEEP", "USB"} \subseteq Modes /\ None \notin Modes \cup Terminals

VARIABLES
  mode, moving, pending, up,  \* the mode machine (ModeService)
  writes,    \* requests written so far: the number of the last one
  deferred,  \* pending_request: [id, req, waits], id = NoReq when there is none
  timer,     \* response_timer_id is armed
  stopping,  \* ControlPointNotificationComplete is between its test and its run
  ring,      \* the TX ring: the request a packet answers, and if it calls back
  onAir,     \* answers the stack has taken and the central has not confirmed
  fate       \* of each request: what became of it

machineVars == <<mode, moving, pending, up>>
deferVars   == <<deferred, timer, stopping>>
radioVars   == <<ring, onAir>>
historyVars == <<writes, fate>>
vars == <<machineVars, deferVars, radioVars, historyVars>>

Machine == INSTANCE ModeService

Fates   == {"unwritten", "refused", "deferred", "running", "dropped", "lost"}
Waits   == {"tx", "completion", "timer"}
Free    == [id |-> NoReq, req |-> None, waits |-> "timer"]

TypeOK ==
  /\ mode \in Modes /\ moving \in Modes \cup {None}
  /\ pending \in Modes \cup Terminals \cup {None} /\ up \in BOOLEAN
  /\ writes \in 0 .. MaxWrites
  /\ deferred \in [id : {NoReq} \cup Ids, req : Modes \cup Terminals \cup {None}, waits : Waits]
  /\ timer \in BOOLEAN /\ stopping \in BOOLEAN
  /\ ring \in Seq([id : {NoReq} \cup Ids, callback : BOOLEAN]) /\ Len(ring) <= RingLength
  /\ onAir \in Seq(Ids)
  /\ fate \in [Ids -> Fates]
-----------------------------------------------------------------------------
(* The answer.                                                              *)

\* Fault: the ring is believed to have room.
SendPacketAlways(p) == ring' = Append(ring, p)

\* BLE_TX_Queue_SendTxPacket says nothing when the ring is full.
SendPacket(p) ==
  ring' = IF Len(ring) < RingLength THEN Append(ring, p) ELSE ring

\* validate_mode_request, validate_terminal_request: of the mode machine they
\* look at FS_Mode_State only, not at what it has pending.
Valid(r) ==
  /\ deferred.id = NoReq /\ mode # "USB"
  /\ r \in Terminals \/ (r \in Modes \ {"USB"} /\ "SLEEP" \in {mode, r})

\* DeviceState_Handle_DS_ControlPointWrite: a mode or terminal request, with the
\* indications of the control point enabled or not (a blind write).  r is None for
\* a query, which is answered and defers nothing, as a refused request does.
ControlPointWrite(r, indications) ==
  /\ up /\ ~stopping /\ writes < MaxWrites
  /\ LET id == writes + 1 IN
       /\ writes' = id
       /\ IF Valid(r)
          THEN /\ deferred' = [id |-> id, req |-> r,
                               waits |-> IF indications THEN "tx" ELSE "timer"]
               /\ timer' = TRUE
               /\ fate' = [fate EXCEPT ![id] = "deferred"]
          ELSE /\ fate' = [fate EXCEPT ![id] = "refused"]
               /\ UNCHANGED <<deferred, timer>>
       /\ IF indications THEN SendPacket([id |-> id, callback |-> Valid(r)])
                         ELSE UNCHANGED ring
  /\ UNCHANGED <<machineVars, stopping, onAir>>

\* A packet of another characteristic.
OtherPacket ==
  /\ up /\ ~stopping /\ Len(ring) < RingLength
  /\ SendPacket([id |-> NoReq, callback |-> FALSE])
  /\ UNCHANGED <<machineVars, deferVars, onAir, historyVars>>

\* response_tx_accepted, the callback of the answer to SOME request.
TxAccepted ==
  deferred' = IF deferred.id # NoReq /\ deferred.waits = "tx"
              THEN [deferred EXCEPT !.waits = "completion"] ELSE deferred

\* BLE_TX_Queue_Transmit: the stack takes the head of the ring, or refuses it with
\* an error other than a lack of buffers; the packet is done with either way.
Transmit ==
  /\ up /\ ~stopping /\ ring # <<>>
  /\ ring' = Tail(ring)
  /\ IF Head(ring).callback THEN TxAccepted ELSE UNCHANGED deferred
  /\ onAir' \in {onAir} \cup
       (IF Head(ring).id # NoReq THEN {Append(onAir, Head(ring).id)} ELSE {})
  /\ UNCHANGED <<machineVars, timer, stopping, writes, fate>>
-----------------------------------------------------------------------------
(* The run.                                                                 *)

\* Fault: the slot is not emptied.
RunPendingRequestTwice ==
  /\ UNCHANGED deferred
  /\ IF deferred.id = NoReq THEN UNCHANGED <<machineVars, fate>>
     ELSE /\ IF Machine!Acceptable(deferred.req)
             THEN Machine!Accept(deferred.req) ELSE UNCHANGED machineVars
          /\ fate' = [fate EXCEPT ![deferred.id] =
                        IF Machine!Acceptable(deferred.req) THEN "running" ELSE "dropped"]

\* run_pending_request: take_pending_request empties the slot with interrupts
\* off, then FS_Mode_RequestState or RequestTerminalAction decides.
RunPendingRequest ==
  /\ deferred' = Free
  /\ IF deferred.id = NoReq THEN UNCHANGED <<machineVars, fate>>
     ELSE /\ IF Machine!Acceptable(deferred.req)
             THEN Machine!Accept(deferred.req) ELSE UNCHANGED machineVars
          /\ fate' = [fate EXCEPT ![deferred.id] =
                        IF Machine!Acceptable(deferred.req) THEN "running" ELSE "dropped"]

\* DeviceState_Handle_DS_ControlPointNotificationComplete: the test, with
\* interrupts off; then the timer is stopped and the request run.
NotificationComplete ==
  /\ up /\ ~stopping /\ onAir # <<>>
  /\ onAir' = Tail(onAir)
  /\ stopping' = (deferred.id # NoReq /\ deferred.waits = "completion")
  /\ UNCHANGED <<machineVars, deferred, timer, ring, historyVars>>

RunOnCompletion ==
  /\ up /\ stopping
  /\ stopping' = FALSE /\ timer' = FALSE
  /\ RunPendingRequest
  /\ UNCHANGED <<radioVars, writes>>

\* Fault: the timer leaves a request alone whose answer is still queued.
FallbackTimerPatient ==
  /\ up /\ timer
  /\ timer' = FALSE
  /\ IF deferred.waits = "tx" THEN UNCHANGED <<machineVars, deferred, fate>>
                              ELSE RunPendingRequest
  /\ UNCHANGED <<stopping, radioVars, writes>>

\* response_fallback_timer, in an interrupt: also between the two steps above.
FallbackTimer ==
  /\ up /\ timer
  /\ timer' = FALSE
  /\ RunPendingRequest
  /\ UNCHANGED <<stopping, radioVars, writes>>

Disconnect ==   \* the ring is kept, confirmations no longer come
  /\ up /\ ~stopping /\ onAir # <<>>
  /\ onAir' = <<>>
  /\ UNCHANGED <<machineVars, deferVars, ring, historyVars>>
-----------------------------------------------------------------------------
(* The mode machine and its reset.                                          *)

\* A move of the mode machine, in its own task: not during NotificationComplete.
\* A reset takes the deferred request with it.
MachineMoves ==
  /\ ~stopping /\ Machine!Move
  /\ IF up' THEN UNCHANGED <<deferVars, radioVars, historyVars>>
     ELSE /\ deferred' = Free /\ timer' = FALSE /\ ring' = <<>> /\ onAir' = <<>>
          /\ fate' = [i \in Ids |-> IF i = deferred.id THEN "lost" ELSE fate[i]]
          /\ UNCHANGED <<stopping, writes>>

Boot == Machine!Boot /\ UNCHANGED <<deferVars, radioVars, historyVars>>

Init ==
  /\ Machine!Init
  /\ deferred = Free /\ timer = FALSE /\ stopping = FALSE
  /\ ring = <<>> /\ onAir = <<>>
  /\ writes = 0 /\ fate = [i \in Ids |-> "unwritten"]

Next ==
  \/ \E r \in (Modes \ {"USB"}) \cup Terminals \cup {None}, indications \in BOOLEAN :
       ControlPointWrite(r, indications)
  \/ OtherPacket \/ Transmit \/ NotificationComplete \/ RunOnCompletion
  \/ FallbackTimer \/ Disconnect \/ MachineMoves \/ Boot

Spec == Init /\ [][Next]_vars

\* The hardware timer fires, and a task that has begun goes on.
FairSpec == Spec /\ WF_vars(FallbackTimer) /\ WF_vars(RunOnCompletion)
-----------------------------------------------------------------------------
(* Properties.                                                              *)

\* A deferred request cannot be forgotten: as long as it waits, its timer is
\* armed, or the completion handler is about to run it.
DeferralIsArmed == deferred.id # NoReq => timer \/ stopping

\* Each request is handed to the mode machine at most once, though the fallback
\* interrupt may come in the middle of the completion handler, and one that was
\* refused or handed over is never deferred again.
HandedOverOnce ==
  [][\A i \in Ids : fate[i] # fate'[i] =>
       \/ fate[i] = "unwritten" /\ fate'[i] \in {"refused", "deferred"}
       \/ fate[i] = "deferred" /\ deferred.id = i /\ deferred'.id # i]_vars

\* A request that was deferred is decided, or lost in a reset.
EveryDeferralDecided == \A i \in Ids : fate[i] = "deferred" ~> fate[i] \in {"running", "dropped", "lost"}
=============================================================================
