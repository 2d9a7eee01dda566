------------------------- MODULE DeviceControl_proofs -------------------------
(***************************************************************************)
(* Proofs about DeviceControl, for every set of modes, every length of the  *)
(* ring and every number of requests.                                       *)
(***************************************************************************)
EXTENDS DeviceControl, TLAPS

USE RingLengthAssumption, MaxWritesAssumption, ModesAssumption

-----------------------------------------------------------------------------
(* The slot of the deferred request, the fates and the timer.               *)

SlotTypeOK ==
  /\ writes \in 0 .. MaxWrites
  /\ deferred \in [id : {NoReq} \cup Ids, req : Modes \cup Terminals \cup {None}, waits : Waits]
  /\ timer \in BOOLEAN /\ stopping \in BOOLEAN
  /\ fate \in [Ids -> Fates]

\* The slot holds the one request that is still to be decided, and the requests that
\* have not been written have no fate yet.
SlotInv ==
  /\ SlotTypeOK
  /\ \A i \in Ids : fate[i] = "deferred" <=> deferred.id = i
  /\ \A i \in Ids : i > writes => fate[i] = "unwritten"
  /\ DeferralIsArmed

\* The empty slot has the type of a slot.
LEMMA FreeType == Free \in [id : {NoReq} \cup Ids,
                            req : Modes \cup Terminals \cup {None}, waits : Waits]
BY DEF Free, Waits

\* What run_pending_request makes of the slot and of the fates.
LEMMA RunType ==
  ASSUME SlotInv, RunPendingRequest
  PROVE  /\ deferred' = Free /\ fate' \in [Ids -> Fates]
         /\ \A i \in Ids : IF deferred.id = i THEN fate'[i] \in {"running", "dropped"}
                                              ELSE fate'[i] = fate[i]
<1>1. CASE deferred.id = NoReq
  BY <1>1 DEF RunPendingRequest, SlotInv, SlotTypeOK, NoReq, Ids
<1>2. CASE deferred.id # NoReq
  <2>1. deferred.id \in Ids
    BY <1>2 DEF SlotInv, SlotTypeOK
  <2>2. \E f \in {"running", "dropped"} : fate' = [fate EXCEPT ![deferred.id] = f]
    BY <1>2 DEF RunPendingRequest
  <2>3. {"running", "dropped"} \subseteq Fates
    BY DEF Fates
  <2>. QED  BY <2>1, <2>2, <2>3 DEF RunPendingRequest, SlotInv, SlotTypeOK
<1>. QED  BY <1>1, <1>2

\* The step of one request's fate, and what it does to the slot.
FateStep(i) ==
  fate[i] # fate'[i] =>
    \/ fate[i] = "unwritten" /\ fate'[i] \in {"refused", "deferred"}
    \/ fate[i] = "deferred" /\ deferred.id = i /\ deferred'.id # i

\* A control point write keeps the slot invariant and moves no request's fate back.
LEMMA WriteStep ==
  ASSUME SlotInv,
         NEW r \in (Modes \ {"USB"}) \cup Terminals \cup {None}, NEW ind \in BOOLEAN,
         ControlPointWrite(r, ind)
  PROVE  SlotInv' /\ \A i \in Ids : FateStep(i)
<1>. DEFINE id == writes + 1
<1>1. /\ writes < MaxWrites /\ writes' = id /\ id \in Ids /\ stopping' = stopping
      /\ fate[id] = "unwritten"
  BY DEF ControlPointWrite, SlotInv, SlotTypeOK, Ids
<1>2. CASE Valid(r)
  <2>1. /\ deferred' = [id |-> id, req |-> r, waits |-> IF ind THEN "tx" ELSE "timer"]
        /\ timer' = TRUE /\ fate' = [fate EXCEPT ![id] = "deferred"] /\ deferred.id = NoReq
    BY <1>2 DEF ControlPointWrite, Valid
  <2>2. deferred' \in [id : {NoReq} \cup Ids, req : Modes \cup Terminals \cup {None},
                       waits : Waits]
    BY <1>1, <2>1 DEF Waits
  <2>3. \A i \in Ids : fate[i] # "deferred"
    BY <2>1 DEF SlotInv, Ids, NoReq
  <2>4. fate' \in [Ids -> Fates] /\ fate'[id] = "deferred"
        /\ \A i \in Ids \ {id} : fate'[i] = fate[i]
    BY <1>1, <2>1 DEF SlotInv, SlotTypeOK, Fates
  <2>5. deferred'.id = id
    BY <2>1
  <2>6. SlotTypeOK'
    BY <1>1, <2>1, <2>2, <2>4 DEF SlotInv, SlotTypeOK
  <2>7. \A i \in Ids : fate'[i] = "deferred" <=> deferred'.id = i
    BY <1>1, <2>3, <2>4, <2>5
  <2>8. \A i \in Ids : i > writes' => fate'[i] = "unwritten"
    BY <1>1, <2>4 DEF SlotInv, SlotTypeOK, Ids
  <2>9. \A i \in Ids : FateStep(i)
    BY <1>1, <2>4 DEF FateStep
  <2>. QED  BY <2>1, <2>6, <2>7, <2>8, <2>9 DEF SlotInv, DeferralIsArmed
<1>3. CASE ~Valid(r)
  <2>1. UNCHANGED <<deferred, timer>> /\ fate' = [fate EXCEPT ![id] = "refused"]
    BY <1>3 DEF ControlPointWrite
  <2>2. fate' \in [Ids -> Fates] /\ fate'[id] = "refused"
        /\ \A i \in Ids \ {id} : fate'[i] = fate[i]
    BY <1>1, <2>1 DEF SlotInv, SlotTypeOK, Fates
  <2>3. SlotTypeOK'
    BY <1>1, <2>1, <2>2 DEF SlotInv, SlotTypeOK
  <2>4. \A i \in Ids : fate'[i] = "deferred" <=> deferred'.id = i
    BY <1>1, <2>1, <2>2 DEF SlotInv
  <2>5. \A i \in Ids : i > writes' => fate'[i] = "unwritten"
    BY <1>1, <2>2 DEF SlotInv, SlotTypeOK, Ids
  <2>6. \A i \in Ids : FateStep(i)
    BY <1>1, <2>2 DEF FateStep
  <2>. QED  BY <1>1, <2>1, <2>3, <2>4, <2>5, <2>6 DEF SlotInv, DeferralIsArmed
<1>. QED  BY <1>2, <1>3

\* A run empties the slot, whoever starts it.
LEMMA RunStep ==
  ASSUME SlotInv, RunOnCompletion \/ FallbackTimer
  PROVE  SlotInv' /\ \A i \in Ids : FateStep(i)
<1>1. /\ RunPendingRequest /\ timer' = FALSE /\ stopping' \in BOOLEAN /\ writes' = writes
  BY DEF RunOnCompletion, FallbackTimer, SlotInv, SlotTypeOK
<1>2. /\ deferred' = Free /\ fate' \in [Ids -> Fates] /\ deferred'.id = NoReq
      /\ \A i \in Ids : IF deferred.id = i THEN fate'[i] \in {"running", "dropped"}
                                           ELSE fate'[i] = fate[i]
  BY <1>1, RunType DEF Free
<1>3. SlotTypeOK'
  BY <1>1, <1>2, FreeType DEF SlotInv, SlotTypeOK
<1>4. \A i \in Ids : NoReq # i
  BY DEF NoReq, Ids
<1>5. \A i \in Ids : fate'[i] = "deferred" <=> deferred'.id = i
  BY <1>2, <1>4 DEF SlotInv
<1>6. \A i \in Ids : i > writes' => fate'[i] = "unwritten"
  BY <1>1, <1>2 DEF SlotInv
<1>7. \A i \in Ids : FateStep(i)
  BY <1>2, <1>4 DEF FateStep, SlotInv
<1>. QED  BY <1>2, <1>3, <1>5, <1>6, <1>7 DEF SlotInv, DeferralIsArmed

\* What the mode machine does keeps the slot invariant and moves no request's fate back.
LEMMA MoveStep ==
  ASSUME SlotInv, MachineMoves
  PROVE  SlotInv' /\ \A i \in Ids : FateStep(i)
<1>1. CASE UNCHANGED <<deferVars, radioVars, historyVars>>
  BY <1>1 DEF deferVars, historyVars, SlotInv, SlotTypeOK, DeferralIsArmed, FateStep
<1>2. CASE ~UNCHANGED <<deferVars, radioVars, historyVars>>
  <2>1. /\ deferred' = Free /\ timer' = FALSE /\ UNCHANGED <<stopping, writes>>
        /\ fate' = [i \in Ids |-> IF i = deferred.id THEN "lost" ELSE fate[i]]
    BY <1>2 DEF MachineMoves
  <2>2. /\ fate' \in [Ids -> Fates] /\ deferred'.id = NoReq
        /\ \A i \in Ids : fate'[i] = IF i = deferred.id THEN "lost" ELSE fate[i]
    BY <2>1 DEF SlotInv, SlotTypeOK, Fates, Free
  <2>3. SlotTypeOK'
    BY <2>1, <2>2, FreeType DEF SlotInv, SlotTypeOK
  <2>4. \A i \in Ids : NoReq # i
    BY DEF NoReq, Ids
  <2>5. \A i \in Ids : fate'[i] = "deferred" <=> deferred'.id = i
    BY <2>2, <2>4 DEF SlotInv
  <2>6. \A i \in Ids : i > writes' => fate'[i] = "unwritten"
    BY <2>1, <2>2 DEF SlotInv
  <2>7. \A i \in Ids : FateStep(i)
    BY <2>2, <2>4 DEF FateStep, SlotInv
  <2>. QED  BY <2>2, <2>3, <2>5, <2>6, <2>7 DEF SlotInv, DeferralIsArmed
<1>. QED  BY <1>1, <1>2

\* Every step keeps the slot invariant and moves no request's fate back.
LEMMA SlotStep ==
  ASSUME SlotInv, [Next]_vars
  PROVE  SlotInv' /\ \A i \in Ids : FateStep(i)
<1>1. CASE OtherPacket \/ Disconnect \/ Boot \/ UNCHANGED vars
  BY <1>1 DEF OtherPacket, Disconnect, Boot, vars, deferVars, historyVars, SlotInv,
              SlotTypeOK, DeferralIsArmed, FateStep
<1>2. CASE Transmit
  <2>1. /\ UNCHANGED <<timer, stopping, writes, fate>>
        /\ deferred' = deferred \/ deferred' = [deferred EXCEPT !.waits = "completion"]
    BY <1>2 DEF Transmit, TxAccepted
  <2>2. deferred'.id = deferred.id
        /\ deferred' \in [id : {NoReq} \cup Ids, req : Modes \cup Terminals \cup {None},
                          waits : Waits]
    BY <2>1 DEF SlotInv, SlotTypeOK, Waits
  <2>. QED  BY <2>1, <2>2 DEF SlotInv, SlotTypeOK, DeferralIsArmed, FateStep
<1>3. CASE NotificationComplete
  BY <1>3 DEF NotificationComplete, historyVars, SlotInv, SlotTypeOK, DeferralIsArmed, FateStep
<1>. QED  BY <1>1, <1>2, <1>3, WriteStep, RunStep, MoveStep DEF Next

\* The slot invariant holds in every reachable state.
LEMMA SlotInvariant == Spec => []SlotInv
<1>1. Init => SlotInv
  <2>. SUFFICES ASSUME Init PROVE SlotInv
    OBVIOUS
  <2>1. /\ writes = 0 /\ deferred = Free /\ timer = FALSE /\ stopping = FALSE
        /\ fate = [i \in Ids |-> "unwritten"]
    BY DEF Init
  <2>2. writes \in 0 .. MaxWrites
    BY <2>1
  <2>3. fate \in [Ids -> Fates] /\ \A i \in Ids : fate[i] = "unwritten"
    BY <2>1 DEF Fates
  <2>4. SlotTypeOK
    BY <2>1, <2>2, <2>3, FreeType DEF SlotTypeOK
  <2>5. deferred.id = NoReq /\ \A i \in Ids : i # NoReq
    BY <2>1 DEF Free, NoReq, Ids
  <2>. QED  BY <2>3, <2>4, <2>5 DEF SlotInv, DeferralIsArmed
<1>. QED  BY <1>1, SlotStep, PTL DEF Spec

-----------------------------------------------------------------------------
(* Type correctness.                                                        *)

Packets == [id : {NoReq} \cup Ids, callback : BOOLEAN]

MachineTypeOK ==
  /\ mode \in Modes /\ moving \in Modes \cup {None}
  /\ pending \in Modes \cup Terminals \cup {None} /\ up \in BOOLEAN
RadioTypeOK ==
  /\ ring \in Seq(Packets) /\ Len(ring) <= RingLength
  /\ onAir \in Seq(Ids)

\* Handing a pending request to mode.c keeps the machine in its type.
LEMMA AcceptType ==
  ASSUME MachineTypeOK, SlotTypeOK, deferred.id # NoReq => deferred.req # None,
         RunPendingRequest
  PROVE  MachineTypeOK'
<1>1. CASE UNCHANGED machineVars
  BY <1>1 DEF machineVars, MachineTypeOK
<1>2. CASE Machine!Accept(deferred.req)
  BY <1>2 DEF Machine!Accept, MachineTypeOK, SlotTypeOK
<1>. QED  BY <1>1, <1>2 DEF RunPendingRequest

\* Every step keeps the machine in its type.
LEMMA MachineStep ==
  ASSUME MachineTypeOK, SlotTypeOK, deferred.id # NoReq => deferred.req # None, [Next]_vars
  PROVE  MachineTypeOK'
<1>1. CASE UNCHANGED machineVars
  BY <1>1 DEF machineVars, MachineTypeOK
<1>2. CASE RunOnCompletion \/ FallbackTimer
  BY <1>2, AcceptType DEF RunOnCompletion, FallbackTimer
<1>3. CASE Machine!Move
  BY <1>3 DEF Machine!Move, Machine!Enter, Machine!Leave, Machine!Arrive, Machine!Discard,
              Machine!Reset, MachineTypeOK
<1>4. CASE Boot
  BY <1>4 DEF Boot, Machine!Boot, MachineTypeOK
<1>. QED  BY <1>1, <1>2, <1>3, <1>4
          DEF Next, vars, ControlPointWrite, OtherPacket, Transmit, NotificationComplete,
              Disconnect, MachineMoves

\* Adding a packet to the TX ring keeps the ring within its length.
LEMMA SendType ==
  ASSUME RadioTypeOK, NEW p \in Packets, SendPacket(p)
  PROVE  ring' \in Seq(Packets) /\ Len(ring') <= RingLength
<1>1. CASE Len(ring) < RingLength
  BY <1>1 DEF SendPacket, RadioTypeOK
<1>2. CASE ~(Len(ring) < RingLength)
  BY <1>2 DEF SendPacket, RadioTypeOK
<1>. QED  BY <1>1, <1>2

\* Every step keeps the TX ring and the packet on the air in their types.
LEMMA RadioStep ==
  ASSUME RadioTypeOK, SlotTypeOK, [Next]_vars
  PROVE  RadioTypeOK'
<1>1. CASE UNCHANGED <<ring, onAir>>
  BY <1>1 DEF RadioTypeOK
<1>2. ASSUME NEW r \in (Modes \ {"USB"}) \cup Terminals \cup {None}, NEW ind \in BOOLEAN,
             ControlPointWrite(r, ind)
      PROVE  RadioTypeOK'
  <2>1. writes + 1 \in Ids /\ onAir' = onAir
    BY <1>2 DEF ControlPointWrite, SlotTypeOK, Ids
  <2>2. [id |-> writes + 1, callback |-> Valid(r)] \in Packets
    <3>1. Valid(r) \in BOOLEAN
      BY DEF Valid
    <3>. QED  BY <2>1, <3>1 DEF Packets
  <2>3. ring' \in Seq(Packets) /\ Len(ring') <= RingLength
    <3>1. CASE ind
      BY <1>2, <2>2, <3>1, SendType DEF ControlPointWrite
    <3>2. CASE ~ind
      BY <1>2, <3>2 DEF ControlPointWrite, RadioTypeOK
    <3>. QED  BY <3>1, <3>2
  <2>. QED  BY <2>1, <2>3 DEF RadioTypeOK
<1>3. CASE OtherPacket
  <2>1. [id |-> NoReq, callback |-> FALSE] \in Packets
    BY DEF Packets
  <2>. QED  BY <1>3, <2>1, SendType DEF OtherPacket, historyVars, RadioTypeOK
<1>4. CASE Transmit
  <2>1. ring # <<>> /\ ring' = Tail(ring) /\ Head(ring) \in Packets
        /\ ring' \in Seq(Packets) /\ Len(ring') <= RingLength
    BY <1>4 DEF Transmit, RadioTypeOK
  <2>2. onAir' \in Seq(Ids)
    <3>1. Head(ring).id # NoReq => Head(ring).id \in Ids
      BY <2>1 DEF Packets
    <3>2. onAir' = onAir \/ (Head(ring).id # NoReq /\ onAir' = Append(onAir, Head(ring).id))
      BY <1>4 DEF Transmit
    <3>. QED  BY <3>1, <3>2 DEF RadioTypeOK
  <2>. QED  BY <2>1, <2>2 DEF RadioTypeOK
<1>5. CASE NotificationComplete
  BY <1>5 DEF NotificationComplete, historyVars, RadioTypeOK
<1>6. CASE Disconnect
  BY <1>6 DEF Disconnect, historyVars, RadioTypeOK
<1>7. CASE MachineMoves
  <2>1. \/ UNCHANGED <<ring, onAir>>
        \/ ring' = <<>> /\ onAir' = <<>>
    BY <1>7 DEF MachineMoves, radioVars, historyVars
  <2>2. CASE ring' = <<>> /\ onAir' = <<>>
    BY <2>2 DEF RadioTypeOK
  <2>. QED  BY <1>1, <2>1, <2>2
<1>. QED  BY <1>1, <1>2, <1>3, <1>4, <1>5, <1>6, <1>7
          DEF Next, vars, RunOnCompletion, FallbackTimer, Boot, radioVars, historyVars

\* What waits in the slot is a request.
LEMMA RequestStays ==   \* what waits in the slot is a request
  ASSUME deferred.id # NoReq => deferred.req # None, SlotTypeOK, [Next]_vars
  PROVE  (deferred.id # NoReq => deferred.req # None)'
<1>1. CASE deferred' = deferred \/ deferred' = Free
  BY <1>1 DEF Free
<1>2. ASSUME NEW r \in (Modes \ {"USB"}) \cup Terminals \cup {None}, NEW ind \in BOOLEAN,
             ControlPointWrite(r, ind)
      PROVE  (deferred.id # NoReq => deferred.req # None)'
  <2>1. CASE Valid(r)
    <3>1. r # None
      BY <2>1 DEF Valid
    <3>. QED  BY <1>2, <2>1, <3>1 DEF ControlPointWrite
  <2>2. CASE ~Valid(r)
    BY <1>1, <1>2, <2>2 DEF ControlPointWrite
  <2>. QED  BY <2>1, <2>2
<1>3. CASE Transmit
  <2>1. deferred' = deferred \/ deferred' = [deferred EXCEPT !.waits = "completion"]
    BY <1>3 DEF Transmit, TxAccepted
  <2>. QED  BY <2>1 DEF SlotTypeOK
<1>. QED  BY <1>1, <1>2, <1>3 DEF Next, vars, deferVars, OtherPacket, NotificationComplete,
             RunOnCompletion, FallbackTimer, RunPendingRequest, Disconnect, MachineMoves, Boot

\* All variables keep their types; the ring keeps its length.
THEOREM DeviceTypeCorrect == Spec => []TypeOK
<1>. DEFINE Inv == /\ MachineTypeOK /\ RadioTypeOK
                   /\ deferred.id # NoReq => deferred.req # None
<1>1. Init => Inv
  BY DEF Init, Machine!Init, MachineTypeOK, RadioTypeOK, Free
<1>2. Inv /\ SlotInv /\ [Next]_vars => Inv'
  BY MachineStep, RadioStep, RequestStays DEF SlotInv
<1>3. Inv /\ SlotInv => TypeOK
  BY DEF SlotInv, SlotTypeOK, MachineTypeOK, RadioTypeOK, Packets, TypeOK
<1>. QED  BY <1>1, <1>2, <1>3, SlotInvariant, PTL DEF Spec

-----------------------------------------------------------------------------
(* The results.                                                             *)

\* A deferred request always has its timer armed, or is about to be run.
THEOREM DeferralIsArmedAlways == Spec => []DeferralIsArmed
<1>1. SlotInv => DeferralIsArmed
  BY DEF SlotInv
<1>. QED  BY <1>1, SlotInvariant, PTL

\* No request is handed to the mode machine twice, whatever the order of the
\* completion, the fallback timer's interrupt and the reset.
THEOREM HandedOverOnceAlways == Spec => HandedOverOnce
<1>1. SlotInv /\ [Next]_vars =>
        [\A i \in Ids : fate[i] # fate'[i] =>
           \/ fate[i] = "unwritten" /\ fate'[i] \in {"refused", "deferred"}
           \/ fate[i] = "deferred" /\ deferred.id = i /\ deferred'.id # i]_vars
  BY SlotStep DEF FateStep
<1>. QED  BY <1>1, SlotInvariant, PTL DEF Spec, HandedOverOnce
=============================================================================
