-------------------------- MODULE GlassesLink_proofs --------------------------
(***************************************************************************)
(* Proofs about GlassesLink, for any kinds of glasses and any number of     *)
(* events that wait.                                                        *)
(*                                                                         *)
(* SetupInv follows one connection from the event that opens it to the one  *)
(* that closes it: what the queue may hold of it, when the client is open,  *)
(* and whether the step of its setup is asked for, running or answered.     *)
(* OwnerInv says who moves next: without a connection some part of the      *)
(* search is under way, and a link that is up is in one of the hands that   *)
(* app_ble.c and activelook.c pass it between.                              *)
(***************************************************************************)
EXTENDS GlassesLink, SequenceTheorems, TLAPS

USE KindsAssumption, BoundsAssumption
-----------------------------------------------------------------------------
(* The queue of the HCI task.                                               *)

EventNames == {"found", "scanned", "scan_failed", "opened", "open_failed",
               "closed", "gatt_ok", "gatt_error"}
GattEvents == {"gatt_ok", "gatt_error"}
LinkEvents == {"opened", "closed"} \cup GattEvents

Waiting(e) == e \in Range(events)

\* What the queue tells of a connection ends with its end, and one discovery completes
\* at a time.
InOrder(q) == \A i, j \in 1 .. Len(q) : i < j =>
  /\ q[i] \in LinkEvents /\ q[j] \in LinkEvents => q[i] # "closed" /\ q[j] = "closed"
  /\ ~(q[i] = "scanned" /\ q[j] = "scanned")

QueueInv == events \in Seq(EventNames) /\ InOrder(events)

\* The HCI task takes the event in front: what it says of a connection is not said again.
LEMMA EventTaken ==
  ASSUME QueueInv, NEW e \in EventNames, Event(e)
  PROVE  /\ QueueInv' /\ call = NoCall /\ Waiting(e)
         /\ \A x : x # e => (Waiting(x)' <=> Waiting(x))
         /\ Waiting(e)' => Waiting(e)
         /\ e \in LinkEvents \cup {"scanned"} => ~Waiting(e)'
         /\ e \in LinkEvents \ {"closed"} => \A x \in LinkEvents : Waiting(x)' => x = "closed"
         /\ e = "closed" => \A x \in LinkEvents : ~Waiting(x)'
<1>. DEFINE q == events
            n == Len(q)
<1>1. /\ q \in Seq(EventNames) /\ q # <<>> /\ Head(q) = e /\ call = NoCall /\ events' = Tail(q)
  BY DEF Event, QueueInv
<1>2. /\ n \in Nat \ {0} /\ q[1] = e
      /\ \A i \in 1 .. n : q[i] \in EventNames
  BY <1>1
<1>3. /\ Tail(q) \in Seq(EventNames) /\ Len(Tail(q)) = n - 1
      /\ \A i \in 1 .. n - 1 : Tail(q)[i] = q[i + 1]
  BY <1>1, <1>2
<1>4. \A x : Waiting(x) <=> \E i \in 1 .. n : q[i] = x
  BY <1>1, <1>2 DEF Waiting, Range
<1>5. \A x : Waiting(x)' <=> \E i \in 1 .. n - 1 : q[i + 1] = x
  <2>1. DOMAIN Tail(q) = 1 .. n - 1
    BY <1>3
  <2>2. \A x : x \in Range(Tail(q)) <=> \E i \in 1 .. n - 1 : Tail(q)[i] = x
    BY <2>1 DEF Range
  <2>. QED  BY <1>1, <1>3, <2>2 DEF Waiting
<1>6. \A i, j \in 1 .. n : i < j =>
        /\ q[i] \in LinkEvents /\ q[j] \in LinkEvents => q[i] # "closed" /\ q[j] = "closed"
        /\ ~(q[i] = "scanned" /\ q[j] = "scanned")
  BY DEF QueueInv, InOrder
<1>7. QueueInv'
  <2>1. ASSUME NEW i \in 1 .. n - 1, NEW j \in 1 .. n - 1, i < j
        PROVE  /\ q[i + 1] \in LinkEvents /\ q[j + 1] \in LinkEvents
                    => q[i + 1] # "closed" /\ q[j + 1] = "closed"
               /\ ~(q[i + 1] = "scanned" /\ q[j + 1] = "scanned")
    <3>1. i + 1 \in 1 .. n /\ j + 1 \in 1 .. n /\ i + 1 < j + 1
      BY <1>2, <2>1
    <3>. QED  BY <3>1, <1>6
  <2>2. InOrder(Tail(q))
    BY <1>3, <2>1 DEF InOrder
  <2>. QED  BY <1>1, <1>3, <2>2 DEF QueueInv
<1>8. \A x : Waiting(x)' => \E j \in 2 .. n : q[j] = x
  BY <1>2, <1>5
<1>9. \A x : Waiting(x) /\ x # e => Waiting(x)'
  <2>. SUFFICES ASSUME NEW x, NEW i \in 1 .. n, q[i] = x, x # e
                PROVE  Waiting(x)'
    BY <1>4
  <2>1. i - 1 \in 1 .. n - 1 /\ q[(i - 1) + 1] = x
    BY <1>2
  <2>. QED  BY <2>1, <1>5
<1>10. \A x : Waiting(x)' => Waiting(x)
  BY <1>4, <1>5, <1>2
<1>11. \A j \in 2 .. n : j \in 1 .. n /\ 1 \in 1 .. n /\ 1 < j
  BY <1>2
<1>12. e \in LinkEvents \cup {"scanned"} => ~Waiting(e)'
  BY <1>2, <1>6, <1>8, <1>11 DEF LinkEvents, GattEvents
<1>13. e \in LinkEvents \ {"closed"} => \A x \in LinkEvents : Waiting(x)' => x = "closed"
  BY <1>2, <1>6, <1>8, <1>11
<1>14. e = "closed" => \A x \in LinkEvents : ~Waiting(x)'
  BY <1>2, <1>6, <1>8, <1>11 DEF LinkEvents
<1>15. Waiting(e)
  BY <1>2, <1>4
<1>. QED  BY <1>1, <1>7, <1>9, <1>10, <1>12, <1>13, <1>14, <1>15

\* The radio adds an event to those that wait.
LEMMA EventAdded ==
  ASSUME QueueInv, NEW e \in EventNames, Sends(e)
  PROVE  \A x : Waiting(x)' <=> Waiting(x) \/ x = e
<1>. DEFINE q == events
            n == Len(q)
<1>1. q \in Seq(EventNames) /\ n \in Nat /\ events' = Append(q, e)
  BY DEF QueueInv, Sends
<1>2. /\ Append(q, e) \in Seq(EventNames) /\ Len(Append(q, e)) = n + 1
      /\ \A i \in 1 .. n : Append(q, e)[i] = q[i]
      /\ Append(q, e)[n + 1] = e
  BY <1>1
<1>3. \A x : Waiting(x) <=> \E i \in 1 .. n : q[i] = x
  BY <1>1 DEF Waiting, Range
<1>4. \A x : Waiting(x)' <=> \E i \in 1 .. n + 1 : Append(q, e)[i] = x
  BY <1>1, <1>2 DEF Waiting, Range
<1>5. /\ n + 1 \in 1 .. n + 1 /\ \A i \in 1 .. n : i \in 1 .. n + 1
      /\ \A i \in 1 .. n + 1 : i \in 1 .. n \/ i = n + 1
  BY <1>1
<1>. QED  BY <1>2, <1>3, <1>4, <1>5

\* It is behind the others, and what the queue tells stays in its order.
LEMMA EventSent ==
  ASSUME QueueInv, NEW e \in EventNames, Sends(e),
         e \in LinkEvents => \/ \A x \in LinkEvents : ~Waiting(x)
                             \/ e = "closed" /\ ~Waiting("closed"),
         e = "scanned" => ~Waiting("scanned")
  PROVE  QueueInv' /\ \A x : Waiting(x)' <=> Waiting(x) \/ x = e
<1>. DEFINE q == events
            n == Len(q)
<1>1. /\ q \in Seq(EventNames) /\ n \in Nat /\ events' = Append(q, e)
      /\ \A i \in 1 .. n : q[i] \in EventNames
  BY DEF QueueInv, Sends
<1>2. /\ Append(q, e) \in Seq(EventNames) /\ Len(Append(q, e)) = n + 1
      /\ \A i \in 1 .. n : Append(q, e)[i] = q[i]
      /\ Append(q, e)[n + 1] = e
  BY <1>1
<1>3. \A x : Waiting(x) <=> \E i \in 1 .. n : q[i] = x
  BY <1>1 DEF Waiting, Range
<1>4. \A i \in 1 .. n + 1 : i \in 1 .. n \/ i = n + 1
  BY <1>1
<1>5. \A x : Waiting(x)' <=> Waiting(x) \/ x = e
  BY EventAdded
<1>6. \A i \in 1 .. n : Waiting(q[i])
  BY <1>3
<1>7. ASSUME NEW i \in 1 .. n + 1, NEW j \in 1 .. n + 1, i < j
      PROVE  LET p == Append(q, e) IN
             /\ p[i] \in LinkEvents /\ p[j] \in LinkEvents => p[i] # "closed" /\ p[j] = "closed"
             /\ ~(p[i] = "scanned" /\ p[j] = "scanned")
  <2>1. i \in 1 .. n
    BY <1>1, <1>7
  <2>2. CASE j \in 1 .. n
    BY <1>2, <1>7, <2>1, <2>2 DEF QueueInv, InOrder
  <2>3. CASE j = n + 1
    BY <1>2, <1>6, <2>1, <2>3 DEF LinkEvents
  <2>. QED  BY <1>4, <2>2, <2>3
<1>8. InOrder(Append(q, e))
  BY <1>2, <1>7 DEF InOrder
<1>. QED  BY <1>1, <1>2, <1>5, <1>8 DEF QueueInv

\* Who leaves the queue alone leaves what waits alone.
LEMMA EventsKept ==
  ASSUME events' = events
  PROVE  (QueueInv => QueueInv') /\ \A x : Waiting(x)' <=> Waiting(x)
BY DEF QueueInv, InOrder, Waiting
-----------------------------------------------------------------------------
(* Types.                                                                   *)

\* A step is followed by a step, by the link, or by a failure.
LEMMA NextStepType ==
  ASSUME NEW s \in Steps, NEW k
  PROVE  /\ NextStep(s, k) \in Steps \cup {"FAIL", "UP"}
         /\ NextStep(s, k) = "UP" <=> s = "CTRL_NOTIFY"
         /\ AfterBattery(k) \in {"TX_DESC", "CTRL_DESC"}
BY DEF NextStep, AfterBattery, Steps

\* The calls that the tasks make are calls.
LEMMA CallTypes ==
  /\ NoCall \in Calls
  /\ \A s \in Steps \cup {"battery"} : [cmd |-> "gatt", then |-> s] \in Calls
  /\ \A t \in {"clear", "draw"} : [cmd |-> "write", then |-> t] \in Calls
  /\ \A t \in {"request", "unwanted", "setup", "timed_out", "retry", "watchdog"} :
       [cmd |-> "terminate", then |-> t] \in Calls
  /\ \A c \in {"scan", "connect", "stop_scan", "stop_connect"} :
       [cmd |-> c, then |-> "request"] \in Calls
BY DEF Calls

\* The fields of a call.
LEMMA CallFields ==
  ASSUME NEW c \in Calls
  PROVE  /\ c = [cmd |-> c.cmd, then |-> c.then]
         /\ c.cmd \in {"none", "gatt", "write", "terminate", "scan", "connect", "stop_scan",
                       "stop_connect"}
         /\ c.cmd = "none" <=> c = NoCall
         /\ c.cmd = "none" => c.then = "none"
         /\ c.cmd = "gatt" => c.then \in Steps \cup {"battery"}
         /\ c.cmd = "write" => c.then \in {"clear", "draw"}
         /\ c.cmd = "terminate" => c.then \in {"request", "unwanted", "setup", "timed_out",
                                               "retry", "watchdog"}
         /\ c.cmd \in {"scan", "connect", "stop_scan", "stop_connect"} => c.then = "request"
BY DEF Calls, NoCall

FsmType == [running : BOOLEAN, state : {"INIT", "CLEAR", "READY", "UPDATE"},
            discovering : BOOLEAN, late : BOOLEAN, retry : BOOLEAN, due : BOOLEAN]
ClientType == [open : BOOLEAN, step : Steps \cup {"IDLE"}, linkUp : BOOLEAN,
               terminating : BOOLEAN, refused : BOOLEAN]
EngoType == [status : {"IDLE", "CONNECTING", "CONNECTED"}, found : BOOLEAN,
             scanAgain : BOOLEAN, endAgain : BOOLEAN, endDue : BOOLEAN]
CoreType == [scan : {"off", "on", "ended"}, conn : {"off", "trying", "cancelled"},
             link : {"down", "up", "ending"}, gatt : Steps \cup {"none", "battery"}]
GlassesType == [kind : Kinds, subscribed : BOOLEAN]
TimerType == {"free", "stopped", "running"}

HostTyped ==
  /\ fsm \in FsmType /\ timer \in TimerType /\ orphan \in BOOLEAN /\ client \in ClientType
  /\ engo \in EngoType /\ tasks \subseteq {"SCAN", "CONN", "DISC", "HUD"} /\ call \in Calls
Typed ==
  HostTyped /\ radio \in CoreType /\ events \in Seq(EventNames) /\ glasses \in GlassesType

\* TypeOK with its sets named.
LEMMA TypedIsTypeOK == Typed <=> TypeOK
BY DEF Typed, HostTyped, TypeOK, FsmType, ClientType, EngoType, CoreType, GlassesType,
       TimerType, EventNames

\* A terminate that is asked for leaves the client and the call well typed.
LEMMA ForceDisconnectType ==
  ASSUME NEW c \in ClientType, NEW t \in {"setup", "timed_out", "retry", "watchdog"},
         ForceDisconnect(c, t)
  PROVE  client' \in ClientType /\ call' \in Calls
BY CallTypes DEF ForceDisconnect, Waits, Returns, ClientType

\* The queue keeps its type when an event is taken or sent.
LEMMA QueueType ==
  ASSUME Typed
  PROVE  /\ \A e : Event(e) => events' \in Seq(EventNames) /\ call = NoCall
         /\ \A e \in EventNames : Sends(e) => events' \in Seq(EventNames)
BY DEF Typed, EventNames, Event, Sends

\* Small changes of the records.
LEMMA RecordTypes ==
  /\ \A b \in BOOLEAN : IdleFsm(b) \in FsmType
  /\ \A f \in FsmType : ReadyFsm(f) \in FsmType
  /\ ClosedClient \in ClientType
  /\ \A c \in ClientType, s \in Steps \cup {"IDLE"} : [c EXCEPT !.step = s] \in ClientType
  /\ \A e \in EngoType : ScanRetry(e) \in EngoType /\ TerminateRetry(e) \in EngoType
<1>1. \A b \in BOOLEAN : IdleFsm(b) \in FsmType
  BY DEF IdleFsm, FsmType
<1>2. \A f \in FsmType : ReadyFsm(f) \in FsmType
  BY DEF ReadyFsm, FsmType
<1>3. ClosedClient \in ClientType
  BY DEF ClosedClient, ClientType
<1>4. \A c \in ClientType, s \in Steps \cup {"IDLE"} : [c EXCEPT !.step = s] \in ClientType
  BY DEF ClientType
<1>5. \A e \in EngoType : ScanRetry(e) \in EngoType /\ TerminateRetry(e) \in EngoType
  BY DEF ScanRetry, TerminateRetry, EngoType
<1>. QED  BY <1>1, <1>2, <1>3, <1>4, <1>5

\* The interrupts and the mode task keep the types.
LEMMA InterruptType ==
  ASSUME Typed, Enter \/ Leave \/ Tick \/ RetryTimer
  PROVE  Typed'
<1>1. CASE Enter
  BY <1>1, RecordTypes DEF Enter, Typed, HostTyped, TimerType
<1>2. CASE Leave
  BY <1>2, RecordTypes DEF Leave, Typed, HostTyped, TimerType
<1>3. CASE Tick
  <2>1. fsm' \in FsmType
    BY <1>3 DEF Tick, Typed, HostTyped, FsmType
  <2>. QED  BY <1>3, <2>1 DEF Tick, Typed, HostTyped
<1>4. CASE RetryTimer
  <2>1. engo' \in EngoType
    BY <1>4 DEF RetryTimer, Typed, HostTyped, EngoType
  <2>. QED  BY <1>4, <2>1 DEF RetryTimer, Typed, HostTyped, hud
<1>. QED  BY <1>1, <1>2, <1>3, <1>4

\* The second core keeps the types.
LEMMA RadioType ==
  ASSUME Typed, Radio
  PROVE  Typed'
<1>1. events' \in Seq(EventNames)
  BY QueueType DEF Radio, Advertised, ScanEnds, Connects, ConnectFails, LinkEnds, GattEnds,
                   EventNames
<1>2. radio' \in CoreType
  BY DEF Radio, Advertised, ScanEnds, Connects, ConnectFails, LinkEnds, GattEnds, Typed, CoreType
<1>3. glasses' \in GlassesType
  BY DEF Radio, Advertised, ScanEnds, Connects, ConnectFails, LinkEnds, GattEnds, Typed,
         GlassesType
<1>4. UNCHANGED host
  BY DEF Radio, Advertised, ScanEnds, Connects, ConnectFails, LinkEnds, GattEnds
<1>. QED  BY <1>1, <1>2, <1>3, <1>4 DEF Typed, HostTyped, host, hud

\* The tasks of app_ble.c keep the types.
LEMMA RequestType ==
  ASSUME Typed, ScanRequest \/ ConnectRequest \/ DisconnectRequest
  PROVE  Typed'
<1>1. call' \in Calls
  BY CallTypes DEF ScanRequest, ConnectRequest, DisconnectRequest, Waits, Typed, HostTyped
<1>2. engo' \in EngoType
  BY DEF ScanRequest, ConnectRequest, DisconnectRequest, Typed, HostTyped, EngoType, FsmType
<1>3. tasks' \subseteq tasks
  BY DEF ScanRequest, ConnectRequest, DisconnectRequest, Runs
<1>4. UNCHANGED <<hud, client, radio, events, glasses>>
  BY DEF ScanRequest, ConnectRequest, DisconnectRequest
<1>. QED  BY <1>1, <1>2, <1>3, <1>4 DEF Typed, HostTyped, hud

\* A step of the discovery, and what ends it, keeps the types.
LEMMA ProceedType ==
  ASSUME Typed, NEW next \in Steps \cup {"FAIL", "UP"}, Proceed(next), UNCHANGED engo
  PROVE  HostTyped'
<1>1. CASE SetupFails /\ UNCHANGED <<hud, tasks>>
  <2>1. client' \in ClientType /\ call' \in Calls
    BY <1>1, ForceDisconnectType, RecordTypes DEF SetupFails, Typed, HostTyped
  <2>. QED  BY <1>1, <2>1 DEF Typed, HostTyped, hud
<1>2. CASE DiscoveryComplete
  <2>. DEFINE c == [client EXCEPT !.step = "IDLE", !.linkUp = TRUE]
  <2>1. c \in ClientType
    BY DEF Typed, HostTyped, ClientType
  <2>2. CASE ~fsm.running
    <3>1. client' \in ClientType /\ call' \in Calls
      BY <1>2, <2>1, <2>2, ForceDisconnectType DEF DiscoveryComplete
    <3>. QED  BY <1>2, <2>2, <3>1 DEF DiscoveryComplete, Typed, HostTyped, hud
  <2>3. CASE fsm.running
    <3>1. client' \in ClientType
      BY <1>2, <2>1, <2>3 DEF DiscoveryComplete
    <3>2. call' \in Calls
      BY <1>2, <2>3, CallTypes DEF DiscoveryComplete, Waits, Returns
    <3>3. fsm' \in FsmType
      BY <1>2, <2>3 DEF DiscoveryComplete, Typed, HostTyped, FsmType
    <3>4. timer' \in TimerType /\ orphan' = orphan /\ tasks' = tasks \cup {"HUD"}
      BY <1>2, <2>3 DEF DiscoveryComplete, TimerStop, TimerType
    <3>. QED  BY <3>1, <3>2, <3>3, <3>4 DEF Typed, HostTyped
  <2>. QED  BY <2>2, <2>3 DEF Typed, HostTyped, FsmType
<1>3. CASE /\ next \in Steps
           /\ client' = [client EXCEPT !.step = next]
           /\ Waits("gatt", next) /\ UNCHANGED <<hud, tasks>>
  <2>1. client' \in ClientType /\ call' \in Calls
    BY <1>3, CallTypes, RecordTypes DEF Waits, Typed, HostTyped
  <2>. QED  BY <1>3, <2>1 DEF Typed, HostTyped, hud
<1>. QED  BY <1>1, <1>2, <1>3 DEF Proceed

\* The HCI task keeps the types.
LEMMA HciType ==
  ASSUME Typed, HciTask
  PROVE  Typed'
<1>1. events' \in Seq(EventNames)
  BY QueueType DEF HciTask, Found, Scanned, ScanFailed, Opened, OpenFailed, Closed, ProcComplete
<1>2. CASE Found \/ Scanned \/ ScanFailed \/ OpenFailed
  <2>1. engo' \in EngoType
    BY <1>2, ZenonT(40) DEF Found, Scanned, ScanFailed, OpenFailed, ScanRetry, Typed, HostTyped, EngoType,
                FsmType
  <2>2. tasks' \subseteq {"SCAN", "CONN", "DISC", "HUD"}
    BY <1>2 DEF Found, Scanned, ScanFailed, OpenFailed, Typed, HostTyped
  <2>3. UNCHANGED <<hud, client, call, radio, glasses>>
    BY <1>2 DEF Found, Scanned, ScanFailed, OpenFailed
  <2>. QED  BY <1>1, <2>1, <2>2, <2>3 DEF Typed, HostTyped, hud
<1>3. CASE Opened
  <2>1. call' \in Calls
    BY <1>3, CallTypes DEF Opened, Waits, Steps
  <2>2. engo' \in EngoType
    BY <1>3 DEF Opened, Typed, HostTyped, EngoType
  <2>3. fsm' \in FsmType
    BY <1>3 DEF Opened, Typed, HostTyped, FsmType
  <2>4. client' \in ClientType
    BY <1>3 DEF Opened, ClosedClient, Typed, HostTyped, ClientType, Steps
  <2>5. timer' \in TimerType /\ UNCHANGED <<orphan, tasks, radio, glasses>>
    BY <1>3 DEF Opened, Typed, HostTyped, TimerType
  <2>. QED  BY <1>1, <2>1, <2>2, <2>3, <2>4, <2>5 DEF Typed, HostTyped
<1>4. CASE Closed
  <2>1. engo' \in EngoType
    BY <1>4 DEF Closed, Typed, HostTyped, EngoType
  <2>2. fsm' \in FsmType /\ client' \in ClientType
    BY <1>4, RecordTypes DEF Closed, Typed, HostTyped, FsmType
  <2>3. /\ timer' \in TimerType /\ tasks' \subseteq tasks \cup {"SCAN"}
        /\ UNCHANGED <<orphan, call, radio, glasses>>
    BY <1>4 DEF Closed, TimerStop, Typed, HostTyped, TimerType
  <2>. QED  BY <1>1, <2>1, <2>2, <2>3 DEF Typed, HostTyped
<1>5. CASE ProcComplete
  <2>1. CASE client.step # "IDLE" /\ Proceed(NextStep(client.step, glasses.kind))
             /\ UNCHANGED <<engo, radio, glasses>>
    <3>1. client.step \in Steps
      BY <2>1 DEF Typed, HostTyped, ClientType
    <3>2. HostTyped'
      BY <2>1, <3>1, NextStepType, ProceedType
    <3>. QED  BY <1>1, <2>1, <3>2 DEF Typed
  <2>2. CASE SetupFails /\ UNCHANGED <<hud, engo, tasks, radio, glasses>>
    <3>1. client' \in ClientType /\ call' \in Calls
      BY <2>2, ForceDisconnectType, RecordTypes DEF SetupFails, Typed, HostTyped
    <3>. QED  BY <1>1, <2>2, <3>1 DEF Typed, HostTyped, hud
  <2>3. CASE UNCHANGED <<host, radio, glasses>>
    BY <1>1, <2>3 DEF Typed, HostTyped, host, hud
  <2>. QED  BY <1>5, <2>1, <2>2, <2>3 DEF ProcComplete
<1>. QED  BY <1>2, <1>3, <1>4, <1>5 DEF HciTask

\* FS_ActiveLook_Task keeps the types.
LEMMA HudType ==
  ASSUME Typed, HudTask
  PROVE  Typed'
<1>0. client \in ClientType /\ call \in Calls /\ fsm \in FsmType
  BY DEF Typed, HostTyped
<1>1. client' \in ClientType
  BY <1>0, ForceDisconnectType
     DEF HudTask, RetryTerminate, DiscoveryTimedOut, Clear, Idle, Update
<1>2. call' \in Calls
  BY <1>0, ForceDisconnectType, CallTypes
     DEF HudTask, RetryTerminate, DiscoveryTimedOut, Clear, Idle, Update, Waits
<1>3. fsm' \in FsmType
  <2>1. CASE RetryTerminate \/ DiscoveryTimedOut
    BY <1>0, <2>1 DEF RetryTerminate, DiscoveryTimedOut, FsmType
  <2>2. CASE Clear \/ Idle \/ Update
    BY <1>0, <2>2, RecordTypes DEF Clear, Idle, Update, Cleared, hud
  <2>. QED  BY <2>1, <2>2 DEF HudTask
<1>4. timer' \in TimerType /\ orphan' \in BOOLEAN
  BY DEF HudTask, RetryTerminate, DiscoveryTimedOut, Clear, Idle, Update, Cleared, TimerStart,
         TimerStop, Typed, HostTyped, TimerType, hud
<1>5. tasks' \subseteq tasks
  BY DEF HudTask, RetryTerminate, DiscoveryTimedOut, Clear, Idle, Update, InState, Runs
<1>6. UNCHANGED <<engo, radio, events, glasses>>
  BY DEF HudTask, RetryTerminate, DiscoveryTimedOut, Clear, Idle, Update
<1>. QED  BY <1>1, <1>2, <1>3, <1>4, <1>5, <1>6 DEF Typed, HostTyped

\* The answers to the commands keep the types.
LEMMA AnswerType ==
  ASSUME Typed, Answered
  PROVE  Typed'
<1>0. client \in ClientType /\ call \in Calls /\ fsm \in FsmType /\ NoCall \in Calls
  BY CallTypes DEF Typed, HostTyped
<1>1. CASE ScanAnswer \/ ConnectAnswer \/ StopConnectAnswer \/ StopScanAnswer
  <2>1. engo' \in EngoType
    BY <1>1 DEF ScanAnswer, ConnectAnswer, StopConnectAnswer, StopScanAnswer, ScanRetry, Typed,
                HostTyped, EngoType
  <2>2. radio' \in CoreType
    BY <1>1 DEF ScanAnswer, ConnectAnswer, StopConnectAnswer, StopScanAnswer, Typed, CoreType
  <2>3. call' = NoCall /\ UNCHANGED <<hud, client, tasks, events, glasses>>
    BY <1>1 DEF ScanAnswer, ConnectAnswer, StopConnectAnswer, StopScanAnswer, Returns
  <2>. QED  BY <1>0, <2>1, <2>2, <2>3 DEF Typed, HostTyped, hud
<1>2. CASE TerminateTaken
  <2>1. engo' \in EngoType
    BY <1>2 DEF TerminateTaken, Typed, HostTyped, EngoType
  <2>2. client' \in ClientType
    BY <1>0, <1>2 DEF TerminateTaken, ClientType
  <2>3. fsm' \in FsmType
    BY <1>0, <1>2 DEF TerminateTaken, ReadyFsm, FsmType
  <2>4. radio' \in CoreType
    BY <1>2 DEF TerminateTaken, Typed, CoreType
  <2>5. timer' \in TimerType /\ call' = NoCall /\ UNCHANGED <<orphan, tasks, events, glasses>>
    BY <1>2 DEF TerminateTaken, Returns, TimerStop, Typed, HostTyped, TimerType
  <2>. QED  BY <1>0, <2>1, <2>2, <2>3, <2>4, <2>5 DEF Typed, HostTyped
<1>3. CASE TerminateRefused
  <2>1. engo' \in EngoType
    BY <1>3, RecordTypes DEF TerminateRefused, Typed, HostTyped
  <2>2. client' \in ClientType
    BY <1>0, <1>3 DEF TerminateRefused, ClientType
  <2>3. fsm' \in FsmType
    <3>1. [IdleFsm(TRUE) EXCEPT !.retry = TRUE] \in FsmType
      BY DEF IdleFsm, FsmType
    <3>. QED  BY <1>0, <1>3, <3>1, RecordTypes DEF TerminateRefused
  <2>4. timer' \in TimerType /\ call' = NoCall /\ UNCHANGED <<orphan, tasks, radio, events, glasses>>
    BY <1>3 DEF TerminateRefused, Returns, Typed, HostTyped, TimerType
  <2>. QED  BY <1>0, <2>1, <2>2, <2>3, <2>4 DEF Typed, HostTyped
<1>4. CASE GattTaken
  <2>1. radio' \in CoreType
    <3>1. call.then \in Steps \cup {"battery"}
      BY <1>0, <1>4, CallFields DEF GattTaken, Answer
    <3>. QED  BY <1>4, <3>1 DEF GattTaken, Typed, CoreType
  <2>2. call' = NoCall /\ UNCHANGED <<hud, client, engo, tasks, events, glasses>>
    BY <1>4 DEF GattTaken, Returns
  <2>. QED  BY <1>0, <2>1, <2>2 DEF Typed, HostTyped, hud
<1>5. CASE GattRefused
  <2>1. client' \in ClientType /\ call' \in Calls
    <3>1. CASE SetupFails
      BY <1>0, <3>1, ForceDisconnectType, RecordTypes DEF SetupFails
    <3>2. CASE ~SetupFails
      BY <1>0, <1>5, <3>2, CallTypes, RecordTypes, NextStepType, ZenonT(40)
         DEF GattRefused, Waits, Returns, Steps
    <3>. QED  BY <3>1, <3>2
  <2>2. UNCHANGED <<hud, engo, tasks, radio, events, glasses>>
    BY <1>5 DEF GattRefused
  <2>. QED  BY <2>1, <2>2 DEF Typed, HostTyped, hud
<1>6. CASE WriteAnswer
  <2>1. call.then \in {"clear", "draw"}
    BY <1>0, <1>6, CallFields DEF WriteAnswer, Answer
  <2>2. fsm' \in FsmType /\ timer' \in TimerType /\ orphan' \in BOOLEAN
    BY <1>0, <1>6, <2>1, RecordTypes
       DEF WriteAnswer, Cleared, TimerStart, Typed, HostTyped, TimerType
  <2>3. call' = NoCall /\ UNCHANGED <<client, engo, tasks, radio, events, glasses>>
    BY <1>6 DEF WriteAnswer, Returns
  <2>. QED  BY <1>0, <2>2, <2>3 DEF Typed, HostTyped
<1>. QED  BY <1>1, <1>2, <1>3, <1>4, <1>5, <1>6 DEF Answered

\* No step breaks a type.
LEMMA TypedStep == Typed /\ [Next]_vars => Typed'
<1>1. ASSUME Typed, UNCHANGED vars PROVE Typed'
  BY <1>1 DEF Typed, HostTyped, vars, host, hud
<1>2. ASSUME Typed, Next PROVE Typed'
  BY <1>2, InterruptType, RadioType, RequestType, HciType, HudType, AnswerType DEF Next
<1>. QED  BY <1>1, <1>2

\* Every variable has its type initially.
LEMMA InitTyped == Init => Typed
<1>. SUFFICES ASSUME Init PROVE Typed
  OBVIOUS
<1>1. engo \in EngoType
  BY DEF Init, EngoType
<1>2. radio \in CoreType
  BY DEF Init, CoreType
<1>3. glasses \in GlassesType
  BY DEF Init, GlassesType
<1>4. timer \in TimerType /\ events \in Seq(EventNames)
  BY DEF Init, TimerType
<1>. QED  BY <1>1, <1>2, <1>3, <1>4, RecordTypes, CallTypes DEF Init, Typed, HostTyped

\* Every variable keeps its type, whatever the glasses and the second core do.
THEOREM TypesAlwaysRight == Spec => []TypeOK
<1>1. Init => Typed
  BY InitTyped
<1>2. Typed => TypeOK
  BY TypedIsTypeOK
<1>. QED  BY <1>1, <1>2, TypedStep, PTL DEF Spec
-----------------------------------------------------------------------------
(* The life of a connection, and the setup that runs in it.                 *)

Alive == radio.link # "down" \/ Waiting("closed")
Lives == ~Waiting("opened") /\ Alive
NoGatt == \A e \in GattEvents : ~Waiting(e)

\* A terminate that the client has asked for, not the application.
ClientEnds == call.cmd = "terminate" /\ call.then \notin {"request", "unwanted"}

\* The queue tells of one connection at a time, and the client is open within it.
LifeInv ==
  /\ radio.link # "down" => ~Waiting("closed")
  /\ Waiting("opened") => Alive
  /\ client.open => Lives
  /\ radio.link = "up" /\ client.open => ~client.terminating

FsmIsIdle ==
  fsm.state = "INIT" /\ ~fsm.discovering /\ ~fsm.late /\ ~fsm.retry /\ ~fsm.due

\* A client that is closed has no setup, no procedure and no frame under way.
ClosedInv == ~client.open =>
  /\ client.step = "IDLE" /\ ~client.linkUp /\ ~client.refused
  /\ call.cmd \notin {"gatt", "write"} /\ ~ClientEnds
  /\ radio.gatt = "none" /\ NoGatt
  /\ FsmIsIdle

\* One procedure at a time, asked for, running or answered, and it is the client's step.
Asks(s) == client.step = IF s = "battery" THEN "IDLE" ELSE s
GattInv ==
  /\ call.cmd = "gatt" => radio.gatt = "none" /\ NoGatt /\ Asks(call.then)
  /\ radio.gatt # "none" => NoGatt /\ Asks(radio.gatt) /\ radio.link # "down"

\* A link that is up has been through its setup, the subscription to CB9 included.
UpInv ==
  /\ client.linkUp => client.step = "IDLE"
  /\ fsm.state # "INIT" \/ call.cmd = "write" \/ call.then = "watchdog" => client.linkUp
  /\ radio.link # "down" /\ Waiting("gatt_ok") /\ client.step = "CTRL_NOTIFY"
       => glasses.subscribed
  /\ radio.link # "down" /\ client.linkUp => glasses.subscribed

SetupInv == Typed /\ QueueInv /\ LifeInv /\ ClosedInv /\ GattInv /\ UpInv

\* The mode task and the interrupts take no part in the setup.
LEMMA InterruptSetup ==
  ASSUME SetupInv, Enter \/ Leave \/ Tick \/ RetryTimer
  PROVE  SetupInv'
<1>1. Typed'
  BY InterruptType DEF SetupInv
<1>2. UNCHANGED <<client, call, radio, events, glasses>>
  BY DEF Enter, Leave, Tick, RetryTimer
<1>3. QueueInv' /\ \A x : Waiting(x)' <=> Waiting(x)
  BY <1>2, EventsKept DEF SetupInv
<1>4. LifeInv'
  BY <1>2, <1>3 DEF SetupInv, LifeInv, Alive, Lives
<1>5. /\ ~client.open => FsmIsIdle'
      /\ fsm'.state # "INIT" => fsm.state # "INIT"
  BY DEF Enter, Leave, Tick, RetryTimer, hud, IdleFsm, FsmIsIdle, SetupInv, ClosedInv, Typed,
         HostTyped, FsmType
<1>6. ClosedInv' /\ GattInv'
  BY <1>2, <1>3, <1>5 DEF SetupInv, ClosedInv, GattInv, NoGatt, ClientEnds, Asks
<1>7. UpInv'
  BY <1>2, <1>3, <1>5 DEF SetupInv, UpInv
<1>. QED  BY <1>1, <1>3, <1>4, <1>6, <1>7 DEF SetupInv

\* Nor do the tasks of app_ble.c, nor the answers to what they ask, unless a link ends.
LEMMA RequestSetup ==
  ASSUME SetupInv,
         \/ ScanRequest \/ ConnectRequest \/ DisconnectRequest
         \/ ScanAnswer \/ ConnectAnswer \/ StopConnectAnswer \/ StopScanAnswer
  PROVE  SetupInv'
<1>1. Typed'
  BY RequestType, AnswerType DEF SetupInv, Answered
<1>2. UNCHANGED <<fsm, client, events, glasses>>
  BY DEF ScanRequest, ConnectRequest, DisconnectRequest, ScanAnswer, ConnectAnswer,
         StopConnectAnswer, StopScanAnswer, hud
<1>3. QueueInv' /\ \A x : Waiting(x)' <=> Waiting(x)
  BY <1>2, EventsKept DEF SetupInv
<1>4. radio'.link = radio.link /\ radio'.gatt = radio.gatt
  BY DEF ScanRequest, ConnectRequest, DisconnectRequest, ScanAnswer, ConnectAnswer,
         StopConnectAnswer, StopScanAnswer, SetupInv, Typed, CoreType
<1>5. call'.cmd \notin {"gatt", "write"} /\ ~ClientEnds' /\ call'.then # "watchdog"
  BY DEF ScanRequest, ConnectRequest, DisconnectRequest, ScanAnswer, ConnectAnswer,
         StopConnectAnswer, StopScanAnswer, Runs, Waits, Returns, NoCall, ClientEnds
<1>6. LifeInv'
  BY <1>2, <1>3, <1>4 DEF SetupInv, LifeInv, Alive, Lives
<1>7. ClosedInv' /\ GattInv'
  BY <1>2, <1>3, <1>4, <1>5 DEF SetupInv, ClosedInv, GattInv, NoGatt, Asks, FsmIsIdle
<1>8. UpInv'
  BY <1>2, <1>3, <1>4, <1>5 DEF SetupInv, UpInv
<1>. QED  BY <1>1, <1>3, <1>6, <1>7, <1>8 DEF SetupInv

\* The second core sends what belongs to the connection that it has.
LEMMA RadioSetup ==
  ASSUME SetupInv, Radio
  PROVE  SetupInv'
<1>1. Typed' /\ radio \in CoreType /\ glasses \in GlassesType
  BY RadioType DEF SetupInv, Typed
<1>2. UNCHANGED <<fsm, client, call>>
  BY DEF Radio, Advertised, ScanEnds, Connects, ConnectFails, LinkEnds, GattEnds, host, hud
<1>3. CASE Advertised \/ ScanEnds \/ ConnectFails
  <2>1. radio'.link = radio.link /\ radio'.gatt = radio.gatt /\ glasses' = glasses
    BY <1>1, <1>3 DEF Advertised, ScanEnds, ConnectFails, CoreType
  <2>2. QueueInv' /\ \A x \in LinkEvents : Waiting(x)' <=> Waiting(x)
    <3>1. CASE ScanEnds /\ Sends("scanned") /\ Range(events) \subseteq {"found"}
      BY <3>1, EventSent DEF SetupInv, EventNames, LinkEvents, GattEvents, Waiting
    <3>2. CASE Sends("found") \/ Sends("scan_failed") \/ Sends("open_failed")
      BY <3>2, EventSent DEF SetupInv, EventNames, LinkEvents, GattEvents
    <3>. QED  BY <1>3, <3>1, <3>2 DEF Advertised, ScanEnds, ConnectFails
  <2>. QED  BY <1>1, <1>2, <2>1, <2>2
            DEF SetupInv, LifeInv, ClosedInv, GattInv, UpInv, Alive, Lives, NoGatt, Asks,
                ClientEnds, FsmIsIdle, LinkEvents, GattEvents
<1>4. CASE Connects
  <2>1. /\ ~client.open /\ ~Waiting("opened") /\ ~Waiting("closed") /\ NoGatt
        /\ radio.gatt = "none"
    BY <1>4 DEF Connects, SetupInv, LifeInv, ClosedInv, Alive, Lives, Waiting
  <2>2. radio'.link = "up" /\ radio'.gatt = radio.gatt
    BY <1>1, <1>4 DEF Connects, CoreType
  <2>3. QueueInv' /\ \A x : Waiting(x)' <=> Waiting(x) \/ x = "opened"
    BY <1>4, <2>1, EventSent DEF Connects, SetupInv, EventNames, LinkEvents, NoGatt
  <2>. QED  BY <1>1, <1>2, <2>1, <2>2, <2>3
            DEF SetupInv, LifeInv, ClosedInv, GattInv, UpInv, Alive, Lives, NoGatt, Asks,
                ClientEnds, FsmIsIdle, GattEvents
<1>5. CASE LinkEnds
  <2>1. radio'.link = "down" /\ radio'.gatt = "none" /\ ~Waiting("closed")
    BY <1>1, <1>5 DEF LinkEnds, CoreType, SetupInv, LifeInv
  <2>2. QueueInv' /\ \A x : Waiting(x)' <=> Waiting(x) \/ x = "closed"
    BY <1>5, <2>1, EventSent DEF LinkEnds, SetupInv, EventNames
  <2>. QED  BY <1>1, <1>2, <1>5, <2>1, <2>2
            DEF SetupInv, LifeInv, ClosedInv, GattInv, UpInv, Alive, Lives, NoGatt, Asks,
                ClientEnds, FsmIsIdle, GattEvents
<1>6. CASE GattEnds
  <2>1. /\ radio.gatt # "none" /\ radio'.gatt = "none" /\ radio'.link = radio.link
        /\ radio.link # "down" /\ client.open
        /\ \A x \in LinkEvents : ~Waiting(x)
    BY <1>1, <1>6 DEF GattEnds, CoreType, SetupInv, LifeInv, ClosedInv, GattInv, Lives, NoGatt,
                      LinkEvents
  <2>2. PICK e \in GattEvents :
          /\ Sends(e)
          /\ e = "gatt_ok" => glasses'.subscribed = (glasses.subscribed \/ radio.gatt = "CTRL_NOTIFY")
          /\ e # "gatt_ok" => glasses' = glasses
    BY <1>1, <1>6 DEF GattEnds, GattEvents, GlassesType
  <2>3. QueueInv' /\ \A x : Waiting(x)' <=> Waiting(x) \/ x = e
    BY <2>1, <2>2, EventSent DEF SetupInv, EventNames, GattEvents
  <2>4. call.cmd # "gatt"
    BY <2>1 DEF SetupInv, GattInv
  <2>5. LifeInv' /\ ClosedInv' /\ GattInv'
    BY <1>2, <2>1, <2>2, <2>3, <2>4
       DEF SetupInv, LifeInv, ClosedInv, GattInv, Alive, Lives, GattEvents
  <2>6. UpInv'
    BY <1>2, <2>1, <2>2, <2>3 DEF SetupInv, GattInv, UpInv, Asks, LinkEvents, GattEvents
  <2>. QED  BY <1>1, <2>3, <2>5, <2>6 DEF SetupInv
<1>. QED  BY <1>3, <1>4, <1>5, <1>6 DEF Radio

\* A terminate that the client asks for, once and for an open link, keeps the rest of it.
LEMMA ForceDisconnectFields ==
  ASSUME NEW c \in ClientType, NEW t, ForceDisconnect(c, t)
  PROVE  /\ client'.open = c.open /\ client'.step = c.step /\ client'.linkUp = c.linkUp
         /\ client'.refused = c.refused
         /\ \/ ~c.terminating /\ c.open /\ client' = c /\ call' = [cmd |-> "terminate", then |-> t]
            \/ (c.terminating \/ ~c.open) /\ client'.terminating /\ call' = NoCall
BY DEF ForceDisconnect, ClientType, Waits, Returns

\* The setup that fails is over, and its link is to end.
LEMMA SetupFailsSetup ==
  ASSUME Typed, LifeInv, ClosedInv, UpInv, client.open, radio.gatt = "none", SetupFails,
         UNCHANGED <<hud, radio, glasses>>,
         ~client.linkUp, NoGatt', \A x : Waiting(x)' => Waiting(x),
         Waiting("closed") => Waiting("closed")'
  PROVE  LifeInv' /\ ClosedInv' /\ GattInv' /\ UpInv'
<1>. DEFINE c == [client EXCEPT !.step = "IDLE"]
<1>1. c \in ClientType /\ ForceDisconnect(c, "setup")
  BY RecordTypes DEF SetupFails, Typed, HostTyped
<1>2. /\ client'.open /\ client'.step = "IDLE" /\ ~client'.linkUp
      /\ \/ ~client.terminating /\ ~client'.terminating
            /\ call' = [cmd |-> "terminate", then |-> "setup"]
         \/ client.terminating /\ client'.terminating /\ call' = NoCall
  <2>1. /\ c.open = client.open /\ c.step = "IDLE" /\ c.linkUp = client.linkUp
        /\ c.terminating = client.terminating
    BY DEF Typed, HostTyped, ClientType
  <2>. QED  BY <1>1, <2>1, ForceDisconnectFields
<1>3. radio' = radio /\ fsm' = fsm
  BY DEF hud
<1>4. LifeInv'
  BY <1>2, <1>3 DEF LifeInv, Alive, Lives
<1>5. ClosedInv' /\ GattInv'
  BY <1>2, <1>3 DEF ClosedInv, GattInv, NoCall
<1>6. UpInv'
  BY <1>2, <1>3 DEF UpInv, NoCall
<1>. QED  BY <1>4, <1>5, <1>6

\* What follows a step is asked for when the step is done; the link comes up only after
\* the subscription.
LEMMA ProceedSetup ==
  ASSUME SetupInv, client.open, client.step # "IDLE", call = NoCall, radio.gatt = "none",
         NEW next \in Steps \cup {"FAIL", "UP"}, Proceed(next),
         next = "UP" => (radio.link # "down" => glasses.subscribed),
         UNCHANGED <<radio, glasses>>,
         NoGatt', \A x : Waiting(x)' => Waiting(x),
         Waiting("closed") => Waiting("closed")'
  PROVE  LifeInv' /\ ClosedInv' /\ GattInv' /\ UpInv'
<1>0. ~client.linkUp /\ fsm.state = "INIT" /\ fsm \in FsmType /\ client \in ClientType
  BY DEF SetupInv, UpInv, Typed, HostTyped
<1>1. CASE SetupFails /\ UNCHANGED <<hud, tasks>>
  BY <1>0, <1>1, SetupFailsSetup DEF SetupInv
<1>2. CASE next = "UP" /\ DiscoveryComplete
  <2>. DEFINE c == [client EXCEPT !.step = "IDLE", !.linkUp = TRUE]
  <2>1. /\ c \in ClientType /\ c.open = client.open /\ c.step = "IDLE" /\ c.linkUp
        /\ c.terminating = client.terminating
    BY <1>0 DEF ClientType
  <2>2. CASE ~fsm.running
    <3>1. ForceDisconnect(c, "setup") /\ fsm' = fsm
      BY <1>2, <2>2 DEF DiscoveryComplete, hud
    <3>2. /\ client'.open /\ client'.step = "IDLE" /\ client'.linkUp
          /\ \/ ~client.terminating /\ ~client'.terminating
                /\ call' = [cmd |-> "terminate", then |-> "setup"]
             \/ client.terminating /\ client'.terminating /\ call' = NoCall
      BY <2>1, <3>1, ForceDisconnectFields
    <3>3. LifeInv'
      BY <3>2 DEF SetupInv, LifeInv, Alive, Lives
    <3>4. ClosedInv' /\ GattInv' /\ UpInv'
      BY <1>2, <3>1, <3>2 DEF ClosedInv, GattInv, UpInv, NoCall, NoGatt, GattEvents
    <3>. QED  BY <3>3, <3>4
  <2>3. CASE fsm.running
    <3>1. /\ client' = c
          /\ call' = NoCall \/ call' = [cmd |-> "gatt", then |-> "battery"]
      BY <1>2, <2>3 DEF DiscoveryComplete, Waits, Returns
    <3>2. LifeInv'
      BY <2>1, <3>1 DEF SetupInv, LifeInv, Alive, Lives
    <3>3. ClosedInv' /\ GattInv' /\ UpInv'
      BY <1>2, <2>1, <3>1 DEF ClosedInv, GattInv, UpInv, NoCall, NoGatt, GattEvents, Asks
    <3>. QED  BY <3>2, <3>3
  <2>. QED  BY <1>0, <2>2, <2>3 DEF FsmType
<1>3. CASE /\ next \in Steps
           /\ client' = [client EXCEPT !.step = next]
           /\ Waits("gatt", next) /\ UNCHANGED <<hud, tasks>>
  <2>1. /\ client'.open /\ client'.step = next /\ ~client'.linkUp
        /\ client'.terminating = client.terminating /\ fsm' = fsm
        /\ call' = [cmd |-> "gatt", then |-> next] /\ next # "battery" /\ next # "watchdog"
    BY <1>0, <1>3 DEF ClientType, Waits, hud, Steps
  <2>2. LifeInv'
    BY <2>1 DEF SetupInv, LifeInv, Alive, Lives
  <2>3. ClosedInv' /\ GattInv' /\ UpInv'
    BY <1>0, <2>1 DEF ClosedInv, GattInv, UpInv, NoGatt, GattEvents, Asks
  <2>. QED  BY <2>2, <2>3
<1>. QED  BY <1>1, <1>2, <1>3 DEF Proceed

\* The HCI task handles what the queue tells of the connection.
LEMMA HciSetup ==
  ASSUME SetupInv, HciTask
  PROVE  SetupInv'
<1>1. Typed' /\ fsm \in FsmType /\ client \in ClientType
  BY HciType DEF SetupInv, Typed, HostTyped
<1>2. CASE Found \/ Scanned \/ ScanFailed \/ OpenFailed
  <2>1. PICK e \in EventNames \ LinkEvents : Event(e)
    BY <1>2 DEF Found, Scanned, ScanFailed, OpenFailed, EventNames, LinkEvents, GattEvents
  <2>2. QueueInv' /\ \A x \in LinkEvents : Waiting(x)' <=> Waiting(x)
    BY <2>1, EventTaken DEF SetupInv
  <2>3. UNCHANGED <<fsm, client, call, radio, glasses>>
    BY <1>2 DEF Found, Scanned, ScanFailed, OpenFailed, hud
  <2>. QED  BY <1>1, <2>2, <2>3
            DEF SetupInv, LifeInv, ClosedInv, GattInv, UpInv, Alive, Lives, NoGatt, Asks,
                ClientEnds, FsmIsIdle, LinkEvents, GattEvents
<1>3. CASE Opened
  <2>1. /\ QueueInv' /\ Waiting("opened") /\ ~Waiting("opened")' /\ call = NoCall
        /\ \A x : x # "opened" => (Waiting(x)' <=> Waiting(x))
        /\ NoGatt'
    BY <1>3, EventTaken DEF Opened, SetupInv, EventNames, LinkEvents, GattEvents, NoGatt
  <2>2. ~client.open /\ Alive /\ radio.gatt = "none" /\ radio' = radio /\ glasses' = glasses
    BY <1>3, <2>1 DEF Opened, SetupInv, LifeInv, ClosedInv, Lives
  <2>3. CASE fsm.running
    <3>1. /\ client'.open /\ client'.step = "EXCH_MTU" /\ ~client'.linkUp /\ ~client'.terminating
          /\ call' = [cmd |-> "gatt", then |-> "EXCH_MTU"] /\ fsm'.state = fsm.state
      BY <1>1, <1>3, <2>3 DEF Opened, ClosedClient, Waits, FsmType
    <3>2. LifeInv' /\ ClosedInv' /\ GattInv'
      BY <2>1, <2>2, <3>1 DEF SetupInv, LifeInv, ClosedInv, GattInv, Alive, Lives, NoGatt, Asks
    <3>3. UpInv'
      BY <2>2, <3>1 DEF SetupInv, ClosedInv, UpInv, FsmIsIdle
    <3>. QED  BY <1>1, <2>1, <3>2, <3>3 DEF SetupInv
  <2>4. CASE ~fsm.running
    <3>1. client' = client /\ fsm' = fsm /\ call' = [cmd |-> "terminate", then |-> "unwanted"]
      BY <1>3, <2>4 DEF Opened, Waits
    <3>. QED  BY <1>1, <2>1, <2>2, <3>1
              DEF SetupInv, LifeInv, ClosedInv, GattInv, UpInv, Alive, Lives, NoGatt, Asks,
                  ClientEnds, FsmIsIdle, GattEvents
  <2>. QED  BY <1>1, <2>3, <2>4 DEF FsmType
<1>4. CASE Closed
  <2>1. QueueInv' /\ call = NoCall /\ Waiting("closed") /\ \A x \in LinkEvents : ~Waiting(x)'
    BY <1>4, EventTaken DEF Closed, SetupInv, EventNames
  <2>2. /\ client' = ClosedClient /\ call' = NoCall /\ radio' = radio /\ FsmIsIdle'
        /\ radio.link = "down" /\ radio.gatt = "none"
    BY <1>4, <2>1 DEF Closed, IdleFsm, FsmIsIdle, SetupInv, LifeInv, GattInv
  <2>3. LifeInv' /\ ClosedInv'
    BY <2>1, <2>2 DEF LifeInv, ClosedInv, Lives, NoGatt, ClosedClient, NoCall, ClientEnds,
                      LinkEvents, GattEvents
  <2>4. GattInv' /\ UpInv'
    BY <2>1, <2>2 DEF GattInv, UpInv, ClosedClient, NoCall, FsmIsIdle
  <2>. QED  BY <1>1, <2>1, <2>3, <2>4 DEF SetupInv
<1>5. CASE ProcComplete
  <2>1. PICK e \in GattEvents :
          /\ Event(e)
          /\ \/ /\ e = "gatt_ok" \/ client.step = "BATTERY_READ"
                /\ client.step # "IDLE"
                /\ Proceed(NextStep(client.step, glasses.kind))
             \/ client.step # "IDLE" /\ SetupFails /\ UNCHANGED hud
             \/ client.step = "IDLE" /\ UNCHANGED host
    BY <1>5 DEF ProcComplete, GattEvents
  <2>2. /\ QueueInv' /\ call = NoCall /\ Waiting(e) /\ \A x : Waiting(x)' => Waiting(x)
        /\ \A x : x # e => (Waiting(x)' <=> Waiting(x))
        /\ NoGatt'
    BY <2>1, EventTaken DEF SetupInv, EventNames, LinkEvents, GattEvents, NoGatt
  <2>3. UNCHANGED <<radio, glasses>>
    BY <1>5 DEF ProcComplete
  <2>4. client.open /\ radio.gatt = "none" /\ (Waiting("closed") => Waiting("closed")')
    BY <2>2 DEF SetupInv, ClosedInv, GattInv, NoGatt, GattEvents
  <2>5. CASE UNCHANGED host
    BY <1>1, <2>2, <2>3, <2>4, <2>5
       DEF SetupInv, LifeInv, ClosedInv, GattInv, UpInv, Alive, Lives, NoGatt, Asks, host, hud,
           ClientEnds, FsmIsIdle, GattEvents, NoCall
  <2>6. CASE client.step # "IDLE" /\ SetupFails /\ UNCHANGED hud
    <3>1. ~client.linkUp
      BY <2>6 DEF SetupInv, UpInv
    <3>2. LifeInv' /\ ClosedInv' /\ GattInv' /\ UpInv'
      BY <2>2, <2>3, <2>4, <2>6, <3>1, SetupFailsSetup DEF SetupInv
    <3>. QED  BY <1>1, <2>2, <3>2 DEF SetupInv
  <2>7. CASE /\ e = "gatt_ok" \/ client.step = "BATTERY_READ"
             /\ client.step # "IDLE"
             /\ Proceed(NextStep(client.step, glasses.kind))
    <3>1. client.step \in Steps
      BY <1>1, <2>7 DEF ClientType
    <3>. DEFINE next == NextStep(client.step, glasses.kind)
    <3>2. next \in Steps \cup {"FAIL", "UP"} /\ (next = "UP" => client.step = "CTRL_NOTIFY")
      BY <3>1, NextStepType
    <3>3. next = "UP" => (radio.link # "down" => glasses.subscribed)
      BY <2>2, <2>7, <3>2 DEF SetupInv, UpInv
    <3>4. LifeInv' /\ ClosedInv' /\ GattInv' /\ UpInv'
      BY <2>2, <2>3, <2>4, <2>7, <3>2, <3>3, ProceedSetup
    <3>. QED  BY <1>1, <2>2, <3>4 DEF SetupInv
  <2>. QED  BY <2>1, <2>5, <2>6, <2>7
<1>. QED  BY <1>2, <1>3, <1>4, <1>5 DEF HciTask

\* FS_ActiveLook_Task draws on a link that is up, and asks for the end of an open one.
LEMMA HudSetup ==
  ASSUME SetupInv, HudTask
  PROVE  SetupInv'
<1>1. Typed' /\ fsm \in FsmType /\ client \in ClientType
  BY HudType DEF SetupInv, Typed, HostTyped
<1>2. UNCHANGED <<radio, events, glasses>> /\ call = NoCall
  BY DEF HudTask, RetryTerminate, DiscoveryTimedOut, Clear, Idle, Update, InState, Runs
<1>3. QueueInv' /\ \A x : Waiting(x)' <=> Waiting(x)
  BY <1>2, EventsKept DEF SetupInv
<1>4. /\ client'.open = client.open /\ client'.step = client.step
      /\ client'.linkUp = client.linkUp /\ client'.refused = client.refused
      /\ radio.link = "up" /\ client.open => client'.terminating = client.terminating
  <2>1. ASSUME NEW t, ForceDisconnect(client, t)
        PROVE  /\ client'.open = client.open /\ client'.step = client.step
               /\ client'.linkUp = client.linkUp /\ client'.refused = client.refused
               /\ radio.link = "up" /\ client.open => client'.terminating = client.terminating
    BY <1>1, <2>1, ForceDisconnectFields DEF SetupInv, LifeInv
  <2>. QED  BY <2>1 DEF HudTask, RetryTerminate, DiscoveryTimedOut, Clear, Idle, Update
<1>5. LifeInv'
  BY <1>2, <1>3, <1>4 DEF SetupInv, LifeInv, Alive, Lives
<1>6. client.open \/ Idle
  BY DEF HudTask, RetryTerminate, DiscoveryTimedOut, Clear, Update, InState,
         SetupInv, ClosedInv, FsmIsIdle
<1>7. /\ call'.cmd # "gatt" /\ (call'.cmd = "write" \/ call'.then = "watchdog" => client.linkUp)
      /\ fsm'.state # "INIT" => client.linkUp
  <2>1. CASE RetryTerminate \/ DiscoveryTimedOut
    <3>1. fsm'.state = fsm.state
      BY <1>1, <2>1 DEF RetryTerminate, DiscoveryTimedOut, FsmType
    <3>2. call' = NoCall \/ (call'.cmd = "terminate" /\ call'.then \in {"retry", "timed_out"})
      BY <1>1, <1>2, <2>1, ForceDisconnectFields DEF RetryTerminate, DiscoveryTimedOut
    <3>. QED  BY <3>1, <3>2 DEF NoCall, SetupInv, UpInv
  <2>2. CASE Idle
    BY <1>2, <2>2 DEF Idle, hud, NoCall, SetupInv, UpInv
  <2>3. CASE Clear \/ Update
    <3>1. client.linkUp
      BY <2>3 DEF Clear, Update, InState, SetupInv, UpInv
    <3>2. call'.cmd # "gatt"
      BY <1>1, <1>2, <2>3, ForceDisconnectFields DEF Clear, Update, Waits, NoCall
    <3>. QED  BY <3>1, <3>2
  <2>. QED  BY <2>1, <2>2, <2>3 DEF HudTask
<1>8. ClosedInv'
  <2>1. CASE Idle
    BY <1>2, <1>3, <2>1 DEF Idle, hud, SetupInv, ClosedInv, NoGatt, ClientEnds, FsmIsIdle
  <2>2. CASE client.open
    BY <1>4, <2>2 DEF ClosedInv
  <2>. QED  BY <1>6, <2>1, <2>2
<1>9. GattInv' /\ UpInv'
  BY <1>2, <1>3, <1>4, <1>7 DEF SetupInv, GattInv, UpInv, NoGatt, Asks
<1>. QED  BY <1>1, <1>3, <1>5, <1>8, <1>9 DEF SetupInv

\* The answers to the commands of the client.
LEMMA AnswerSetup ==
  ASSUME SetupInv, TerminateTaken \/ TerminateRefused \/ GattTaken \/ GattRefused \/ WriteAnswer
  PROVE  SetupInv'
<1>1. /\ Typed' /\ fsm \in FsmType /\ client \in ClientType /\ radio \in CoreType
      /\ call \in Calls
  BY AnswerType DEF Answered, SetupInv, Typed, HostTyped
<1>2. UNCHANGED <<events, glasses>>
  BY DEF TerminateTaken, TerminateRefused, GattTaken, GattRefused, WriteAnswer
<1>3. QueueInv' /\ \A x : Waiting(x)' <=> Waiting(x)
  BY <1>2, EventsKept DEF SetupInv
<1>4. CASE TerminateTaken
  <2>1. /\ radio'.link = "ending" /\ radio'.gatt = radio.gatt /\ radio.link = "up"
        /\ call' = NoCall
    BY <1>1, <1>4 DEF TerminateTaken, CoreType, Returns
  <2>2. /\ client'.open = client.open /\ client'.step = client.step
        /\ client'.linkUp = client.linkUp /\ (client'.refused => client.refused)
    BY <1>1, <1>4 DEF TerminateTaken, ClientType
  <2>3. fsm'.state # "INIT" => client.linkUp
    BY <1>1, <1>4 DEF TerminateTaken, ReadyFsm, FsmType, SetupInv, UpInv
  <2>4. client.open \/ fsm' = fsm
    BY <1>4 DEF TerminateTaken, Answer, SetupInv, ClosedInv, ClientEnds
  <2>5. LifeInv' /\ ClosedInv'
    BY <1>3, <2>1, <2>2, <2>4
       DEF SetupInv, LifeInv, ClosedInv, Alive, Lives, NoGatt, NoCall, ClientEnds, FsmIsIdle
  <2>6. GattInv' /\ UpInv'
    BY <1>2, <1>3, <2>1, <2>2, <2>3 DEF SetupInv, GattInv, UpInv, NoGatt, Asks, NoCall
  <2>. QED  BY <1>1, <1>3, <2>5, <2>6 DEF SetupInv
<1>5. CASE TerminateRefused
  <2>1. radio' = radio /\ call' = NoCall
    BY <1>5 DEF TerminateRefused, Returns
  <2>2. /\ client'.open = client.open /\ client'.step = client.step
        /\ client'.linkUp = client.linkUp /\ client'.terminating = client.terminating
    BY <1>1, <1>5 DEF TerminateRefused, ClientType
  <2>3. fsm'.state # "INIT" => client.linkUp
    BY <1>1, <1>5 DEF TerminateRefused, IdleFsm, ReadyFsm, FsmType, SetupInv, UpInv
  <2>4. client.open \/ (fsm' = fsm /\ client' = client)
    BY <1>5 DEF TerminateRefused, Answer, SetupInv, ClosedInv, ClientEnds
  <2>5. LifeInv' /\ ClosedInv'
    BY <1>3, <2>1, <2>2, <2>4
       DEF SetupInv, LifeInv, ClosedInv, Alive, Lives, NoGatt, NoCall, ClientEnds, FsmIsIdle
  <2>6. GattInv' /\ UpInv'
    BY <1>2, <1>3, <2>1, <2>2, <2>3 DEF SetupInv, GattInv, UpInv, NoGatt, Asks, NoCall
  <2>. QED  BY <1>1, <1>3, <2>5, <2>6 DEF SetupInv
<1>6. CASE GattTaken
  <2>1. /\ radio'.link = "up" /\ radio.link = "up" /\ radio'.gatt = call.then
        /\ call.cmd = "gatt" /\ call' = NoCall
        /\ UNCHANGED <<fsm, client>>
    BY <1>1, <1>6 DEF GattTaken, Answer, CoreType, Returns, hud
  <2>2. client.open
    BY <2>1 DEF SetupInv, ClosedInv
  <2>3. LifeInv' /\ ClosedInv'
    BY <1>3, <2>1, <2>2 DEF SetupInv, LifeInv, ClosedInv, Alive, Lives
  <2>4. GattInv' /\ UpInv'
    BY <1>2, <1>3, <2>1 DEF SetupInv, GattInv, UpInv, NoGatt, Asks, NoCall
  <2>. QED  BY <1>1, <1>3, <2>3, <2>4 DEF SetupInv
<1>7. CASE GattRefused
  <2>1. /\ call.cmd = "gatt" /\ UNCHANGED <<hud, radio>> /\ fsm' = fsm
        /\ client.open /\ radio.gatt = "none" /\ NoGatt /\ NoGatt' /\ Asks(call.then)
    BY <1>3, <1>7 DEF GattRefused, Answer, hud, SetupInv, ClosedInv, GattInv, NoGatt
  <2>2. CASE call.then = "battery"
    <3>1. client' = client /\ call' = NoCall
      BY <1>7, <2>2 DEF GattRefused, Returns
    <3>. QED  BY <1>1, <1>2, <1>3, <2>1, <3>1
              DEF SetupInv, LifeInv, ClosedInv, GattInv, UpInv, Alive, Lives, NoGatt, Asks, NoCall
  <2>3. CASE call.then = "BATTERY_READ"
    <3>. DEFINE next == AfterBattery(glasses.kind)
    <3>1. next \in {"TX_DESC", "CTRL_DESC"} /\ client.step = "BATTERY_READ"
      BY <2>1, <2>3, NextStepType DEF Asks, Steps
    <3>2. /\ client'.open /\ client'.step = next /\ client'.linkUp = client.linkUp
          /\ client'.terminating = client.terminating
          /\ call' = [cmd |-> "gatt", then |-> next]
      BY <1>1, <1>7, <2>1, <2>3 DEF GattRefused, Waits, ClientType
    <3>3. LifeInv' /\ ClosedInv'
      BY <1>3, <2>1, <3>2 DEF SetupInv, LifeInv, ClosedInv, Alive, Lives
    <3>4. GattInv' /\ UpInv'
      BY <1>2, <1>3, <2>1, <3>1, <3>2 DEF SetupInv, GattInv, UpInv, NoGatt, Asks
    <3>. QED  BY <1>1, <1>3, <3>3, <3>4 DEF SetupInv
  <2>4. CASE call.then \notin {"battery", "BATTERY_READ"}
    <3>1. SetupFails
      BY <1>7, <2>4 DEF GattRefused
    <3>2. ~client.linkUp
      <4>1. client.step = call.then /\ call.then \in Steps
        BY <1>1, <2>1, <2>4, CallFields DEF Asks
      <4>. QED  BY <4>1 DEF SetupInv, UpInv, Steps
    <3>3. LifeInv' /\ ClosedInv' /\ GattInv' /\ UpInv'
      BY <1>2, <1>3, <2>1, <3>1, <3>2, SetupFailsSetup DEF SetupInv
    <3>. QED  BY <1>1, <1>3, <3>3 DEF SetupInv
  <2>. QED  BY <2>2, <2>3, <2>4
<1>8. CASE WriteAnswer
  <2>1. /\ call.cmd = "write" /\ call' = NoCall /\ UNCHANGED <<client, radio>>
        /\ client.linkUp /\ client.open
    BY <1>8 DEF WriteAnswer, Answer, Returns, SetupInv, ClosedInv, UpInv
  <2>2. LifeInv' /\ ClosedInv'
    BY <1>3, <2>1 DEF SetupInv, LifeInv, ClosedInv, Alive, Lives
  <2>3. GattInv' /\ UpInv'
    BY <1>2, <1>3, <2>1 DEF SetupInv, GattInv, UpInv, NoGatt, Asks, NoCall
  <2>. QED  BY <1>1, <1>3, <2>2, <2>3 DEF SetupInv
<1>. QED  BY <1>4, <1>5, <1>6, <1>7, <1>8

\* No step breaks the invariant of the setup.
LEMMA SetupStep == SetupInv /\ [Next]_vars => SetupInv'
<1>1. ASSUME SetupInv, UNCHANGED vars PROVE SetupInv'
  <2>1. Typed' /\ UNCHANGED <<fsm, client, call, radio, events, glasses>>
    BY <1>1, TypedStep DEF SetupInv, vars, host, hud
  <2>2. QueueInv' /\ \A x : Waiting(x)' <=> Waiting(x)
    BY <1>1, <2>1, EventsKept DEF SetupInv
  <2>. QED  BY <1>1, <2>1, <2>2
            DEF SetupInv, LifeInv, ClosedInv, GattInv, UpInv, Alive, Lives, NoGatt, Asks,
                ClientEnds, FsmIsIdle
<1>2. ASSUME SetupInv, Next PROVE SetupInv'
  BY <1>2, InterruptSetup, RequestSetup, RadioSetup, HciSetup, HudSetup, AnswerSetup
     DEF Next, Answered
<1>. QED  BY <1>1, <1>2

\* Nothing is set up initially.
LEMMA InitSetup == Init => SetupInv
<1>. SUFFICES ASSUME Init PROVE SetupInv
  OBVIOUS
<1>1. Typed /\ QueueInv
  BY InitTyped DEF Init, QueueInv, Typed, InOrder
<1>2. \A x : ~Waiting(x)
  BY DEF Init, Waiting, Range
<1>. QED  BY <1>1, <1>2
          DEF Init, SetupInv, LifeInv, ClosedInv, GattInv, UpInv, Alive, Lives, NoGatt, ClosedClient,
              IdleFsm, FsmIsIdle, NoCall, ClientEnds

\* A setup runs in its order, whatever services, characteristics and descriptors the
\* glasses have, and even when a discovery goes on after its link was given up: the
\* stack is asked for one procedure at a time, and a frame goes to glasses that can
\* say stop.
THEOREM SetupAlwaysInOrder == Spec => []SetupInOrder
<1>1. Spec => []SetupInv
  BY InitSetup, SetupStep, PTL DEF Spec
<1>2. SetupInv => SetupInOrder
  BY DEF SetupInv, GattInv, UpInv, SetupInOrder
<1>. QED  BY <1>1, <1>2, PTL
-----------------------------------------------------------------------------
(* Who moves next.                                                          *)

\* What app_ble.c knows of the connection, and whose terminate it waits for.
AppEnds == call.cmd = "terminate" /\ call.then \in {"request", "unwanted"}
EngoInv ==
  /\ engo.status = "CONNECTED" \/ engo.endAgain \/ engo.endDue => Lives
  /\ radio.link = "up" /\ ~Waiting("opened") => engo.status = "CONNECTED"
  /\ AppEnds => engo.status = "CONNECTED"
  /\ call.cmd = "connect" => engo.status = "IDLE"
  /\ call.cmd = "stop_connect" => engo.status = "CONNECTING"

\* From the discovery that has completed to the request that connects: one at a time,
\* and no attempt beside it.  An attempt is answered.
ScanInv ==
  /\ radio.scan # "off" => radio.conn = "off"
  /\ Waiting("scanned") => "CONN" \notin tasks /\ call.cmd # "connect"
  /\ "CONN" \in tasks => call.cmd # "connect" /\ engo.status # "CONNECTED"
  /\ Waiting("scanned") \/ "CONN" \in tasks \/ call.cmd = "connect" =>
       radio.conn = "off" /\ ~Waiting("opened")
  /\ engo.status = "CONNECTING" =>
       radio.conn # "off" \/ Waiting("opened") \/ Waiting("open_failed")

\* The flags of activelook.c.  What was given up does not succeed any more.
MachineInv ==
  /\ radio.link = "up" /\ fsm.due => fsm.retry
  /\ fsm.retry => ~fsm.discovering
  /\ fsm.late => fsm.discovering
  /\ fsm.running => timer # "free"
  /\ call.then = "setup" => client.step = "IDLE"
  /\ call.then = "retry" => client.refused
  /\ GivenUp /\ client.step # "IDLE" => ~Waiting("gatt_ok")

\* Without a connection the search for one goes on.  A disconnect request that is still
\* set may cancel an attempt, but not the scan that comes after it.
Scanning == \/ "SCAN" \in tasks \/ call.cmd = "scan" \/ radio.scan # "off"
            \/ Waiting("scan_failed") \/ engo.scanAgain
Connecting == \/ Waiting("scanned") \/ "CONN" \in tasks \/ call.cmd = "connect"
              \/ engo.status = "CONNECTING"
SearchInv == fsm.running /\ ~Alive =>
  Scanning \/ (Connecting /\ "DISC" \notin tasks /\ call.cmd # "stop_connect")

\* A link that is up is about to be ended by app_ble.c, or activelook.c has it: in its
\* setup, in a terminate that is asked for again, or with a picture to come.
Ending == "DISC" \in tasks \/ engo.endAgain \/ AppEnds
SettingUp   == fsm.state = "INIT" /\ fsm.discovering /\ timer = "running"
Retrying    == fsm.state = "INIT" /\ fsm.retry /\ client.refused /\ timer = "running"
GivingUp    == fsm.state = "INIT" /\ ~fsm.retry /\ ~fsm.discovering /\ call.then = "timed_out"
Clearing    == /\ fsm.state = "CLEAR" /\ ~fsm.discovering /\ ~fsm.retry
               /\ "HUD" \in tasks \/ call.then = "clear"
Displaying  == /\ fsm.state \in {"READY", "UPDATE"} /\ ~fsm.discovering /\ ~fsm.retry
               /\ timer = "running"
Owned ==
  /\ fsm.running /\ client.open
  /\ call.then \in {"watchdog", "draw"} => fsm.state = "UPDATE"
  /\ call.then = "clear" => fsm.state = "CLEAR"
  /\ SettingUp \/ Retrying \/ GivingUp \/ Clearing \/ Displaying
LinkedInv == radio.link = "up" /\ ~Waiting("opened") => Ending \/ Owned

OwnerInv == EngoInv /\ ScanInv /\ MachineInv /\ SearchInv /\ LinkedInv

\* Entering ACTIVE starts a scan, leaving it a disconnect request.
LEMMA ModeOwner ==
  ASSUME SetupInv, OwnerInv, Enter \/ Leave
  PROVE  OwnerInv'
<1>1. /\ UNCHANGED <<client, engo, call, radio, events>>
      /\ \A x : Waiting(x)' <=> Waiting(x)
  BY EventsKept DEF Enter, Leave
<1>2. EngoInv' /\ ScanInv'
  BY <1>1 DEF OwnerInv, EngoInv, ScanInv, Lives, Alive, AppEnds, Enter, Leave
<1>3. MachineInv'
  BY <1>1 DEF OwnerInv, MachineInv, GivenUp, Enter, Leave, IdleFsm
<1>4. CASE Enter
  <2>1. "SCAN" \in tasks' /\ ("DISC" \in tasks => "DISC" \in tasks') /\ ~fsm.running
    BY <1>4 DEF Enter
  <2>. QED  BY <1>1, <1>2, <1>3, <2>1
            DEF OwnerInv, SearchInv, LinkedInv, Scanning, Ending, Owned, AppEnds
<1>5. CASE Leave
  <2>1. "DISC" \in tasks' /\ ~fsm'.running
    BY <1>5 DEF Leave, IdleFsm
  <2>. QED  BY <1>1, <1>2, <1>3, <2>1 DEF OwnerInv, SearchInv, LinkedInv, Ending
<1>. QED  BY <1>4, <1>5

\* The timer of activelook.c: the watchdog of the discovery looks at an empty queue.
LEMMA TickOwner ==
  ASSUME SetupInv, OwnerInv, Tick, ~Sluggish
  PROVE  OwnerInv'
<1>1. /\ UNCHANGED <<timer, client, engo, call, radio, events>> /\ tasks' = tasks \cup {"HUD"}
      /\ \A x : Waiting(x)' <=> Waiting(x)
  BY EventsKept DEF Tick
<1>2. EngoInv' /\ ScanInv'
  BY <1>1 DEF OwnerInv, EngoInv, ScanInv, Lives, Alive, AppEnds
<1>3. /\ fsm'.running = fsm.running /\ fsm'.discovering = fsm.discovering
      /\ fsm'.retry = fsm.retry
      /\ \/ fsm'.due /\ fsm.retry /\ fsm'.late = fsm.late /\ fsm'.state = fsm.state
         \/ /\ fsm'.late /\ fsm.discovering /\ ~fsm.retry /\ events = <<>>
            /\ fsm'.due = fsm.due /\ fsm'.state = fsm.state
         \/ /\ fsm'.state = "UPDATE" /\ fsm.state = "READY" /\ ~fsm.retry
            /\ fsm'.due = fsm.due /\ fsm'.late = fsm.late
  BY DEF Tick, SetupInv, Typed, HostTyped, FsmType
<1>4. events = <<>> => ~Waiting("gatt_ok")
  BY DEF Waiting, Range
<1>5. MachineInv'
  BY <1>1, <1>3, <1>4 DEF OwnerInv, MachineInv, GivenUp
<1>6. SearchInv'
  BY <1>1, <1>3 DEF OwnerInv, SearchInv, Scanning, Connecting, Alive
<1>7. LinkedInv'
  <2>1. Owned => Owned'
    BY <1>1, <1>3 DEF Owned, SettingUp, Retrying, GivingUp, Clearing, Displaying
  <2>. QED  BY <1>1, <2>1 DEF OwnerInv, LinkedInv, Ending, AppEnds
<1>. QED  BY <1>2, <1>5, <1>6, <1>7 DEF OwnerInv

\* The retry timer of app_ble.c passes on what it was set for.
LEMMA RetryTimerOwner ==
  ASSUME SetupInv, OwnerInv, RetryTimer
  PROVE  OwnerInv'
<1>1. /\ UNCHANGED <<fsm, timer, client, call, radio, events>>
      /\ \A x : Waiting(x)' <=> Waiting(x)
  BY EventsKept DEF RetryTimer, hud
<1>2. /\ engo'.status = engo.status
      /\ \/ /\ engo.endAgain /\ engo'.endDue /\ ~engo'.endAgain
            /\ tasks' = tasks \cup {"DISC"}
         \/ /\ ~engo.endAgain /\ ~engo'.endAgain /\ engo'.endDue = engo.endDue
            /\ tasks' = IF fsm.running THEN tasks \cup {"SCAN"} ELSE tasks
  BY DEF RetryTimer, SetupInv, Typed, HostTyped, EngoType
<1>3. EngoInv' /\ ScanInv' /\ MachineInv'
  BY <1>1, <1>2 DEF OwnerInv, EngoInv, ScanInv, MachineInv, Lives, Alive, AppEnds, GivenUp
<1>4. SearchInv'
  BY <1>1, <1>2 DEF OwnerInv, EngoInv, SearchInv, Scanning, Connecting, Alive, Lives
<1>5. LinkedInv'
  BY <1>1, <1>2 DEF OwnerInv, LinkedInv, Ending, AppEnds, Owned, SettingUp, Retrying, GivingUp,
                    Clearing, Displaying
<1>. QED  BY <1>3, <1>4, <1>5 DEF OwnerInv

\* The tasks of app_ble.c ask for what they were set for.
LEMMA RequestOwner ==
  ASSUME SetupInv, OwnerInv, ScanRequest \/ ConnectRequest \/ DisconnectRequest
  PROVE  OwnerInv'
<1>1. /\ UNCHANGED <<fsm, timer, client, radio, events>> /\ call = NoCall
      /\ \A x : Waiting(x)' <=> Waiting(x)
  BY EventsKept DEF ScanRequest, ConnectRequest, DisconnectRequest, Runs, hud
<1>2. call'.then \in {"none", "request"}
  BY <1>1 DEF ScanRequest, ConnectRequest, DisconnectRequest, Waits, NoCall
<1>3. MachineInv'
  BY <1>1, <1>2 DEF OwnerInv, MachineInv, GivenUp
<1>4. "HUD" \in tasks => "HUD" \in tasks'
  BY DEF ScanRequest, ConnectRequest, DisconnectRequest, Runs
<1>5. Owned => Owned'
  BY <1>1, <1>2, <1>4 DEF Owned, SettingUp, Retrying, GivingUp, Clearing, Displaying, NoCall
<1>6. CASE ScanRequest
  <2>0. engo \in EngoType /\ fsm.running \in BOOLEAN
    BY DEF SetupInv, Typed, HostTyped, FsmType
  <2>1. /\ engo'.status = engo.status /\ engo'.endAgain = engo.endAgain
        /\ engo'.endDue = engo.endDue /\ tasks' = tasks \ {"SCAN"}
        /\ call' = NoCall \/ call'.cmd = "scan"
        /\ fsm.running /\ engo.status # "CONNECTED" => call'.cmd = "scan"
    <3>1. tasks' = tasks \ {"SCAN"} /\ (call' = NoCall \/ call'.cmd = "scan")
      BY <1>1, <1>6 DEF ScanRequest, Runs, Waits
    <3>2. /\ engo'.status = engo.status /\ engo'.endAgain = engo.endAgain
          /\ engo'.endDue = engo.endDue
      BY <1>6, <2>0 DEF ScanRequest, EngoType
    <3>3. fsm.running /\ engo.status # "CONNECTED" => call' = [cmd |-> "scan", then |-> "request"]
      BY <1>6 DEF ScanRequest, Waits
    <3>. QED  BY <3>1, <3>2, <3>3
  <2>2. EngoInv' /\ ScanInv'
    BY <1>1, <2>1 DEF OwnerInv, EngoInv, ScanInv, Lives, Alive, AppEnds, NoCall
  <2>3. SearchInv'
    BY <1>1, <2>1 DEF OwnerInv, EngoInv, SearchInv, Scanning, Alive, Lives
  <2>4. LinkedInv'
    BY <1>1, <1>5, <2>1 DEF OwnerInv, LinkedInv, Ending, AppEnds, NoCall
  <2>. QED  BY <1>3, <2>2, <2>3, <2>4 DEF OwnerInv
<1>7. CASE ConnectRequest
  <2>1. /\ engo'.endAgain = engo.endAgain /\ engo'.endDue = engo.endDue
        /\ engo'.scanAgain = engo.scanAgain
        /\ "CONN" \in tasks /\ tasks' = tasks \ {"CONN"}
        /\ \/ ~fsm.running /\ engo'.status = "IDLE" /\ call' = NoCall
           \/ /\ fsm.running /\ engo.status = "IDLE" /\ engo'.status = "IDLE"
              /\ call' = [cmd |-> "connect", then |-> "request"]
           \/ /\ fsm.running /\ engo.status # "IDLE" /\ engo'.status = engo.status
              /\ call' = NoCall
    BY <1>1, <1>7 DEF ConnectRequest, Runs, Waits, SetupInv, Typed, HostTyped, EngoType
  <2>2. EngoInv' /\ ScanInv'
    BY <1>1, <2>1 DEF OwnerInv, EngoInv, ScanInv, Lives, Alive, AppEnds, NoCall
  <2>3. SearchInv'
    BY <1>1, <2>1 DEF OwnerInv, EngoInv, ScanInv, SearchInv, Scanning, Connecting, Alive, Lives,
                      NoCall, SetupInv, Typed, HostTyped, EngoType
  <2>4. LinkedInv'
    BY <1>1, <1>5, <2>1 DEF OwnerInv, LinkedInv, Ending, AppEnds, NoCall
  <2>. QED  BY <1>3, <2>2, <2>3, <2>4 DEF OwnerInv
<1>8. CASE DisconnectRequest
  <2>1. /\ engo'.status = engo.status /\ engo'.endAgain = engo.endAgain /\ ~engo'.endDue
        /\ engo'.scanAgain = (engo.scanAgain /\ fsm.running)
        /\ "DISC" \in tasks /\ tasks' = tasks \ {"DISC"}
    BY <1>8 DEF DisconnectRequest, Runs, SetupInv, Typed, HostTyped, EngoType, FsmType
  <2>2. /\ call'.cmd \in {"none", "terminate", "stop_connect", "stop_scan"}
        /\ engo.status = "CONNECTED" => AppEnds'
        /\ AppEnds' => engo.status = "CONNECTED"
        /\ call'.cmd = "stop_connect" => engo.status = "CONNECTING"
    BY <1>1, <1>8 DEF DisconnectRequest, Waits, AppEnds, NoCall
  <2>3. EngoInv' /\ ScanInv'
    BY <1>1, <2>1, <2>2 DEF OwnerInv, EngoInv, ScanInv, Lives, Alive
  <2>4. SearchInv'
    BY <1>1, <2>1 DEF OwnerInv, SearchInv, Scanning, Alive, NoCall
  <2>5. LinkedInv'
    BY <1>1, <2>2 DEF OwnerInv, EngoInv, LinkedInv, Ending
  <2>. QED  BY <1>3, <2>3, <2>4, <2>5 DEF OwnerInv
<1>. QED  BY <1>6, <1>7, <1>8

\* A discovery that completes is followed by an attempt or another scan, and what fails
\* by the retry timer.
LEMMA ScanEventOwner ==
  ASSUME SetupInv, OwnerInv, Found \/ Scanned \/ ScanFailed \/ OpenFailed
  PROVE  OwnerInv'
<1>1. /\ UNCHANGED <<fsm, timer, client, call, radio>>
      /\ engo \in EngoType /\ fsm.running \in BOOLEAN
  BY DEF Found, Scanned, ScanFailed, OpenFailed, hud, SetupInv, Typed, HostTyped, FsmType
<1>2. PICK e \in {"found", "scanned", "scan_failed", "open_failed"} : Event(e)
  BY DEF Found, Scanned, ScanFailed, OpenFailed
<1>3. /\ call = NoCall /\ Waiting(e) /\ \A x : Waiting(x)' => Waiting(x)
      /\ \A x : x # e => (Waiting(x)' <=> Waiting(x))
      /\ e = "scanned" => ~Waiting("scanned")'
  BY <1>2, EventTaken DEF SetupInv, EventNames
<1>4. MachineInv'
  BY <1>1, <1>3 DEF OwnerInv, MachineInv, GivenUp
<1>5. Owned => Owned'
  <2>1. "HUD" \in tasks => "HUD" \in tasks'
    BY DEF Found, Scanned, ScanFailed, OpenFailed
  <2>. QED  BY <1>1, <2>1 DEF Owned, SettingUp, Retrying, GivingUp, Clearing, Displaying
<1>6. /\ engo'.endAgain = engo.endAgain /\ engo'.endDue = engo.endDue
      /\ engo.scanAgain => engo'.scanAgain
      /\ engo'.status = engo.status \/ (engo.status = "CONNECTING" /\ engo'.status = "IDLE")
      /\ tasks \subseteq tasks' /\ ("DISC" \in tasks' => "DISC" \in tasks)
  BY <1>1 DEF Found, Scanned, ScanFailed, OpenFailed, ScanRetry, EngoType
<1>7. EngoInv'
  BY <1>1, <1>3, <1>6 DEF OwnerInv, EngoInv, Lives, Alive, AppEnds, NoCall
<1>8. LinkedInv'
  BY <1>1, <1>3, <1>5, <1>6 DEF OwnerInv, LinkedInv, Ending, AppEnds
<1>9. ~Alive => engo.status # "CONNECTED" /\ ~engo.endAgain
  BY DEF OwnerInv, EngoInv, Lives
<1>10. CASE Found
  <2>1. e = "found" /\ tasks' = tasks /\ engo'.status = engo.status
    BY <1>1, <1>2, <1>10 DEF Found, Event, EngoType
  <2>2. ScanInv' /\ SearchInv'
    BY <1>1, <1>3, <1>6, <2>1 DEF OwnerInv, ScanInv, SearchInv, Scanning, Connecting, Alive
  <2>. QED  BY <1>4, <1>7, <1>8, <2>2 DEF OwnerInv
<1>11. CASE Scanned
  <2>1. /\ e = "scanned" /\ engo'.status = engo.status
        /\ "CONN" \in tasks' => "CONN" \in tasks \/ engo.status # "CONNECTED"
        /\ fsm.running /\ engo.status # "CONNECTED" => "SCAN" \in tasks' \/ "CONN" \in tasks'
    BY <1>1, <1>2, <1>11 DEF Scanned, Event, EngoType
  <2>2. ScanInv'
    BY <1>1, <1>3, <2>1 DEF OwnerInv, ScanInv, NoCall
  <2>3. SearchInv'
    BY <1>1, <1>3, <1>6, <1>9, <2>1
       DEF OwnerInv, SearchInv, Scanning, Connecting, Alive, NoCall
  <2>. QED  BY <1>4, <1>7, <1>8, <2>2, <2>3 DEF OwnerInv
<1>12. CASE ScanFailed
  <2>1. /\ e = "scan_failed" /\ tasks' = tasks /\ engo'.status = engo.status
        /\ fsm.running /\ ~engo.endAgain => engo'.scanAgain
    BY <1>1, <1>2, <1>12 DEF ScanFailed, Event, ScanRetry, EngoType
  <2>2. ScanInv'
    BY <1>1, <1>3, <2>1 DEF OwnerInv, ScanInv
  <2>3. SearchInv'
    BY <1>1, <1>3, <1>9, <2>1 DEF SearchInv, Scanning, Alive
  <2>. QED  BY <1>4, <1>7, <1>8, <2>2, <2>3 DEF OwnerInv
<1>13. CASE OpenFailed
  <2>1. /\ e = "open_failed" /\ tasks' = tasks
        /\ engo.status # "CONNECTING" => engo'.status = engo.status
        /\ engo.status = "CONNECTING" =>
             engo'.status = "IDLE" /\ (fsm.running /\ ~engo.endAgain => engo'.scanAgain)
    BY <1>1, <1>2, <1>13 DEF OpenFailed, Event, ScanRetry, EngoType
  <2>2. ScanInv'
    BY <1>1, <1>3, <2>1 DEF OwnerInv, ScanInv
  <2>3. SearchInv'
    BY <1>1, <1>3, <1>6, <1>9, <2>1 DEF OwnerInv, SearchInv, Scanning, Connecting, Alive
  <2>. QED  BY <1>4, <1>7, <1>8, <2>2, <2>3 DEF OwnerInv
<1>. QED  BY <1>10, <1>11, <1>12, <1>13

\* A connection that comes about starts a setup, or is ended outside ACTIVE.
LEMMA OpenedOwner ==
  ASSUME SetupInv, OwnerInv, Opened
  PROVE  OwnerInv'
<1>1. /\ radio' = radio /\ tasks' = tasks /\ engo \in EngoType /\ fsm \in FsmType
  BY DEF Opened, SetupInv, Typed, HostTyped
<1>2. /\ call = NoCall /\ Waiting("opened") /\ ~Waiting("opened")'
      /\ \A x : Waiting(x)' => Waiting(x)
      /\ \A x : x # "opened" => (Waiting(x)' <=> Waiting(x))
  BY EventTaken DEF Opened, SetupInv, EventNames, LinkEvents
<1>3. ~client.open /\ Alive /\ Alive' /\ FsmIsIdle /\ client.step = "IDLE"
  BY <1>1, <1>2 DEF SetupInv, LifeInv, ClosedInv, Lives, Alive
<1>4. "CONN" \notin tasks /\ ~Waiting("scanned")
  BY <1>2 DEF OwnerInv, ScanInv
<1>5. engo'.status = "CONNECTED"
  BY <1>1 DEF Opened, EngoType
<1>6. CASE fsm.running
  <2>1. /\ fsm'.running /\ fsm'.state = "INIT" /\ fsm'.discovering /\ ~fsm'.late
        /\ ~fsm'.retry /\ ~fsm'.due /\ timer' = "running"
    BY <1>1, <1>3, <1>6 DEF Opened, FsmType, FsmIsIdle
  <2>2. /\ client'.open /\ ~client'.refused
        /\ call' = [cmd |-> "gatt", then |-> "EXCH_MTU"]
    BY <1>6 DEF Opened, ClosedClient, Waits
  <2>3. EngoInv' /\ ScanInv'
    BY <1>1, <1>2, <1>3, <1>4, <1>5, <2>2 DEF OwnerInv, EngoInv, ScanInv, Lives, AppEnds
  <2>4. MachineInv'
    BY <2>1, <2>2 DEF MachineInv, GivenUp
  <2>5. SearchInv' /\ LinkedInv'
    BY <1>3, <2>1, <2>2 DEF SearchInv, LinkedInv, Owned, SettingUp
  <2>. QED  BY <2>3, <2>4, <2>5 DEF OwnerInv
<1>7. CASE ~fsm.running
  <2>1. /\ UNCHANGED <<fsm, timer, client>>
        /\ call' = [cmd |-> "terminate", then |-> "unwanted"]
    BY <1>7 DEF Opened, Waits
  <2>2. EngoInv' /\ ScanInv'
    BY <1>1, <1>2, <1>3, <1>4, <1>5, <2>1 DEF OwnerInv, EngoInv, ScanInv, Lives, AppEnds
  <2>3. MachineInv'
    BY <1>1, <1>3, <2>1 DEF OwnerInv, MachineInv, GivenUp
  <2>4. SearchInv' /\ LinkedInv'
    BY <1>3, <2>1 DEF SearchInv, LinkedInv, Ending, AppEnds
  <2>. QED  BY <2>2, <2>3, <2>4 DEF OwnerInv
<1>. QED  BY <1>1, <1>6, <1>7 DEF FsmType

\* The end of a connection starts the next scan.
LEMMA ClosedOwner ==
  ASSUME SetupInv, OwnerInv, Closed
  PROVE  OwnerInv'
<1>1. /\ radio' = radio /\ call' = call /\ engo \in EngoType /\ fsm \in FsmType
  BY DEF Closed, SetupInv, Typed, HostTyped
<1>2. /\ call = NoCall /\ Waiting("closed") /\ \A x \in LinkEvents : ~Waiting(x)'
      /\ \A x : Waiting(x)' => Waiting(x)
      /\ \A x : x # "closed" => (Waiting(x)' <=> Waiting(x))
  BY EventTaken DEF Closed, SetupInv, EventNames
<1>3. radio.link = "down"
  BY <1>1, <1>2 DEF SetupInv, LifeInv
<1>4. /\ engo'.status = "IDLE" /\ ~engo'.endAgain /\ ~engo'.endDue
      /\ fsm'.running = fsm.running /\ ~fsm'.late /\ ~fsm'.retry /\ ~fsm'.due
      /\ client'.step = "IDLE" /\ ~client'.refused
      /\ timer' = (IF fsm.running THEN "stopped" ELSE timer)
      /\ tasks' = IF fsm.running THEN tasks \cup {"SCAN"} ELSE tasks
  BY <1>1 DEF Closed, EngoType, IdleFsm, ClosedClient, TimerStop
<1>5. EngoInv' /\ ScanInv'
  BY <1>1, <1>2, <1>3, <1>4 DEF OwnerInv, EngoInv, ScanInv, AppEnds, NoCall
<1>6. MachineInv'
  BY <1>1, <1>2, <1>3, <1>4 DEF MachineInv, GivenUp, NoCall
<1>7. SearchInv' /\ LinkedInv'
  BY <1>1, <1>3, <1>4 DEF SearchInv, Scanning, LinkedInv
<1>. QED  BY <1>5, <1>6, <1>7 DEF OwnerInv

\* A procedure that completes: the setup goes on, fails, or has come to its end.  A link
\* that was given up does not get there.
LEMMA ProcCompleteOwner ==
  ASSUME SetupInv, OwnerInv, ProcComplete
  PROVE  OwnerInv'
<1>0. /\ fsm \in FsmType /\ client \in ClientType
  BY DEF SetupInv, Typed, HostTyped
<1>1. engo' = engo /\ radio' = radio
  BY DEF ProcComplete, host
<1>2. PICK e \in GattEvents :
        /\ Event(e)
        /\ \/ /\ e = "gatt_ok" \/ client.step = "BATTERY_READ"
              /\ client.step # "IDLE"
              /\ Proceed(NextStep(client.step, glasses.kind))
           \/ client.step # "IDLE" /\ SetupFails /\ UNCHANGED <<hud, tasks>>
           \/ client.step = "IDLE" /\ UNCHANGED host
  BY DEF ProcComplete, GattEvents
<1>3. /\ call = NoCall /\ Waiting(e) /\ \A x : Waiting(x)' => Waiting(x)
      /\ \A x : x \notin GattEvents => (Waiting(x)' <=> Waiting(x))
      /\ ~Waiting("gatt_ok")'
  BY <1>2, EventTaken DEF SetupInv, EventNames, LinkEvents, GattEvents
<1>. DEFINE Rests ==
        /\ UNCHANGED <<fsm, timer, tasks>>
        /\ client'.open = client.open /\ client'.refused = client.refused
        /\ call'.cmd \in {"none", "gatt", "terminate"}
        /\ call'.then \in Steps \cup {"none", "setup"}
        /\ call'.then = "setup" => client'.step = "IDLE"
<1>4. ASSUME NEW c \in ClientType, c.open = client.open, c.refused = client.refused,
             c.step = "IDLE", ForceDisconnect(c, "setup"), UNCHANGED <<hud, tasks>>
      PROVE  Rests
  BY <1>4, ForceDisconnectFields DEF hud, NoCall
<1>5. ASSUME SetupFails, UNCHANGED <<hud, tasks>>
      PROVE  Rests
  <2>1. LET c == [client EXCEPT !.step = "IDLE"] IN
        c \in ClientType /\ c.open = client.open /\ c.refused = client.refused /\ c.step = "IDLE"
    BY <1>0 DEF ClientType
  <2>. QED  BY <1>4, <1>5, <2>1 DEF SetupFails
<1>6. ASSUME DiscoveryComplete, ~fsm.running
      PROVE  Rests
  <2>1. LET c == [client EXCEPT !.step = "IDLE", !.linkUp = TRUE] IN
        c \in ClientType /\ c.open = client.open /\ c.refused = client.refused /\ c.step = "IDLE"
    BY <1>0 DEF ClientType
  <2>. QED  BY <1>4, <1>6, <2>1 DEF DiscoveryComplete
<1>7. ASSUME NEW next \in Steps, client' = [client EXCEPT !.step = next],
             Waits("gatt", next), UNCHANGED <<hud, tasks>>
      PROVE  Rests
  BY <1>0, <1>7 DEF ClientType, Waits, hud, Steps
<1>8. CASE Rests
  <2>1. EngoInv' /\ ScanInv'
    BY <1>1, <1>3, <1>8
       DEF OwnerInv, EngoInv, ScanInv, Lives, Alive, AppEnds, GattEvents, Steps
  <2>2. MachineInv'
    BY <1>1, <1>3, <1>8 DEF OwnerInv, MachineInv, Steps
  <2>3. SearchInv'
    BY <1>1, <1>3, <1>8
       DEF OwnerInv, SearchInv, Scanning, Connecting, Alive, GattEvents, NoCall
  <2>4. Owned => Owned'
    BY <1>3, <1>8 DEF Owned, SettingUp, Retrying, GivingUp, Clearing, Displaying, NoCall, Steps
  <2>5. LinkedInv'
    BY <1>1, <1>3, <1>8, <2>4 DEF OwnerInv, LinkedInv, Ending, AppEnds, GattEvents, NoCall
  <2>. QED  BY <2>1, <2>2, <2>3, <2>5 DEF OwnerInv
<1>9. CASE client.step = "IDLE" /\ UNCHANGED host
  <2>1. Rests
    BY <1>3, <1>9 DEF host, hud, NoCall
  <2>. QED  BY <1>8, <2>1
<1>10. CASE /\ e = "gatt_ok" /\ client.step = "CTRL_NOTIFY"
            /\ DiscoveryComplete /\ fsm.running
  <2>1. /\ fsm'.running /\ fsm'.state = "CLEAR" /\ ~fsm'.discovering /\ ~fsm'.late
        /\ fsm'.retry = fsm.retry /\ fsm'.due = fsm.due
        /\ timer' = "stopped" /\ tasks' = tasks \cup {"HUD"}
    BY <1>0, <1>10 DEF DiscoveryComplete, FsmType, TimerStop
  <2>2. /\ client'.open = client.open /\ client'.step = "IDLE"
        /\ call' = NoCall \/ call' = [cmd |-> "gatt", then |-> "battery"]
    BY <1>0, <1>10 DEF DiscoveryComplete, ClientType, Waits, Returns
  <2>3. EngoInv' /\ ScanInv'
    BY <1>1, <1>3, <2>1, <2>2
       DEF OwnerInv, EngoInv, ScanInv, Lives, Alive, AppEnds, GattEvents, NoCall
  <2>4. MachineInv'
    BY <1>1, <2>1, <2>2 DEF OwnerInv, MachineInv, NoCall
  <2>5. SearchInv'
    BY <1>1, <1>3, <1>10, <2>1, <2>2
       DEF OwnerInv, SearchInv, Scanning, Connecting, Alive, GattEvents, NoCall
  <2>6. Owned => SettingUp
    <3>1. fsm.state = "INIT" /\ ~client.refused /\ call.then # "timed_out"
      BY <1>3, <1>10 DEF SetupInv, UpInv, OwnerInv, MachineInv, GivenUp, NoCall
    <3>. QED  BY <3>1 DEF Owned, Retrying, GivingUp, Clearing, Displaying
  <2>7. Owned => Owned'
    BY <2>1, <2>2, <2>6 DEF OwnerInv, MachineInv, Owned, SettingUp, Clearing, NoCall
  <2>8. LinkedInv'
    BY <1>1, <1>3, <2>1, <2>7 DEF OwnerInv, LinkedInv, Ending, AppEnds, GattEvents, NoCall
  <2>. QED  BY <2>3, <2>4, <2>5, <2>8 DEF OwnerInv
<1>11. CASE /\ e = "gatt_ok" \/ client.step = "BATTERY_READ"
            /\ client.step # "IDLE"
            /\ Proceed(NextStep(client.step, glasses.kind))
  <2>. DEFINE next == NextStep(client.step, glasses.kind)
  <2>1. client.step \in Steps
    BY <1>0, <1>11 DEF ClientType
  <2>2. next = "UP" => client.step = "CTRL_NOTIFY"
    BY <2>1, NextStepType
  <2>3. CASE SetupFails /\ UNCHANGED <<hud, tasks>>
    BY <1>5, <1>8, <2>3
  <2>4. CASE next = "UP" /\ DiscoveryComplete
    BY <1>0, <1>6, <1>8, <1>10, <1>11, <2>2, <2>4 DEF FsmType
  <2>5. CASE /\ next \in Steps
             /\ client' = [client EXCEPT !.step = next]
             /\ Waits("gatt", next) /\ UNCHANGED <<hud, tasks>>
    BY <1>7, <1>8, <2>5
  <2>. QED  BY <1>11, <2>3, <2>4, <2>5 DEF Proceed
<1>. QED  BY <1>2, <1>5, <1>8, <1>9, <1>11

\* FS_ActiveLook_Task takes a link that it has from one owner to the next.
LEMMA HudOwner ==
  ASSUME SetupInv, OwnerInv, HudTask
  PROVE  OwnerInv'
<1>0. /\ fsm \in FsmType /\ client \in ClientType
  BY DEF SetupInv, Typed, HostTyped
<1>1. /\ UNCHANGED <<engo, radio, events>>
      /\ call = NoCall /\ tasks' = tasks \ {"HUD"}
      /\ \A x : Waiting(x)' <=> Waiting(x)
  BY EventsKept DEF HudTask, RetryTerminate, DiscoveryTimedOut, Clear, Idle, Update, InState, Runs
<1>2. /\ call'.cmd \in {"none", "terminate", "write"}
      /\ call'.then \in {"none", "retry", "timed_out", "watchdog", "clear", "draw"}
      /\ client'.open = client.open /\ client'.step = client.step
      /\ client'.refused = client.refused /\ fsm'.running = fsm.running
  <2>1. ASSUME NEW t \in {"retry", "timed_out", "watchdog"}, ForceDisconnect(client, t)
        PROVE  /\ call'.cmd \in {"none", "terminate"}
               /\ call'.then \in {"none", "retry", "timed_out", "watchdog"}
               /\ client'.open = client.open /\ client'.step = client.step
               /\ client'.refused = client.refused
    BY <1>0, <2>1, ForceDisconnectFields DEF NoCall
  <2>2. fsm'.running = fsm.running
    BY <1>0 DEF HudTask, RetryTerminate, DiscoveryTimedOut, Clear, Idle, Update, hud, Cleared,
                ReadyFsm, FsmType
  <2>. QED  BY <1>1, <2>1, <2>2 DEF HudTask, RetryTerminate, DiscoveryTimedOut, Clear, Idle,
                                    Update, Waits, NoCall
<1>3. EngoInv' /\ ScanInv'
  BY <1>1, <1>2 DEF OwnerInv, EngoInv, ScanInv, Lives, Alive, AppEnds
<1>4. SearchInv'
  BY <1>1, <1>2 DEF OwnerInv, SearchInv, Scanning, Connecting, Alive, NoCall
<1>5. Ending => Ending'
  BY <1>1 DEF Ending, AppEnds, NoCall
<1>6. ASSUME radio.link = "up", Owned
      PROVE  /\ fsm.running /\ client.open /\ ~client.terminating /\ timer # "free"
             /\ SettingUp \/ Retrying \/ Clearing \/ Displaying
  BY <1>1, <1>6 DEF Owned, GivingUp, NoCall, OwnerInv, MachineInv, SetupInv, LifeInv
<1>7. ASSUME MachineInv', radio.link = "up" /\ Owned => Owned'
      PROVE  OwnerInv'
  <2>1. LinkedInv'
    BY <1>1, <1>5, <1>7 DEF OwnerInv, LinkedInv
  <2>. QED  BY <1>3, <1>4, <1>7, <2>1 DEF OwnerInv
<1>8. CASE RetryTerminate
  <2>1. CASE TerminatePending(client)
    <3>1. /\ fsm'.state = fsm.state /\ fsm'.discovering = fsm.discovering
          /\ fsm'.late = fsm.late /\ fsm'.retry = fsm.retry /\ ~fsm'.due
          /\ client.refused /\ call' = [cmd |-> "terminate", then |-> "retry"] /\ timer' = timer
      BY <1>0, <1>8, <2>1, ForceDisconnectFields DEF RetryTerminate, TerminatePending, FsmType
    <3>2. MachineInv'
      BY <1>1, <1>2, <3>1 DEF OwnerInv, MachineInv, GivenUp, NoCall
    <3>3. radio.link = "up" /\ Owned => Retrying
      BY <1>6, <1>8 DEF RetryTerminate, OwnerInv, MachineInv, SettingUp, Clearing, Displaying
    <3>4. radio.link = "up" /\ Owned => Owned'
      BY <1>2, <1>6, <3>1, <3>3 DEF Owned, Retrying
    <3>. QED  BY <1>7, <3>2, <3>4
  <2>2. CASE ~TerminatePending(client)
    <3>1. /\ fsm'.discovering = fsm.discovering /\ fsm'.late = fsm.late
          /\ ~fsm'.retry /\ ~fsm'.due /\ (fsm.running => timer' = "stopped") /\ call' = NoCall
      BY <1>0, <1>1, <1>8, <2>2 DEF RetryTerminate, TimerStop, FsmType
    <3>2. MachineInv'
      BY <1>1, <1>2, <3>1 DEF OwnerInv, MachineInv, GivenUp, NoCall
    <3>3. ~(radio.link = "up" /\ Owned)
      BY <1>6, <1>8, <2>2
         DEF RetryTerminate, TerminatePending, OwnerInv, MachineInv, SettingUp, Retrying, Clearing,
             Displaying
    <3>. QED  BY <1>7, <3>2, <3>3
  <2>. QED  BY <2>1, <2>2
<1>9. CASE DiscoveryTimedOut
  <2>1. /\ fsm.late /\ fsm'.state = fsm.state /\ ~fsm'.discovering /\ ~fsm'.late
        /\ fsm'.retry = fsm.retry /\ ~fsm'.due /\ (fsm.running => timer' = "stopped")
    BY <1>0, <1>9 DEF DiscoveryTimedOut, TimerStop, FsmType
  <2>2. /\ call'.then \in {"none", "timed_out"}
        /\ client.open /\ ~client.terminating => call'.then = "timed_out"
    BY <1>0, <1>9, ForceDisconnectFields DEF DiscoveryTimedOut, NoCall
  <2>3. MachineInv'
    BY <1>1, <1>2, <2>1, <2>2 DEF OwnerInv, MachineInv, GivenUp
  <2>4. radio.link = "up" /\ Owned => SettingUp /\ ~fsm.retry
    BY <1>6, <2>1 DEF OwnerInv, MachineInv, SettingUp, Retrying, Clearing, Displaying
  <2>5. radio.link = "up" /\ Owned => Owned'
    BY <1>2, <1>6, <2>1, <2>2, <2>4 DEF Owned, SettingUp, GivingUp
  <2>. QED  BY <1>7, <2>3, <2>5
<1>10. CASE Clear
  <2>1. radio.link = "up" /\ Owned => ~fsm.discovering /\ ~fsm.retry
    BY <1>6, <1>10 DEF Clear, InState, SettingUp, Retrying, Clearing, Displaying
  <2>2. CASE Waits("write", "clear") /\ UNCHANGED <<fsm, timer, orphan>>
    <3>1. MachineInv'
      BY <1>1, <1>2, <2>2 DEF OwnerInv, MachineInv, GivenUp, Waits, NoCall
    <3>2. radio.link = "up" /\ Owned => Owned'
      BY <1>2, <1>6, <1>10, <2>1, <2>2 DEF Clear, InState, Owned, Clearing, Waits
    <3>. QED  BY <1>7, <3>1, <3>2
  <2>3. CASE Cleared /\ UNCHANGED call
    <3>1. /\ fsm'.state = "READY" /\ fsm'.discovering = fsm.discovering /\ fsm'.late = fsm.late
          /\ fsm'.retry = fsm.retry /\ fsm'.due = fsm.due
          /\ timer # "free" => timer' = "running"
      BY <1>0, <2>3 DEF Cleared, ReadyFsm, TimerStart, FsmType
    <3>2. MachineInv'
      BY <1>1, <1>2, <2>3, <3>1 DEF OwnerInv, MachineInv, GivenUp, NoCall
    <3>3. radio.link = "up" /\ Owned => Owned'
      BY <1>1, <1>2, <1>6, <2>1, <2>3, <3>1 DEF Owned, Displaying, NoCall
    <3>. QED  BY <1>7, <3>2, <3>3
  <2>. QED  BY <1>10, <2>2, <2>3 DEF Clear
<1>11. CASE Idle
  <2>1. /\ UNCHANGED <<fsm, timer, client, call>> /\ fsm.state \in {"INIT", "READY"}
    BY <1>11 DEF Idle, InState, hud
  <2>2. MachineInv'
    BY <1>1, <2>1 DEF OwnerInv, MachineInv, GivenUp
  <2>3. Owned => Owned'
    BY <1>1, <2>1 DEF Owned, SettingUp, Retrying, GivingUp, Clearing, Displaying
  <2>. QED  BY <1>7, <2>2, <2>3
<1>12. CASE Update
  <2>1. fsm.state = "UPDATE" /\ timer' = timer
    BY <1>12 DEF Update, InState
  <2>2. /\ fsm'.discovering = fsm.discovering /\ fsm'.late = fsm.late
        /\ fsm'.retry = fsm.retry /\ fsm'.due = fsm.due
        /\ fsm'.state \in {"READY", "UPDATE"}
    BY <1>0, <1>12, <2>1 DEF Update, ReadyFsm, FsmType
  <2>3. /\ call'.then \in {"none", "watchdog", "draw"}
        /\ call' # NoCall => fsm' = fsm
        /\ call' = NoCall => call'.then = "none"
    BY <1>0, <1>1, <1>12, ForceDisconnectFields DEF Update, Waits, NoCall
  <2>4. MachineInv'
    BY <1>1, <1>2, <2>1, <2>2, <2>3 DEF OwnerInv, MachineInv, GivenUp, NoCall
  <2>5. radio.link = "up" /\ Owned => Displaying
    BY <1>6, <2>1 DEF SettingUp, Retrying, Clearing
  <2>6. radio.link = "up" /\ Owned => Owned'
    BY <1>2, <1>6, <2>1, <2>2, <2>3, <2>5 DEF Owned, Displaying
  <2>. QED  BY <1>7, <2>4, <2>6
<1>. QED  BY <1>8, <1>9, <1>10, <1>11, <1>12 DEF HudTask

\* A request that is taken goes on in the radio, one that is refused is tried again.
LEMMA RequestAnswerOwner ==
  ASSUME SetupInv, OwnerInv, ScanAnswer \/ ConnectAnswer \/ StopConnectAnswer \/ StopScanAnswer
  PROVE  OwnerInv'
<1>0. engo \in EngoType /\ radio \in CoreType /\ call \in Calls /\ fsm.running \in BOOLEAN
  BY DEF SetupInv, Typed, HostTyped, FsmType
<1>1. /\ UNCHANGED <<fsm, timer, client, tasks, events>>
      /\ \A x : Waiting(x)' <=> Waiting(x)
  BY EventsKept DEF ScanAnswer, ConnectAnswer, StopConnectAnswer, StopScanAnswer, hud
<1>2. /\ call.cmd \in {"scan", "connect", "stop_connect", "stop_scan"}
      /\ call.then = "request" /\ call' = NoCall
  BY <1>0, CallFields DEF ScanAnswer, ConnectAnswer, StopConnectAnswer, StopScanAnswer, Answer,
                          Returns
<1>3. /\ radio'.link = radio.link /\ engo'.endAgain = engo.endAgain /\ engo'.endDue = engo.endDue
      /\ engo.scanAgain => engo'.scanAgain
  BY <1>0 DEF ScanAnswer, ConnectAnswer, StopConnectAnswer, StopScanAnswer, ScanRetry, EngoType,
              CoreType
<1>4. MachineInv'
  BY <1>1, <1>2, <1>3 DEF OwnerInv, MachineInv, GivenUp, NoCall
<1>5. Owned => Owned'
  BY <1>1, <1>2 DEF Owned, SettingUp, Retrying, GivingUp, Clearing, Displaying, NoCall
<1>6. LinkedInv'
  BY <1>1, <1>2, <1>3, <1>5 DEF OwnerInv, LinkedInv, Ending, AppEnds
<1>7. ~Alive => ~engo.endAgain
  BY DEF OwnerInv, EngoInv, Lives
<1>8. ASSUME engo' = ScanRetry(engo) \/ engo' = ScanRetry([engo EXCEPT !.status = "IDLE"])
      PROVE  fsm.running /\ ~engo.endAgain => engo'.scanAgain
  BY <1>0, <1>8 DEF ScanRetry, EngoType
<1>9. CASE ScanAnswer
  <2>1. /\ call.cmd = "scan" /\ engo'.status = engo.status /\ radio'.conn = radio.conn
        /\ radio'.scan # "off" => radio.conn = "off"
        /\ radio'.scan # "off" \/ (fsm.running /\ ~engo.endAgain => engo'.scanAgain)
    <3>1. CASE Quiet /\ radio' = [radio EXCEPT !.scan = "on"] /\ UNCHANGED engo
      BY <1>0, <1>9, <3>1 DEF ScanAnswer, Answer, Quiet, CoreType
    <3>2. CASE engo' = ScanRetry(engo) /\ UNCHANGED radio
      <4>1. engo'.status = engo.status
        BY <1>0, <3>2 DEF ScanRetry, EngoType
      <4>. QED  BY <1>8, <1>9, <3>2, <4>1 DEF ScanAnswer, Answer, OwnerInv, ScanInv
    <3>. QED  BY <1>9, <3>1, <3>2 DEF ScanAnswer
  <2>2. EngoInv' /\ ScanInv'
    BY <1>1, <1>2, <1>3, <2>1 DEF OwnerInv, EngoInv, ScanInv, Lives, Alive, AppEnds, NoCall
  <2>3. SearchInv'
    BY <1>1, <1>3, <1>7, <2>1 DEF SearchInv, Scanning, Alive
  <2>. QED  BY <1>4, <1>6, <2>2, <2>3 DEF OwnerInv
<1>10. CASE ConnectAnswer
  <2>1. /\ engo.status = "IDLE" /\ radio.conn = "off" /\ ~Waiting("opened")
        /\ ~Waiting("scanned") /\ "CONN" \notin tasks
    BY <1>10 DEF ConnectAnswer, Answer, OwnerInv, EngoInv, ScanInv
  <2>2. CASE Quiet /\ radio.link = "down" /\ radio' = [radio EXCEPT !.conn = "trying"]
             /\ engo' = [engo EXCEPT !.status = "CONNECTING"]
    <3>1. /\ radio'.conn = "trying" /\ radio'.scan = "off" /\ radio.scan = "off"
          /\ engo'.status = "CONNECTING" /\ radio.link = "down"
      BY <1>0, <2>2 DEF Quiet, CoreType, EngoType
    <3>2. EngoInv' /\ ScanInv'
      BY <1>1, <1>2, <1>3, <2>1, <3>1
         DEF OwnerInv, EngoInv, ScanInv, Lives, Alive, AppEnds, NoCall
    <3>3. SearchInv'
      BY <1>1, <1>2, <1>3, <1>10, <3>1
         DEF ConnectAnswer, Answer, OwnerInv, SearchInv, Scanning, Connecting, Alive, NoCall
    <3>. QED  BY <1>4, <1>6, <3>2, <3>3 DEF OwnerInv
  <2>3. CASE engo' = ScanRetry([engo EXCEPT !.status = "IDLE"]) /\ UNCHANGED radio
    <3>1. engo'.status = "IDLE"
      BY <1>0, <2>3 DEF ScanRetry, EngoType
    <3>2. EngoInv' /\ ScanInv'
      BY <1>1, <1>2, <1>3, <2>1, <2>3, <3>1
         DEF OwnerInv, EngoInv, ScanInv, Lives, Alive, AppEnds, NoCall
    <3>3. SearchInv'
      BY <1>1, <1>3, <1>7, <1>8, <2>3 DEF SearchInv, Scanning, Alive
    <3>. QED  BY <1>4, <1>6, <3>2, <3>3 DEF OwnerInv
  <2>. QED  BY <1>10, <2>2, <2>3 DEF ConnectAnswer
<1>11. CASE StopConnectAnswer
  <2>1. /\ call.cmd = "stop_connect" /\ engo.status = "CONNECTING"
        /\ engo'.status = "IDLE" /\ radio'.scan = radio.scan
        /\ radio.conn = "off" => radio'.conn = "off"
    BY <1>0, <1>11 DEF StopConnectAnswer, Answer, OwnerInv, EngoInv, EngoType, CoreType
  <2>2. EngoInv' /\ ScanInv'
    BY <1>1, <1>2, <1>3, <2>1 DEF OwnerInv, EngoInv, ScanInv, Lives, Alive, AppEnds, NoCall
  <2>3. SearchInv'
    BY <1>1, <1>3, <2>1 DEF OwnerInv, SearchInv, Scanning, Alive
  <2>. QED  BY <1>4, <1>6, <2>2, <2>3 DEF OwnerInv
<1>12. CASE StopScanAnswer
  <2>1. /\ call.cmd = "stop_scan" /\ engo'.status = engo.status /\ radio'.conn = radio.conn
        /\ radio'.scan # "off" <=> radio.scan # "off"
    BY <1>0, <1>12 DEF StopScanAnswer, Answer, EngoType, CoreType
  <2>2. EngoInv' /\ ScanInv'
    BY <1>1, <1>2, <1>3, <2>1 DEF OwnerInv, EngoInv, ScanInv, Lives, Alive, AppEnds, NoCall
  <2>3. SearchInv'
    BY <1>1, <1>2, <1>3, <2>1 DEF OwnerInv, SearchInv, Scanning, Connecting, Alive, NoCall
  <2>. QED  BY <1>4, <1>6, <2>2, <2>3 DEF OwnerInv
<1>. QED  BY <1>9, <1>10, <1>11, <1>12

\* A terminate that is taken ends the link; who asked for one that is refused asks again.
LEMMA TerminateOwner ==
  ASSUME SetupInv, OwnerInv, TerminateTaken \/ TerminateRefused
  PROVE  OwnerInv'
<1>0. /\ fsm \in FsmType /\ client \in ClientType /\ engo \in EngoType /\ radio \in CoreType
      /\ call \in Calls
  BY DEF SetupInv, Typed, HostTyped
<1>1. /\ UNCHANGED <<tasks, events>> /\ call' = NoCall /\ call.cmd = "terminate"
      /\ \A x : Waiting(x)' <=> Waiting(x)
  BY EventsKept DEF TerminateTaken, TerminateRefused, Answer, Returns
<1>2. call.then \in {"request", "unwanted", "setup", "timed_out", "retry", "watchdog"}
  BY <1>0, <1>1, CallFields
<1>3. ~AppEnds => client.open /\ Alive
  BY <1>1 DEF AppEnds, SetupInv, ClosedInv, ClientEnds, LifeInv, Lives
<1>4. CASE TerminateTaken
  <2>1. /\ radio.link = "up" /\ radio'.link = "ending"
        /\ radio'.scan = radio.scan /\ radio'.conn = radio.conn
    BY <1>0, <1>4 DEF TerminateTaken, CoreType
  <2>2. /\ engo'.endAgain = engo.endAgain /\ engo'.endDue = engo.endDue
        /\ engo'.status = engo.status \/ engo'.status = "IDLE"
    BY <1>0, <1>4 DEF TerminateTaken, EngoType
  <2>3. client'.step = client.step /\ (client'.refused => client.refused)
    BY <1>0, <1>4 DEF TerminateTaken, ClientType
  <2>4. /\ fsm'.running = fsm.running /\ fsm'.discovering = fsm.discovering
        /\ fsm'.late = fsm.late /\ (fsm'.retry => fsm.retry)
    BY <1>0, <1>4 DEF TerminateTaken, ReadyFsm, FsmType
  <2>5. timer' = timer \/ (fsm.running => timer' = "stopped")
    BY <1>4 DEF TerminateTaken, TimerStop
  <2>6. EngoInv'
    BY <1>1, <2>1, <2>2 DEF OwnerInv, EngoInv, Lives, Alive, AppEnds, NoCall
  <2>7. ScanInv'
    BY <1>1, <2>1, <2>2 DEF OwnerInv, ScanInv, NoCall
  <2>8. MachineInv'
    BY <1>1, <2>1, <2>3, <2>4, <2>5 DEF OwnerInv, MachineInv, GivenUp, NoCall
  <2>9. SearchInv' /\ LinkedInv'
    BY <2>1 DEF SearchInv, LinkedInv, Alive
  <2>. QED  BY <2>6, <2>7, <2>8, <2>9 DEF OwnerInv
<1>5. CASE TerminateRefused /\ AppEnds
  <2>1. engo' = TerminateRetry(engo) /\ UNCHANGED <<fsm, timer, client, radio>>
    BY <1>5 DEF TerminateRefused, AppEnds
  <2>2. /\ engo'.status = "CONNECTED" /\ engo.status = "CONNECTED" /\ engo'.endAgain /\ Lives
    BY <1>0, <1>5, <2>1 DEF TerminateRetry, EngoType, OwnerInv, EngoInv
  <2>3. EngoInv' /\ ScanInv'
    BY <1>1, <2>1, <2>2 DEF OwnerInv, EngoInv, ScanInv, Lives, Alive, AppEnds, NoCall
  <2>4. MachineInv'
    BY <1>1, <1>5, <2>1 DEF OwnerInv, MachineInv, GivenUp, NoCall
  <2>5. SearchInv' /\ LinkedInv'
    BY <1>1, <2>1, <2>2 DEF SearchInv, LinkedInv, Ending, Lives, Alive
  <2>. QED  BY <2>3, <2>4, <2>5 DEF OwnerInv
<1>6. CASE TerminateRefused /\ ~AppEnds
  <2>. DEFINE arms == fsm.running /\ fsm.state = "INIT" /\ ~fsm.retry
              armed == [IdleFsm(TRUE) EXCEPT !.retry = TRUE]
              f == IF arms THEN armed ELSE fsm
  <2>1. /\ client' = [client EXCEPT !.refused = TRUE]
        /\ fsm' = IF call.then = "watchdog" THEN ReadyFsm(f) ELSE f
        /\ timer' = IF arms THEN "running" ELSE timer
        /\ engo' = IF ~fsm.running /\ engo.status = "CONNECTED" THEN TerminateRetry(engo) ELSE engo
        /\ radio' = radio
    BY <1>1, <1>6 DEF TerminateRefused, AppEnds
  <2>2. /\ client'.open = client.open /\ client'.step = client.step /\ client'.refused
    BY <1>0, <2>1 DEF ClientType
  <2>3. /\ armed \in FsmType /\ armed.running /\ armed.state = "INIT" /\ ~armed.discovering
        /\ ~armed.late /\ armed.retry /\ ~armed.due
    BY DEF IdleFsm, FsmType
  <2>4. f \in FsmType /\ f.running = fsm.running
    BY <1>0, <2>3 DEF FsmType
  <2>5. /\ fsm'.running = f.running /\ fsm'.discovering = f.discovering /\ fsm'.late = f.late
        /\ fsm'.retry = f.retry /\ fsm'.due = f.due
        /\ call.then = "watchdog" => fsm'.state = "READY"
        /\ call.then # "watchdog" => fsm'.state = f.state
    BY <2>1, <2>4 DEF ReadyFsm, FsmType
  <2>. HIDE DEF armed
  <2>6. /\ engo'.status = engo.status /\ engo'.endDue = engo.endDue
        /\ engo.endAgain => engo'.endAgain
        /\ engo'.endAgain => engo.endAgain \/ engo.status = "CONNECTED"
    BY <1>0, <2>1 DEF TerminateRetry, EngoType
  <2>7. EngoInv' /\ ScanInv'
    BY <1>1, <2>1, <2>6 DEF OwnerInv, EngoInv, ScanInv, Lives, Alive, AppEnds, NoCall
  <2>8. MachineInv'
    <3>1. client.step # "IDLE" => ~Waiting("gatt_ok")
      BY <1>1, <1>2, <1>6 DEF AppEnds, OwnerInv, MachineInv, GivenUp, SetupInv, UpInv
    <3>2. /\ radio.link = "up" /\ f.due => f.retry
          /\ f.retry => ~f.discovering
          /\ f.late => f.discovering
      BY <2>3 DEF OwnerInv, MachineInv
    <3>. QED  BY <1>1, <2>1, <2>2, <2>4, <2>5, <3>1, <3>2
              DEF OwnerInv, MachineInv, GivenUp, NoCall
  <2>9. SearchInv'
    BY <1>1, <1>3, <1>6, <2>1 DEF SearchInv, Alive
  <2>10. Owned => Owned'
    <3>. SUFFICES ASSUME Owned PROVE Owned'
      OBVIOUS
    <3>1. /\ fsm'.running /\ client'.open /\ call'.then = "none"
          /\ call.then = "watchdog" => fsm.state = "UPDATE"
      BY <1>1, <2>2, <2>4, <2>5 DEF Owned, NoCall
    <3>2. CASE SettingUp \/ GivingUp
      <4>1. arms /\ call.then # "watchdog"
        BY <3>1, <3>2 DEF Owned, SettingUp, GivingUp, OwnerInv, MachineInv
      <4>. QED  BY <2>1, <2>2, <2>3, <2>5, <3>1, <4>1 DEF Owned, Retrying
    <3>3. CASE Retrying
      BY <2>1, <2>2, <2>5, <3>1, <3>3 DEF Owned, Retrying
    <3>4. CASE Clearing
      BY <1>1, <1>2, <2>1, <2>5, <3>1, <3>4 DEF Owned, Clearing
    <3>5. CASE Displaying
      BY <2>1, <2>5, <3>1, <3>5 DEF Owned, Displaying
    <3>. QED  BY <3>2, <3>3, <3>4, <3>5 DEF Owned
  <2>11. LinkedInv'
    BY <1>1, <1>6, <2>1, <2>6, <2>10 DEF OwnerInv, LinkedInv, Ending
  <2>. QED  BY <2>7, <2>8, <2>9, <2>11 DEF OwnerInv
<1>. QED  BY <1>4, <1>5, <1>6

\* What the stack answers to the discovery and to a frame leaves the link with its owner.
LEMMA ClientAnswerOwner ==
  ASSUME SetupInv, OwnerInv, GattTaken \/ GattRefused \/ WriteAnswer
  PROVE  OwnerInv'
<1>0. /\ fsm \in FsmType /\ client \in ClientType /\ radio \in CoreType /\ call \in Calls
  BY DEF SetupInv, Typed, HostTyped
<1>1. /\ UNCHANGED <<engo, tasks, events>> /\ \A x : Waiting(x)' <=> Waiting(x)
      /\ call.cmd \in {"gatt", "write"}
  BY EventsKept DEF GattTaken, GattRefused, WriteAnswer, Answer
<1>2. /\ radio'.link = radio.link /\ radio'.scan = radio.scan /\ radio'.conn = radio.conn
  BY <1>0 DEF GattTaken, GattRefused, WriteAnswer, CoreType
<1>3. call.then \in Steps \cup {"battery", "clear", "draw"}
  BY <1>0, <1>1, CallFields
<1>4. ASSUME fsm'.running = fsm.running, call'.cmd \in {"none", "gatt", "terminate"},
             call'.then \notin {"request", "unwanted"}, MachineInv', Owned => Owned'
      PROVE  OwnerInv'
  <2>1. EngoInv' /\ ScanInv'
    BY <1>1, <1>2, <1>4 DEF OwnerInv, EngoInv, ScanInv, Lives, Alive, AppEnds
  <2>2. SearchInv'
    BY <1>1, <1>2, <1>4 DEF OwnerInv, SearchInv, Scanning, Connecting, Alive
  <2>3. LinkedInv'
    BY <1>1, <1>2, <1>4 DEF OwnerInv, LinkedInv, Ending, AppEnds
  <2>. QED  BY <1>4, <2>1, <2>2, <2>3 DEF OwnerInv
<1>5. CASE GattTaken
  <2>1. /\ UNCHANGED <<fsm, timer, client>> /\ call' = NoCall /\ call.then \in Steps \cup {"battery"}
    BY <1>0, <1>5, CallFields DEF GattTaken, Answer, Returns, hud
  <2>2. MachineInv'
    BY <1>1, <1>2, <2>1 DEF OwnerInv, MachineInv, GivenUp, NoCall
  <2>3. Owned => Owned'
    BY <1>1, <2>1
       DEF Owned, SettingUp, Retrying, GivingUp, Clearing, Displaying, NoCall, Steps
  <2>. QED  BY <1>4, <2>1, <2>2, <2>3 DEF NoCall
<1>6. CASE GattRefused
  <2>1. /\ UNCHANGED <<fsm, timer, radio>> /\ call.then \in Steps \cup {"battery"}
        /\ ~Waiting("gatt_ok")
    BY <1>0, <1>6, CallFields
       DEF GattRefused, Answer, hud, SetupInv, GattInv, NoGatt, GattEvents
  <2>2. /\ client'.open = client.open /\ client'.refused = client.refused
        /\ call'.cmd \in {"none", "gatt", "terminate"}
        /\ call'.then \in Steps \cup {"none", "setup"}
        /\ call'.then = "setup" => client'.step = "IDLE"
    <3>1. CASE Returns /\ UNCHANGED client
      BY <3>1 DEF Returns, NoCall
    <3>2. CASE /\ client' = [client EXCEPT !.step = AfterBattery(glasses.kind)]
               /\ Waits("gatt", AfterBattery(glasses.kind))
      BY <1>0, <3>2 DEF Waits, ClientType, AfterBattery, Steps
    <3>3. CASE SetupFails
      <4>. DEFINE c == [client EXCEPT !.step = "IDLE"]
      <4>1. /\ c \in ClientType /\ c.open = client.open /\ c.refused = client.refused
            /\ c.step = "IDLE"
        BY <1>0 DEF ClientType
      <4>2. ForceDisconnect(c, "setup")
        BY <3>3 DEF SetupFails
      <4>. HIDE DEF c
      <4>. QED  BY <4>1, <4>2, ForceDisconnectFields DEF NoCall
    <3>. QED  BY <1>6, <3>1, <3>2, <3>3 DEF GattRefused
  <2>3. MachineInv'
    BY <1>1, <2>1, <2>2 DEF OwnerInv, MachineInv, Steps
  <2>4. Owned => Owned'
    BY <1>1, <2>1, <2>2
       DEF Owned, SettingUp, Retrying, GivingUp, Clearing, Displaying, Steps
  <2>. QED  BY <1>4, <2>1, <2>2, <2>3, <2>4 DEF Steps
<1>7. CASE WriteAnswer
  <2>1. /\ UNCHANGED <<client, radio>> /\ call' = NoCall /\ call.then \in {"clear", "draw"}
    BY <1>0, <1>7, CallFields DEF WriteAnswer, Answer, Returns
  <2>2. /\ fsm' = ReadyFsm(fsm)
        /\ timer' = timer \/ timer' = "running"
        /\ call.then = "clear" => timer = "free" \/ timer' = "running"
    BY <1>7, <2>1 DEF WriteAnswer, Cleared, TimerStart
  <2>3. /\ fsm'.running = fsm.running /\ fsm'.state = "READY"
        /\ fsm'.discovering = fsm.discovering /\ fsm'.late = fsm.late
        /\ fsm'.retry = fsm.retry /\ fsm'.due = fsm.due
    BY <1>0, <2>2 DEF ReadyFsm, FsmType
  <2>4. MachineInv'
    BY <1>1, <2>1, <2>2, <2>3 DEF OwnerInv, MachineInv, GivenUp, NoCall
  <2>5. Owned => Owned'
    <3>. SUFFICES ASSUME Owned PROVE Owned'
      OBVIOUS
    <3>1. ~fsm.discovering /\ ~fsm.retry /\ timer' = "running"
      BY <2>1, <2>2
         DEF Owned, SettingUp, Retrying, GivingUp, Clearing, Displaying, OwnerInv, MachineInv
    <3>. QED  BY <2>1, <2>3, <3>1 DEF Owned, Displaying, NoCall
  <2>. QED  BY <1>4, <2>1, <2>3, <2>4, <2>5 DEF NoCall
<1>. QED  BY <1>5, <1>6, <1>7

\* The second core: a discovery completes when nothing else is under way, a connection
\* ends the search, and a discovery that was given up does not get on.
LEMMA RadioOwner ==
  ASSUME SetupInv, OwnerInv, Radio, ~Sluggish
  PROVE  OwnerInv'
<1>0. radio \in CoreType
  BY DEF SetupInv, Typed
<1>1. UNCHANGED <<fsm, timer, client, engo, tasks, call>>
  BY DEF Radio, Advertised, ScanEnds, Connects, ConnectFails, LinkEnds, GattEnds, host, hud
<1>2. (Owned' <=> Owned) /\ (Ending' <=> Ending)
  BY <1>1 DEF Owned, SettingUp, Retrying, GivingUp, Clearing, Displaying, Ending, AppEnds
<1>3. QueueInv
  BY DEF SetupInv
<1>4. ASSUME radio'.link = radio.link,
             NEW e \in EventNames \ {"opened", "closed"}, Sends(e),
             e = "gatt_ok" => ~GivenUp, ScanInv', SearchInv'
      PROVE  OwnerInv'
  <2>1. \A x : Waiting(x)' <=> Waiting(x) \/ x = e
    BY <1>3, <1>4, EventAdded
  <2>2. EngoInv'
    BY <1>1, <1>4, <2>1 DEF OwnerInv, EngoInv, Lives, Alive, AppEnds
  <2>3. MachineInv'
    BY <1>1, <1>4, <2>1 DEF OwnerInv, MachineInv, GivenUp
  <2>4. LinkedInv'
    BY <1>2, <1>4, <2>1 DEF OwnerInv, LinkedInv
  <2>. QED  BY <1>4, <2>2, <2>3, <2>4 DEF OwnerInv
<1>5. CASE Advertised
  <2>1. Sends("found") /\ radio' = radio
    BY <1>5 DEF Advertised
  <2>2. \A x : Waiting(x)' <=> Waiting(x) \/ x = "found"
    BY <1>3, <2>1, EventAdded DEF EventNames
  <2>3. ScanInv' /\ SearchInv'
    BY <1>1, <2>1, <2>2 DEF OwnerInv, ScanInv, SearchInv, Scanning, Connecting, Alive
  <2>. QED  BY <1>4, <2>1, <2>3 DEF EventNames
<1>6. CASE ScanEnds
  <2>1. /\ radio'.scan = "off" /\ radio'.conn = radio.conn /\ radio'.link = radio.link
        /\ radio.scan # "off"
    BY <1>0, <1>6 DEF ScanEnds, CoreType
  <2>2. radio.conn = "off"
    BY <2>1 DEF OwnerInv, ScanInv
  <2>3. CASE /\ Sends("scanned") /\ tasks = {} /\ call = NoCall
             /\ Range(events) \subseteq {"found"}
    <3>1. \A x : Waiting(x)' <=> Waiting(x) \/ x = "scanned"
      BY <1>3, <2>3, EventAdded DEF EventNames
    <3>2. ~Waiting("opened")
      BY <2>3 DEF Waiting
    <3>3. ScanInv' /\ SearchInv'
      BY <1>1, <2>1, <2>2, <2>3, <3>1, <3>2
         DEF OwnerInv, ScanInv, SearchInv, Connecting, NoCall
    <3>. QED  BY <1>4, <2>1, <2>3, <3>3 DEF EventNames
  <2>4. CASE Sends("scan_failed")
    <3>1. \A x : Waiting(x)' <=> Waiting(x) \/ x = "scan_failed"
      BY <1>3, <2>4, EventAdded DEF EventNames
    <3>2. ScanInv' /\ SearchInv'
      BY <1>1, <2>1, <3>1 DEF OwnerInv, ScanInv, SearchInv, Scanning
    <3>. QED  BY <1>4, <2>1, <2>4, <3>2 DEF EventNames
  <2>. QED  BY <1>6, <2>3, <2>4 DEF ScanEnds
<1>7. CASE Connects
  <2>1. /\ radio'.conn = "off" /\ radio'.link = "up" /\ radio'.scan = radio.scan
        /\ radio.conn # "off" /\ ~Alive
    BY <1>0, <1>7 DEF Connects, CoreType, Alive, Waiting
  <2>2. \A x : Waiting(x)' <=> Waiting(x) \/ x = "opened"
    BY <1>3, <1>7, EventAdded DEF Connects, EventNames
  <2>3. ~fsm.due
    BY <2>1 DEF SetupInv, LifeInv, ClosedInv, FsmIsIdle, Lives
  <2>4. EngoInv'
    BY <1>1, <2>1, <2>2 DEF OwnerInv, EngoInv, Lives, AppEnds
  <2>5. ScanInv'
    BY <1>1, <2>1, <2>2 DEF OwnerInv, ScanInv
  <2>6. MachineInv'
    BY <1>1, <2>2, <2>3 DEF OwnerInv, MachineInv, GivenUp
  <2>7. SearchInv' /\ LinkedInv'
    BY <2>1, <2>2 DEF SearchInv, LinkedInv, Alive
  <2>. QED  BY <2>4, <2>5, <2>6, <2>7 DEF OwnerInv
<1>8. CASE ConnectFails
  <2>1. /\ radio'.conn = "off" /\ radio'.link = radio.link /\ radio'.scan = radio.scan
        /\ Sends("open_failed")
    BY <1>0, <1>8 DEF ConnectFails, CoreType
  <2>2. \A x : Waiting(x)' <=> Waiting(x) \/ x = "open_failed"
    BY <1>3, <2>1, EventAdded DEF EventNames
  <2>3. ScanInv' /\ SearchInv'
    BY <1>1, <2>1, <2>2 DEF OwnerInv, ScanInv, SearchInv, Scanning, Connecting, Alive
  <2>. QED  BY <1>4, <2>1, <2>3 DEF EventNames
<1>9. CASE LinkEnds
  <2>1. /\ radio'.link = "down" /\ radio'.conn = radio.conn /\ radio'.scan = radio.scan
    BY <1>0, <1>9 DEF LinkEnds, CoreType
  <2>2. \A x : Waiting(x)' <=> Waiting(x) \/ x = "closed"
    BY <1>3, <1>9, EventAdded DEF LinkEnds, EventNames
  <2>3. EngoInv' /\ ScanInv'
    BY <1>1, <2>1, <2>2 DEF OwnerInv, EngoInv, ScanInv, Lives, Alive, AppEnds
  <2>4. MachineInv'
    BY <1>1, <2>1, <2>2 DEF OwnerInv, MachineInv, GivenUp
  <2>5. SearchInv' /\ LinkedInv'
    BY <2>1, <2>2 DEF SearchInv, LinkedInv, Alive
  <2>. QED  BY <2>3, <2>4, <2>5 DEF OwnerInv
<1>10. CASE GattEnds
  <2>1. radio'.conn = radio.conn /\ radio'.link = radio.link /\ radio'.scan = radio.scan
    BY <1>0, <1>10 DEF GattEnds, CoreType
  <2>2. PICK e \in GattEvents : Sends(e) /\ (e = "gatt_ok" => ~GivenUp)
    BY <1>10 DEF GattEnds, GattEvents
  <2>3. \A x : Waiting(x)' <=> Waiting(x) \/ x = e
    BY <1>3, <2>2, EventAdded DEF EventNames, GattEvents
  <2>4. ScanInv' /\ SearchInv'
    BY <1>1, <2>1, <2>3 DEF OwnerInv, ScanInv, SearchInv, Scanning, Connecting, Alive, GattEvents
  <2>. QED  BY <1>4, <2>1, <2>2, <2>4 DEF EventNames, GattEvents
<1>. QED  BY <1>5, <1>6, <1>7, <1>8, <1>9, <1>10 DEF Radio

\* No step leaves the link without an owner, or the search without a next step.
LEMMA OwnerStep == ~Sluggish /\ SetupInv /\ OwnerInv /\ [Next]_vars => OwnerInv'
<1>1. ASSUME SetupInv, OwnerInv, UNCHANGED vars PROVE OwnerInv'
  <2>1. /\ UNCHANGED <<fsm, timer, client, engo, tasks, call, radio, events>>
        /\ \A x : Waiting(x)' <=> Waiting(x)
    BY <1>1, EventsKept DEF vars, host, hud
  <2>2. EngoInv' /\ ScanInv' /\ MachineInv' /\ SearchInv'
    BY <1>1, <2>1
       DEF OwnerInv, EngoInv, ScanInv, MachineInv, SearchInv, Lives, Alive, AppEnds, GivenUp,
           Scanning, Connecting
  <2>3. LinkedInv'
    BY <1>1, <2>1
       DEF OwnerInv, LinkedInv, Ending, AppEnds, Owned, SettingUp, Retrying, GivingUp, Clearing,
           Displaying
  <2>. QED  BY <2>2, <2>3 DEF OwnerInv
<1>2. ASSUME ~Sluggish, SetupInv, OwnerInv, Next PROVE OwnerInv'
  BY <1>2, ModeOwner, TickOwner, RetryTimerOwner, RequestOwner, ScanEventOwner, OpenedOwner,
     ClosedOwner, ProcCompleteOwner, HudOwner, RequestAnswerOwner, TerminateOwner,
     ClientAnswerOwner, RadioOwner
     DEF Next, HciTask, Answered
<1>. QED  BY <1>1, <1>2

\* Nothing is searched for and nothing linked initially.
LEMMA InitOwner == Init => OwnerInv
<1>. SUFFICES ASSUME Init PROVE OwnerInv
  OBVIOUS
<1>1. \A x : ~Waiting(x)
  BY DEF Init, Waiting, Range
<1>2. EngoInv /\ ScanInv /\ MachineInv
  BY <1>1 DEF Init, EngoInv, ScanInv, MachineInv, AppEnds, GivenUp, IdleFsm, ClosedClient, NoCall
<1>3. SearchInv /\ LinkedInv
  BY DEF Init, SearchInv, LinkedInv, IdleFsm
<1>. QED  BY <1>2, <1>3 DEF OwnerInv

\* While ACTIVE something will always happen of which the next scan, connection or
\* picture comes, whatever the glasses are and whatever the second core refuses, as long
\* as a discovery that was given up does not succeed after all.
THEOREM NeverStrandedAlways == ASSUME ~Sluggish PROVE Spec => []NeverStranded
<1>1. SetupInv /\ OwnerInv => NeverStranded
  <2>. SUFFICES ASSUME SetupInv, OwnerInv, fsm.running, call = NoCall, tasks = {}, events = <<>>,
                       radio.conn = "off", radio.link # "ending"
                PROVE  \/ radio.scan # "off" \/ engo.scanAgain \/ engo.endAgain
                       \/ radio.link = "up" /\ timer = "running"
    BY DEF NeverStranded
  <2>1. \A x : ~Waiting(x)
    BY DEF Waiting, Range
  <2>2. CASE radio.link = "down"
    BY <2>1, <2>2 DEF OwnerInv, ScanInv, SearchInv, Scanning, Connecting, Alive, NoCall
  <2>3. CASE radio.link = "up"
    BY <2>1, <2>3
       DEF OwnerInv, LinkedInv, Ending, AppEnds, Owned, SettingUp, Retrying, GivingUp, Clearing,
           Displaying, NoCall
  <2>. QED  BY <2>2, <2>3 DEF SetupInv, Typed, CoreType
<1>2. Spec => [](SetupInv /\ OwnerInv)
  BY InitSetup, SetupStep, InitOwner, OwnerStep, PTL DEF Spec
<1>. QED  BY <1>1, <1>2, PTL
=============================================================================
