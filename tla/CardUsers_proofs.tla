--------------------------- MODULE CardUsers_proofs ---------------------------
(***************************************************************************)
(* Proofs about the microSD card: about ResourceManager, for any set of     *)
(* clients that keep its contract and any bound, and about CardUsers, its   *)
(* clients in the firmware, for every length of the diagnostic ring.        *)
(***************************************************************************)
EXTENDS ResourceManager, CardUsers, FiniteSetTheorems, TLAPS

-----------------------------------------------------------------------------
(* The manager: the counters are what its clients hold.                     *)

Holdings == {p \in Clients \X Resources : p[2] \in held[p[1]]}
Holders(r) == {u \in Clients : r \in held[u]}

\* The supply is counted once for every resource held.
VccIsCounted == IsFiniteSet(Holdings) /\ counts["VCC"] = Cardinality(Holdings)

\* The counters of the card say who holds it.
CardIsCounted ==
  /\ counts["MICROSD"] =
       (IF Holders("MICROSD") = {} /\ Holders("FATFS") = {} THEN 0 ELSE 1)
  /\ counts["FATFS"] = (IF Holders("FATFS") = {} THEN 0 ELSE 1)

\* The inductive invariant.  A halt may come between two counters.
IInv == TypeOK /\ HaltsOnlyOnFault /\ OneOwner /\ (Running => CardIsCounted /\ VccIsCounted)

\* The counters of a resource and of what it stands on are up for whoever holds it.
LEMMA HeldIsReleasable ==
  ASSUME IInv, Running, NEW u \in Clients, NEW r \in held[u]
  PROVE  Releasable(counts, r)
<1>1. r \in Resources
  BY DEF IInv, TypeOK
<1>2. counts["VCC"] \in Nat /\ counts["VCC"] # 0
  <2>1. <<u, r>> \in Holdings
    BY <1>1 DEF Holdings
  <2>. QED  BY <2>1, FS_EmptySet DEF IInv, VccIsCounted, TypeOK, Resources
<1>3. r \in Cards => counts["MICROSD"] = 1
  BY DEF IInv, CardIsCounted, Holders, Cards
<1>4. r = "FATFS" => counts["FATFS"] = 1
  BY DEF IInv, CardIsCounted, Holders
<1>. QED  BY <1>1, <1>2, <1>3, <1>4 DEF Releasable, Chain, Cards, Resources

\* The initial counters are those of clients that hold nothing.
LEMMA InitIInv == Init => IInv
<1>. SUFFICES ASSUME Init PROVE IInv
  OBVIOUS
<1>1. TypeOK /\ HaltsOnlyOnFault /\ OneOwner
  BY DEF Init, TypeOK, HaltsOnlyOnFault, OneOwner
<1>2. CardIsCounted
  BY DEF Init, CardIsCounted, Holders, Resources
<1>3. Holdings = {}
  BY DEF Init, Holdings
<1>. QED  BY <1>1, <1>2, <1>3, FS_EmptySet DEF IInv, VccIsCounted, Init, Resources

\* A request that is granted adds one holding, and one to each counter below it.
LEMMA GrantIInv ==
  ASSUME IInv, Running, NEW u \in Clients, NEW r \in Resources,
         r \notin held[u], Available(counts, r),
         held' = [held EXCEPT ![u] = @ \cup {r}], halted' = halted,
         counts' = [x \in Resources |-> counts[x] + (IF x \in Chain(r) THEN 1 ELSE 0)]
  PROVE  IInv'
<1>1. TypeOK' /\ HaltsOnlyOnFault'
  BY DEF IInv, TypeOK, HaltsOnlyOnFault
<1>2. \A v \in Clients : held'[v] = IF v = u THEN held[v] \cup {r} ELSE held[v]
  BY DEF IInv, TypeOK
<1>3. r \in Cards => Holders("MICROSD") = {} /\ Holders("FATFS") = {}
  <2>1. r \in Cards => counts["MICROSD"] = 0
    BY DEF Available, Cards
  <2>. QED  BY <2>1 DEF IInv, CardIsCounted
<1>4. OneOwner'
  <2>1. r \in Cards => \A v \in Clients : held[v] \cap Cards = {}
    BY <1>3 DEF Holders, Cards
  <2>2. CASE r \in Cards
    BY <1>2, <2>1, <2>2 DEF OneOwner
  <2>3. CASE r \notin Cards
    <3>1. \A v \in Clients : held'[v] \cap Cards = held[v] \cap Cards
      BY <1>2, <2>3
    <3>. QED  BY <3>1 DEF IInv, OneOwner
  <2>. QED  BY <2>2, <2>3
<1>5. \A x \in Resources : Holders(x)' = IF x = r THEN Holders(x) \cup {u} ELSE Holders(x)
  BY <1>2 DEF Holders
<1>6. CardIsCounted'
  <2>1. CASE r = "VCC"
    BY <2>1, <1>5 DEF IInv, TypeOK, CardIsCounted, Chain, Resources
  <2>2. CASE r = "MICROSD"
    BY <2>2, <1>3, <1>5 DEF IInv, CardIsCounted, Chain, Resources, Cards
  <2>3. CASE r = "FATFS"
    BY <2>3, <1>3, <1>5 DEF IInv, CardIsCounted, Chain, Resources, Cards
  <2>. QED  BY <2>1, <2>2, <2>3 DEF Resources
<1>7. VccIsCounted'
  <2>1. Holdings' = Holdings \cup {<<u, r>>} /\ <<u, r>> \notin Holdings
    BY <1>2 DEF Holdings
  <2>2. counts'["VCC"] = counts["VCC"] + 1
    <3>1. "VCC" \in Chain(r) /\ "VCC" \in Resources
      BY DEF Chain, Resources
    <3>. QED  BY <3>1
  <2>3. IsFiniteSet(Holdings) /\ counts["VCC"] = Cardinality(Holdings)
    BY DEF IInv, VccIsCounted
  <2>4. /\ IsFiniteSet(Holdings \cup {<<u, r>>})
        /\ Cardinality(Holdings \cup {<<u, r>>}) = Cardinality(Holdings) + 1
    BY <2>1, <2>3, FS_AddElement
  <2>. QED  BY <2>1, <2>2, <2>3, <2>4 DEF VccIsCounted
<1>. QED  BY <1>1, <1>4, <1>6, <1>7 DEF IInv

\* A request is granted, refused, or halts with the card counted and not held.
LEMMA RequestIInv ==
  ASSUME IInv, NEW u \in Clients, NEW r \in Resources, Request(u, r)
  PROVE  IInv'
<1>0. Running /\ r \notin held[u]
  BY DEF Request
<1>1. CASE MountFails(r)
  <2>1. held' = held /\ ~Running'
    BY <1>1 DEF Request, MountFails, Running, IInv, TypeOK
  <2>2. counts' = [x \in Resources |-> counts[x] + (IF x \in Chain("MICROSD") THEN 1 ELSE 0)]
    <3>1. Available(counts, "MICROSD")
      BY <1>1 DEF MountFails, Available
    <3>. QED  BY <1>1, <3>1 DEF MountFails, AfterRequest
  <2>3. TypeOK' /\ HaltsOnlyOnFault'
    BY <1>1, <2>1, <2>2 DEF MountFails, IInv, TypeOK, HaltsOnlyOnFault
  <2>. QED  BY <2>1, <2>3 DEF IInv, OneOwner
<1>2. CASE ~MountFails(r)
  <2>0. counts' = AfterRequest(counts, r) /\ halted' = halted /\ Running'
    BY <1>0, <1>2 DEF Request, RequestResource, Running
  <2>1. CASE ~Available(counts, r)
    <3>1. counts' = counts /\ held' = held
      BY <2>0, <2>1 DEF AfterRequest, Request, IInv, TypeOK
    <3>. QED  BY <2>0, <3>1 DEF IInv, TypeOK, HaltsOnlyOnFault, OneOwner, CardIsCounted,
                                VccIsCounted, Holdings, Holders, Running
  <2>2. CASE Available(counts, r)
    <3>1. counts' = [x \in Resources |-> counts[x] + (IF x \in Chain(r) THEN 1 ELSE 0)]
          /\ held' = [held EXCEPT ![u] = @ \cup {r}]
      BY <2>0, <2>2 DEF AfterRequest, Request
    <3>. QED  BY <1>0, <2>0, <2>2, <3>1, GrantIInv
  <2>. QED  BY <2>1, <2>2
<1>. QED  BY <1>1, <1>2

\* A release takes back exactly what the request had added, or halts half way.
LEMMA ReleaseIInv ==
  ASSUME IInv, NEW u \in Clients, NEW r \in Resources, Release(u, r)
  PROVE  IInv'
<1>1. Running /\ r \in held[u] /\ held' = [held EXCEPT ![u] = @ \ {r}]
  BY DEF Release
<1>2. Releasable(counts, r)
  BY <1>1, HeldIsReleasable
<1>3. \A v \in Clients : held'[v] = IF v = u THEN held[v] \ {r} ELSE held[v]
  BY <1>1 DEF IInv, TypeOK
<1>4. OneOwner'
  <2>1. \A v \in Clients : held'[v] \subseteq held[v]
    BY <1>3
  <2>. QED  BY <2>1 DEF IInv, OneOwner
<1>5. CASE UnmountFails(r)
  <2>1. ~Running' /\ TypeOK' /\ HaltsOnlyOnFault'
    BY <1>1, <1>5 DEF UnmountFails, Running, IInv, TypeOK, HaltsOnlyOnFault, Resources
  <2>. QED  BY <1>4, <2>1 DEF IInv
<1>6. CASE ~UnmountFails(r)
  <2>0. halted' = halted
        /\ counts' = [x \in Resources |-> counts[x] - (IF x \in Chain(r) THEN 1 ELSE 0)]
    BY <1>2, <1>6 DEF Release, ReleaseResource, AfterRelease
  <2>1. TypeOK' /\ HaltsOnlyOnFault'
    <3>1. \A x \in Resources : x \in Chain(r) => counts[x] \in Nat /\ counts[x] > 0
      BY <1>2 DEF Releasable, IInv, TypeOK, Chain, Cards, Resources
    <3>2. counts' \in [Resources -> Nat]
      BY <2>0, <3>1 DEF IInv, TypeOK
    <3>. QED  BY <1>1, <2>0, <3>2 DEF IInv, TypeOK, HaltsOnlyOnFault
  <2>2. \A x \in Resources : Holders(x)' = IF x = r THEN Holders(x) \ {u} ELSE Holders(x)
    BY <1>3 DEF Holders
  <2>3. r \in Cards => /\ Holders(r) = {u}
                       /\ \A s \in Cards : s # r => Holders(s) = {}
    BY <1>1 DEF IInv, OneOwner, Holders, Cards
  <2>4. CardIsCounted'
    <3>1. CASE r = "VCC"
      BY <3>1, <1>1, <2>0, <2>2 DEF IInv, TypeOK, CardIsCounted, Chain, Resources
    <3>2. CASE r = "MICROSD"
      BY <3>2, <1>1, <2>0, <2>2, <2>3 DEF IInv, CardIsCounted, Chain, Resources, Cards
    <3>3. CASE r = "FATFS"
      BY <3>3, <1>1, <2>0, <2>2, <2>3 DEF IInv, CardIsCounted, Chain, Resources, Cards
    <3>. QED  BY <3>1, <3>2, <3>3 DEF Resources
  <2>5. VccIsCounted'
    <3>1. Holdings' = Holdings \ {<<u, r>>} /\ <<u, r>> \in Holdings
      BY <1>1, <1>3 DEF Holdings
    <3>2. counts'["VCC"] = counts["VCC"] - 1
      BY <2>0 DEF Chain, Resources
    <3>. QED  BY <1>1, <3>1, <3>2, FS_RemoveElement DEF IInv, VccIsCounted
  <2>. QED  BY <1>4, <2>1, <2>4, <2>5 DEF IInv
<1>. QED  BY <1>5, <1>6

\* As long as the device runs, the counters say exactly what is held.
THEOREM CountersAreExact == Spec => []IInv
<1>1. IInv /\ [Next]_vars => IInv'
  <2>. SUFFICES ASSUME IInv, [Next]_vars PROVE IInv'
    OBVIOUS
  <2>1. CASE UNCHANGED vars
    BY <2>1 DEF vars, IInv, TypeOK, HaltsOnlyOnFault, OneOwner, CardIsCounted, VccIsCounted,
                Holdings, Holders, Running
  <2>2. CASE Next
    BY <2>2, RequestIInv, ReleaseIInv DEF Next
  <2>. QED  BY <2>1, <2>2
<1>. QED  BY <1>1, InitIInv, PTL DEF Spec

\* The card never has two owners, whoever the clients are.
THEOREM OneOwnerAlways == Spec => []OneOwner
<1>1. IInv => OneOwner
  BY DEF IInv
<1>. QED  BY <1>1, CountersAreExact, PTL

\* Clients that release only what they hold are never the cause of a halt: every
\* Error_Handler of resource_manager.c that they reach is a card or a volume that fails.
THEOREM HaltsOnlyOnFaultAlways == Spec => []HaltsOnlyOnFault
<1>1. IInv => HaltsOnlyOnFault
  BY DEF IInv
<1>. QED  BY <1>1, CountersAreExact, PTL

\* FatFs is never mounted on a card that is off, and the card is never on without a
\* client that holds it.
THEOREM HeldIsUpAlways == Spec => []HeldIsUp
<1>1. IInv => HeldIsUp
  <2>. SUFFICES ASSUME IInv, Running PROVE HeldIsUp
    BY DEF HeldIsUp
  <2>1. ASSUME NEW u \in Clients, NEW r \in held[u], NEW x \in Chain(r)
        PROVE  counts[x] > 0
    <3>1. Releasable(counts, r) /\ r \in Resources
      BY HeldIsReleasable DEF IInv, TypeOK
    <3>. QED  BY <3>1 DEF Releasable, Chain, Cards, Resources
  <2>2. ASSUME NEW x \in Cards, counts[x] > 0
        PROVE  \E u \in Clients : \E r \in held[u] : x \in Chain(r)
    BY <2>2 DEF IInv, CardIsCounted, Holders, Chain, Cards
  <2>. QED  BY <2>1, <2>2 DEF HeldIsUp
<1>. QED  BY <1>1, CountersAreExact, PTL
-----------------------------------------------------------------------------
(* The users.                                                               *)

USE DiagLinesAssumption

\* Who has the card.
CrsHolds   == transfer # "IDLE"
UsbHolds   == mode = "USB" /\ unplug \notin {"released", "updating"}
ModeMounts == mode \in FatFsModes \/ unplug = "updating"

\* The counters follow the holders exactly.
Expected == [r \in Manager!Resources |->
  IF CrsHolds \/ ModeMounts \/ (UsbHolds /\ r # "FATFS") THEN 1 ELSE 0]

StateTypeOK ==
  /\ mode \in Modes /\ transfer \in Transfers \cup {"IDLE"}
  /\ unplug \in {"no", "flushed", "deaf", "empty", "released", "updating"}
  /\ granted \in BOOLEAN /\ trespass \in BOOLEAN /\ stale \in BOOLEAN
  /\ unsynced \in BOOLEAN /\ lines \in 0 .. DiagLines
  /\ stopped \in {"no", "fault", "misuse"}

\* As long as nobody has trespassed, a transfer and a mode that uses the card exclude
\* each other, the cache is ahead of the card only until FS_USBMode_DeInit has emptied
\* it, and while the device runs the counters are exact.
PeaceInv ==
  /\ StateTypeOK
  /\ unplug # "no" => mode = "USB"
  /\ ~trespass =>
       /\ stopped # "misuse" /\ ~stale
       /\ CrsHolds => mode \in {"SLEEP", "PAIRING"} /\ ~granted
       /\ unsynced => UsbHolds /\ unplug # "empty" /\ counters["FATFS"] = 0
       /\ Manager!Running => counters = Expected /\ (granted <=> ModeMounts \/ UsbHolds)

\* The expected counters, resource by resource.
LEMMA Counters ==
  /\ Manager!Resources = {"VCC", "MICROSD", "FATFS"}
  /\ \A r \in Manager!Resources :
       Expected[r] = IF CrsHolds \/ ModeMounts \/ (UsbHolds /\ r # "FATFS") THEN 1 ELSE 0
BY DEF Expected, Manager!Resources

\* FatFs can be had only if nobody has the card, the raw card in the same way.
LEMMA AvailableIff ==
  ASSUME PeaceInv, ~trespass, Manager!Running, NEW r \in {"MICROSD", "FATFS"}
  PROVE  Manager!Available(counters, r) <=> ~CrsHolds /\ ~ModeMounts /\ ~UsbHolds
<1>1. /\ counters["MICROSD"] = IF CrsHolds \/ ModeMounts \/ UsbHolds THEN 1 ELSE 0
      /\ counters["FATFS"] = IF CrsHolds \/ ModeMounts THEN 1 ELSE 0
  BY Counters DEF PeaceInv
<1>2. CASE r = "MICROSD"
  BY <1>1, <1>2 DEF Manager!Available
<1>3. CASE r = "FATFS"
  BY <1>1, <1>3 DEF Manager!Available
<1>. QED  BY <1>2, <1>3

\* A request from counters at zero counts the chain of what it is for, or halts.
LEMMA RequestOutcome ==
  ASSUME NEW r \in {"MICROSD", "FATFS"}, Manager!Running, Manager!RequestResource(r),
         \A x \in Manager!Resources : counters[x] = 0
  PROVE  \/ /\ Manager!Running' /\ stopped' = stopped
            /\ counters' = [x \in Manager!Resources |->
                              IF r = "FATFS" \/ x # "FATFS" THEN 1 ELSE 0]
         \/ ~Manager!Running' /\ stopped' = "fault" /\ counters'["FATFS"] = 0
<1>1. \A q \in {"MICROSD", "FATFS"} : Manager!Available(counters, q)
  BY Counters DEF Manager!Available
<1>2. \A q \in {"MICROSD", "FATFS"}, x \in Manager!Resources :
        x \in Manager!Chain(q) <=> q = "FATFS" \/ x # "FATFS"
  BY Counters DEF Manager!Chain
<1>3. \A q \in {"MICROSD", "FATFS"} : Manager!AfterRequest(counters, q) =
        [x \in Manager!Resources |-> IF q = "FATFS" \/ x # "FATFS" THEN 1 ELSE 0]
  BY <1>1, <1>2 DEF Manager!AfterRequest
<1>4. CASE Manager!MountFails(r)
  <2>1. stopped' = "fault" /\ counters' = Manager!AfterRequest(counters, "MICROSD")
    BY <1>4 DEF Manager!MountFails
  <2>2. counters'["FATFS"] = 0
    BY <1>3, <2>1, Counters
  <2>. QED  BY <2>1, <2>2 DEF Manager!Running
<1>5. CASE counters' = Manager!AfterRequest(counters, r) /\ UNCHANGED stopped
  BY <1>3, <1>5 DEF Manager!Running
<1>. QED  BY <1>4, <1>5 DEF Manager!RequestResource

\* A release of what is counted once takes all counters of its chain to zero, or halts.
LEMMA ReleaseOutcome ==
  ASSUME NEW r \in {"MICROSD", "FATFS"}, Manager!Running, Manager!ReleaseResource(r),
         \A x \in Manager!Resources :
           counters[x] = IF r = "FATFS" \/ x # "FATFS" THEN 1 ELSE 0
  PROVE  \/ /\ Manager!Running' /\ stopped' = stopped
            /\ counters' = [x \in Manager!Resources |-> 0]
         \/ ~Manager!Running' /\ stopped' = "fault"
<1>1. Manager!Releasable(counters, r)
  BY Counters DEF Manager!Releasable, Manager!Chain, Manager!Cards
<1>2. CASE Manager!UnmountFails(r)
  BY <1>2 DEF Manager!UnmountFails, Manager!Running
<1>3. CASE counters' = Manager!AfterRelease(counters, r) /\ UNCHANGED stopped
  <2>1. \A x \in Manager!Resources : x \in Manager!Chain(r) <=> r = "FATFS" \/ x # "FATFS"
    BY Counters DEF Manager!Chain
  <2>2. counters' = [x \in Manager!Resources |-> 0]
    BY <1>3, <2>1 DEF Manager!AfterRelease
  <2>. QED  BY <1>3, <2>2 DEF Manager!Running
<1>. QED  BY <1>1, <1>2, <1>3 DEF Manager!ReleaseResource

\* Every step keeps the state variables in their types.
LEMMA StateTypeStep ==
  ASSUME StateTypeOK, UsersNext
  PROVE  StateTypeOK'
<1>1. \A r : Manager!RequestResource(r) \/ Manager!ReleaseResource(r)
        => stopped' \in {"no", "fault", "misuse"}
  BY DEF Manager!RequestResource, Manager!MountFails, Manager!ReleaseResource,
         Manager!UnmountFails, StateTypeOK
<1>2. \A r \in {"MICROSD", "FATFS"} : Manager!Available(counters, r) \in BOOLEAN
  BY DEF Manager!Available
<1>3. Logged \in 0 .. DiagLines
  BY DEF Logged, StateTypeOK
<1>4. CASE (\E t \in Transfers : TransferBegins(t)) \/ TransferEnds
  BY <1>1, <1>4 DEF TransferBegins, TransferEnds, StateTypeOK
<1>5. CASE \E m \in Modes \ {"SLEEP"} : EnterMode(m)
  <2>1. PICK m \in Modes \ {"SLEEP"} : EnterMode(m)
    BY <1>5
  <2>2. stopped' \in {"no", "fault", "misuse"}
    BY <1>1, <2>1 DEF EnterMode, Manager!MountFails, StateTypeOK
  <2>3. granted' \in BOOLEAN /\ trespass' \in BOOLEAN
    BY <1>2, <2>1, Zenon DEF EnterMode, Obtainable, Needs, StateTypeOK
  <2>4. lines' \in 0 .. DiagLines
    BY <1>3, <2>1 DEF EnterMode, StateTypeOK
  <2>. QED  BY <2>1, <2>2, <2>3, <2>4 DEF EnterMode, StateTypeOK
<1>6. CASE LeaveFatFsMode \/ LeavePairing \/ HostWrites
  BY <1>1, <1>6 DEF LeaveFatFsMode, LeavePairing, HostWrites, StateTypeOK, Modes
<1>7. CASE LeaveUsb \/ StopUsb \/ HandBack
  BY <1>7 DEF LeaveUsb, StopUsb, HandBack, Proceeds, StateTypeOK
<1>8. CASE ReleaseCard \/ StateUpdate \/ StateUpdated
  BY <1>1, <1>2, <1>8 DEF ReleaseCard, StateUpdate, StateUpdated, Obtainable, StateTypeOK, Modes
<1>9. CASE DiagnosticLine \/ DiagnosticFlush
  BY <1>3, <1>9 DEF DiagnosticLine, DiagnosticFlush, Manager!MountFails, StateTypeOK
<1>. QED  BY <1>4, <1>5, <1>6, <1>7, <1>8, <1>9 DEF UsersNext, UnplugNext

\* A transfer that begins or ends keeps PeaceInv (crs.c asks the resource manager first).
LEMMA TransferStep ==
  ASSUME PeaceInv, StateTypeOK', ~trespass',
         (\E t \in Transfers : TransferBegins(t)) \/ TransferEnds
  PROVE  PeaceInv'
<1>0. /\ ~trespass /\ Manager!Running /\ unplug = "no"
      /\ UNCHANGED <<mode, unplug, granted, unsynced>>
  BY DEF TransferBegins, TransferEnds, Ready
<1>1. ASSUME NEW t \in Transfers, TransferBegins(t) PROVE PeaceInv'
  <2>1. ~CrsHolds /\ ~ModeMounts /\ ~UsbHolds
    BY <1>0, <1>1, AvailableIff DEF TransferBegins, Obtainable
  <2>2. \A r \in Manager!Resources : counters[r] = 0
    BY <1>0, <2>1, Counters DEF PeaceInv
  <2>3. mode \in {"SLEEP", "PAIRING"} /\ ~granted /\ ~unsynced
    BY <1>0, <2>1 DEF PeaceInv, StateTypeOK, Modes, ModeMounts, UsbHolds
  <2>4. ~ModeMounts' /\ ~UsbHolds' /\ stale' = stale
    BY <1>0, <1>1, <2>1 DEF ModeMounts, UsbHolds, TransferBegins
  <2>5. CASE Manager!Running'
    <3>1. counters' = [x \in Manager!Resources |-> 1] /\ stopped' = stopped
      BY <1>0, <1>1, <2>2, <2>5, RequestOutcome DEF TransferBegins
    <3>2. CrsHolds'
      BY <1>1, <2>5 DEF TransferBegins, CrsHolds, Transfers
    <3>3. counters' = Expected'
      BY <3>1, <3>2 DEF Expected
    <3>. QED  BY <1>0, <2>3, <2>4, <3>1, <3>3 DEF PeaceInv
  <2>6. CASE ~Manager!Running'
    <3>1. stopped' = "fault" /\ ~CrsHolds'
      BY <1>0, <1>1, <2>2, <2>6, RequestOutcome DEF TransferBegins, CrsHolds
    <3>. QED  BY <1>0, <2>3, <2>4, <2>6, <3>1 DEF PeaceInv
  <2>. QED  BY <2>5, <2>6
<1>2. CASE TransferEnds
  <2>1. CrsHolds /\ ~CrsHolds' /\ ~stale' /\ mode \in {"SLEEP", "PAIRING"} /\ ~granted
    BY <1>0, <1>2 DEF TransferEnds, CrsHolds, PeaceInv
  <2>2. ~ModeMounts' /\ ~UsbHolds' /\ ~UsbHolds
    BY <1>0, <2>1 DEF ModeMounts, UsbHolds, FatFsModes
  <2>3. \A r \in Manager!Resources : counters[r] = 1
    BY <1>0, <2>1, Counters DEF PeaceInv
  <2>4. \/ Manager!Running' /\ stopped' = stopped /\ counters' = [x \in Manager!Resources |-> 0]
        \/ ~Manager!Running' /\ stopped' = "fault"
    BY <1>0, <1>2, <2>3, ReleaseOutcome DEF TransferEnds
  <2>5. counters' = [x \in Manager!Resources |-> 0] => counters' = Expected'
    BY <2>1, <2>2 DEF Expected
  <2>6. ~unsynced
    BY <1>0, <2>2 DEF PeaceInv
  <2>. QED  BY <1>0, <2>1, <2>2, <2>4, <2>5, <2>6 DEF PeaceInv
<1>. QED  BY <1>1, <1>2

\* Entering a mode keeps PeaceInv as long as no mode entered over a refusal.
LEMMA EnterStep ==
  ASSUME PeaceInv, StateTypeOK', ~trespass', NEW m \in Modes \ {"SLEEP"}, EnterMode(m)
  PROVE  PeaceInv'
<1>1. /\ ~trespass /\ Manager!Running /\ unplug = "no" /\ mode = "SLEEP" /\ mode' = m
      /\ UNCHANGED <<unplug, transfer, stale, unsynced>>
  BY DEF EnterMode, Ready, PeaceInv, StateTypeOK
<1>2. ~ModeMounts /\ ~UsbHolds /\ ~unsynced /\ (CrsHolds' <=> CrsHolds)
  BY <1>1 DEF ModeMounts, UsbHolds, FatFsModes, PeaceInv, CrsHolds
<1>3. CASE m = "PAIRING"
  <2>1. UNCHANGED <<counters, stopped, granted>>
    BY <1>3 DEF EnterMode
  <2>2. ~ModeMounts' /\ ~UsbHolds'
    BY <1>1, <1>3 DEF ModeMounts, UsbHolds, FatFsModes
  <2>3. counters' = Expected'
    BY <1>1, <1>2, <2>1, <2>2 DEF PeaceInv, Expected
  <2>. QED  BY <1>1, <1>2, <1>3, <2>1, <2>2, <2>3 DEF PeaceInv, Manager!Running
<1>4. CASE m # "PAIRING"
  <2>1. Needs(m) \in {"MICROSD", "FATFS"} /\ Manager!Available(counters, Needs(m))
    BY <1>1, <1>4 DEF EnterMode, Needs, Obtainable
  <2>2. ~CrsHolds
    BY <1>1, <2>1, AvailableIff
  <2>3. \A r \in Manager!Resources : counters[r] = 0
    BY <1>1, <1>2, <2>2, Counters DEF PeaceInv
  <2>4. \/ /\ Manager!Running' /\ stopped' = stopped
           /\ counters' = [x \in Manager!Resources |->
                             IF Needs(m) = "FATFS" \/ x # "FATFS" THEN 1 ELSE 0]
        \/ ~Manager!Running' /\ stopped' = "fault" /\ counters'["FATFS"] = 0
    <3>1. Manager!RequestResource(Needs(m)) \/ Manager!MountFails("FATFS")
      BY <1>4 DEF EnterMode
    <3>2. Manager!MountFails("FATFS") => ~Manager!Running' /\ Manager!RequestResource("FATFS")
      BY DEF Manager!MountFails, Manager!Running, Manager!RequestResource
    <3>. QED  BY <1>1, <2>1, <2>3, <3>1, <3>2, RequestOutcome
  <2>5. CASE ~Manager!Running'
    BY <1>1, <1>2, <2>2, <2>4, <2>5 DEF PeaceInv
  <2>6. CASE Manager!Running'
    <3>1. granted'
      BY <1>4, <2>1, <2>6 DEF EnterMode, Obtainable
    <3>2. CASE m = "USB"
      <4>1. UsbHolds' /\ ~ModeMounts' /\ ~CrsHolds' /\ Needs(m) = "MICROSD"
        BY <1>1, <1>2, <2>2, <3>2 DEF UsbHolds, ModeMounts, FatFsModes, Needs
      <4>2. counters' = Expected'
        BY <2>4, <2>6, <4>1 DEF Expected
      <4>. QED  BY <1>1, <1>2, <2>4, <2>6, <3>1, <4>1, <4>2 DEF PeaceInv
    <3>3. CASE m # "USB"
      <4>1. ModeMounts' /\ ~CrsHolds' /\ Needs(m) = "FATFS"
        BY <1>1, <1>2, <1>4, <2>2, <3>3 DEF ModeMounts, Modes, Needs
      <4>2. counters' = Expected'
        BY <2>4, <2>6, <4>1 DEF Expected
      <4>. QED  BY <1>1, <1>2, <2>4, <2>6, <3>1, <4>1, <4>2 DEF PeaceInv
    <3>. QED  BY <3>2, <3>3
  <2>. QED  BY <2>5, <2>6
<1>. QED  BY <1>3, <1>4

\* Leaving another mode than USB keeps PeaceInv: its DeInit returns what its Init took.
LEMMA LeaveStep ==
  ASSUME PeaceInv, StateTypeOK', ~trespass', LeaveFatFsMode \/ LeavePairing
  PROVE  PeaceInv'
<1>0. /\ ~trespass /\ Manager!Running /\ unplug = "no" /\ mode' = "SLEEP"
      /\ UNCHANGED <<unplug, transfer, unsynced>>
  BY DEF LeaveFatFsMode, LeavePairing, Ready
<1>1. ~ModeMounts' /\ ~UsbHolds' /\ (CrsHolds' <=> CrsHolds)
  BY <1>0 DEF ModeMounts, UsbHolds, FatFsModes, CrsHolds
<1>2. CASE LeaveFatFsMode
  <2>1. ModeMounts /\ ~CrsHolds /\ ~granted' /\ ~stale' /\ ~UsbHolds
    BY <1>0, <1>2 DEF LeaveFatFsMode, ModeMounts, FatFsModes, PeaceInv, CrsHolds, UsbHolds
  <2>2. \A r \in Manager!Resources : counters[r] = 1
    BY <1>0, <2>1, Counters DEF PeaceInv
  <2>3. \/ Manager!Running' /\ stopped' = stopped /\ counters' = [x \in Manager!Resources |-> 0]
        \/ ~Manager!Running' /\ stopped' = "fault"
    BY <1>0, <1>2, <2>2, ReleaseOutcome DEF LeaveFatFsMode
  <2>4. counters' = [x \in Manager!Resources |-> 0] => counters' = Expected'
    BY <1>1, <2>1 DEF Expected
  <2>5. ~unsynced
    BY <1>0, <2>1 DEF PeaceInv
  <2>. QED  BY <1>0, <1>1, <2>1, <2>3, <2>4, <2>5 DEF PeaceInv
<1>3. CASE LeavePairing
  <2>1. ~ModeMounts /\ ~UsbHolds /\ UNCHANGED <<counters, stopped, granted, stale>>
    BY <1>0, <1>3 DEF LeavePairing, ModeMounts, UsbHolds, FatFsModes
  <2>2. counters' = Expected'
    BY <1>0, <1>1, <2>1 DEF PeaceInv, Expected
  <2>. QED  BY <1>0, <1>1, <2>1, <2>2 DEF PeaceInv, Manager!Running
<1>. QED  BY <1>2, <1>3

\* The steps of FS_USBMode_DeInit up to the empty cache leave the card alone.
LEMMA EmptyingStep ==
  ASSUME PeaceInv, StateTypeOK', ~trespass', LeaveUsb \/ StopUsb \/ HandBack
  PROVE  PeaceInv'
<1>1. /\ ~trespass /\ Manager!Running /\ mode = "USB" /\ unplug \in {"no", "flushed", "deaf"}
      /\ UNCHANGED <<counters, mode, transfer, granted, stale>>
  BY DEF LeaveUsb, StopUsb, HandBack, Proceeds
<1>2. \/ stopped' = stopped /\ unplug' \in {"flushed", "deaf", "empty"}
      \/ stopped' = "fault" /\ unplug' = unplug
  BY DEF LeaveUsb, StopUsb, HandBack, Proceeds
<1>3. unsynced' => unsynced /\ unplug' # "empty"
  BY <1>1 DEF LeaveUsb, StopUsb, HandBack, Proceeds, PeaceInv, Manager!Running
<1>4. /\ UsbHolds /\ ~ModeMounts /\ UsbHolds' /\ ~ModeMounts'
      /\ (CrsHolds' <=> CrsHolds)
  BY <1>1, <1>2 DEF UsbHolds, ModeMounts, FatFsModes, CrsHolds
<1>5. counters' = Expected'
  BY <1>1, <1>4 DEF PeaceInv, Expected
<1>. QED  BY <1>1, <1>2, <1>3, <1>4, <1>5 DEF PeaceInv

\* FS_USBMode_DeInit releases the card, and FS_State_Update mounts it and lets it go,
\* with nothing left in the cache.
LEMMA UpdateStep ==
  ASSUME PeaceInv, StateTypeOK', ~trespass', ReleaseCard \/ StateUpdate \/ StateUpdated
  PROVE  PeaceInv'
<1>1. /\ ~trespass /\ Manager!Running /\ mode = "USB" /\ ~CrsHolds /\ ~CrsHolds' /\ ~unsynced
      /\ unsynced' = unsynced /\ ~stale'
  <2>1. /\ ~trespass /\ Manager!Running /\ unplug \in {"empty", "released", "updating"}
        /\ UNCHANGED <<transfer, unsynced>>
        /\ stale' = stale \/ stale' = (transfer # "IDLE")
    BY DEF ReleaseCard, StateUpdate, StateUpdated
  <2>2. mode = "USB" /\ ~stale
    BY <2>1 DEF PeaceInv
  <2>3. transfer = "IDLE" /\ ~unsynced
    BY <2>1, <2>2 DEF PeaceInv, CrsHolds, UsbHolds
  <2>4. ~stale'
    BY <2>1, <2>2, <2>3, Zenon
  <2>. QED  BY <2>1, <2>2, <2>3, <2>4 DEF CrsHolds
<1>2. CASE ReleaseCard
  <2>1. UsbHolds /\ ~ModeMounts /\ ~UsbHolds' /\ ~ModeMounts' /\ ~granted' /\ mode' = "USB"
    BY <1>1, <1>2 DEF ReleaseCard, UsbHolds, ModeMounts, FatFsModes
  <2>2. \A r \in Manager!Resources : counters[r] = IF r # "FATFS" THEN 1 ELSE 0
    BY <1>1, <2>1, Counters DEF PeaceInv
  <2>3. \/ Manager!Running' /\ stopped' = stopped /\ counters' = [x \in Manager!Resources |-> 0]
        \/ ~Manager!Running' /\ stopped' = "fault"
    BY <1>1, <1>2, <2>2, ReleaseOutcome DEF ReleaseCard
  <2>4. counters' = [x \in Manager!Resources |-> 0] => counters' = Expected'
    BY <1>1, <2>1 DEF Expected
  <2>. QED  BY <1>1, <2>1, <2>3, <2>4 DEF PeaceInv
<1>3. CASE StateUpdate
  <2>1. ~UsbHolds /\ ~ModeMounts /\ ~UsbHolds' /\ ModeMounts' /\ mode' = "USB"
    BY <1>1, <1>3 DEF StateUpdate, UsbHolds, ModeMounts, FatFsModes
  <2>2. \A r \in Manager!Resources : counters[r] = 0
    BY <1>1, <2>1, Counters DEF PeaceInv
  <2>3. granted' <=> Manager!Running'
    BY <1>1, <1>3, <2>1, AvailableIff DEF StateUpdate, Obtainable
  <2>4. \/ Manager!Running' /\ stopped' = stopped /\ counters' = [x \in Manager!Resources |-> 1]
        \/ ~Manager!Running' /\ stopped' = "fault"
    BY <1>1, <1>3, <2>2, RequestOutcome DEF StateUpdate
  <2>5. counters' = [x \in Manager!Resources |-> 1] => counters' = Expected'
    BY <2>1 DEF Expected
  <2>. QED  BY <1>1, <2>1, <2>3, <2>4, <2>5 DEF PeaceInv
<1>4. CASE StateUpdated
  <2>1. /\ ModeMounts /\ ~UsbHolds /\ ~UsbHolds' /\ ~ModeMounts' /\ ~granted'
        /\ mode' = "SLEEP" /\ unplug' = "no"
    BY <1>4 DEF StateUpdated, UsbHolds, ModeMounts, FatFsModes
  <2>2. \A r \in Manager!Resources : counters[r] = 1
    BY <1>1, <2>1, Counters DEF PeaceInv
  <2>3. \/ Manager!Running' /\ stopped' = stopped /\ counters' = [x \in Manager!Resources |-> 0]
        \/ ~Manager!Running' /\ stopped' = "fault"
    BY <1>1, <1>4, <2>2, ReleaseOutcome DEF StateUpdated
  <2>4. counters' = [x \in Manager!Resources |-> 0] => counters' = Expected'
    BY <1>1, <2>1 DEF Expected
  <2>. QED  BY <1>1, <2>1, <2>3, <2>4 DEF PeaceInv
<1>. QED  BY <1>2, <1>3, <1>4

\* Host writes and diagnostic lines keep PeaceInv.
LEMMA OtherStep ==
  ASSUME PeaceInv, StateTypeOK', ~trespass', HostWrites \/ DiagnosticLine \/ DiagnosticFlush
  PROVE  PeaceInv'
<1>0. /\ ~trespass /\ Manager!Running /\ UNCHANGED <<mode, unplug, transfer, granted>>
  BY DEF HostWrites, DiagnosticLine, DiagnosticFlush, Ready
<1>1. (CrsHolds' <=> CrsHolds) /\ (UsbHolds' <=> UsbHolds) /\ (ModeMounts' <=> ModeMounts)
  BY <1>0 DEF CrsHolds, UsbHolds, ModeMounts
<1>2. Expected' = Expected
  BY <1>1 DEF Expected
<1>3. CASE HostWrites
  <2>1. UsbHolds /\ ~ModeMounts /\ ~CrsHolds /\ ~stale' /\ UNCHANGED <<counters, stopped>>
        /\ unplug # "empty"
    BY <1>3 DEF HostWrites, PeaceInv, CrsHolds, UsbHolds, ModeMounts, FatFsModes
  <2>2. counters["FATFS"] = 0
    BY <1>0, <2>1, Counters DEF PeaceInv
  <2>. QED  BY <1>0, <1>1, <1>2, <2>1, <2>2 DEF PeaceInv, Manager!Running
<1>4. CASE DiagnosticLine
  BY <1>0, <1>1, <1>2, <1>4 DEF DiagnosticLine, PeaceInv, Manager!Running
<1>5. CASE DiagnosticFlush
  <2>1. ~CrsHolds /\ ~ModeMounts /\ ~UsbHolds
    BY <1>0, <1>5, AvailableIff DEF DiagnosticFlush, Obtainable
  <2>2. \A r \in Manager!Resources : counters[r] = 0
    BY <1>0, <2>1, Counters DEF PeaceInv
  <2>3. UNCHANGED <<stale, unsynced>> /\ ~unsynced
    BY <1>0, <1>5, <2>1 DEF DiagnosticFlush, PeaceInv
  <2>4. CASE Manager!MountFails("FATFS")
    BY <1>0, <1>1, <2>1, <2>3, <2>4 DEF PeaceInv, Manager!MountFails, Manager!Running
  <2>5. CASE ~Manager!MountFails("FATFS")
    <3>1. Manager!Available(counters, "FATFS")
      BY <1>5 DEF DiagnosticFlush, Obtainable
    <3>2. \A r \in Manager!Resources : r \in Manager!Chain("FATFS")
      BY Counters DEF Manager!Chain
    <3>3. Manager!AfterRequest(counters, "FATFS") = [x \in Manager!Resources |-> 1]
      BY <2>2, <3>1, <3>2 DEF Manager!AfterRequest
    <3>4. counters' = [x \in Manager!Resources |-> 0] /\ stopped' = stopped
      BY <1>5, <2>5, <3>2, <3>3 DEF DiagnosticFlush, Manager!AfterRelease
    <3>5. counters' = Expected'
      BY <1>1, <2>1, <3>4 DEF Expected
    <3>. QED  BY <1>0, <1>1, <2>3, <3>4, <3>5 DEF PeaceInv, Manager!Running
  <2>. QED  BY <2>4, <2>5
<1>. QED  BY <1>3, <1>4, <1>5

\* PeaceInv holds in every reachable state.
LEMMA PeaceInvariant == UsersSpec => []PeaceInv
<1>1. UsersInit => PeaceInv
  <2>. SUFFICES ASSUME UsersInit PROVE PeaceInv
    OBVIOUS
  <2>1. StateTypeOK
    <3>1. 0 \in 0 .. DiagLines
      OBVIOUS
    <3>. QED  BY <3>1, Zenon DEF UsersInit, StateTypeOK, Modes
  <2>2. ~CrsHolds /\ ~UsbHolds /\ ~ModeMounts
    BY DEF UsersInit, CrsHolds, UsbHolds, ModeMounts, FatFsModes
  <2>3. counters = Expected
    BY <2>2 DEF UsersInit, Expected
  <2>. QED  BY <2>1, <2>2, <2>3 DEF UsersInit, PeaceInv
<1>2. PeaceInv /\ [UsersNext]_usersVars => PeaceInv'
  <2>1. ASSUME PeaceInv, UNCHANGED usersVars PROVE PeaceInv'
    BY <2>1 DEF usersVars, PeaceInv, StateTypeOK, Expected, CrsHolds, UsbHolds, ModeMounts,
                Manager!Running
  <2>2. ASSUME PeaceInv, UsersNext, trespass' PROVE PeaceInv'
    <3>1. StateTypeOK'
      BY <2>2, StateTypeStep DEF PeaceInv
    <3>2. unplug' # "no" => mode' = "USB"
      BY <2>2 DEF UsersNext, UnplugNext, PeaceInv, TransferBegins, TransferEnds, EnterMode,
                  Ready, LeaveFatFsMode, LeavePairing, HostWrites, LeaveUsb, StopUsb, HandBack,
                  Proceeds, ReleaseCard, StateUpdate, StateUpdated, DiagnosticLine,
                  DiagnosticFlush
    <3>. QED  BY <2>2, <3>1, <3>2 DEF PeaceInv
  <2>3. ASSUME PeaceInv, UsersNext, ~trespass' PROVE PeaceInv'
    <3>1. StateTypeOK'
      BY <2>3, StateTypeStep DEF PeaceInv
    <3>. QED  BY <2>3, <3>1, TransferStep, EnterStep, LeaveStep, EmptyingStep, UpdateStep,
                 OtherStep DEF UsersNext, UnplugNext
  <2>. QED  BY <2>1, <2>2, <2>3
<1>. QED  BY <1>1, <1>2, PTL DEF UsersSpec

\* As long as no mode is entered in the middle of a transfer, the contract of the
\* resource manager is kept by clients that do not check it.
THEOREM SharedInPeaceAlways == UsersSpec => []SharedInPeace
<1>1. PeaceInv => SharedInPeace
  <2>. SUFFICES ASSUME PeaceInv, ~trespass
                PROVE  Manager!OneOwner /\ Manager!HeldIsUp
    BY DEF SharedInPeace, PeaceInv, Manager!HaltsOnlyOnFault
  <2>1. /\ Held["crs"] = IF CrsHolds THEN {"FATFS"} ELSE {}
        /\ Held["mode"] = IF granted THEN {IF unplug = "updating" THEN "FATFS" ELSE Needs(mode)}
                          ELSE {}
    BY DEF Held, CrsHolds
  <2>2. ~(CrsHolds /\ granted)
    BY DEF PeaceInv
  <2>3. Manager!OneOwner
    BY <2>1, <2>2 DEF Manager!OneOwner
  <2>. SUFFICES ASSUME Manager!Running PROVE Manager!HeldIsUp
    BY <2>3 DEF Manager!HeldIsUp
  <2>4. \A y \in Manager!Resources :
          counters[y] = IF CrsHolds \/ ModeMounts \/ (UsbHolds /\ y # "FATFS") THEN 1 ELSE 0
    BY Counters DEF PeaceInv
  <2>5. /\ Manager!Chain("FATFS") = Manager!Resources
        /\ Manager!Chain("MICROSD") = {"VCC", "MICROSD"}
    BY Counters DEF Manager!Chain
  <2>6. /\ ModeMounts => Held["mode"] = {"FATFS"}
        /\ UsbHolds => Held["mode"] = {"MICROSD"}
        /\ ~ModeMounts /\ ~UsbHolds => Held["mode"] = {}
    <3>1. granted <=> ModeMounts \/ UsbHolds
      BY DEF PeaceInv
    <3>2. ModeMounts => (IF unplug = "updating" THEN "FATFS" ELSE Needs(mode)) = "FATFS"
      BY DEF ModeMounts, FatFsModes, Needs
    <3>3. UsbHolds => (IF unplug = "updating" THEN "FATFS" ELSE Needs(mode)) = "MICROSD"
      BY DEF UsbHolds, Needs
    <3>. QED  BY <2>1, <3>1, <3>2, <3>3
  <2>7. ASSUME NEW u \in {"crs", "mode"}, NEW r \in Held[u], NEW x \in Manager!Chain(r)
        PROVE  counters[x] > 0
    <3>1. CASE r = "FATFS"
      <4>1. CrsHolds \/ ModeMounts
        BY <2>1, <2>6, <3>1
      <4>. QED  BY <2>4, <2>5, <3>1, <4>1
    <3>2. CASE r # "FATFS"
      <4>1. UsbHolds /\ r = "MICROSD"
        BY <2>1, <2>6, <3>2
      <4>. QED  BY <2>4, <2>5, <4>1, Counters
    <3>. QED  BY <3>1, <3>2
  <2>8. ASSUME NEW x \in Manager!Cards, counters[x] > 0
        PROVE  \E u \in {"crs", "mode"} : \E r \in Held[u] : x \in Manager!Chain(r)
    <3>1. x \in {"MICROSD", "FATFS"} /\ x \in Manager!Resources
      BY Counters DEF Manager!Cards
    <3>2. CrsHolds \/ ModeMounts \/ (UsbHolds /\ x = "MICROSD")
      BY <2>4, <2>8, <3>1
    <3>. QED  BY <2>1, <2>5, <2>6, <3>1, <3>2
  <2>. QED  BY <2>7, <2>8 DEF Manager!HeldIsUp
<1>. QED  BY <1>1, PeaceInvariant, PTL

\* FatFs mounts the card after USB only when the cache has nothing that the card does
\* not have, whenever the host's last write comes.
THEOREM CacheEmptyBeforeMountAlways == UsersSpec => []CacheEmptyBeforeMount
<1>1. PeaceInv => CacheEmptyBeforeMount
  BY DEF PeaceInv, CacheEmptyBeforeMount, UsbHolds
<1>. QED  BY <1>1, PeaceInvariant, PTL
=============================================================================
