-------------------------- MODULE ResourceManager --------------------------
(***************************************************************************)
(* FlySight/resource_manager.c: the microSD card and what it stands on.     *)
(* FATFS needs MICROSD, MICROSD needs VCC; VCC is counted, the other two    *)
(* have one owner at a time and refuse a second.                            *)
(*                                                                          *)
(* The clients here keep the contract of the module: they use a resource    *)
(* only if the request for it succeeded, and release what they hold.  What  *)
(* the firmware's real clients do is in CardUsers.                          *)
(***************************************************************************)
EXTENDS Integers, FiniteSets

CONSTANTS Clients,   \* those who request resources
          MaxVcc     \* bound on the clients of VCC (resource_counts is a uint8_t)

Resources == {"VCC", "MICROSD", "FATFS"}
Cards     == {"MICROSD", "FATFS"}   \* the resources with one owner

ASSUME MaxVccAssumption == MaxVcc \in 1 .. 255

VARIABLES counts,   \* resource_counts
          held,     \* the resources each client holds: its requests that succeeded
          halted    \* "no", or why Error_Handler was called: "fault" of the card or
                    \* of its file system, "misuse" by a client

vars == <<counts, held, halted>>

TypeOK ==
  /\ counts \in [Resources -> Nat]
  /\ held \in [Clients -> SUBSET Resources]
  /\ halted \in {"no", "fault", "misuse"}
-----------------------------------------------------------------------------
(* The counters.                                                            *)

\* Fault: FatFs looks at its own counter only.
AvailableAlone(c, r) == r = "VCC" \/ c[r] = 0

\* Whether the counters let VCC_Init, MicroSD_Init or FatFS_Init succeed.
Available(c, r) ==
  CASE r = "VCC"     -> TRUE
    [] r = "MICROSD" -> c["MICROSD"] = 0
    [] r = "FATFS"   -> c["FATFS"] = 0 /\ c["MICROSD"] = 0

\* What r and the resources below it are counted by.
Chain(r) ==
  CASE r = "VCC"     -> {"VCC"}
    [] r = "MICROSD" -> {"VCC", "MICROSD"}
    [] r = "FATFS"   -> {"VCC", "MICROSD", "FATFS"}

\* Fault: the supply is not counted.
AfterRequestDark(c, r) ==
  IF Available(c, r) THEN [x \in Resources |-> c[x] + (IF x \in Chain(r) \cap Cards THEN 1 ELSE 0)]
                     ELSE c

AfterRequest(c, r) ==
  IF Available(c, r) THEN [x \in Resources |-> c[x] + (IF x \in Chain(r) THEN 1 ELSE 0)]
                     ELSE c

\* VCC_DeInit, MicroSD_DeInit, FatFS_DeInit: each checks its own counter, then
\* releases the resource below.
Releasable(c, r) ==
  /\ c["VCC"] > 0
  /\ \A x \in Chain(r) \cap Cards : c[x] = 1

\* Fault: the resource below is kept.
AfterReleaseKept(c, r) == [c EXCEPT ![r] = @ - 1]

AfterRelease(c, r) == [x \in Resources |-> c[x] - (IF x \in Chain(r) THEN 1 ELSE 0)]

\* FatFS_Init has the card, and the driver or the volume fails: Error_Handler.
MountFails(r) ==
  /\ r = "FATFS" /\ Available(counts, r)
  /\ counts' = AfterRequest(counts, "MICROSD")
  /\ halted' = "fault"

\* FS_ResourceManager_RequestResource: granted, refused, or it does not return.
RequestResource(r) ==
  \/ counts' = AfterRequest(counts, r) /\ UNCHANGED halted
  \/ MountFails(r)

\* FatFS_DeInit has given up its counter, and the volume or the driver fails.
UnmountFails(r) ==
  /\ r = "FATFS" /\ counts[r] = 1
  /\ counts' = [counts EXCEPT ![r] = 0]
  /\ halted' = "fault"

\* FS_ResourceManager_ReleaseResource: halts on what is not held (and leaves
\* counters that nobody reads any more).
ReleaseResource(r) ==
  \/ Releasable(counts, r) /\ counts' = AfterRelease(counts, r) /\ UNCHANGED halted
  \/ ~Releasable(counts, r) /\ halted' = "misuse" /\ UNCHANGED counts
  \/ UnmountFails(r)
-----------------------------------------------------------------------------
(* Clients that keep the contract.                                          *)

Running == halted = "no"

Request(u, r) ==
  /\ Running /\ r \notin held[u] /\ counts["VCC"] < MaxVcc
  /\ RequestResource(r)
  /\ held' = [held EXCEPT ![u] = @ \cup (IF Available(counts, r) /\ Running' THEN {r} ELSE {})]

Release(u, r) ==
  /\ Running /\ r \in held[u]
  /\ ReleaseResource(r)
  /\ held' = [held EXCEPT ![u] = @ \ {r}]

Init ==   \* FS_ResourceManager_Init
  /\ counts = [r \in Resources |-> 0]
  /\ held = [u \in Clients |-> {}]
  /\ halted = "no"

Next == \E u \in Clients, r \in Resources : Request(u, r) \/ Release(u, r)

Spec == Init /\ [][Next]_vars
-----------------------------------------------------------------------------
(* Properties.                                                              *)

\* The card has one owner: never FatFs for one client and the raw card, or FatFs
\* again, for another (nor both for the same one).
OneOwner ==
  \A u, v \in Clients : \A r \in held[u] \cap Cards, s \in held[v] \cap Cards :
    u = v /\ r = s

\* A client of the contract never drives the manager into Error_Handler: the device
\* halts only when the card fails to mount or to unmount (resource_manager.c:151).
HaltsOnlyOnFault == halted # "misuse"

\* As long as the device runs, what is held is up, FatFs is never mounted on a card
\* that is off, and the card never powered without a client that holds it.
HeldIsUp ==
  Running =>
    /\ \A u \in Clients : \A r \in held[u] : \A x \in Chain(r) : counts[x] > 0
    /\ \A x \in Cards : counts[x] > 0 => \E u \in Clients : \E r \in held[u] : x \in Chain(r)
=============================================================================
