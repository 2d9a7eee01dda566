----------------------------- MODULE CardUsers -----------------------------
(***************************************************************************)
(* Who uses the microSD card, and how: the file transfers of crs.c keep the *)
(* contract of the resource manager, and so does the diagnostic log.  The   *)
(* modes do not: their Init ignores the result of the request, and their    *)
(* DeInit releases whatever it was.  A transfer stays open across the runs  *)
(* of its task, so a mode can be entered in the middle of one.              *)
(***************************************************************************)
EXTENDS Integers

CONSTANT DiagLines   \* FS_BLE_DIAG_LINES, the ring of the diagnostic log

ASSUME DiagLinesAssumption == DiagLines \in Nat \ {0}

FatFsModes == {"ACTIVE", "START", "CONFIG"}
Modes      == {"SLEEP", "USB", "PAIRING"} \cup FatFsModes
Transfers  == {"DIR", "READ", "WRITE"}

VARIABLES counters, \* counts of the resource manager
          stopped,  \* its halted: whether and why Error_Handler was called
          mode,     \* the mode that is initialized (mode.c)
          unplug,   \* how far FS_USBMode_DeInit is: "no"; "flushed"; "deaf", USB is
                    \* stopped; "empty", so is the cache; "released"; "updating"
          transfer, \* state of crs.c when it has acquired FatFs, else "IDLE"
          granted,  \* the request of the mode (or of FS_State_Update) succeeded
          trespass, \* a mode has been entered although it did not, since boot
          stale,    \* the volume changed under the open file of the transfer
          unsynced, \* the USB cache holds blocks that the card does not have
          lines     \* lines of the diagnostic log waiting for the card

usersVars ==
  <<counters, stopped, mode, unplug, transfer, granted, trespass, stale, unsynced, lines>>

Needs(m) == IF m = "USB" THEN "MICROSD" ELSE "FATFS"

Held == [u \in {"crs", "mode"} |->
  IF u = "crs" THEN IF transfer # "IDLE" THEN {"FATFS"} ELSE {}
  ELSE IF granted THEN {IF unplug = "updating" THEN "FATFS" ELSE Needs(mode)} ELSE {}]

Manager == INSTANCE ResourceManager
  WITH Clients <- {"crs", "mode"}, MaxVcc <- 2, held <- Held,
       counts <- counters, halted <- stopped

\* A request for r would be granted.
Obtainable(r) == Manager!Available(counters, r)

\* No task is in the middle of FS_USBMode_DeInit: the sequencer may run another one.
Ready == Manager!Running /\ unplug = "no"
-----------------------------------------------------------------------------
\* FS_CRS_AcquireFatFs, from FS_CRS_State_Idle.  A command that opens nothing
\* (create, delete) releases FatFs in the same step, and one that cannot have it
\* is refused: neither changes anything here.
TransferBegins(t) ==
  /\ Ready /\ transfer = "IDLE" /\ Obtainable("FATFS")
  /\ Manager!RequestResource("FATFS")
  /\ transfer' = IF Manager!Running' THEN t ELSE "IDLE"
  /\ UNCHANGED <<mode, unplug, granted, trespass, stale, unsynced, lines>>

TransferEnds ==   \* FS_CRS_ReleaseFatFs
  /\ Ready /\ transfer # "IDLE"
  /\ transfer' = "IDLE"
  /\ stale' = FALSE
  /\ Manager!ReleaseResource("FATFS")
  /\ UNCHANGED <<mode, unplug, granted, trespass, unsynced, lines>>

\* The diagnostic lines with one more; a full ring drops it.
Logged == IF lines < DiagLines THEN lines + 1 ELSE lines

\* Before USB the diagnostic log gets a line, and is flushed a last time if it can be.
LastFlush(m) == m = "USB" /\ Obtainable("FATFS")

\* FS_ActiveMode_Init, FS_StartMode_Init, FS_ConfigMode_Init, FS_USBMode_Init.
\* PAIRING leaves the card alone.
EnterMode(m) ==
  /\ Ready /\ mode = "SLEEP"
  /\ mode' = m
  /\ IF m = "PAIRING" THEN UNCHANGED <<counters, stopped, granted, trespass>>
     ELSE /\ Manager!RequestResource(Needs(m)) \/ (LastFlush(m) /\ Manager!MountFails("FATFS"))
          /\ granted' = (Obtainable(Needs(m)) /\ Manager!Running')
          /\ trespass' = (trespass \/ ~Obtainable(Needs(m)))
  /\ lines' \in IF LastFlush(m) THEN 0 .. Logged ELSE {IF m = "USB" THEN Logged ELSE lines}
  /\ UNCHANGED <<unplug, transfer, stale, unsynced>>

\* Fault: the mode forgets to release the card.
LeaveFatFsModeHolding ==
  /\ Ready /\ mode \in FatFsModes
  /\ mode' = "SLEEP" /\ granted' = FALSE
  /\ UNCHANGED <<counters, stopped, unplug, transfer, trespass, stale, unsynced, lines>>

\* Their DeInit.  The volume is unmounted, whoever has a file open on it.
LeaveFatFsMode ==
  /\ Ready /\ mode \in FatFsModes
  /\ mode' = "SLEEP" /\ granted' = FALSE
  /\ Manager!ReleaseResource("FATFS")
  /\ stale' = (transfer # "IDLE")
  /\ UNCHANGED <<unplug, transfer, trespass, unsynced, lines>>

LeavePairing ==
  /\ Ready /\ mode = "PAIRING"
  /\ mode' = "SLEEP"
  /\ UNCHANGED <<counters, stopped, unplug, transfer, granted, trespass, stale, unsynced, lines>>
-----------------------------------------------------------------------------
(* USB.  The host's commands run in an interrupt, until USBD_DeInit.        *)

HostWrites ==   \* the host changes the volume, through FS_USBStorageCache
  /\ Manager!Running /\ mode = "USB" /\ unplug \in {"no", "flushed"}
  /\ unsynced' \in BOOLEAN
  /\ stale' = (transfer # "IDLE")
  /\ UNCHANGED <<counters, stopped, mode, unplug, transfer, granted, trespass, lines>>

\* A step of FS_USBMode_DeInit that goes on to `there`, or calls Error_Handler.
Proceeds(here, there) ==
  /\ Manager!Running /\ mode = "USB" /\ unplug = here
  /\ \/ unplug' = there /\ UNCHANGED stopped
     \/ stopped' = "fault" /\ UNCHANGED unplug
  /\ UNCHANGED <<counters, mode, transfer, granted, trespass, stale, lines>>

LeaveUsb ==   \* USBD_SyncStorage
  /\ Proceeds("no", "flushed")
  /\ unsynced' = (unsynced /\ ~Manager!Running')

StopUsb ==   \* USBD_DeInit
  /\ Proceeds("flushed", "deaf")
  /\ UNCHANGED unsynced

\* Fault: the cache is given up as the first flush left it.
HandBackUnflushed ==
  /\ Proceeds("deaf", "empty")
  /\ UNCHANGED unsynced

HandBack ==   \* USBD_DeInitStorage: what came after the first flush is written
  /\ Proceeds("deaf", "empty")
  /\ unsynced' = (unsynced /\ ~Manager!Running')

ReleaseCard ==
  /\ Manager!Running /\ unplug = "empty"
  /\ Manager!ReleaseResource("MICROSD")
  /\ granted' = FALSE
  /\ unplug' = "released"
  /\ UNCHANGED <<mode, transfer, trespass, stale, unsynced, lines>>

\* FS_State_Update ignores the result of its request, reads and writes the state,
StateUpdate ==
  /\ Manager!Running /\ unplug = "released"
  /\ Manager!RequestResource("FATFS")
  /\ granted' = (Obtainable("FATFS") /\ Manager!Running')
  /\ unplug' = "updating"
  /\ stale' = (transfer # "IDLE")
  /\ UNCHANGED <<mode, transfer, trespass, unsynced, lines>>

\* and releases FatFs whatever it was.
StateUpdated ==
  /\ Manager!Running /\ unplug = "updating"
  /\ Manager!ReleaseResource("FATFS")
  /\ mode' = "SLEEP" /\ granted' = FALSE
  /\ unplug' = "no"
  /\ UNCHANGED <<transfer, trespass, stale, unsynced, lines>>
-----------------------------------------------------------------------------
DiagnosticLine ==   \* FS_BleDiag_Log
  /\ Ready
  /\ lines' = Logged
  /\ UNCHANGED <<counters, stopped, mode, unplug, transfer, granted, trespass, stale, unsynced>>

\* FS_BleDiag_FlushNow, from the main loop: acquire or skip, write, release, in one
\* step of the scheduler.  A volume that fails to mount or to unmount halts it, a file
\* that fails leaves lines in the ring.
DiagnosticFlush ==
  /\ Ready /\ lines > 0 /\ Obtainable("FATFS")
  /\ \/ /\ counters' = Manager!AfterRelease(Manager!AfterRequest(counters, "FATFS"), "FATFS")
        /\ UNCHANGED stopped
     \/ Manager!MountFails("FATFS")
  /\ lines' \in 0 .. lines
  /\ UNCHANGED <<mode, unplug, transfer, granted, trespass, stale, unsynced>>

UsersInit ==
  /\ counters = [r \in Manager!Resources |-> 0] /\ stopped = "no"
  /\ mode = "SLEEP" /\ unplug = "no" /\ transfer = "IDLE"
  /\ granted = FALSE /\ trespass = FALSE
  /\ stale = FALSE /\ unsynced = FALSE /\ lines = 0

UnplugNext ==
  \/ LeaveUsb \/ StopUsb \/ HandBack \/ ReleaseCard \/ StateUpdate \/ StateUpdated

UsersNext ==
  \/ \E t \in Transfers : TransferBegins(t)
  \/ TransferEnds
  \/ \E m \in Modes \ {"SLEEP"} : EnterMode(m)
  \/ LeaveFatFsMode \/ LeavePairing \/ HostWrites \/ UnplugNext
  \/ DiagnosticLine \/ DiagnosticFlush

UsersSpec == UsersInit /\ [][UsersNext]_usersVars
-----------------------------------------------------------------------------
(* Properties.                                                              *)

\* As long as no mode is entered in the middle of a transfer, the clients of the
\* card keep its rules although the modes check nothing: one owner, nothing
\* mounted on a card that is off, no halt but for a device that fails, and no file
\* open across a change of the volume under it.
SharedInPeace ==
  ~trespass =>
    Manager!OneOwner /\ Manager!HeldIsUp /\ Manager!HaltsOnlyOnFault /\ ~stale

\* FatFs never mounts a card that the USB cache is ahead of, although the host may
\* write between the first flush of FS_USBMode_DeInit and the end of its commands, and
\* no write is left in the cache when the mode has ended (usb_mode.c:72).
CacheEmptyBeforeMount ==
  ~trespass /\ unsynced => mode = "USB" /\ counters["FATFS"] = 0
=============================================================================
