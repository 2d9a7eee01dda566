-------------------------- MODULE UsbStorageCache --------------------------
(***************************************************************************)
(* The write-back cache between USB mass storage and the microSD card:      *)
(* usb_storage_cache.c under usbd_storage_if.c, on the scratch buffer that   *)
(* it shares with the logger's batches (scratch_buffer.c), from the         *)
(* FS_USBMode_Init to the FS_USBMode_DeInit of usb_mode.c.  The host's       *)
(* commands run in the USB interrupt; the last flush of FS_USBMode_DeInit    *)
(* runs in a task, before the interrupt is off, and an interrupt may come   *)
(* at each of its steps.                                                    *)
(*                                                                         *)
(* A command carries one block: MSC_MEDIA_PACKET is the size of a block.    *)
(***************************************************************************)
EXTENDS Integers

CONSTANTS Window,   \* USB_STORAGE_CACHE_BLOCK_COUNT
          Total,    \* blocks of the card
          Data      \* contents of a block

ASSUME WindowAssumption == Window \in Nat \ {0}
ASSUME TotalAssumption  == Total \in Nat \ {0}

Blocks  == 0 .. Total - 1
Offsets == 0 .. Window - 1

VARIABLES card,    \* the contents of the card
          buffer,  \* the scratch buffer
          owner,   \* scratchBufferOwner: "none", "batch", "cache"
          mode,    \* cacheMode
          base,    \* cacheBaseBlock
          count,   \* cacheBlockCount
          dirty,   \* cacheDirtyMask, as a set of offsets
          total,   \* cacheTotalBlocks
          active,  \* cacheActive
          usb,     \* "off"; "on"; in FS_USBMode_DeInit: "look", "scan", "extend",
                   \* "transfer", "load", "store" (of its flush), "stopping",
                   \* "stopped"; "halted" in Error_Handler
          start,   \* startBlock of that flush
          next,    \* its block
          mask,    \* the register it has read cacheDirtyMask into
          torn,    \* history: the blocks that a command may have cost by coming in
                   \* the middle of that flush
          answer   \* the last answer to the host: done, failed, the contents of a block;
                   \* none once everything is torn

window == <<mode, base, count, dirty>>
flush  == <<start, next, mask>>
task   == <<usb, flush>>
vars   == <<card, buffer, owner, window, total, active, task, torn, answer>>

Answers == {<<>>, <<"done">>, <<"failed">>} \cup (Blocks \X Data)

TypeOK ==
  /\ card \in [Blocks -> Data] /\ buffer \in [Offsets -> Data]
  /\ owner \in {"none", "batch", "cache"}
  /\ mode \in {"invalid", "read", "write"}
  /\ base \in Nat /\ count \in 0 .. Window /\ dirty \in SUBSET Offsets
  /\ total \in {0, Total} /\ active \in BOOLEAN
  /\ usb \in {"off", "on", "look", "scan", "extend", "transfer", "load", "store",
             "stopping", "stopped", "halted"}
  /\ start \in 0 .. Window /\ next \in 0 .. Window /\ mask \in SUBSET Offsets
  /\ torn \in SUBSET Blocks
  /\ answer \in Answers
-----------------------------------------------------------------------------
(* Addresses.                                                               *)

BlockMask(n) == IF n >= Window THEN Offsets ELSE 0 .. n - 1

BaseBlock(b) == b - (b % Window)

\* Fault: the rest of the card is taken into one window.
BlockCountUncapped(first) == IF first >= Total THEN 0 ELSE Total - first

\* With the capacity known (FS_USBStorageCache_EnsureCapacity).
BlockCount(first) ==
  IF first >= Total THEN 0
  ELSE IF Total - first > Window THEN Window ELSE Total - first
-----------------------------------------------------------------------------
(* FS_USBStorageCache_Flush as a whole, the way the interrupt runs it.      *)

\* The dirty offsets from s on, as far as they are consecutive.
RunFrom(s, n, d) == {o \in d : o >= s /\ o < n /\ s .. o \subseteq d}

\* Card cd after the offsets os of the window at `first` are written from bf.
Written(cd, bf, first, os) ==
  [b \in Blocks |-> IF b - first \in os THEN bf[b - first] ELSE cd[b]]

\* Fault: the dirty bits of a run are cleared before the card has taken it.
FlushedEarly(able, cd, bf, first, n, d) ==
  IF d = {} THEN {[ok |-> TRUE, card |-> cd, dirty |-> d]}
  ELSE IF ~able THEN {[ok |-> FALSE, card |-> cd, dirty |-> d]}
  ELSE {[ok |-> TRUE, card |-> Written(cd, bf, first, d), dirty |-> {}]}
       \cup {[ok |-> FALSE, card |-> Written(cd, bf, first, {o \in d : o < s}),
              dirty |-> {o \in d : o >= s} \ RunFrom(s, n, d)] : s \in d}

\* Its outcomes in mode WRITE.  The runs are written in ascending order and each is
\* cleared when it is done.  When the card fails a run, it may hold anything in its
\* place; the whole run stays dirty, and the ones behind it.
Flushed(able, cd, bf, first, n, d) ==
  IF d = {} THEN {[ok |-> TRUE, card |-> cd, dirty |-> d]}
  ELSE IF ~able THEN {[ok |-> FALSE, card |-> cd, dirty |-> d]}
  ELSE {[ok |-> TRUE, card |-> Written(cd, bf, first, d), dirty |-> {}]}
       \cup UNION {{[ok    |-> FALSE,
                     card  |-> Written(Written(cd, bf, first, {o \in d : o < s}),
                                       junk, first, RunFrom(s, n, d)),
                     dirty |-> {o \in d : o >= s}] :
                    junk \in [RunFrom(s, n, d) -> Data]} : s \in {o \in d : o - 1 \notin d}}

Able == active /\ owner = "cache"

\* The flush of the window in place: nothing to do in the other modes.
FlushedWindow(able) ==
  IF mode = "write" THEN Flushed(able, card, buffer, base, count, dirty)
  ELSE {[ok |-> TRUE, card |-> card, dirty |-> dirty]}

\* FS_USBStorageCache_Reset
Reset == mode' = "invalid" /\ base' = 0 /\ count' = 0 /\ dirty' = {} /\ total' = 0
-----------------------------------------------------------------------------
(* Commands of the host.  USBD_DeInit turns the interrupt off.              *)

Interrupt == usb \notin {"off", "stopped", "halted"}

\* The run that the task has in hand, and what its flush will leave dirty of it all.
Run  == start .. next - 1
Kept == mask \ Run

\* The offsets at which a write in place is lost: its bit is cleared although the
\* transfer does not have it, or the store of the mask does not have its bit.
AtRisk ==
  CASE usb \in {"transfer", "load"} -> Run
    [] usb = "store"                -> Offsets \ Kept
    [] OTHER                        -> {}

\* A command that flushes or replaces the window while the task works on a run of it:
\* the run may go to the place of another.
Crosses == torn' = IF usb \in {"scan", "extend", "transfer", "load", "store"} THEN Blocks ELSE torn

\* A command that talks to the card in the middle of the task's transfer.
Collides == torn' = IF usb = "transfer" THEN Blocks ELSE torn

Answer(a) == answer' = IF torn' = Blocks THEN <<>> ELSE a

Done(ok) == Answer(IF ok THEN <<"done">> ELSE <<"failed">>)

\* FS_USBStorageCache_EnsureCapacity fails: not active, or the card does not tell.
CapacityRefused ==
  /\ Interrupt
  /\ ~Able \/ total = 0
  /\ Collides
  /\ Done(FALSE)
  /\ UNCHANGED <<card, buffer, owner, window, total, active, task>>

\* Its other outcome, at the begin of a command.
CapacityKnown == Interrupt /\ Able

\* The window in place cannot be flushed to make room for another (or to be read: a
\* read takes a READ window only).
WindowRefused ==
  /\ CapacityKnown /\ mode = "write"
  /\ \E f \in FlushedWindow(Able) : ~f.ok /\ card' = f.card /\ dirty' = f.dirty
  /\ total' = Total
  /\ Crosses
  /\ Done(FALSE)
  /\ UNCHANGED <<buffer, owner, mode, base, count, active, task>>

\* FS_USBStorageCache_Read of a block of the READ window in place.
ReadHit(b) ==
  /\ CapacityKnown /\ mode = "read" /\ base = BaseBlock(b)
  /\ total' = Total
  /\ UNCHANGED <<card, buffer, owner, window, active, task, torn>>
  /\ Answer(<<b, buffer[b - base]>>)

\* FS_USBStorageCache_LoadReadCache and the copy.  A window that was written is read
\* back from the card.
ReadMiss(b) ==
  /\ CapacityKnown /\ ~(mode = "read" /\ base = BaseBlock(b))
  /\ \E f \in FlushedWindow(Able) : f.ok /\ card' = f.card
  /\ mode' = "read" /\ base' = BaseBlock(b) /\ count' = BlockCount(BaseBlock(b))
  /\ dirty' = {} /\ total' = Total
  /\ Crosses
  /\ buffer' = [o \in Offsets |->
                  IF o < count' THEN card'[base' + o] ELSE buffer[o]]
  /\ Answer(<<b, buffer'[b - base']>>)
  /\ UNCHANGED <<owner, active, task>>

\* Fault: the window counts as loaded although the card has failed.
ReadFailsUnnoticed(b) ==
  /\ CapacityKnown /\ ~(mode = "read" /\ base = BaseBlock(b))
  /\ \E f \in FlushedWindow(Able) : f.ok /\ card' = f.card
  /\ buffer' \in [Offsets -> Data]
  /\ mode' = "read" /\ base' = BaseBlock(b) /\ count' = BlockCount(BaseBlock(b))
  /\ dirty' = {} /\ total' = Total
  /\ Crosses
  /\ Done(FALSE)
  /\ UNCHANGED <<owner, active, task>>

\* The card fails the load and has overwritten any part of the buffer.
ReadFails(b) ==
  /\ CapacityKnown /\ ~(mode = "read" /\ base = BaseBlock(b))
  /\ \E f \in FlushedWindow(Able) : f.ok /\ card' = f.card
  /\ \E junk \in [0 .. BlockCount(BaseBlock(b)) - 1 -> Data] :
       buffer' = [o \in Offsets |-> IF o \in DOMAIN junk THEN junk[o] ELSE buffer[o]]
  /\ Reset
  /\ Crosses
  /\ Done(FALSE)
  /\ UNCHANGED <<owner, active, task>>

\* FS_USBStorageCache_Write: FS_USBStorageCache_EnsureWriteCache, which needs no flush
\* if the window is in place, then the copy.  A window that has become dirty all over
\* is flushed at once; if that fails so does the write, though it stays in the cache.
Write(b, v) ==
  /\ CapacityKnown
  /\ mode' = "write" /\ base' = BaseBlock(b) /\ count' = BlockCount(BaseBlock(b))
  /\ total' = Total
  /\ LET inPlace == mode = "write" /\ base = BaseBlock(b)
         before  == IF inPlace THEN {[ok |-> TRUE, card |-> card, dirty |-> dirty]}
                    ELSE {[f EXCEPT !.dirty = {}] : f \in FlushedWindow(Able)}
     IN \E f \in {g \in before : g.ok} :
          LET o      == b - base'
              filled == [buffer EXCEPT ![o] = v]
              marked == f.dirty \cup {o}
          IN /\ buffer' = filled
             /\ \E g \in IF marked = BlockMask(count')
                         THEN Flushed(Able, f.card, filled, base', count', marked)
                         ELSE {[ok |-> TRUE, card |-> f.card, dirty |-> marked]} :
                  /\ card' = g.card /\ dirty' = g.dirty
                  /\ IF inPlace /\ marked # BlockMask(count')
                     THEN torn' = IF o \in AtRisk THEN torn \cup {b} ELSE torn
                     ELSE Crosses
                  /\ Done(g.ok)
  /\ UNCHANGED <<owner, active, task>>

\* STORAGE_Sync_FS, for SYNCHRONIZE CACHE and for START STOP UNIT.
Sync ==
  /\ Interrupt
  /\ \E f \in FlushedWindow(Able) :
       /\ card' = f.card /\ dirty' = f.dirty
       /\ Crosses
       /\ Done(f.ok)
  /\ UNCHANGED <<buffer, owner, mode, base, count, total, active, task>>

\* STORAGE_GetCapacity_FS
GetCapacity ==
  /\ Interrupt
  /\ total' = Total
  /\ Collides
  /\ Answer(answer)
  /\ UNCHANGED <<card, buffer, owner, window, active, task>>

\* STORAGE_IsReady_FS asks the card for its state.
IsReady ==
  /\ Interrupt
  /\ Collides
  /\ Answer(answer)
  /\ UNCHANGED <<card, buffer, owner, window, total, active, task>>

\* STORAGE_Init_FS once the card is up, each time the host configures the device:
\* FS_USBStorageCache_Init, whose result the middleware ignores.
Configure ==
  /\ Interrupt
  /\ \E f \in FlushedWindow(TRUE) :
       /\ card' = f.card
       /\ IF f.ok THEN Reset /\ owner' = "cache" /\ active' = TRUE
          ELSE /\ owner' = "none" /\ active' = FALSE /\ dirty' = f.dirty
               /\ UNCHANGED <<mode, base, count, total>>
  /\ Crosses
  /\ Answer(answer)
  /\ UNCHANGED <<buffer, task>>
-----------------------------------------------------------------------------
(* The mode task.                                                           *)

EnterUsb ==   \* FS_USBMode_Init
  /\ usb = "off" /\ owner # "batch"
  /\ usb' = "on"
  /\ UNCHANGED <<card, buffer, owner, window, total, active, flush, torn, answer>>

\* A step of the task that leaves the cache alone.
Task == UNCHANGED <<card, buffer, owner, window, total, active, torn, answer>>

\* FS_USBMode_DeInit calls USBD_SyncStorage.
LeaveUsb ==
  /\ usb = "on"
  /\ next' = 0
  /\ usb' = IF mode # "write" \/ dirty = {} THEN "stopping"
            ELSE IF Able THEN "look" ELSE "halted"
  /\ Task /\ UNCHANGED <<start, mask>>

\* No register is needed any more.
Forget == start' = 0 /\ next' = 0 /\ mask' = {}

\* The search only goes forward: of a mask the bits below are not looked at again.
From(n, d) == {o \in d : o >= n}

\* Between two runs nothing of the window is kept in registers.
Look ==
  /\ usb = "look" /\ next < count
  /\ usb' = "scan" /\ mask' = From(next, dirty)
  /\ Task /\ UNCHANGED <<start, next>>

\* On to the next block; whether the mask is read again for it, is up to the build.
Advance == next' = next + 1 /\ mask' \in {From(next + 1, mask), From(next + 1, dirty)}

Skip ==
  /\ usb = "scan" /\ next < count /\ next \notin mask
  /\ Advance
  /\ Task /\ UNCHANGED <<usb, start>>

\* blockCount is 0: the loop ends on the same reading of cacheBlockCount.
NothingFound ==
  /\ usb = "scan" /\ next >= count
  /\ usb' = "stopping" /\ Forget
  /\ Task

\* The bit that ends the first inner loop is the first one of the second.
RunBegins ==
  /\ usb = "scan" /\ next < count /\ next \in mask
  /\ usb' = "extend" /\ start' = next
  /\ Advance
  /\ Task

RunGrows ==
  /\ usb = "extend" /\ next < count /\ next \in mask
  /\ Advance
  /\ Task /\ UNCHANGED <<usb, start>>

RunEnds ==
  /\ usb = "extend" /\ (next >= count \/ next \notin mask)
  /\ usb' = "transfer" /\ mask' = {}
  /\ Task /\ UNCHANGED <<start, next>>

\* FS_USBStorageCache_WriteBlocks puts the run on the card: of a block that was written
\* in the meantime the old content or the new, and after a collision whatever.
Transfer ==
  /\ usb = "transfer"
  /\ usb' = "load"
  /\ IF torn = Blocks THEN card' \in [Blocks -> Data]
     ELSE \E sent \in [Run -> Data] :
            /\ \A o \in Run : base + o \notin torn => sent[o] = buffer[o]
            /\ card' = Written(card, sent, base, Run)
  /\ UNCHANGED <<buffer, owner, window, total, active, flush, torn, answer>>

\* The card fails: Error_Handler.
TransferFails ==
  /\ usb = "transfer"
  /\ usb' = "halted" /\ Forget
  /\ \E junk \in [Run -> Data] : card' = Written(card, junk, base, Run)
  /\ UNCHANGED <<buffer, owner, window, total, active, torn, answer>>

Load ==
  /\ usb = "load"
  /\ usb' = "store" /\ mask' = dirty
  /\ Task /\ UNCHANGED <<start, next>>

\* Fault: the search starts over as long as there is something dirty.
StoreAgain ==
  /\ usb = "store"
  /\ dirty' = Kept
  /\ usb' = "look" /\ Forget
  /\ UNCHANGED <<card, buffer, owner, mode, base, count, total, active, torn, answer>>

\* Bits of the run are cleared in the register, one by one or all of them, as the build
\* does it, and the mask is stored; for the rest it is loaded again or kept.
Store ==
  /\ usb = "store"
  /\ \E last \in Run :
       /\ dirty' = mask \ (start .. last)
       /\ start' = IF last + 1 = next THEN 0 ELSE last + 1
       /\ usb' \in IF last + 1 = next THEN {"look"} ELSE {"load", "store"}
  /\ mask' = IF usb' = "store" THEN dirty' ELSE {}
  /\ UNCHANGED <<card, buffer, owner, mode, base, count, total, active, next, torn, answer>>

SyncEnds ==
  /\ usb = "look" /\ next >= count
  /\ usb' = "stopping" /\ Forget
  /\ Task

Stop ==   \* FS_USBControl_DeInit, USBD_DeInit
  /\ usb = "stopping" /\ usb' \in {"stopped", "halted"}
  /\ Task /\ UNCHANGED flush

\* Fault: the cache gives the buffer back without a second flush.
HandBackUnflushed ==
  /\ usb = "stopped"
  /\ active' = FALSE /\ owner' = IF owner = "cache" THEN "none" ELSE owner
  /\ usb' = "off" /\ torn' = {} /\ answer' = <<>>
  /\ UNCHANGED <<card, buffer, window, total, flush>>

\* FS_USBStorageCache_DeInit and the release of the card.  The second flush writes
\* what came after the first.
HandBack ==
  /\ usb = "stopped"
  /\ Reset /\ active' = FALSE
  /\ owner' = IF owner = "cache" THEN "none" ELSE owner
  /\ \E f \in FlushedWindow(Able) :
       /\ card' = f.card
       /\ IF f.ok THEN usb' = "off" /\ torn' = {} /\ answer' = <<>>
          ELSE usb' = "halted" /\ UNCHANGED <<torn, answer>>
  /\ UNCHANGED <<buffer, flush>>
-----------------------------------------------------------------------------
(* Outside USB the scratch buffer is the logger's and the card FatFs's.     *)

BeginBatch ==   \* FS_Log_AcquireSensorBatchBuffer, then the rows of the batch
  /\ usb = "off" /\ owner # "cache"
  /\ owner' = "batch" /\ buffer' \in [Offsets -> Data]
  /\ UNCHANGED <<card, window, total, active, task, torn, answer>>

EndBatch ==   \* the batch goes to a file
  /\ usb = "off" /\ owner = "batch"
  /\ owner' = "none"
  /\ \E b \in Blocks, v \in Data : card' = [card EXCEPT ![b] = v]
  /\ UNCHANGED <<buffer, window, total, active, task, torn, answer>>

Init ==
  /\ card \in [Blocks -> Data] /\ buffer \in [Offsets -> Data]
  /\ owner = "none" /\ mode = "invalid" /\ base = 0 /\ count = 0 /\ dirty = {}
  /\ total = 0 /\ active = FALSE /\ usb = "off" /\ start = 0 /\ next = 0
  /\ mask = {} /\ torn = {} /\ answer = <<>>

Command ==
  \/ CapacityRefused \/ WindowRefused
  \/ \E b \in Blocks :
       ReadHit(b) \/ ReadMiss(b) \/ \E v \in Data : Write(b, v)
  \/ \E b \in Blocks : b = BaseBlock(b) /\ ReadFails(b)   \* whichever block of the window
  \/ Sync \/ GetCapacity \/ IsReady \/ Configure

Leaving ==
  \/ Look \/ Skip \/ NothingFound \/ RunBegins \/ RunGrows \/ RunEnds
  \/ Transfer \/ TransferFails \/ Load \/ Store \/ SyncEnds \/ Stop \/ HandBack

Next == Command \/ EnterUsb \/ LeaveUsb \/ Leaving \/ BeginBatch \/ EndBatch

Spec == Init /\ [][Next]_vars

\* The mode task runs on between the interrupts of the host.
FairSpec == Spec /\ WF_vars(Leaving)
-----------------------------------------------------------------------------
(* Properties.                                                              *)

\* What the host sees: the dirty blocks over the card.
View == Written(card, buffer, base, dirty)

HostState ==
  CASE usb \in {"off", "on"} -> usb
    [] usb = "halted"        -> "dead"
    [] OTHER                 -> "leaving"

Disk == INSTANCE BlockDevice WITH disk <- View, medium <- card, state <- HostState

\* The cache implements a block device: what the host has written reads back, through
\* windows that are flushed, replaced, half failed and initialized again, and USB mode
\* ends with all of it on the card or halts (usb_storage_cache.c, usb_mode.c:53).  The
\* exceptions are commands that come in the middle of the last flush: a write into the
\* run in hand or under a loaded mask may cost the block it writes and no other, and a
\* command that goes to the card or replaces the window may cost everything.
DiskSpec == Disk!Spec

\* The scratch buffer is never the logger's while it holds blocks that the card does
\* not have: also not when an initialization failed and gave it back (scratch_buffer.c).
\* Nor is the window taken for another one, unless a late command has torn it.
DirtyBufferKept == dirty # {} => owner # "batch" /\ (mode = "write" \/ torn = Blocks)

\* A READ window is a copy of the card: flushes, failed loads and the files of the
\* firmware between two USB sessions leave no stale one (usb_storage_cache.c:168), nor
\* does the last flush unless a late command has torn the disk.
ReadWindowIsCard ==
  mode = "read" /\ torn # Blocks => \A o \in 0 .. count - 1 : buffer[o] = card[base + o]

\* Leaving USB ends however many commands the host still gets in between the steps:
\* the flush of the task goes through the window once (usb_mode.c:53).
LeavingEnds == (usb = "look") ~> (usb \in {"off", "halted"})
=============================================================================
