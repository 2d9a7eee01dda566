------------------------------ MODULE SensorLog ------------------------------
(***************************************************************************)
(* The logger of log.c: rings that interrupts fill and the update task      *)
(* drains, the batch in which rows of sensors wait for a whole cluster, and *)
(* the sessions that open and close the files.  The task that has been set  *)
(* outlives its session: it may run after FS_Log_DeInit, and in the session  *)
(* that follows.                                                           *)
(*                                                                         *)
(* A sample is its place in the order its ring has accepted samples.  Times *)
(* are left out: FS_Log_GetNextSensor takes any ring that is not empty, and  *)
(* none when the time slice is used up.                                    *)
(***************************************************************************)
EXTENDS Integers, Sequences

CONSTANTS Sensors,      \* rings whose rows go to the sensor file
          Capacity,     \* samples that a ring holds
          EventCount,   \* lines that the event ring holds
          BatchLen,     \* units of a row that a batch holds
          MaxSessions,  \* bound: sessions
          MaxSamples,   \* bound: samples accepted in a session
          MaxLines,     \* bound: event lines
          Faulty        \* f_write and f_sync of the sensor file may fail

Streams == {"raw", "gnss"}   \* rings whose rows go to a file of their own
Rings   == Sensors \cup Streams
Flags   == {"event", "sensor"} \cup Streams

ASSUME CountAssumption == Capacity \in Nat \ {0} /\ EventCount \in Nat \ {0}
ASSUME BatchAssumption == BatchLen \in Nat /\ BatchLen > 1
ASSUME NameAssumption ==
  /\ Sensors \cap {"raw", "gnss", "event", "none", "head"} = {}
  /\ Faulty \in BOOLEAN /\ MaxSessions \in Nat /\ MaxSamples \in Nat /\ MaxLines \in Nat

VARIABLES
  logState,
  flags,       \* enable_flags
  slot, rd, wr,\* of each ring: buffer, read and write index
  events,      \* of the event ring: slot, rd, wr
  writer,      \* a task inside FS_Log_WriteEventAsync
  run,         \* FS_Log_Update: its snapshot of the write indices, and the row it writes
  set,         \* the tasks that are set: "update", "sync"
  batch,       \* sensorBatchBuf up to sensorBatchLen
  pending,     \* sensorSyncPending
  file,        \* the sensor file: units, open, how many of them are synchronised
  drained,     \* ghost: rows of each sensor written while its file was open
  lost,        \* ghost: an f_write of the sensor file has failed in this session
  overlapped,  \* ghost: an event line was written while another one was
  halted,      \* Error_Handler
  sessions, samples

rings    == <<slot, rd, wr>>
sensorFile == <<batch, pending, file, drained, lost>>
session  == <<logState, flags, sessions>>
vars     == <<session, rings, events, writer, run, set, sensorFile, overlapped, halted,
              samples>>

Unit == [ring : Sensors \cup {"head"}, id : Nat, part : 1 .. 2]
Head1 == <<[ring |-> "head", id |-> 0, part |-> 1]>>
Row(s, i) == <<[ring |-> s, id |-> i, part |-> 1], [ring |-> s, id |-> i, part |-> 2]>>

Idle == [pc |-> "idle", upto |-> [r \in Streams \cup {"event"} |-> 0],
         ring |-> "none", id |-> 0]
NoWriter == [pc |-> "idle", at |-> 0, line |-> 0, loaded |-> 0]

TypeOK ==
  /\ logState \in {"uninitialized", "active", "failed"} /\ flags \subseteq Flags
  /\ slot \in [Rings -> [0 .. Capacity - 1 -> Nat]]
  /\ rd \in [Rings -> Nat] /\ wr \in [Rings -> Nat]
  /\ \A r \in Rings : rd[r] <= wr[r] /\ wr[r] <= rd[r] + Capacity
  /\ events \in [slot : [0 .. EventCount - 1 -> Nat], rd : Nat, wr : Nat]
  /\ writer \in [pc : {"idle", "reserved", "filled"}, at : Nat, line : Nat, loaded : Nat]
  /\ run \in [pc : {"idle", "loop", "row"}, upto : [Streams \cup {"event"} -> Nat],
              ring : Rings \cup {"none", "event"}, id : Nat]
  /\ set \subseteq {"update", "sync"}
  /\ batch \in Seq(Unit) /\ pending \in BOOLEAN
  /\ file \in [units : Seq(Unit), open : BOOLEAN, synced : Nat]
  /\ drained \in [Sensors -> Nat]
  /\ lost \in BOOLEAN /\ overlapped \in BOOLEAN /\ halted \in BOOLEAN
  /\ sessions \in Nat /\ samples \in Nat

Init ==
  /\ logState = "uninitialized" /\ flags = {} /\ sessions = 0 /\ samples = 0
  /\ slot = [r \in Rings |-> [i \in 0 .. Capacity - 1 |-> 0]]
  /\ rd = [r \in Rings |-> 0] /\ wr = [r \in Rings |-> 0]
  /\ events = [slot |-> [i \in 0 .. EventCount - 1 |-> 0], rd |-> 0, wr |-> 0]
  /\ writer = NoWriter /\ run = Idle /\ set = {}
  /\ batch = <<>> /\ pending = FALSE
  /\ file = [units |-> <<>>, open |-> FALSE, synced |-> 0]
  /\ drained = [s \in Sensors |-> 0]
  /\ lost = FALSE /\ overlapped = FALSE /\ halted = FALSE

\* The tasks run one at a time: this one is not inside another.
TaskFree == ~halted /\ run.pc = "idle" /\ writer.pc = "idle"
-----------------------------------------------------------------------------
(* The sensor file and its batch.                                           *)

\* f_write(&sensorFile, ...).  Its result is not looked at.
Written(units) ==
  \/ /\ file.open
     /\ file' = [file EXCEPT !.units = @ \o units] /\ UNCHANGED lost
  \/ /\ ~file.open \/ Faulty
     /\ lost' = (lost \/ file.open) /\ UNCHANGED file

\* Fault: a batch that is more than full is written whole, and its tail again with the next.
WriteBatchTwice(units) ==
  LET all == batch \o units IN
  IF Len(all) < BatchLen
  THEN batch' = all /\ UNCHANGED <<pending, file, lost>>
  ELSE /\ Written(all) /\ pending' = TRUE
       /\ batch' = SubSeq(all, BatchLen + 1, Len(all))

\* Fault: only a row that just fills the batch asks for f_sync.
WriteBatchQuietly(units) ==
  LET all == batch \o units IN
  IF Len(all) < BatchLen
  THEN batch' = all /\ UNCHANGED <<pending, file, lost>>
  ELSE /\ Written(SubSeq(all, 1, BatchLen)) /\ pending' = (pending \/ Len(all) = BatchLen)
       /\ batch' = SubSeq(all, BatchLen + 1, Len(all))

\* FS_Log_WriteSensorBatch, FS_Log_FlushFullSensorBatch (a row is shorter than a batch)
WriteBatch(units) ==
  LET all == batch \o units IN
  IF Len(all) < BatchLen
  THEN batch' = all /\ UNCHANGED <<pending, file, lost>>
  ELSE /\ Written(SubSeq(all, 1, BatchLen)) /\ pending' = TRUE
       /\ batch' = SubSeq(all, BatchLen + 1, Len(all))

\* FS_Log_Sync.  At every other call it is the turn of another file.
Sync ==
  /\ TaskFree /\ "sync" \in set /\ set' = set \ {"sync"}
  /\ \/ /\ "sensor" \in flags /\ pending /\ file.open
        /\ file' = [file EXCEPT !.synced = Len(file.units)] /\ pending' = FALSE
     \/ UNCHANGED <<file, pending>>
  /\ UNCHANGED <<session, rings, events, writer, run, batch, drained, lost, overlapped,
                 halted, samples>>
-----------------------------------------------------------------------------
(* FS_Log_Init and FS_Log_DeInit.  Neither touches the event ring.          *)

Fresh(open) == [units |-> <<>>, open |-> open, synced |-> 0]

\* Fault: only the rings of this session are reset.
ResetEnabled(f) ==
  /\ rd' = [r \in Rings |-> IF r \in f \/ (r \in Sensors /\ "sensor" \in f) THEN 0 ELSE rd[r]]
  /\ wr' = [r \in Rings |-> IF r \in f \/ (r \in Sensors /\ "sensor" \in f) THEN 0 ELSE wr[r]]

ResetRings(f) == rd' = [r \in Rings |-> 0] /\ wr' = [r \in Rings |-> 0]

\* The sensor file is opened, or is not asked for.
SensorFileOpened(f) ==
  IF "sensor" \in f
  THEN file' = Fresh(TRUE) /\ batch' = Head1 /\ pending' = FALSE
  ELSE file' = Fresh(FALSE) /\ UNCHANGED <<batch, pending>>

OpenSession(f) ==
  /\ TaskFree /\ logState = "uninitialized" /\ sessions < MaxSessions
  /\ sessions' = sessions + 1 /\ samples' = 0
  /\ flags' = f /\ ResetRings(f) /\ UNCHANGED slot
  /\ drained' = [s \in Sensors |-> 0] /\ lost' = FALSE
  /\ \/ logState' = "active" /\ SensorFileOpened(f)
     \/ logState' = "failed" /\ SensorFileOpened(f)   \* at the event file
     \/ /\ f # {"event"} /\ logState' = "failed"      \* at one of the files before it
        /\ file' = Fresh(FALSE) /\ UNCHANGED <<batch, pending>>
     \/ /\ "sensor" \in f /\ logState' = "failed"     \* no room for a cluster
        /\ file' = Fresh(FALSE) /\ batch' = <<>> /\ pending' = FALSE
  /\ UNCHANGED <<events, writer, run, set, overlapped, halted>>

\* Fault: the file is closed before the last batch is written.
FinalBatchLate ==
  /\ file' = [file EXCEPT !.open = FALSE, !.synced = Len(file.units)]
  /\ UNCHANGED lost

\* FS_Log_FlushFinalSensorBatch, f_close
FinalBatch ==
  \/ /\ file.open
     /\ LET all == file.units \o batch IN
        file' = [units |-> all, open |-> FALSE, synced |-> Len(all)]
     /\ UNCHANGED lost
  \/ /\ ~file.open \/ (Faulty /\ batch # <<>>)
     /\ file' = [file EXCEPT !.open = FALSE, !.synced = Len(file.units)]
     /\ lost' = (lost \/ file.open)

CloseSession ==
  /\ TaskFree /\ logState # "uninitialized" /\ logState' = "uninitialized"
  /\ IF "sensor" \in flags THEN FinalBatch /\ batch' = <<>>
                           ELSE UNCHANGED <<file, lost, batch>>
  /\ UNCHANGED <<flags, sessions, rings, events, writer, run, set, pending, drained,
                 overlapped, halted, samples>>
-----------------------------------------------------------------------------
(* Interrupts.                                                              *)

Flag(r) == IF r \in Streams THEN r ELSE "sensor"

\* FS_Log_Timer, from FS_Log_Init to FS_Log_DeInit
Timer ==
  /\ logState = "active" /\ ~halted /\ "update" \notin set
  /\ set' = set \cup {"update"}
  /\ UNCHANGED <<session, rings, events, writer, run, sensorFile, overlapped, halted, samples>>

\* Fault: one sample too many.
FreeOffByOne(r) == wr[r] <= rd[r] + Capacity
Free(r) == wr[r] < rd[r] + Capacity

\* FS_Log_WriteBaroData and its like.  A sample that meets a full ring is dropped.
Sample(r) ==
  /\ logState = "active" /\ Flag(r) \in flags /\ ~halted
  /\ Free(r) /\ samples < MaxSamples /\ samples' = samples + 1
  /\ slot' = [slot EXCEPT ![r][wr[r] % Capacity] = wr[r]]
  /\ wr' = [wr EXCEPT ![r] = @ + 1]
  /\ UNCHANGED <<session, rd, events, writer, run, set, sensorFile, overlapped, halted>>

\* Fault: one line too many.
LineFreeOffByOne == events.wr <= events.rd + EventCount
LineFree == events.wr < events.rd + EventCount

LineAccepted ==
  /\ logState = "active" /\ "event" \in flags /\ ~halted
  /\ LineFree /\ events.wr < MaxLines

\* FS_Log_WriteEventAsync in an interrupt, which may have stopped a task in the same.
LineOfInterrupt ==
  /\ LineAccepted
  /\ events' = [events EXCEPT !.slot[events.wr % EventCount] = events.wr, !.wr = @ + 1]
  /\ overlapped' = (overlapped \/ writer.pc # "idle")
  /\ UNCHANGED <<session, rings, writer, run, set, sensorFile, halted, samples>>
-----------------------------------------------------------------------------
(* FS_Log_WriteEventAsync in a task: the place, the line, the index.        *)

LineReserved ==
  /\ TaskFree /\ LineAccepted
  /\ writer' = [pc |-> "reserved", at |-> events.wr, line |-> events.wr, loaded |-> 0]
  /\ UNCHANGED <<session, rings, events, run, set, sensorFile, overlapped, halted, samples>>

LineFilled ==
  /\ writer.pc = "reserved"
  /\ events' = [events EXCEPT !.slot[writer.at % EventCount] = writer.line]
  /\ writer' = [writer EXCEPT !.pc = "filled", !.loaded = events.wr]
  /\ UNCHANGED <<session, rings, run, set, sensorFile, overlapped, halted, samples>>

\* ++eventWrI: the index is read before or after the interrupts since the line was filled.
LineStored ==
  /\ writer.pc = "filled" /\ writer' = NoWriter
  /\ \E w \in {writer.loaded, events.wr} : events' = [events EXCEPT !.wr = w + 1]
  /\ UNCHANGED <<session, rings, run, set, sensorFile, overlapped, halted, samples>>
-----------------------------------------------------------------------------
(* FS_Log_Update.                                                           *)

UpdateBegins ==
  /\ TaskFree /\ "update" \in set /\ set' = set \ {"update"}
  /\ run' = [Idle EXCEPT !.pc = "loop",
                         !.upto = [r \in Streams \cup {"event"} |->
                                     IF r = "event" THEN events.wr ELSE wr[r]]]
  /\ UNCHANGED <<session, rings, events, writer, sensorFile, overlapped, halted, samples>>

EventsDone == events.rd = run.upto["event"]
Done(r)    == rd[r] = run.upto[r]

\* Events first, then the raw stream, then GNSS, then the sensors.
Due(r) ==
  CASE r = "event" -> ~EventsDone
    [] r = "raw"   -> EventsDone /\ ~Done("raw")
    [] r = "gnss"  -> EventsDone /\ Done("raw") /\ ~Done("gnss")
    [] OTHER       -> EventsDone /\ Done("raw") /\ Done("gnss") /\ rd[r] # wr[r]

\* The head of a ring is read; interrupts come while its row is made and written.
RowBegins(r) ==
  /\ run.pc = "loop" /\ ~halted /\ Due(r)
  /\ run' = [run EXCEPT !.pc = "row", !.ring = r,
                        !.id = IF r = "event" THEN events.slot[events.rd % EventCount]
                                              ELSE slot[r][rd[r] % Capacity]]
  /\ halted' = (r # "event" /\ Flag(r) \notin flags)
  /\ UNCHANGED <<session, rings, events, writer, set, sensorFile, overlapped, samples>>

LineEnds ==
  /\ run.ring = "event" /\ events' = [events EXCEPT !.rd = @ + 1]
  /\ UNCHANGED <<rd, sensorFile>>

StreamRowEnds(r) ==
  /\ run.ring = r /\ rd' = [rd EXCEPT ![r] = @ + 1]
  /\ UNCHANGED <<events, sensorFile>>

SensorRowEnds(s) ==
  /\ run.ring = s /\ rd' = [rd EXCEPT ![s] = @ + 1]
  /\ WriteBatch(Row(s, run.id))
  /\ drained' = IF file.open THEN [drained EXCEPT ![s] = @ + 1] ELSE drained
  /\ UNCHANGED events

RowEnds ==
  /\ run.pc = "row" /\ ~halted
  /\ run' = [run EXCEPT !.pc = "loop", !.ring = "none", !.id = 0]
  /\ \/ LineEnds
     \/ \E r \in Streams : StreamRowEnds(r)
     \/ \E s \in Sensors : SensorRowEnds(s)
  /\ UNCHANGED <<session, slot, wr, writer, set, overlapped, halted, samples>>

\* All is written, or the time slice is used up.  Every fifth time the sync task is set.
UpdateEnds ==
  /\ run.pc = "loop" /\ ~halted /\ run' = Idle
  /\ set' \in {set, set \cup {"sync"}}
  /\ UNCHANGED <<session, rings, events, writer, sensorFile, overlapped, halted, samples>>

Next ==
  \/ \E f \in SUBSET Flags : "event" \in f /\ OpenSession(f)
  \/ CloseSession \/ Timer \/ Sync
  \/ \E r \in Rings : Sample(r)
  \/ LineOfInterrupt \/ LineReserved \/ LineFilled \/ LineStored
  \/ UpdateBegins \/ UpdateEnds \/ RowEnds
  \/ \E r \in Rings \cup {"event"} : RowBegins(r)

Spec == Init /\ [][Next]_vars
-----------------------------------------------------------------------------
\* The update task never takes a row for a file that is not of this session, although it
\* may have been set in an earlier session with other files (the calls of Error_Handler in
\* FS_Log_UpdateBaro and its like, log.c:290 to 563).
NeverHalts == ~halted

\* What an interrupt has put into a ring is there until the task has written it, also
\* while its row is being written (log.c:1133 to 1329).
RingsKept ==
  \A r \in Rings : \A i \in rd[r] .. wr[r] - 1 : slot[r][i % Capacity] = i

\* The same of the event ring, as long as no interrupt has written a line into it while a
\* task was (log.c:1356: the place is reserved by an index that is moved at the end).
EventsKept ==
  ~overlapped =>
    /\ events.wr <= events.rd + EventCount
    /\ \A i \in events.rd .. events.wr - 1 : events.slot[i % EventCount] = i

First(s, i) == [ring |-> s, id |-> i, part |-> 1]

\* units are whole rows, and of every sensor the first count[s] samples in their order,
\* each once.
Exact(units, count) ==
  /\ \A k \in 1 .. Len(units) : units[k].ring # "head" /\ units[k].part = 1 =>
       k < Len(units) /\ units[k + 1] = [units[k] EXCEPT !.part = 2]
  /\ \A k \in 1 .. Len(units) : units[k].part = 2 =>
       k > 1 /\ units[k - 1] = [units[k] EXCEPT !.part = 1]
  /\ \A s \in Sensors :
       /\ \A k \in 1 .. Len(units) :
            units[k].ring = s /\ units[k].part = 1 => units[k].id < count[s]
       /\ \A i \in 0 .. count[s] - 1 : \E k \in 1 .. Len(units) : units[k] = First(s, i)
       /\ \A j, k \in 1 .. Len(units) :
            /\ j < k
            /\ units[j].ring = s /\ units[j].part = 1
            /\ units[k].ring = s /\ units[k].part = 1
            => units[j].id < units[k].id

\* What the sensor file holds, with the batch as long as it is open.
Content == IF file.open THEN file.units \o batch ELSE file.units

\* Unless a write has failed, the sensor file, with the batch as long as it is open, holds
\* whole rows, and of every sensor the samples in their order, each once
\* (FS_Log_WriteSensorBatch, FS_Log_FlushFinalSensorBatch).
SensorFileIsExact == ~lost => Exact(Content, drained)

\* A file the sync task passes over (sensorSyncPending, log.c:720) has nothing that a loss of
\* power would take: whatever was written to it has been synchronised.
NothingLeftUnsynced == file.open /\ ~pending => file.synced = Len(file.units)
=============================================================================
