--------------------------- MODULE SensorLog_proofs ---------------------------
(***************************************************************************)
(* Proofs about SensorLog, for rings and batches of any size: its types,    *)
(* that the update task never meets a row of a file that its session does   *)
(* not have, that no ring loses what an interrupt has put into it, that the *)
(* file is what has been taken from the rings, and that nothing of it stays *)
(* unsynced without a sync to come.                                         *)
(***************************************************************************)
EXTENDS SensorLog, SequenceTheorems, TLAPS

RingT ==
  /\ slot \in [Rings -> [0 .. Capacity - 1 -> Nat]]
  /\ rd \in [Rings -> Nat] /\ wr \in [Rings -> Nat]
  /\ \A r \in Rings : rd[r] <= wr[r] /\ wr[r] <= rd[r] + Capacity

EventT ==
  /\ events \in [slot : [0 .. EventCount - 1 -> Nat], rd : Nat, wr : Nat]
  /\ writer \in [pc : {"idle", "reserved", "filled"}, at : Nat, line : Nat, loaded : Nat]

RunT ==
  /\ run \in [pc : {"idle", "loop", "row"}, upto : [Streams \cup {"event"} -> Nat],
              ring : Rings \cup {"none", "event"}, id : Nat]
  /\ set \subseteq {"update", "sync"}

FileT ==
  /\ batch \in Seq(Unit) /\ pending \in BOOLEAN
  /\ file \in [units : Seq(Unit), open : BOOLEAN, synced : Nat]
  /\ drained \in [Sensors -> Nat] /\ lost \in BOOLEAN

RestT ==
  /\ logState \in {"uninitialized", "active", "failed"} /\ flags \subseteq Flags
  /\ overlapped \in BOOLEAN /\ halted \in BOOLEAN
  /\ sessions \in Nat /\ samples \in Nat

\* The type invariant in the parts that different actions change.
LEMMA TypeParts == TypeOK <=> RingT /\ EventT /\ RunT /\ FileT /\ RestT
BY DEF TypeOK, RingT, EventT, RunT, FileT, RestT

\* A run of the update task is alone; what its snapshot of a stream covers is in the ring,
\* and the row it writes is the head of its ring.
RunInv ==
  /\ run.pc # "idle" =>
       /\ writer.pc = "idle"
       /\ \A r \in Streams : rd[r] <= run.upto[r] /\ run.upto[r] <= wr[r]
  /\ run.pc = "row" /\ run.ring \in Streams => rd[run.ring] < run.upto[run.ring]
  /\ run.pc = "row" /\ run.ring \in Sensors => rd[run.ring] < wr[run.ring]

\* Only rings of this session's files hold samples.
FlagInv ==
  /\ ~halted
  /\ \A r \in Rings : rd[r] < wr[r] => Flag(r) \in flags

\* The names of rings, streams and their marks do not coincide.
LEMMA Names ==
  /\ \A s \in Sensors : s \notin {"raw", "gnss", "event", "none", "head"}
  /\ Streams \subseteq Rings /\ Sensors \subseteq Rings
  /\ "event" \notin Rings /\ "none" \notin Rings
  /\ \A r \in Rings : r \in Sensors \/ r \in Streams
  /\ \A s \in Sensors : s \notin Streams /\ Flag(s) = "sensor"
BY NameAssumption DEF Streams, Rings, Flag

\* A place in a ring of n.
LEMMA ModTyped ==
  ASSUME NEW n \in Nat \ {0}, NEW a \in Nat
  PROVE  a % n \in 0 .. n - 1
OBVIOUS

\* Indices less than n apart have different places in a ring of n.
LEMMA ModDistinct ==
  ASSUME NEW n \in Nat \ {0}, NEW a \in Nat, NEW b \in Nat, a < b, b < a + n
  PROVE  a % n # b % n
<1> SUFFICES ASSUME a % n = b % n PROVE FALSE OBVIOUS
<1> DEFINE qa == a \div n
<1> DEFINE qb == b \div n
<1>1. qa \in Int /\ qb \in Int
  OBVIOUS
<1>2. a = n * qa + (a % n) /\ b = n * qb + (b % n)
  OBVIOUS
<1>3. a % n \in Nat
  BY ModTyped
<1> HIDE DEF qa, qb
<1>4. b - a = n * (qb - qa)
  BY <1>1, <1>2, <1>3
<1>5. CASE qb - qa <= 0
  <2>1. n * (qb - qa) <= 0 BY <1>1, <1>5
  <2> QED BY <2>1, <1>4
<1>6. CASE qb - qa >= 1
  <2>1. n * (qb - qa) >= n BY <1>1, <1>6
  <2> QED BY <2>1, <1>4
<1> QED BY <1>1, <1>5, <1>6

-----------------------------------------------------------------------------
(* Types.                                                                   *)

\* The initial state has its type and satisfies the two invariants.
LEMMA TypeInit == Init => TypeOK /\ RunInv /\ FlagInv
<1> SUFFICES ASSUME Init PROVE TypeOK /\ RunInv /\ FlagInv OBVIOUS
<1>1. RingT BY CountAssumption DEF Init, RingT
<1>2. EventT BY CountAssumption DEF Init, EventT, NoWriter
<1>3. RunT BY DEF Init, RunT, Idle
<1>4. FileT BY EmptySeq DEF Init, FileT
<1>5. RestT BY DEF Init, RestT
<1>6. RunInv BY DEF Init, RunInv, Idle
<1>7. FlagInv BY DEF Init, FlagInv
<1> QED BY <1>1, <1>2, <1>3, <1>4, <1>5, <1>6, <1>7, TypeParts

\* Indices of the rings.
LEMMA RingStep ==
  ASSUME TypeOK, RunInv, [Next]_vars
  PROVE  RingT'
<1> USE Names, TypeParts DEF RingT
<1>1. ASSUME NEW f \in SUBSET Flags, OpenSession(f) PROVE RingT'
  BY <1>1, CountAssumption DEF OpenSession, ResetRings
<1>2. ASSUME NEW r \in Rings, Sample(r) PROVE RingT'
  <2>1. wr[r] % Capacity \in 0 .. Capacity - 1
    BY ModTyped, CountAssumption
  <2>2. slot' \in [Rings -> [0 .. Capacity - 1 -> Nat]]
    BY <1>2, <2>1 DEF Sample
  <2>3. wr' \in [Rings -> Nat] /\ rd' = rd
    BY <1>2 DEF Sample
  <2>4. \A q \in Rings : rd'[q] <= wr'[q] /\ wr'[q] <= rd'[q] + Capacity
    BY <1>2, CountAssumption DEF Sample, Free
  <2> QED BY <2>2, <2>3, <2>4
<1>3. CASE RowEnds
  <2>1. CASE LineEnds
    BY <1>3, <2>1 DEF RowEnds, LineEnds
  <2>2. ASSUME NEW r \in Streams, StreamRowEnds(r) PROVE RingT'
    <3>1. rd[r] < wr[r]
      BY <1>3, <2>2 DEF RowEnds, StreamRowEnds, RunInv, RunT
    <3> QED BY <1>3, <2>2, <3>1, CountAssumption DEF RowEnds, StreamRowEnds
  <2>3. ASSUME NEW s \in Sensors, SensorRowEnds(s) PROVE RingT'
    <3>1. rd[s] < wr[s]
      BY <1>3, <2>3 DEF RowEnds, SensorRowEnds, RunInv
    <3> QED BY <1>3, <2>3, <3>1, CountAssumption DEF RowEnds, SensorRowEnds
  <2> QED BY <1>3, <2>1, <2>2, <2>3 DEF RowEnds
<1>4. CASE UNCHANGED rings
  BY <1>4 DEF rings
<1> QED BY <1>1, <1>2, <1>3, <1>4 DEF Next, vars, CloseSession, Timer, Sync, LineOfInterrupt,
     LineReserved, LineFilled, LineStored, UpdateBegins, UpdateEnds, RowBegins

\* The event ring and its writer.
LEMMA EventStep ==
  ASSUME TypeOK, RunInv, [Next]_vars
  PROVE  EventT'
<1> USE Names, TypeParts DEF EventT
<1>1. \A i \in Nat : i % EventCount \in 0 .. EventCount - 1
  BY ModTyped, CountAssumption
<1>2. CASE LineOfInterrupt
  <2>1. events.wr % EventCount \in 0 .. EventCount - 1
    BY <1>1
  <2>2. /\ events' = [events EXCEPT !.slot[events.wr % EventCount] = events.wr, !.wr = @ + 1]
        /\ writer' = writer
    BY <1>2 DEF LineOfInterrupt
  <2>3. events' = [slot |-> [events.slot EXCEPT ![events.wr % EventCount] = events.wr],
                   rd |-> events.rd, wr |-> events.wr + 1]
    BY <2>2
  <2>4. [events.slot EXCEPT ![events.wr % EventCount] = events.wr]
          \in [0 .. EventCount - 1 -> Nat]
    BY <2>1
  <2>5. events.rd \in Nat /\ events.wr + 1 \in Nat /\ writer' = writer
    BY <2>2
  <2>6. events' \in [slot : [0 .. EventCount - 1 -> Nat], rd : Nat, wr : Nat]
    BY ONLY <2>3, <2>4, <2>5
  <2> QED BY <2>5, <2>6
<1>3. CASE LineReserved
  BY <1>3 DEF LineReserved
<1>4. CASE LineFilled
  BY <1>1, <1>4 DEF LineFilled
<1>5. CASE LineStored
  BY <1>5 DEF LineStored, NoWriter
<1>6. CASE RowEnds
  BY <1>6 DEF RowEnds, LineEnds, StreamRowEnds, SensorRowEnds
<1>7. CASE UNCHANGED <<events, writer>>
  BY <1>7
<1>8. ASSUME NEW f \in SUBSET Flags, OpenSession(f) PROVE UNCHANGED <<events, writer>>
  BY <1>8 DEF OpenSession
<1>9. CloseSession \/ Timer \/ Sync => UNCHANGED <<events, writer>>
  BY DEF CloseSession, Timer, Sync
<1>10. ASSUME NEW r \in Rings, Sample(r) PROVE UNCHANGED <<events, writer>>
  BY <1>10 DEF Sample
<1>11. UpdateBegins \/ UpdateEnds => UNCHANGED <<events, writer>>
  BY DEF UpdateBegins, UpdateEnds
<1>12. ASSUME NEW r \in Rings \cup {"event"}, RowBegins(r) PROVE UNCHANGED <<events, writer>>
  BY <1>12 DEF RowBegins
<1>13. UNCHANGED vars => UNCHANGED <<events, writer>>
  BY DEF vars
<1> QED BY <1>2, <1>3, <1>4, <1>5, <1>6, <1>7, <1>8, <1>9, <1>10, <1>11, <1>12, <1>13 DEF Next

\* The update task and what is set.
LEMMA RunStep ==
  ASSUME TypeOK, RunInv, [Next]_vars
  PROVE  RunT'
<1> USE Names, TypeParts DEF RunT
<1>1. CASE UpdateBegins
  <2>1. \A r \in Streams \cup {"event"} : (IF r = "event" THEN events.wr ELSE wr[r]) \in Nat
    BY DEF RingT, EventT
  <2> QED BY <1>1, <2>1 DEF UpdateBegins, Idle
<1>2. ASSUME NEW r \in Rings \cup {"event"}, RowBegins(r) PROVE RunT'
  <2>1. (IF r = "event" THEN events.slot[events.rd % EventCount]
                        ELSE slot[r][rd[r] % Capacity]) \in Nat
    <3>1. \A i \in Nat : i % EventCount \in 0 .. EventCount - 1
                         /\ i % Capacity \in 0 .. Capacity - 1
      BY ModTyped, CountAssumption
    <3>2. CASE r = "event"
      BY <3>1, <3>2 DEF EventT
    <3>3. CASE r \in Rings
      <4>1. rd[r] % Capacity \in 0 .. Capacity - 1 /\ r # "event"
        BY <3>1, <3>3 DEF RingT
      <4>2. slot[r] \in [0 .. Capacity - 1 -> Nat]
        BY <3>3 DEF RingT
      <4>3. slot[r][rd[r] % Capacity] \in Nat
        BY <4>1, <4>2
      <4> QED BY <4>1, <4>3
    <3> QED BY <3>2, <3>3
  <2> QED BY <1>2, <2>1 DEF RowBegins
<1>3. CASE RowEnds
  BY <1>3 DEF RowEnds
<1>4. CASE UpdateEnds
  BY <1>4 DEF UpdateEnds, Idle
<1>5. CASE UNCHANGED run /\ set' \in {set, set \cup {"update"}, set \ {"sync"}}
  BY <1>5
<1> QED BY <1>1, <1>2, <1>3, <1>4, <1>5 DEF Next, vars, OpenSession, CloseSession, Timer, Sync,
     Sample, LineOfInterrupt, LineReserved, LineFilled, LineStored

\* What is written to the sensor file is typed.
LEMMA WrittenTyped ==
  ASSUME FileT, NEW units \in Seq(Unit), Written(units)
  PROVE  file' \in [units : Seq(Unit), open : BOOLEAN, synced : Nat] /\ lost' \in BOOLEAN
<1>1. file.units \o units \in Seq(Unit)
  BY ConcatProperties DEF FileT
<1> QED BY <1>1 DEF Written, FileT

\* A batch that is filled up leaves typed units in the file and in the batch.
LEMMA BatchTyped ==
  ASSUME FileT, NEW units \in Seq(Unit), WriteBatch(units)
  PROVE  /\ batch' \in Seq(Unit) /\ pending' \in BOOLEAN
         /\ file' \in [units : Seq(Unit), open : BOOLEAN, synced : Nat]
         /\ lost' \in BOOLEAN
<1> DEFINE all == batch \o units
<1>1. all \in Seq(Unit)
  BY ConcatProperties DEF FileT
<1> HIDE DEF all
<1>2. CASE Len(all) < BatchLen
  BY <1>1, <1>2 DEF WriteBatch, FileT, all
<1>3. CASE ~(Len(all) < BatchLen)
  <2>1. Len(all) \in Nat
    BY <1>1, LenProperties
  <2>2. SubSeq(all, 1, BatchLen) \in Seq(Unit)
    BY <1>1, <1>3, <2>1, BatchAssumption, SubSeqProperties
  <2>3. SubSeq(all, BatchLen + 1, Len(all)) \in Seq(Unit)
    BY <1>1, <1>3, <2>1, BatchAssumption, SubSeqProperties
  <2>4. /\ Written(SubSeq(all, 1, BatchLen)) /\ pending' = TRUE
        /\ batch' = SubSeq(all, BatchLen + 1, Len(all))
    BY <1>3 DEF WriteBatch, all
  <2> QED BY <2>2, <2>3, <2>4, WrittenTyped
<1> QED BY <1>2, <1>3

\* A row is made of units.
LEMMA RowTyped ==
  ASSUME NEW s \in Sensors, NEW i \in Nat
  PROVE  Row(s, i) \in Seq(Unit)
<1>1. [ring |-> s, id |-> i, part |-> 1] \in Unit /\ [ring |-> s, id |-> i, part |-> 2] \in Unit
  BY DEF Unit
<1> QED BY <1>1 DEF Row

\* The head of the file is a sequence of units.
LEMMA HeadTyped == Head1 \in Seq(Unit)
<1>1. [ring |-> "head", id |-> 0, part |-> 1] \in Unit
  BY DEF Unit
<1> QED BY <1>1 DEF Head1

\* The sensor file.
LEMMA FileStep ==
  ASSUME TypeOK, [Next]_vars
  PROVE  FileT'
<1> USE TypeParts
<1>0. file.units \in Seq(Unit) /\ Len(file.units) \in Nat
  BY LenProperties DEF FileT
<1>1. ASSUME NEW f \in SUBSET Flags, OpenSession(f) PROVE FileT'
  <2>1. \A o \in BOOLEAN : Fresh(o) \in [units : Seq(Unit), open : BOOLEAN, synced : Nat]
    BY EmptySeq DEF Fresh
  <2>2. drained' \in [Sensors -> Nat] /\ lost' \in BOOLEAN
    BY <1>1 DEF OpenSession
  <2>3. file' \in {Fresh(TRUE), Fresh(FALSE)}
    BY <1>1 DEF OpenSession, SensorFileOpened
  <2>4. batch' \in {batch, Head1, <<>>} /\ pending' \in {pending, FALSE}
    BY <1>1 DEF OpenSession, SensorFileOpened
  <2> QED BY <2>1, <2>2, <2>3, <2>4, HeadTyped, EmptySeq DEF FileT
<1>2. CASE CloseSession
  <2>1. file.units \o batch \in Seq(Unit)
    BY <1>0, ConcatProperties DEF FileT
  <2>2. Len(file.units \o batch) \in Nat
    BY <2>1, LenProperties
  <2>3. CASE FinalBatch /\ batch' = <<>>
    <3>1. file' \in [units : Seq(Unit), open : BOOLEAN, synced : Nat] /\ lost' \in BOOLEAN
      <4> DEFINE all == file.units \o batch
      <4>1. CASE file' = [units |-> all, open |-> FALSE, synced |-> Len(all)]
                 /\ UNCHANGED lost
        BY <4>1, <2>1, <2>2 DEF FileT
      <4>2. CASE /\ file' = [file EXCEPT !.open = FALSE, !.synced = Len(file.units)]
                 /\ lost' = (lost \/ file.open)
        BY <4>2, <1>0 DEF FileT
      <4> QED BY <2>3, <4>1, <4>2 DEF FinalBatch
    <3> QED BY <3>1, <2>3, <1>2, EmptySeq DEF CloseSession, FileT
  <2> QED BY <1>2, <2>3 DEF CloseSession, FileT
<1>3. CASE Sync
  BY <1>0, <1>3 DEF Sync, FileT
<1>4. CASE RowEnds
  <2>1. CASE UNCHANGED sensorFile
    BY <2>1 DEF FileT, sensorFile
  <2>2. ASSUME NEW s \in Sensors, SensorRowEnds(s) PROVE FileT'
    <3>1. Row(s, run.id) \in Seq(Unit)
      BY RowTyped DEF RunT
    <3>2. drained' \in [Sensors -> Nat]
      BY <2>2 DEF SensorRowEnds, FileT
    <3> QED BY <2>2, <3>1, <3>2, BatchTyped DEF SensorRowEnds, FileT
  <2> QED BY <1>4, <2>1, <2>2 DEF RowEnds, LineEnds, StreamRowEnds
<1>5. CASE UNCHANGED sensorFile
  BY <1>5 DEF FileT, sensorFile
<1>6. Timer \/ LineOfInterrupt \/ LineReserved \/ LineFilled \/ LineStored
      \/ UpdateBegins \/ UpdateEnds => UNCHANGED sensorFile
  BY DEF Timer, LineOfInterrupt, LineReserved, LineFilled, LineStored, UpdateBegins, UpdateEnds
<1>7. ASSUME NEW r \in Rings, Sample(r) PROVE UNCHANGED sensorFile
  BY <1>7 DEF Sample
<1>8. ASSUME NEW r \in Rings \cup {"event"}, RowBegins(r) PROVE UNCHANGED sensorFile
  BY <1>8 DEF RowBegins
<1>9. UNCHANGED vars => UNCHANGED sensorFile
  BY DEF vars
<1> QED BY <1>1, <1>2, <1>3, <1>4, <1>5, <1>6, <1>7, <1>8, <1>9 DEF Next

\* The rest.
LEMMA RestStep ==
  ASSUME TypeOK, [Next]_vars
  PROVE  RestT'
<1> USE TypeParts DEF RestT
<1>1. ASSUME NEW f \in SUBSET Flags, OpenSession(f) PROVE RestT'
  <2>1. logState' \in {"active", "failed"}
    BY <1>1 DEF OpenSession
  <2>2. /\ flags' = f /\ sessions' = sessions + 1 /\ samples' = 0
        /\ overlapped' = overlapped /\ halted' = halted
    BY <1>1 DEF OpenSession
  <2> QED BY <2>1, <2>2
<1>2. CASE CloseSession \/ Timer \/ Sync
  BY <1>2 DEF CloseSession, Timer, Sync, session
<1>3. ASSUME NEW r \in Rings, Sample(r) PROVE RestT'
  BY <1>3 DEF Sample, session
<1>4. CASE LineOfInterrupt \/ LineReserved \/ LineFilled \/ LineStored
  BY <1>4 DEF LineOfInterrupt, LineReserved, LineFilled, LineStored, session
<1>5. CASE UpdateBegins \/ UpdateEnds \/ RowEnds
  BY <1>5 DEF UpdateBegins, UpdateEnds, RowEnds, session
<1>6. ASSUME NEW r \in Rings \cup {"event"}, RowBegins(r) PROVE RestT'
  BY <1>6 DEF RowBegins, session
<1>7. CASE UNCHANGED vars
  BY <1>7 DEF vars, session
<1> QED BY <1>1, <1>2, <1>3, <1>4, <1>5, <1>6, <1>7 DEF Next

\* All types at once.
LEMMA TypeStep ==
  ASSUME TypeOK, RunInv, [Next]_vars
  PROVE  TypeOK'
<1>1. RingT' /\ EventT' /\ RunT' /\ FileT' /\ RestT'
  BY RingStep, EventStep, RunStep, FileStep, RestStep
<1> QED BY <1>1 DEF TypeOK, RingT, EventT, RunT, FileT, RestT

\* The update task is alone and within its snapshot.
LEMMA RunInvStep ==
  ASSUME TypeOK, RunInv, [Next]_vars
  PROVE  RunInv'
<1> USE Names DEF RunInv
<1>0. /\ run \in [pc : {"idle", "loop", "row"}, upto : [Streams \cup {"event"} -> Nat],
                  ring : Rings \cup {"none", "event"}, id : Nat]
      /\ rd \in [Rings -> Nat] /\ wr \in [Rings -> Nat]
      /\ \A r \in Rings : rd[r] <= wr[r]
  BY DEF TypeOK
<1>1. ASSUME NEW f \in SUBSET Flags, OpenSession(f) PROVE RunInv'
  BY <1>1 DEF OpenSession, TaskFree
<1>2. ASSUME NEW r \in Rings, Sample(r) PROVE RunInv'
  BY <1>0, <1>2 DEF Sample
<1>3. CASE LineReserved
  BY <1>3 DEF LineReserved, TaskFree, rings
<1>4. CASE LineFilled \/ LineStored
  BY <1>4 DEF LineFilled, LineStored, rings
<1>5. CASE UpdateBegins
  <2>1. \A r \in Streams : run'.upto[r] = wr[r] /\ rd[r] <= wr[r]
                            /\ wr[r] \in Nat /\ rd[r] \in Nat
    BY <1>0, <1>5 DEF UpdateBegins, Idle, Streams
  <2>2. run'.pc = "loop" /\ UNCHANGED <<rings, writer>> /\ writer.pc = "idle"
    BY <1>5 DEF UpdateBegins, Idle, TaskFree
  <2>3. rd' = rd /\ wr' = wr /\ writer' = writer
    BY <2>2 DEF rings
  <2> QED BY <2>1, <2>2, <2>3
<1>6. ASSUME NEW r \in Rings \cup {"event"}, RowBegins(r) PROVE RunInv'
  <2>1. r \in Streams => rd[r] < run.upto[r]
    BY <1>0, <1>6 DEF RowBegins, Due, Done, Streams
  <2>2. r \in Sensors => rd[r] < wr[r]
    BY <1>0, <1>6 DEF RowBegins, Due
  <2>3. /\ run'.upto = run.upto /\ run'.ring = r /\ run.pc = "loop"
        /\ UNCHANGED <<rings, writer>>
    BY <1>0, <1>6 DEF RowBegins
  <2> QED BY <2>1, <2>2, <2>3 DEF rings
<1>7. CASE RowEnds
  <2>1. /\ run'.pc = "loop" /\ run'.upto = run.upto /\ run.pc = "row"
        /\ wr' = wr /\ writer' = writer
    BY <1>0, <1>7 DEF RowEnds
  <2>2. \A r \in Streams : rd'[r] <= run.upto[r]
    BY <1>0, <1>7, <2>1 DEF RowEnds, LineEnds, StreamRowEnds, SensorRowEnds
  <2> QED BY <2>1, <2>2
<1>8. CASE UpdateEnds
  BY <1>8 DEF UpdateEnds, Idle
<1>9. CASE UNCHANGED <<rings, writer, run>>
  BY <1>9 DEF rings
<1>10. CloseSession \/ Timer \/ Sync \/ LineOfInterrupt \/ UNCHANGED vars
        => UNCHANGED <<rings, writer, run>>
  BY DEF CloseSession, Timer, Sync, LineOfInterrupt, vars
<1> QED BY <1>1, <1>2, <1>3, <1>4, <1>5, <1>6, <1>7, <1>8, <1>9, <1>10 DEF Next

\* No ring gets a sample that its session has no file for, and the rings of an earlier
\* session are reset.
LEMMA FlagStep ==
  ASSUME TypeOK, RunInv, FlagInv, [Next]_vars
  PROVE  FlagInv'
<1> USE Names DEF FlagInv
<1>0. /\ rd \in [Rings -> Nat] /\ wr \in [Rings -> Nat]
      /\ \A r \in Rings : rd[r] <= wr[r]
  BY DEF TypeOK
<1>1. ASSUME NEW f \in SUBSET Flags, OpenSession(f) PROVE FlagInv'
  BY <1>1 DEF OpenSession, ResetRings
<1>2. ASSUME NEW r \in Rings, Sample(r) PROVE FlagInv'
  BY <1>0, <1>2 DEF Sample, session
<1>3. ASSUME NEW r \in Rings \cup {"event"}, RowBegins(r) PROVE FlagInv'
  <2>1. CASE r \in Rings
    <3>1. rd[r] < wr[r]
      BY <1>0, <1>3, <2>1, SMTT(40) DEF RowBegins, Due, Done, RunInv, Streams, TypeOK
    <3> QED BY <1>3, <2>1, <3>1 DEF RowBegins, session, rings
  <2>2. CASE r = "event"
    BY <1>3, <2>2 DEF RowBegins, session, rings
  <2> QED BY <2>1, <2>2
<1>4. CASE RowEnds
  <2>1. \A r \in Rings : rd'[r] >= rd[r]
    BY <1>0, <1>4 DEF RowEnds, LineEnds, StreamRowEnds, SensorRowEnds
  <2>2. wr' = wr /\ halted' = halted /\ flags' = flags /\ rd' \in [Rings -> Nat]
    BY <1>0, <1>4 DEF RowEnds, session, LineEnds, StreamRowEnds, SensorRowEnds
  <2> QED BY <1>0, <2>1, <2>2
<1>5. CASE UNCHANGED <<rings, flags, halted>>
  BY <1>5 DEF rings, Flag
<1>6. CloseSession \/ Timer \/ Sync \/ LineOfInterrupt \/ LineReserved \/ LineFilled
      \/ LineStored \/ UpdateBegins \/ UpdateEnds \/ UNCHANGED vars
        => UNCHANGED <<rings, flags, halted>>
  BY DEF CloseSession, Timer, Sync, LineOfInterrupt, LineReserved, LineFilled, LineStored,
     UpdateBegins, UpdateEnds, vars, session
<1> QED BY <1>1, <1>2, <1>3, <1>4, <1>5, <1>6 DEF Next

Safe == TypeOK /\ RunInv /\ FlagInv

\* The types, what a run of the task relies on, and which rings may hold samples.
THEOREM SafeAlways == Spec => []Safe
<1>1. Init => Safe
  BY TypeInit DEF Safe
<1>2. Safe /\ [Next]_vars => Safe'
  BY TypeStep, RunInvStep, FlagStep DEF Safe
<1> QED BY <1>1, <1>2, PTL DEF Spec

\* The state of the logger has its types, and no ring holds more than its capacity.
THEOREM LogTypeCorrect == Spec => []TypeOK
<1>1. Safe => TypeOK BY DEF Safe
<1> QED BY <1>1, SafeAlways, PTL

\* FS_Log_Update never calls Error_Handler, for any sequence of sessions and files.
THEOREM UpdateNeverHalts == Spec => []NeverHalts
<1>1. Safe => NeverHalts BY DEF Safe, FlagInv, NeverHalts
<1> QED BY <1>1, SafeAlways, PTL
-----------------------------------------------------------------------------
(* What is in the rings.                                                    *)

\* The end of a row moves a read index up, or none.
LEMMA ReadMoves ==
  ASSUME rd \in [Rings -> Nat], RowEnds
  PROVE  /\ rd' \in [Rings -> Nat] /\ \A r \in Rings : rd'[r] >= rd[r]
         /\ wr' = wr /\ slot' = slot
BY Names DEF RowEnds, LineEnds, StreamRowEnds, SensorRowEnds

\* A sample is put where no sample waits; the others stay in their places.
LEMMA RingsKeptStep ==
  ASSUME Safe, Safe', RingsKept, [Next]_vars
  PROVE  RingsKept'
<1> USE Names DEF RingsKept
<1>0. /\ slot \in [Rings -> [0 .. Capacity - 1 -> Nat]]
      /\ rd \in [Rings -> Nat] /\ wr \in [Rings -> Nat]
      /\ \A r \in Rings : rd[r] <= wr[r] /\ wr[r] <= rd[r] + Capacity
  BY DEF Safe, TypeOK
<1>1. ASSUME NEW f \in SUBSET Flags, OpenSession(f) PROVE RingsKept'
  <2>1. \A r \in Rings : rd'[r] = 0 /\ wr'[r] = 0
    BY <1>1 DEF OpenSession, ResetRings
  <2> QED BY <2>1
<1>2. ASSUME NEW r \in Rings, Sample(r) PROVE RingsKept'
  <2> SUFFICES ASSUME NEW q \in Rings, NEW i \in rd'[q] .. wr'[q] - 1
               PROVE  slot'[q][i % Capacity] = i
    OBVIOUS
  <2>1. /\ rd' = rd /\ wr' = [wr EXCEPT ![r] = @ + 1] /\ wr[r] < rd[r] + Capacity
        /\ slot' = [slot EXCEPT ![r][wr[r] % Capacity] = wr[r]]
    BY <1>2 DEF Sample, Free
  <2>2. i \in Nat
    BY <1>0, <2>1
  <2>3. wr[r] % Capacity \in 0 .. Capacity - 1 /\ i % Capacity \in 0 .. Capacity - 1
    BY <1>0, <2>2, ModTyped, CountAssumption
  <2>4. CASE q # r
    BY <1>0, <2>1, <2>4
  <2>5. CASE q = r /\ i = wr[r]
    BY <1>0, <2>1, <2>3, <2>5
  <2>6. CASE q = r /\ i # wr[r]
    <3>1. i \in rd[r] .. wr[r] - 1
      BY <1>0, <2>1, <2>6
    <3>2. i % Capacity # wr[r] % Capacity
      BY <1>0, <2>1, <2>2, <3>1, ModDistinct, CountAssumption
    <3>3. slot'[r][i % Capacity] = slot[r][i % Capacity]
      BY <1>0, <2>1, <2>3, <3>2
    <3> QED BY <2>6, <3>1, <3>3
  <2> QED BY <2>4, <2>5, <2>6
<1>3. CASE RowEnds
  <2>1. /\ rd' \in [Rings -> Nat] /\ \A r \in Rings : rd'[r] >= rd[r]
        /\ wr' = wr /\ slot' = slot
    BY <1>0, <1>3, ReadMoves
  <2>2. ASSUME NEW r \in Rings, NEW i \in rd'[r] .. wr[r] - 1
        PROVE  i \in rd[r] .. wr[r] - 1
    BY <1>0, <2>1
  <2> QED BY <2>1, <2>2
<1>4. CASE UNCHANGED rings
  BY <1>4 DEF rings
<1>5. ASSUME NEW r \in Rings \cup {"event"}, RowBegins(r) PROVE UNCHANGED rings
  BY <1>5 DEF RowBegins
<1>6. CloseSession \/ Timer \/ Sync \/ LineOfInterrupt \/ LineReserved \/ LineFilled
      \/ LineStored \/ UpdateBegins \/ UpdateEnds \/ UNCHANGED vars => UNCHANGED rings
  BY DEF CloseSession, Timer, Sync, LineOfInterrupt, LineReserved, LineFilled, LineStored,
     UpdateBegins, UpdateEnds, vars
<1> QED BY <1>1, <1>2, <1>3, <1>4, <1>5, <1>6 DEF Next

\* Nothing an interrupt has put into a ring is overwritten before it is written.
THEOREM RingsAreKept == Spec => []RingsKept
<1>1. Init => RingsKept
  BY DEF Init, RingsKept
<1>2. Safe /\ Safe' /\ RingsKept /\ [Next]_vars => RingsKept'
  BY RingsKeptStep
<1> QED BY <1>1, <1>2, SafeAlways, PTL DEF Spec

Pending(i) == events.slot[i % EventCount] = i

\* As long as no interrupt has come between: a task that has reserved a place still has
\* it, and the update task is within its snapshot.
EventInv ==
  ~overlapped =>
    /\ events.rd <= events.wr /\ events.wr <= events.rd + EventCount
    /\ \A i \in events.rd .. events.wr - 1 : Pending(i)
    /\ writer.pc # "idle" =>
         /\ writer.at = events.wr /\ writer.line = events.wr
         /\ events.wr < events.rd + EventCount
    /\ writer.pc = "filled" => writer.loaded = events.wr /\ Pending(events.wr)
    /\ run.pc # "idle" =>
         events.rd <= run.upto["event"] /\ run.upto["event"] <= events.wr
    /\ run.pc = "row" /\ run.ring = "event" => events.rd < run.upto["event"]

\* A line that is put at the place of the write index disturbs no line that waits.
LEMMA PlaceIsFree ==
  ASSUME TypeOK, events.rd <= events.wr, events.wr < events.rd + EventCount,
         NEW new, new = [events.slot EXCEPT ![events.wr % EventCount] = events.wr],
         \A i \in events.rd .. events.wr - 1 : Pending(i)
  PROVE  \A i \in events.rd .. events.wr : new[i % EventCount] = i
<1> SUFFICES ASSUME NEW i \in events.rd .. events.wr PROVE new[i % EventCount] = i
  OBVIOUS
<1>1. events.slot \in [0 .. EventCount - 1 -> Nat] /\ events.rd \in Nat /\ events.wr \in Nat
  BY DEF TypeOK
<1>2. i \in Nat
  BY <1>1
<1>3. events.wr % EventCount \in 0 .. EventCount - 1 /\ i % EventCount \in 0 .. EventCount - 1
  BY <1>1, <1>2, ModTyped, CountAssumption
<1>4. CASE i = events.wr
  BY <1>1, <1>3, <1>4
<1>5. CASE i # events.wr
  <2>1. i \in events.rd .. events.wr - 1
    BY <1>1, <1>5
  <2>2. i < events.wr /\ events.wr < i + EventCount
    BY <1>1, <1>2, <2>1, CountAssumption
  <2>3. i % EventCount # events.wr % EventCount
    BY <1>1, <1>2, <2>2, ModDistinct, CountAssumption
  <2> QED BY <1>1, <1>3, <2>1, <2>3 DEF Pending
<1> QED BY <1>4, <1>5

\* No step takes a line of the event ring from under its reader or its writer.
LEMMA EventInvStep ==
  ASSUME Safe, EventInv, [Next]_vars
  PROVE  EventInv'
<1> SUFFICES ASSUME ~overlapped' PROVE EventInv'
  BY DEF EventInv
<1>0. /\ events \in [slot : [0 .. EventCount - 1 -> Nat], rd : Nat, wr : Nat]
      /\ writer \in [pc : {"idle", "reserved", "filled"}, at : Nat, line : Nat, loaded : Nat]
      /\ run \in [pc : {"idle", "loop", "row"}, upto : [Streams \cup {"event"} -> Nat],
                  ring : Rings \cup {"none", "event"}, id : Nat]
      /\ TypeOK /\ RunInv
  BY DEF Safe, TypeOK
<1>1. CASE LineOfInterrupt
  <2>1. ~overlapped /\ writer.pc = "idle" /\ writer' = writer /\ run' = run
        /\ events.wr < events.rd + EventCount
    BY <1>1 DEF LineOfInterrupt, LineAccepted, LineFree
  <2>2. events' = [slot |-> [events.slot EXCEPT ![events.wr % EventCount] = events.wr],
                   rd |-> events.rd, wr |-> events.wr + 1]
    BY <1>0, <1>1 DEF LineOfInterrupt
  <2>3. \A i \in events.rd .. events.wr : events'.slot[i % EventCount] = i
    BY <1>0, <2>1, <2>2, PlaceIsFree DEF EventInv
  <2>4. /\ events'.rd = events.rd /\ events'.wr = events.wr + 1
        /\ events.rd \in Nat /\ events.wr \in Nat /\ EventCount \in Nat
    BY <1>0, <2>2, CountAssumption
  <2>5. \A i \in events'.rd .. events'.wr - 1 : Pending(i)'
    BY <2>3, <2>4 DEF Pending
  <2>6. events'.rd <= events'.wr /\ events'.wr <= events'.rd + EventCount
    BY <2>1, <2>4 DEF EventInv
  <2>7. /\ run.pc # "idle" =>
             events.rd <= run.upto["event"] /\ run.upto["event"] <= events.wr + 1
        /\ run.pc = "row" /\ run.ring = "event" => events.rd < run.upto["event"]
    BY <1>0, <2>1 DEF EventInv
  <2> QED BY <2>1, <2>4, <2>5, <2>6, <2>7 DEF EventInv
<1>2. CASE LineReserved
  <2>1. /\ events' = events /\ run' = run /\ run.pc = "idle" /\ ~overlapped
        /\ writer' = [pc |-> "reserved", at |-> events.wr, line |-> events.wr, loaded |-> 0]
        /\ events.wr < events.rd + EventCount
    BY <1>2 DEF LineReserved, LineAccepted, LineFree, TaskFree
  <2> QED BY <1>0, <2>1 DEF EventInv, Pending
<1>3. CASE LineFilled
  <2>1. /\ writer.pc = "reserved" /\ run' = run /\ ~overlapped
        /\ writer' = [writer EXCEPT !.pc = "filled", !.loaded = events.wr]
        /\ writer.at = events.wr /\ writer.line = events.wr
        /\ events.wr < events.rd + EventCount
    BY <1>3 DEF LineFilled, EventInv
  <2>2. events' = [slot |-> [events.slot EXCEPT ![events.wr % EventCount] = events.wr],
                   rd |-> events.rd, wr |-> events.wr]
    BY <1>0, <1>3, <2>1 DEF LineFilled
  <2>3. \A i \in events.rd .. events.wr : events'.slot[i % EventCount] = i
    BY <1>0, <2>1, <2>2, PlaceIsFree DEF EventInv
  <2>4. run.pc = "idle"
    BY <1>0, <2>1 DEF RunInv
  <2>5. /\ events'.rd = events.rd /\ events'.wr = events.wr
        /\ events.rd \in Nat /\ events.wr \in Nat
        /\ events.rd <= events.wr /\ events.wr <= events.rd + EventCount
    BY <1>0, <2>1, <2>2 DEF EventInv
  <2>6. ASSUME NEW i \in events.rd .. events.wr PROVE Pending(i)'
    BY <2>3 DEF Pending
  <2>7. \A i \in events'.rd .. events'.wr - 1 : Pending(i)'
    <3> SUFFICES ASSUME NEW i \in events'.rd .. events'.wr - 1 PROVE Pending(i)'
      OBVIOUS
    <3>1. i \in events.rd .. events.wr
      BY <2>5
    <3> QED BY <2>6, <3>1
  <2>8. /\ writer'.at = events.wr /\ writer'.line = events.wr /\ writer'.loaded = events.wr
        /\ writer'.pc = "filled" /\ run'.pc = "idle"
    BY <1>0, <2>1, <2>4
  <2>9. Pending(events.wr)'
    <3>1. events.wr \in events.rd .. events.wr
      BY <2>5
    <3> QED BY <2>3, <2>5, <3>1 DEF Pending
  <2>10. events'.rd <= events'.wr /\ events'.wr < events'.rd + EventCount
    BY <2>1, <2>5
  <2> QED BY <2>5, <2>7, <2>8, <2>9, <2>10 DEF EventInv, Pending
<1>4. CASE LineStored
  <2>1. /\ writer.pc = "filled" /\ run' = run /\ ~overlapped /\ writer' = NoWriter
        /\ writer.loaded = events.wr /\ Pending(events.wr)
        /\ events.wr < events.rd + EventCount
    BY <1>4 DEF LineStored, EventInv
  <2>2. events' = [events EXCEPT !.wr = events.wr + 1]
    BY <1>4, <2>1 DEF LineStored
  <2>3. run.pc = "idle"
    BY <1>0, <2>1 DEF RunInv
  <2>4. /\ events'.rd = events.rd /\ events'.wr = events.wr + 1
        /\ events'.slot = events.slot /\ events.rd \in Nat /\ events.wr \in Nat
        /\ EventCount \in Nat
    BY <1>0, <2>2, CountAssumption
  <2>5. events.rd <= events.wr /\ \A i \in events.rd .. events.wr - 1 : Pending(i)
    BY <2>1 DEF EventInv
  <2>6. \A i \in events'.rd .. events'.wr - 1 : Pending(i)'
    <3> SUFFICES ASSUME NEW i \in events'.rd .. events'.wr - 1 PROVE Pending(i)'
      OBVIOUS
    <3>1. i \in events.rd .. events.wr - 1 \/ i = events.wr
      BY <2>4
    <3>2. Pending(i)
      BY <2>1, <2>5, <3>1
    <3> QED BY <2>4, <3>2 DEF Pending
  <2>7. events'.rd <= events'.wr /\ events'.wr <= events'.rd + EventCount
    BY <2>1, <2>4, <2>5
  <2>8. writer'.pc = "idle" /\ run'.pc = "idle"
    BY <2>1, <2>3 DEF NoWriter
  <2> QED BY <2>6, <2>7, <2>8 DEF EventInv
<1>5. CASE UpdateBegins
  <2>1. /\ events' = events /\ writer' = writer /\ ~overlapped
        /\ run'.pc = "loop" /\ run'.upto["event"] = events.wr
    BY <1>5 DEF UpdateBegins, Idle
  <2> QED BY <1>0, <2>1 DEF EventInv, Pending
<1>6. ASSUME NEW r \in Rings \cup {"event"}, RowBegins(r) PROVE EventInv'
  <2>1. /\ events' = events /\ writer' = writer /\ ~overlapped
        /\ run.pc = "loop" /\ run'.pc = "row" /\ run'.upto = run.upto /\ run'.ring = r
    BY <1>0, <1>6 DEF RowBegins
  <2>2. r = "event" => events.rd # run.upto["event"]
    BY <1>6 DEF RowBegins, Due, EventsDone
  <2> QED BY <1>0, <2>1, <2>2 DEF EventInv, Pending
<1>7. CASE RowEnds
  <2>1. /\ run.pc = "row" /\ run'.pc = "loop" /\ run'.upto = run.upto
        /\ writer' = writer /\ ~overlapped /\ writer.pc = "idle"
    BY <1>0, <1>7 DEF RowEnds, RunInv
  <2>2. CASE LineEnds
    <3>1. /\ events'.rd = events.rd + 1 /\ events'.wr = events.wr /\ events'.slot = events.slot
          /\ events.rd \in Nat /\ events.wr \in Nat /\ EventCount \in Nat
      BY <1>0, <2>2, CountAssumption DEF LineEnds
    <3>2. /\ events.rd < run.upto["event"] /\ run.upto["event"] <= events.wr
          /\ events.wr <= events.rd + EventCount /\ run.upto["event"] \in Nat
          /\ \A i \in events.rd .. events.wr - 1 : Pending(i)
      BY <1>0, <2>1, <2>2 DEF LineEnds, EventInv
    <3>3. \A i \in events'.rd .. events'.wr - 1 : Pending(i)'
      <4> SUFFICES ASSUME NEW i \in events'.rd .. events'.wr - 1 PROVE Pending(i)'
        OBVIOUS
      <4>1. i \in events.rd .. events.wr - 1
        BY <3>1
      <4> QED BY <3>1, <3>2, <4>1 DEF Pending
    <3>4. /\ events'.rd <= events'.wr /\ events'.wr <= events'.rd + EventCount
          /\ events'.rd <= run'.upto["event"] /\ run'.upto["event"] <= events'.wr
      BY <2>1, <3>1, <3>2
    <3>5. run'.pc = "loop" /\ writer'.pc = "idle"
      BY <2>1
    <3> QED BY <3>3, <3>4, <3>5 DEF EventInv
  <2>3. CASE events' = events
    BY <1>0, <2>1, <2>3 DEF EventInv, Pending
  <2> QED BY <1>7, <2>2, <2>3 DEF RowEnds, StreamRowEnds, SensorRowEnds
<1>8. CASE UpdateEnds
  BY <1>8 DEF UpdateEnds, Idle, EventInv, Pending
<1>9. CASE UNCHANGED <<events, writer, run, overlapped>>
  BY <1>9 DEF EventInv, Pending
<1>10. ASSUME NEW f \in SUBSET Flags, OpenSession(f)
       PROVE UNCHANGED <<events, writer, run, overlapped>>
  BY <1>10 DEF OpenSession
<1>11. ASSUME NEW r \in Rings, Sample(r) PROVE UNCHANGED <<events, writer, run, overlapped>>
  BY <1>11 DEF Sample
<1>12. CloseSession \/ Timer \/ Sync \/ UNCHANGED vars
        => UNCHANGED <<events, writer, run, overlapped>>
  BY DEF CloseSession, Timer, Sync, vars
<1> QED BY <1>1, <1>2, <1>3, <1>4, <1>5, <1>6, <1>7, <1>8, <1>9, <1>10, <1>11, <1>12 DEF Next

\* No line of the event ring is lost or overwritten before an interrupt has written one
\* into it while a task was.
THEOREM EventsAreKept == Spec => []EventsKept
<1>1. Init => EventInv
  BY CountAssumption DEF Init, EventInv, NoWriter, Idle
<1>2. Safe /\ EventInv /\ [Next]_vars => EventInv'
  BY EventInvStep
<1>3. EventInv => EventsKept
  BY DEF EventInv, EventsKept, Pending
<1> QED BY <1>1, <1>2, <1>3, SafeAlways, PTL DEF Spec
-----------------------------------------------------------------------------
(* What is in the sensor file.                                              *)

\* As long as the file is open every sample taken from a ring is counted, and a row that is
\* being written is the sample at the head of its ring.
CountInv ==
  /\ file.open => \A s \in Sensors : drained[s] = rd[s]
  /\ run.pc = "row" /\ run.ring \in Sensors => run.id = rd[run.ring]

\* A unit of two sequences, one behind the other.
LEMMA UnitOfConcat ==
  ASSUME NEW a \in Seq(Unit), NEW b \in Seq(Unit)
  PROVE  /\ a \o b \in Seq(Unit) /\ Len(a \o b) = Len(a) + Len(b)
         /\ Len(a) \in Nat /\ Len(b) \in Nat
         /\ \A k \in 1 .. Len(a) : (a \o b)[k] = a[k] /\ (a \o b)[k] \in Unit
         /\ \A k \in 1 .. Len(b) : (a \o b)[Len(a) + k] = b[k] /\ b[k] \in Unit
<1>1. Len(a) \in Nat /\ Len(b) \in Nat
  BY LenProperties
<1>2. /\ a \o b \in Seq(Unit) /\ Len(a \o b) = Len(a) + Len(b)
      /\ \A k \in 1 .. Len(a) + Len(b) :
           (a \o b)[k] = IF k <= Len(a) THEN a[k] ELSE b[k - Len(a)]
  BY ConcatProperties
<1>3. \A k \in 1 .. Len(a) : (a \o b)[k] = a[k] /\ a[k] \in Unit
  BY <1>1, <1>2, ElementOfSeq
<1>4. ASSUME NEW k \in 1 .. Len(b)
      PROVE  (a \o b)[Len(a) + k] = b[k] /\ b[k] \in Unit
  BY <1>1, <1>2, ElementOfSeq
<1> QED BY <1>1, <1>2, <1>3, <1>4

\* The next row of a sensor behind whole rows that lack it.
LEMMA ExactAppend ==
  ASSUME NEW all \in Seq(Unit), NEW count \in [Sensors -> Nat], Exact(all, count),
         NEW s \in Sensors
  PROVE  Exact(all \o Row(s, count[s]), [count EXCEPT ![s] = @ + 1])
<1> DEFINE row == Row(s, count[s])
<1> DEFINE new == all \o row
<1> DEFINE after == [count EXCEPT ![s] = @ + 1]
<1> DEFINE n == Len(all)
<1>1. row \in Seq(Unit) /\ count[s] \in Nat
  BY RowTyped
<1>2. /\ Len(row) = 2 /\ row[1] = First(s, count[s])
      /\ row[2] = [ring |-> s, id |-> count[s], part |-> 2]
  BY DEF Row, First
<1> HIDE DEF row
<1>3. /\ Len(new) = n + 2 /\ n \in Nat
      /\ \A k \in 1 .. n : new[k] = all[k] /\ new[k] \in Unit
      /\ new[n + 1] = First(s, count[s])
      /\ new[n + 2] = [ring |-> s, id |-> count[s], part |-> 2]
  <2>1. /\ Len(new) = n + Len(row) /\ n \in Nat
        /\ \A k \in 1 .. n : new[k] = all[k] /\ new[k] \in Unit
        /\ \A k \in 1 .. Len(row) : new[n + k] = row[k]
    BY <1>1, UnitOfConcat
  <2>2. 1 \in 1 .. Len(row) /\ 2 \in 1 .. Len(row)
    BY <1>2
  <2> QED BY <1>2, <2>1, <2>2
<1>4. \A k \in 1 .. n + 2 : k \in 1 .. n \/ k = n + 1 \/ k = n + 2
  BY <1>3
<1>5. s # "head" /\ First(s, count[s]).ring = s /\ First(s, count[s]).part = 1
      /\ First(s, count[s]).id = count[s]
  BY Names DEF First
<1>6. after \in [Sensors -> Nat] /\ after[s] = count[s] + 1
      /\ \A t \in Sensors : t # s => after[t] = count[t]
  OBVIOUS
<1> HIDE DEF n, new, after
<1>7. ASSUME NEW k \in 1 .. n + 2, new[k].ring # "head", new[k].part = 1
      PROVE  k < n + 2 /\ new[k + 1] = [new[k] EXCEPT !.part = 2]
  <2>1. CASE k \in 1 .. n
    <3>1. new[k] = all[k] /\ k < n /\ all[k + 1] = [all[k] EXCEPT !.part = 2]
      BY <1>3, <1>7, <2>1 DEF Exact, n
    <3>2. k + 1 \in 1 .. n /\ k < n + 2
      BY <1>3, <2>1, <3>1
    <3>3. new[k + 1] = all[k + 1]
      BY <1>3, <3>2
    <3> QED BY <3>1, <3>2, <3>3
  <2>2. CASE k = n + 1
    <3>1. [First(s, count[s]) EXCEPT !.part = 2] = [ring |-> s, id |-> count[s], part |-> 2]
      BY DEF First
    <3>2. k + 1 = n + 2 /\ k < n + 2
      BY <1>3, <2>2
    <3> QED BY <1>3, <2>2, <3>1, <3>2
  <2>3. CASE k = n + 2
    BY <1>3, <1>7, <2>3
  <2> QED BY <1>4, <2>1, <2>2, <2>3
<1>8. ASSUME NEW k \in 1 .. n + 2, new[k].part = 2
      PROVE  k > 1 /\ new[k - 1] = [new[k] EXCEPT !.part = 1]
  <2>1. CASE k \in 1 .. n
    <3>1. new[k] = all[k] /\ k > 1 /\ all[k - 1] = [all[k] EXCEPT !.part = 1]
      BY <1>3, <1>8, <2>1 DEF Exact, n
    <3>2. k - 1 \in 1 .. n
      BY <1>3, <2>1, <3>1
    <3> QED BY <1>3, <3>1, <3>2
  <2>2. CASE k = n + 1
    BY <1>3, <1>5, <1>8, <2>2
  <2>3. CASE k = n + 2
    <3>1. [[ring |-> s, id |-> count[s], part |-> 2] EXCEPT !.part = 1] = First(s, count[s])
      BY DEF First
    <3>2. k - 1 = n + 1 /\ k > 1
      BY <1>3, <2>3
    <3> QED BY <1>3, <2>3, <3>1, <3>2
  <2> QED BY <1>4, <2>1, <2>2, <2>3
<1>9. ASSUME NEW t \in Sensors, NEW k \in 1 .. n + 2, new[k].ring = t, new[k].part = 1
      PROVE  new[k].id < after[t]
  <2>1. CASE k \in 1 .. n
    <3>1. all[k].id < count[t] /\ new[k] = all[k] /\ new[k] \in Unit
      BY <1>3, <1>9, <2>1 DEF Exact, n
    <3>2. new[k].id \in Nat
      BY <3>1 DEF Unit
    <3> QED BY <1>6, <3>1, <3>2
  <2>2. CASE k = n + 1
    BY <1>3, <1>5, <1>6, <1>9, <2>2
  <2>3. CASE k = n + 2
    BY <1>3, <1>9, <2>3
  <2> QED BY <1>4, <2>1, <2>2, <2>3
<1>10. ASSUME NEW t \in Sensors, NEW i \in 0 .. after[t] - 1
       PROVE  \E k \in 1 .. n + 2 : new[k] = First(t, i)
  <2>1. CASE t = s /\ i = count[s]
    <3>1. n + 1 \in 1 .. n + 2
      BY <1>3
    <3> QED BY <1>3, <2>1, <3>1
  <2>2. CASE ~(t = s /\ i = count[s])
    <3>1. i \in 0 .. count[t] - 1
      BY <1>6, <2>2
    <3>2. PICK k \in 1 .. n : all[k] = First(t, i)
      BY <3>1 DEF Exact, n
    <3>3. k \in 1 .. n + 2
      BY <1>3
    <3> QED BY <1>3, <3>2, <3>3
  <2> QED BY <2>1, <2>2
<1>11. ASSUME NEW t \in Sensors, NEW j \in 1 .. n + 2, NEW k \in 1 .. n + 2, j < k,
              new[j].ring = t, new[j].part = 1, new[k].ring = t, new[k].part = 1
       PROVE  new[j].id < new[k].id
  <2>1. CASE k \in 1 .. n
    <3>1. j \in 1 .. n
      BY <1>3, <1>11, <2>1
    <3> QED BY <1>3, <1>11, <2>1, <3>1 DEF Exact, n
  <2>2. CASE k = n + 1
    <3>1. j \in 1 .. n
      BY <1>3, <1>11, <2>2
    <3>2. all[j].id < count[t]
      BY <1>3, <1>11, <3>1 DEF Exact, n
    <3> QED BY <1>3, <1>5, <1>11, <2>2, <3>1, <3>2
  <2>3. CASE k = n + 2
    BY <1>3, <1>11, <2>3
  <2> QED BY <1>4, <2>1, <2>2, <2>3
<1>12. Len(new) = n + 2
  BY <1>3
<1> QED BY <1>7, <1>8, <1>9, <1>10, <1>11, <1>12, ZenonT(40) DEF Exact, new, row, after

\* The sample that is taken and its count stay together.
LEMMA CountStep ==
  ASSUME Safe, RingsKept, CountInv, [Next]_vars
  PROVE  CountInv'
<1> USE Names DEF CountInv
<1>0. /\ rd \in [Rings -> Nat] /\ drained \in [Sensors -> Nat]
      /\ run \in [pc : {"idle", "loop", "row"}, upto : [Streams \cup {"event"} -> Nat],
                  ring : Rings \cup {"none", "event"}, id : Nat]
      /\ file \in [units : Seq(Unit), open : BOOLEAN, synced : Nat]
  BY DEF Safe, TypeOK
<1>1. ASSUME NEW f \in SUBSET Flags, OpenSession(f) PROVE CountInv'
  BY <1>1 DEF OpenSession, ResetRings, TaskFree
<1>2. CASE CloseSession
  <2>1. file'.open => file.open
    BY <1>0, <1>2 DEF CloseSession, FinalBatch
  <2> QED BY <1>2, <2>1 DEF CloseSession, rings
<1>3. ASSUME NEW r \in Rings, Sample(r) PROVE CountInv'
  BY <1>3 DEF Sample, sensorFile
<1>4. ASSUME NEW r \in Rings \cup {"event"}, RowBegins(r) PROVE CountInv'
  <2>1. /\ run'.ring = r /\ UNCHANGED <<rings, sensorFile>>
        /\ r \in Rings => run'.id = slot[r][rd[r] % Capacity] /\ Due(r)
    BY <1>0, <1>4 DEF RowBegins
  <2>2. ASSUME r \in Sensors PROVE run'.id = rd[r]
    <3>1. rd[r] # wr[r]
      BY <2>1, <2>2 DEF Due
    <3>2. rd[r] \in rd[r] .. wr[r] - 1
      BY <1>0, <2>2, <3>1 DEF Safe, TypeOK
    <3> QED BY <2>1, <2>2, <3>2 DEF RingsKept
  <2> QED BY <2>1, <2>2 DEF rings, sensorFile
<1>5. CASE RowEnds
  <2>1. run'.pc = "loop"
    BY <1>0, <1>5 DEF RowEnds
  <2>2. CASE LineEnds
    BY <2>1, <2>2 DEF LineEnds, sensorFile
  <2>3. ASSUME NEW r \in Streams, StreamRowEnds(r) PROVE CountInv'
    BY <1>0, <2>1, <2>3 DEF StreamRowEnds, sensorFile
  <2>4. ASSUME NEW s \in Sensors, SensorRowEnds(s) PROVE CountInv'
    <3>1. file'.open = file.open
      BY <1>0, <2>4 DEF SensorRowEnds, WriteBatch, Written
    <3> QED BY <1>0, <2>1, <2>4, <3>1 DEF SensorRowEnds
  <2> QED BY <1>5, <2>2, <2>3, <2>4 DEF RowEnds
<1>6. CASE UpdateBegins \/ UpdateEnds
  <2>1. run'.pc \in {"loop", "idle"} /\ UNCHANGED <<rings, sensorFile>>
    <3>1. CASE UpdateBegins
      BY <3>1 DEF UpdateBegins, Idle
    <3>2. CASE UpdateEnds
      BY <3>2 DEF UpdateEnds, Idle
    <3> QED BY <1>6, <3>1, <3>2
  <2> QED BY <2>1 DEF rings, sensorFile
<1>7. CASE Sync
  BY <1>0, <1>7 DEF Sync, rings
<1>8. CASE UNCHANGED <<rings, run, sensorFile>>
  BY <1>8 DEF rings, sensorFile
<1>9. Timer \/ LineOfInterrupt \/ LineReserved \/ LineFilled \/ LineStored \/ UNCHANGED vars
        => UNCHANGED <<rings, run, sensorFile>>
  BY DEF Timer, LineOfInterrupt, LineReserved, LineFilled, LineStored, vars
<1> QED BY <1>1, <1>2, <1>3, <1>4, <1>5, <1>6, <1>7, <1>8, <1>9 DEF Next

\* Units may be put together in any grouping.
LEMMA UnitsAssociate ==
  \A a, b, c \in Seq(Unit) : (a \o b) \o c = a \o (b \o c)
<1>1. \A S : \A a, b, c \in Seq(S) : (a \o b) \o c = a \o (b \o c)
  BY ConcatAssociative
<1> QED BY <1>1

\* Whatever part of a batch goes to the file, nothing is between the two or missing.
LEMMA BatchContent ==
  ASSUME FileT, NEW units \in Seq(Unit), WriteBatch(units), file.open, ~lost'
  PROVE  file'.open /\ ~lost /\ file'.units \o batch' = (file.units \o batch) \o units
<1> DEFINE all == batch \o units
<1>0. file.units \in Seq(Unit) /\ batch \in Seq(Unit)
  BY DEF FileT
<1>1. all \in Seq(Unit) /\ Len(all) \in Nat
  BY <1>0, ConcatProperties, LenProperties
<1>2. file.units \o all = (file.units \o batch) \o units
  BY <1>0, UnitsAssociate
<1> HIDE DEF all
<1>3. CASE Len(all) < BatchLen
  BY <1>2, <1>3 DEF WriteBatch, all
<1>4. CASE ~(Len(all) < BatchLen)
  <2> DEFINE head == SubSeq(all, 1, BatchLen)
  <2> DEFINE tail == SubSeq(all, BatchLen + 1, Len(all))
  <2>1. head \in Seq(Unit) /\ tail \in Seq(Unit)
    BY <1>1, <1>4, BatchAssumption, SubSeqProperties
  <2>2. head \o tail = all
    <3>1. /\ 1 \in 1 .. Len(all) + 1 /\ BatchLen \in 1 - 1 .. Len(all)
          /\ Len(all) \in BatchLen .. Len(all)
      BY <1>1, <1>4, BatchAssumption
    <3>2. head \o tail = SubSeq(all, 1, Len(all))
      BY <1>1, <3>1, ConcatAdjacentSubSeq
    <3> QED BY <1>1, <3>2, SubSeqFull
  <2>3. Written(head) /\ batch' = tail
    BY <1>4 DEF WriteBatch, all
  <2> HIDE DEF head, tail
  <2>4. file'.units = file.units \o head /\ file'.open /\ ~lost
    BY <2>3 DEF Written, FileT
  <2>5. (file.units \o head) \o tail = file.units \o (head \o tail)
    BY <1>0, <2>1, UnitsAssociate
  <2> QED BY <1>2, <2>2, <2>3, <2>4, <2>5
<1> QED BY <1>3, <1>4

\* Nothing is in a file that is empty, or has its head only.
LEMMA ExactInit ==
  ASSUME NEW count, count = [s \in Sensors |-> 0]
  PROVE  Exact(<<>>, count) /\ Exact(Head1, count)
<1>1. Exact(<<>>, count)
  BY DEF Exact
<1>2. /\ Len(Head1) = 1 /\ \A k \in 1 .. 1 : Head1[k].ring = "head" /\ Head1[k].part = 1
  BY DEF Head1
<1> QED BY <1>1, <1>2, Names DEF Exact

\* Every step keeps the sensor file exact, until a write fails.
LEMMA ExactStep ==
  ASSUME Safe, CountInv, SensorFileIsExact, [Next]_vars
  PROVE  SensorFileIsExact'
<1> SUFFICES ASSUME ~lost' PROVE Exact(Content, drained)'
  BY DEF SensorFileIsExact
<1>0. FileT /\ RunT
  BY TypeParts DEF Safe
<1>1. ASSUME NEW f \in SUBSET Flags, OpenSession(f) PROVE Exact(Content, drained)'
  <2>1. drained' = [s \in Sensors |-> 0]
    BY <1>1 DEF OpenSession
  <2>2. \/ file' = Fresh(FALSE)
        \/ file' = Fresh(TRUE) /\ batch' = Head1
    BY <1>1 DEF OpenSession, SensorFileOpened
  <2>3. <<>> \o Head1 = Head1
    BY HeadTyped, ConcatEmptySeq
  <2>4. Content' = <<>> \/ Content' = Head1
    <3>1. CASE file' = Fresh(FALSE)
      BY <3>1 DEF Fresh, Content
    <3>2. CASE file' = Fresh(TRUE) /\ batch' = Head1
      <4>1. file'.open /\ file'.units = <<>>
        BY <3>2 DEF Fresh
      <4>2. Content' = <<>> \o Head1
        BY <3>2, <4>1 DEF Content
      <4> QED BY <2>3, <4>2
    <3> QED BY <2>2, <3>1, <3>2
  <2> QED BY <2>1, <2>4, ExactInit
<1>2. CASE CloseSession
  <2>1. drained' = drained
    BY <1>2 DEF CloseSession
  <2>2. Content' = Content /\ ~lost
    <3>1. CASE UNCHANGED <<file, lost, batch>>
      BY <3>1 DEF Content
    <3>2. CASE FinalBatch /\ file.open
      <4>1. ~lost /\ ~file'.open /\ file'.units = file.units \o batch
        BY <1>0, <3>2 DEF FinalBatch, FileT
      <4> QED BY <3>2, <4>1 DEF Content
    <3>3. CASE FinalBatch /\ ~file.open
      <4>1. ~lost /\ ~file'.open /\ file'.units = file.units
        BY <1>0, <3>3 DEF FinalBatch, FileT
      <4> QED BY <3>3, <4>1 DEF Content
    <3> QED BY <1>2, <3>1, <3>2, <3>3 DEF CloseSession
  <2> QED BY <2>1, <2>2 DEF SensorFileIsExact
<1>3. CASE Sync
  <2>1. /\ file'.units = file.units /\ file'.open = file.open
        /\ batch' = batch /\ drained' = drained /\ lost' = lost
    BY <1>0, <1>3 DEF Sync, FileT
  <2> QED BY <2>1 DEF SensorFileIsExact, Content
<1>4. CASE RowEnds
  <2>1. CASE UNCHANGED sensorFile
    BY <2>1 DEF SensorFileIsExact, sensorFile, Content
  <2>2. ASSUME NEW s \in Sensors, SensorRowEnds(s) PROVE Exact(Content, drained)'
    <3>1. Row(s, run.id) \in Seq(Unit) /\ WriteBatch(Row(s, run.id))
      BY <1>0, <2>2, RowTyped DEF SensorRowEnds, RunT
    <3>2. CASE file.open
      <4>1. run.id = drained[s]
        BY <1>4, <2>2, <3>2 DEF RowEnds, SensorRowEnds, CountInv
      <4>2. Content \in Seq(Unit) /\ drained \in [Sensors -> Nat]
        BY <1>0, <3>2, ConcatProperties DEF Content, FileT
      <4>3. ~lost /\ Content' = Content \o Row(s, drained[s])
        BY <1>0, <3>1, <3>2, <4>1, BatchContent DEF Content
      <4>4. drained' = [drained EXCEPT ![s] = @ + 1]
        BY <2>2, <3>2 DEF SensorRowEnds
      <4> QED BY <4>2, <4>3, <4>4, ExactAppend DEF SensorFileIsExact
    <3>3. CASE ~file.open
      <4>1. drained' = drained /\ file' = file /\ ~lost
        BY <2>2, <3>1, <3>3 DEF SensorRowEnds, WriteBatch, Written
      <4> QED BY <3>3, <4>1 DEF SensorFileIsExact, Content
    <3> QED BY <3>2, <3>3
  <2> QED BY <1>4, <2>1, <2>2 DEF RowEnds, LineEnds, StreamRowEnds
<1>5. CASE UNCHANGED sensorFile
  BY <1>5 DEF SensorFileIsExact, sensorFile, Content
<1>6. Timer \/ LineOfInterrupt \/ LineReserved \/ LineFilled \/ LineStored
      \/ UpdateBegins \/ UpdateEnds \/ UNCHANGED vars => UNCHANGED sensorFile
  BY DEF Timer, LineOfInterrupt, LineReserved, LineFilled, LineStored, UpdateBegins,
     UpdateEnds, vars
<1>7. ASSUME NEW r \in Rings, Sample(r) PROVE UNCHANGED sensorFile
  BY <1>7 DEF Sample
<1>8. ASSUME NEW r \in Rings \cup {"event"}, RowBegins(r) PROVE UNCHANGED sensorFile
  BY <1>8 DEF RowBegins
<1> QED BY <1>1, <1>2, <1>3, <1>4, <1>5, <1>6, <1>7, <1>8 DEF Next

\* Unless a write has failed, the sensor file holds whole rows, and of every sensor the
\* samples the update task has taken, in their order, each once: for rings and batches of
\* any size (FS_Log_WriteSensorBatch, FS_Log_FlushFinalSensorBatch).
THEOREM SensorFileIsAlwaysExact == Spec => []SensorFileIsExact
<1>1. Init => CountInv /\ SensorFileIsExact
  <2> SUFFICES ASSUME Init PROVE CountInv /\ SensorFileIsExact
    OBVIOUS
  <2>1. CountInv
    BY Names DEF Init, CountInv, Idle
  <2>2. Content = <<>> /\ drained = [s \in Sensors |-> 0]
    BY DEF Init, Content
  <2> QED BY <2>1, <2>2, ExactInit DEF SensorFileIsExact
<1>2. /\ Safe /\ RingsKept /\ CountInv /\ SensorFileIsExact /\ [Next]_vars
        => CountInv' /\ SensorFileIsExact'
  BY CountStep, ExactStep
<1> QED BY <1>1, <1>2, SafeAlways, RingsAreKept, PTL DEF Spec

\* A file that nothing is pending for has been synchronised as far as it is written, for
\* batches of any size (sensorSyncPending).
THEOREM NothingIsLeftUnsynced == Spec => []NothingLeftUnsynced
<1>1. Init => NothingLeftUnsynced
  BY DEF Init, NothingLeftUnsynced
<1>2. Safe /\ NothingLeftUnsynced /\ [Next]_vars => NothingLeftUnsynced'
  <2> SUFFICES ASSUME Safe, NothingLeftUnsynced, [Next]_vars PROVE NothingLeftUnsynced'
    OBVIOUS
  <2> USE DEF NothingLeftUnsynced
  <2>0. FileT
    BY TypeParts DEF Safe
  <2>1. ASSUME NEW f \in SUBSET Flags, OpenSession(f) PROVE NothingLeftUnsynced'
    <3>1. file' \in {Fresh(TRUE), Fresh(FALSE)}
      BY <2>1 DEF OpenSession, SensorFileOpened
    <3> QED BY <3>1, EmptySeq DEF Fresh
  <2>2. CASE CloseSession
    <3>1. UNCHANGED pending /\ (file' = file \/ ~file'.open)
      <4>1. UNCHANGED pending /\ (FinalBatch \/ file' = file)
        BY <2>2 DEF CloseSession
      <4>2. \A x : [units |-> x, open |-> FALSE, synced |-> Len(x)].open = FALSE
        OBVIOUS
      <4>3. [file EXCEPT !.open = FALSE, !.synced = Len(file.units)].open = FALSE
        BY <2>0 DEF FileT
      <4> QED BY <4>1, <4>2, <4>3 DEF FinalBatch
    <3> QED BY <3>1
  <2>3. CASE Sync
    BY <2>0, <2>3 DEF Sync, FileT
  <2>4. CASE RowEnds
    <3>1. CASE UNCHANGED sensorFile
      BY <3>1 DEF sensorFile
    <3>2. ASSUME NEW s \in Sensors, SensorRowEnds(s) PROVE NothingLeftUnsynced'
      BY <3>2 DEF SensorRowEnds, WriteBatch
    <3> QED BY <2>4, <3>1, <3>2 DEF RowEnds, LineEnds, StreamRowEnds
  <2>5. CASE UNCHANGED sensorFile
    BY <2>5 DEF sensorFile
  <2>6. Timer \/ LineOfInterrupt \/ LineReserved \/ LineFilled \/ LineStored
        \/ UpdateBegins \/ UpdateEnds \/ UNCHANGED vars => UNCHANGED sensorFile
    BY DEF Timer, LineOfInterrupt, LineReserved, LineFilled, LineStored, UpdateBegins,
       UpdateEnds, vars
  <2>7. ASSUME NEW r \in Rings, Sample(r) PROVE UNCHANGED sensorFile
    BY <2>7 DEF Sample
  <2>8. ASSUME NEW r \in Rings \cup {"event"}, RowBegins(r) PROVE UNCHANGED sensorFile
    BY <2>8 DEF RowBegins
  <2> QED BY <2>1, <2>2, <2>3, <2>4, <2>5, <2>6, <2>7, <2>8 DEF Next
<1> QED BY <1>1, <1>2, SafeAlways, PTL DEF Spec
=============================================================================
