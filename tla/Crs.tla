-------------------------------- MODULE Crs --------------------------------
(***************************************************************************)
(* The file transfer service of the device: the state machine of            *)
(* FlySight/crs.c between the two packet rings it works on, the RX ring of   *)
(* custom_app.c and the TX ring of ble_tx_queue.c.                           *)
(*                                                                          *)
(* A run of the task is taken apart into one step per packet it consumes or  *)
(* produces.  The other tasks of the sequencer wait until it is over; only   *)
(* the interrupt of the timer does not.                                      *)
(*                                                                          *)
(* Data are counted in frames: a file is a sequence of frame numbers, a      *)
(* stride or an offset a number of frames.                                   *)
(***************************************************************************)
EXTENDS Integers, Sequences, FiniteSetsExt

CONSTANTS Window,    \* FS_CRS_WINDOW_LENGTH: both rings, and the sender's window
          Counters,  \* packet counters are modulo this, 256 in the code
          Frames,    \* length of a file
          Entries,   \* entries of a directory, the empty one that ends it included
          Faults     \* the FatFs calls that may fail (a bound)

ASSUME WindowAssumption   == Window \in Nat \ {0}
ASSUME CountersAssumption == Counters \in Nat /\ Counters >= 2 * Window
ASSUME FramesAssumption   == Frames \in Nat /\ Entries \in Nat \ {0}

Transfers == {"READ", "WRITE", "DIR"}
Eof    == Frames       \* the body of a packet without data
Torn   == Frames + 1   \* what a write that failed left of a frame
NotYet == -1           \* last_packet before the end of the file is met

VARIABLES
  state,       \* state of the machine, "IDLE" or the transfer under way
  run,         \* where the task is: "off", in one of its loops, or leaving
  failed,      \* read_error, dir_error
  open,        \* file_is_open or dir_is_open
  nextPacket,  \* next_packet
  nextAck,     \* next_ack, reading
  lastPacket,  \* last_packet, reading
  offset, stride,  \* read_offset and read_stride
  pos,         \* the file pointer, in frames; of a directory, entries read
  disk,        \* the frames of the file that is or was written last
  timer,       \* ack_timer_id is armed
  timeoutFlag, \* timeout_flag
  taskSet,     \* CFG_TASK_FS_CRS_UPDATE_ID is set
  rx, tx,      \* the rings
  flow,        \* tx_flow_status
  connected    \* connected_flag

counterVars == <<nextPacket, nextAck, lastPacket>>
fileVars    == <<offset, stride, pos, disk>>
timerVars   == <<timer, timeoutFlag>>
linkVars    == <<flow, connected>>
crsVars == <<state, run, failed, open, counterVars, fileVars, timerVars, taskSet,
             rx, tx, linkVars>>

\* cmd is the opcode; n a packet counter, or the stride of READ; body a frame
\* number, or the offset of READ; of the command that an ACK or NAK answers.
Packet(cmd, n, body, of) == [cmd |-> cmd, n |-> n, body |-> body, of |-> of]
Command(cmd) == Packet(cmd, 0, 0, cmd)

CrsTypeOK ==
  /\ state \in Transfers \cup {"IDLE"}
  /\ run \in {"off", "receive", "send", "leave"}
  /\ failed \in BOOLEAN /\ open \in BOOLEAN
  /\ nextPacket \in Nat /\ nextAck \in Nat /\ lastPacket \in Nat \cup {NotYet}
  /\ offset \in Nat /\ stride \in Nat /\ pos \in Nat
  /\ disk \in Seq(0 .. Torn)
  /\ timer \in BOOLEAN /\ timeoutFlag \in BOOLEAN /\ taskSet \in BOOLEAN
  /\ Len(rx) <= Window /\ Len(tx) <= Window
  /\ flow \in BOOLEAN /\ connected \in BOOLEAN
-----------------------------------------------------------------------------
(* The rings.                                                               *)

\* BLE_TX_Queue_GetNextTxPacket returns a buffer.
Room == Len(tx) < Window

\* Fault: the ring is taken to have room always.
SendAllAlways(ps) == tx' = tx \o ps

\* FS_CRS_SendPacket: without a buffer the packet is not sent.
SendAll(ps) == tx' = SubSeq(tx \o ps, 1, Min({Window, Len(tx \o ps)}))
Send(p)     == SendAll(<<p>>)

Ack(cmd) == Packet("ACK", 0, 0, cmd)
Nak(cmd) == Packet("NAK", 0, 0, cmd)

\* Custom_CRS_OnRxWrite: a full ring drops the new packet.
Received(p) == IF Len(rx) < Window THEN Append(rx, p) ELSE rx

\* BLE_TX_Queue_Transmit when the stack takes the packet.  The callback of the
\* packets of crs.c sets its task.
TransmitDone ==
  /\ run = "off" /\ tx # <<>> /\ flow
  /\ tx' = Tail(tx)
  /\ taskSet' = (taskSet \/ Head(tx).cmd # "OTHER")
  /\ UNCHANGED <<state, run, failed, open, counterVars, fileVars, timerVars, rx,
                 linkVars>>

\* BLE_STATUS_INSUFFICIENT_RESOURCES: the packet stays where it is.
TransmitRefused ==
  /\ run = "off" /\ tx # <<>> /\ flow
  /\ flow' = FALSE
  /\ UNCHANGED <<state, run, failed, open, counterVars, fileVars, timerVars, taskSet,
                 rx, tx, connected>>

PoolAvailable ==   \* BLE_TX_Queue_TxPoolAvailableNotification
  /\ run = "off" /\ ~flow
  /\ flow' = TRUE
  /\ UNCHANGED <<state, run, failed, open, counterVars, fileVars, timerVars, taskSet,
                 rx, tx, connected>>

\* A measurement, a mode or a result in the same ring (BLE_TX_Queue_SendTxPacket).
OtherPacket ==
  /\ run = "off" /\ Room
  /\ tx' = Append(tx, Packet("OTHER", 0, 0, "OTHER"))
  /\ UNCHANGED <<state, run, failed, open, counterVars, fileVars, timerVars, taskSet,
                 rx, linkVars>>
-----------------------------------------------------------------------------
(* The timer, and the start of a run.                                       *)

TimerExpires ==   \* FS_CRS_Timeout
  /\ timer
  /\ timer' = FALSE /\ timeoutFlag' = TRUE /\ taskSet' = TRUE
  /\ UNCHANGED <<state, run, failed, open, counterVars, fileVars, rx, tx, linkVars>>

\* What a FatFs call, or the request for FatFs, may answer.
Result(call) == IF call \in Faults THEN BOOLEAN ELSE {TRUE}

\* f_lseek on a file open for reading stops at its end.
Seek(p) == IF p < Frames THEN p ELSE Frames

\* Fault: the counter goes back, the file pointer does not.
RewindCounter ==
  /\ timeoutFlag' = FALSE
  /\ nextPacket' = nextAck /\ timer' = TRUE
  /\ UNCHANGED <<pos, failed, nextAck, lastPacket>>

\* FS_CRS_State_Read after the timer: back to the first packet not acknowledged.
Rewind ==
  /\ timeoutFlag' = FALSE
  /\ nextPacket' = nextAck
  /\ \E ok \in Result("seek") :
       IF ok THEN pos' = Seek(offset + nextAck * stride) /\ timer' = TRUE /\ UNCHANGED failed
             ELSE failed' = TRUE /\ UNCHANGED <<pos, timer>>
  /\ UNCHANGED <<nextAck, lastPacket>>

\* Fault: the connection is not looked at.
RunTaskBlind ==
  /\ taskSet /\ run = "off"
  /\ taskSet' = FALSE
  /\ IF state = "READ" /\ timeoutFlag THEN Rewind ELSE UNCHANGED <<counterVars, pos, failed, timerVars>>
  /\ run' = IF (state = "WRITE" /\ timeoutFlag) \/ failed' THEN "leave" ELSE "receive"
  /\ UNCHANGED <<state, open, offset, stride, disk, rx, tx, linkVars>>

RunTask ==   \* FS_CRS_Update: what each state does before its first loop
  /\ taskSet /\ run = "off"
  /\ taskSet' = FALSE
  /\ IF state = "READ" /\ timeoutFlag
     THEN Rewind
     ELSE UNCHANGED <<counterVars, pos, failed, timerVars>>
  /\ run' = IF \/ state \in Transfers /\ ~connected
               \/ state = "WRITE" /\ timeoutFlag
               \/ failed'
            THEN "leave" ELSE "receive"
  /\ UNCHANGED <<state, open, offset, stride, disk, rx, tx, linkVars>>
-----------------------------------------------------------------------------
(* FS_CRS_State_Idle.                                                       *)

Takes(ss, cmds) ==
  /\ run = "receive" /\ state \in ss
  /\ rx # <<>> /\ Head(rx).cmd \in cmds
  /\ rx' = Tail(rx)

Malformed ==   \* FS_CRS_ValidateAndCopyPacket
  /\ Takes(Transfers \cup {"IDLE"}, {"BAD"})
  /\ Send(Nak("BAD"))
  /\ UNCHANGED <<state, run, failed, open, counterVars, fileVars, timerVars, taskSet,
                 linkVars>>

\* PING; MK_DIR, and CREATE and DELETE in the same way, take FatFs for the length
\* of the command; what IDLE does not know is refused.
SimpleCommand ==
  /\ Takes({"IDLE"}, {"PING", "MK_DIR", "CANCEL", "DATA", "FILE_ACK"})
  /\ \E ok \in Result("open") :
       LET cmd == Head(rx).cmd
       IN Send(IF cmd = "PING" \/ (cmd = "MK_DIR" /\ ok) THEN Ack(cmd) ELSE Nak(cmd))
  /\ UNCHANGED <<state, run, failed, open, counterVars, fileVars, timerVars, taskSet,
                 linkVars>>

\* READ, WRITE and READ_DIR begin when the file is open and the ACK is queued.  A
\* WRITE whose ACK finds no buffer has emptied the file all the same.
OpenTransfer(t) ==
  /\ Takes({"IDLE"}, {t})
  /\ \E ok \in Result("open"), found \in (IF t = "READ" THEN Result("seek") ELSE {TRUE}) :
       LET begins == ok /\ found /\ Room
       IN /\ Send(IF ok /\ found THEN Ack(t) ELSE Nak(t))
          /\ disk' = IF t = "WRITE" /\ ok THEN <<>> ELSE disk
          /\ state' = (IF begins THEN t ELSE state) /\ run' = (IF begins THEN "off" ELSE run)
          /\ open' = begins /\ UNCHANGED failed
          /\ timeoutFlag' = (timeoutFlag /\ (~begins \/ t = "DIR"))
          /\ timer' = (timer \/ (begins /\ t # "DIR"))
          /\ taskSet' = (taskSet \/ (begins /\ t # "WRITE"))
          /\ IF t = "READ" /\ ok
             THEN /\ offset' = Head(rx).body /\ stride' = Head(rx).n
                  /\ pos' = Seek(Head(rx).body)
                  /\ nextPacket' = 0 /\ nextAck' = 0 /\ lastPacket' = NotYet
             ELSE /\ nextPacket' = IF begins THEN 0 ELSE nextPacket
                  /\ pos' = IF ok THEN 0 ELSE pos
                  /\ UNCHANGED <<offset, stride, nextAck, lastPacket>>
  /\ UNCHANGED linkVars

Ignored ==   \* the default of the other states
  /\ \/ Takes({"READ"}, Transfers \cup {"PING", "MK_DIR", "DATA"})
     \/ Takes({"WRITE"}, Transfers \cup {"PING", "MK_DIR", "FILE_ACK"})
     \/ Takes({"DIR"}, Transfers \cup {"PING", "MK_DIR", "DATA", "FILE_ACK"})
  /\ UNCHANGED <<state, run, failed, open, counterVars, fileVars, timerVars, taskSet,
                 tx, linkVars>>

Cancel ==
  /\ Takes(Transfers, {"CANCEL"})
  /\ run' = "leave"
  /\ UNCHANGED <<state, failed, open, counterVars, fileVars, timerVars, taskSet, tx,
                 linkVars>>
-----------------------------------------------------------------------------
(* FS_CRS_State_Write.                                                      *)

Put(x) == SubSeq(disk, 1, pos) \o <<x>> \o SubSeq(disk, pos + 2, Len(disk))

\* Fault: no rollback; the bytes of a packet that is not acknowledged stay ahead.
WriteFrameForward ==
  /\ Takes({"WRITE"}, {"DATA"}) /\ Head(rx).body # Eof
  /\ Head(rx).n = nextPacket % Counters
  /\ disk' = Put(Head(rx).body) /\ pos' = pos + 1
  /\ IF Room THEN nextPacket' = nextPacket + 1 /\ timer' = TRUE ELSE UNCHANGED <<nextPacket, timer>>
  /\ Send(Packet("FILE_ACK", Head(rx).n, 0, "DATA"))
  /\ UNCHANGED <<run, nextAck, lastPacket, offset, stride, timeoutFlag, state, failed, open,
                 taskSet, linkVars>>

\* The frame is written before it is known whether its ACK can be queued, and
\* taken back by a seek if not.  If that fails the transfer is over.
WriteFrame ==
  /\ Takes({"WRITE"}, {"DATA"}) /\ Head(rx).body # Eof
  /\ Head(rx).n = nextPacket % Counters
  /\ \E whole \in Result("write"), back \in Result("seek") :
       LET acked == whole /\ Room
       IN /\ disk' \in IF whole THEN {Put(Head(rx).body)} ELSE {disk, Put(Torn)}
          /\ IF acked
             THEN /\ pos' = pos + 1 /\ nextPacket' = nextPacket + 1
                  /\ timer' = TRUE /\ UNCHANGED run
             ELSE /\ run' = IF back THEN run ELSE "leave"
                  /\ UNCHANGED <<pos, nextPacket, timer>>
          /\ SendAll(CASE whole         -> <<Packet("FILE_ACK", Head(rx).n, 0, "DATA")>>
                       [] ~whole /\ back -> <<Nak("DATA")>>
                       [] OTHER         -> <<Nak("DATA"), Nak("DATA")>>)
  /\ UNCHANGED <<nextAck, lastPacket, offset, stride, timeoutFlag, state, failed, open,
                 taskSet, linkVars>>

\* The empty packet closes the file; its ACK is lost when there is no buffer.
WriteEof ==
  /\ Takes({"WRITE"}, {"DATA"}) /\ Head(rx).body = Eof
  /\ Head(rx).n = nextPacket % Counters
  /\ open' = FALSE /\ run' = "leave"
  /\ \E ok \in Result("close") :
       /\ Send(IF ok THEN Packet("FILE_ACK", Head(rx).n, 0, "DATA") ELSE Nak("DATA"))
       /\ nextPacket' = nextPacket + IF ok /\ Room THEN 1 ELSE 0
  /\ UNCHANGED <<nextAck, lastPacket, fileVars, timerVars, state, failed, taskSet, linkVars>>

\* Fault: acknowledged without being written.
OutOfOrderAcked ==
  /\ Takes({"WRITE"}, {"DATA"}) /\ Head(rx).n # nextPacket % Counters
  /\ Send(Packet("FILE_ACK", Head(rx).n, 0, "DATA"))
  /\ UNCHANGED <<state, run, failed, open, counterVars, fileVars, timerVars, taskSet, linkVars>>

OutOfOrder ==   \* discarded without an answer
  /\ Takes({"WRITE"}, {"DATA"})
  /\ Head(rx).n # nextPacket % Counters
  /\ UNCHANGED <<state, run, failed, open, counterVars, fileVars, timerVars, taskSet,
                 tx, linkVars>>
-----------------------------------------------------------------------------
(* FS_CRS_State_Read.                                                       *)

FileAck ==   \* only the ACK of the oldest packet counts
  /\ Takes({"READ"}, {"FILE_ACK"})
  /\ IF Head(rx).n = nextAck % Counters
     THEN nextAck' = nextAck + 1 /\ timer' = TRUE
     ELSE UNCHANGED <<nextAck, timer>>
  /\ UNCHANGED <<nextPacket, lastPacket, timeoutFlag, state, run, failed, open, fileVars,
                 taskSet, tx, linkVars>>

CanRead ==
  /\ Room /\ nextPacket < nextAck + Window
  /\ lastPacket = NotYet \/ nextPacket < lastPacket

\* f_read moves the pointer by one frame; a stride beyond one seeks on.
ReadFrame ==
  /\ run = "send" /\ state = "READ" /\ CanRead /\ pos < Frames
  /\ \E ok \in Result("read") \cup (IF stride > 1 THEN Result("seek") ELSE {}) :
       IF ok THEN /\ Send(Packet("DATA", nextPacket % Counters, pos, "READ"))
                  /\ nextPacket' = nextPacket + 1
                  /\ pos' = Seek(pos + stride)
                  /\ UNCHANGED <<failed, run>>
             ELSE failed' = TRUE /\ run' = "leave" /\ UNCHANGED <<tx, nextPacket, pos>>
  /\ UNCHANGED <<state, open, nextAck, lastPacket, offset, stride, disk, timerVars, taskSet,
                 rx, linkVars>>

ReadEof ==
  /\ run = "send" /\ state = "READ" /\ CanRead /\ pos = Frames
  /\ Send(Packet("DATA", nextPacket % Counters, Eof, "READ"))
  /\ nextPacket' = nextPacket + 1 /\ lastPacket' = nextPacket + 1
  /\ UNCHANGED <<state, run, failed, open, nextAck, fileVars, timerVars, taskSet, rx,
                 linkVars>>
-----------------------------------------------------------------------------
(* FS_CRS_State_Dir.                                                        *)

ReadEntry ==   \* the last entry, the empty one, ends the listing
  /\ run = "send" /\ state = "DIR" /\ Room
  /\ \E ok \in Result("read") :
       IF ok THEN /\ Send(Packet("INFO", nextPacket % Counters, pos, "DIR"))
                  /\ nextPacket' = nextPacket + 1
                  /\ pos' = pos + 1
                  /\ run' = IF pos' = Entries THEN "leave" ELSE run
                  /\ UNCHANGED failed
             ELSE failed' = TRUE /\ run' = "leave" /\ UNCHANGED <<tx, nextPacket, pos>>
  /\ UNCHANGED <<state, open, nextAck, lastPacket, offset, stride, disk, timerVars, taskSet,
                 rx, linkVars>>
-----------------------------------------------------------------------------
(* The end of a run.                                                        *)

ReceiveDone ==   \* the receive loop ends
  /\ run = "receive" /\ rx = <<>>
  /\ run' = IF state \in {"READ", "DIR"} THEN "send" ELSE "off"
  /\ UNCHANGED <<state, failed, open, counterVars, fileVars, timerVars, taskSet, rx, tx,
                 linkVars>>

SendDone ==   \* the send loop ends
  /\ run = "send"
  /\ IF state = "READ" THEN ~CanRead ELSE ~Room
  /\ run' = IF state = "READ" /\ nextAck = lastPacket THEN "leave" ELSE "off"
  /\ UNCHANGED <<state, failed, open, counterVars, fileVars, timerVars, taskSet, rx, tx,
                 linkVars>>

\* The file is closed and FatFs released.
LeaveTransfer ==
  /\ run = "leave"
  /\ run' = "off" /\ state' = "IDLE"
  /\ open' = FALSE /\ failed' = FALSE
  /\ timer' = (timer /\ state = "DIR")
  /\ \E ok \in (IF open THEN Result("close") ELSE {TRUE}) :
       IF failed \/ ~ok THEN Send(Nak(IF state = "DIR" THEN "DIR" ELSE "DATA"))
                        ELSE UNCHANGED tx
  /\ UNCHANGED <<counterVars, fileVars, timeoutFlag, taskSet, rx, linkVars>>
-----------------------------------------------------------------------------
CrsInit ==
  /\ state = "IDLE" /\ run = "off" /\ failed = FALSE /\ open = FALSE
  /\ nextPacket = 0 /\ nextAck = 0 /\ lastPacket = 0
  /\ offset = 0 /\ stride = 0 /\ pos = 0 /\ disk = <<>>
  /\ timer = FALSE /\ timeoutFlag = FALSE /\ taskSet = FALSE
  /\ rx = <<>> /\ tx = <<>> /\ flow = TRUE /\ connected = TRUE

\* What a run does after it has been started.
TaskStep ==
  \/ Malformed \/ SimpleCommand \/ (\E t \in Transfers : OpenTransfer(t))
  \/ Ignored \/ Cancel \/ WriteFrame \/ WriteEof \/ OutOfOrder
  \/ FileAck \/ ReadFrame \/ ReadEof \/ ReadEntry
  \/ ReceiveDone \/ SendDone \/ LeaveTransfer

CrsTask == RunTask \/ TaskStep
=============================================================================
