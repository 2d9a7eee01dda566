---------------------------- MODULE FileTransfer ----------------------------
(***************************************************************************)
(* File transfers between the device (Crs) and a client that behaves as      *)
(* CrsClient of Tools/flysight_ble.py does.  What the client writes arrives  *)
(* in the RX ring in order, unless it is lost on the way or finds the ring   *)
(* full; what the device sends arrives in the client's inbox in order, unless *)
(* it is lost.  The connection may break at any time.                        *)
(***************************************************************************)
EXTENDS Crs

CONSTANTS Operations,  \* the transfers the client asks for
          Offsets, Strides,  \* the offsets and strides it reads with, in frames
          Others,      \* what else it may write: PING, MK_DIR, malformed packets
          MaxOperations,  \* bound on them
          MaxRetries,  \* MAX_RETRIES, timeouts in a row before it gives up
          MaxMishaps,  \* bound on lost packets, broken connections, killed clients,
                       \* and packets of Others
          LinkLength   \* bound on the packets the client has not looked at

ASSUME OperationsAssumption ==
  /\ Operations \subseteq Transfers /\ Offsets \subseteq Nat /\ Strides \subseteq Nat \ {0}
  /\ Others \subseteq {"PING", "MK_DIR", "BAD"}

ASSUME BoundsAssumption ==
  MaxOperations \in Nat /\ MaxRetries \in Nat /\ MaxMishaps \in Nat /\ LinkLength \in Nat

VARIABLES
  op,        \* the operation of the client
  phase,     \* "off", "opening", "active", "done", "failed"
  acked,     \* UploadWindow.base: frames it takes for acknowledged
  sent,      \* UploadWindow.next
  got,       \* frames received, reading; entries, listing
  asked,     \* offset and stride of its READ
  retries,   \* timeouts in a row
  inbox,     \* packets not yet looked at
  stash,     \* those it keeps aside until the operation is open
  idle,      \* timeout_timer_id of the device: "off", "armed"; run out and its
             \* aci_gap_terminate "accepted" or "refused"
  operations, mishaps   \* counters of the bounds

clientVars == <<op, phase, acked, sent, got, asked, retries, inbox, stash>>
boundVars  == <<operations, mishaps>>
vars == <<crsVars, clientVars, idle, boundVars>>

TypeOK ==
  /\ CrsTypeOK
  /\ op \in Transfers \cup {"NONE"}
  /\ phase \in {"off", "opening", "active", "done", "failed"}
  /\ acked \in 0 .. Frames + 1 /\ sent \in 0 .. Frames + 1 /\ acked <= sent
  /\ got \in Seq(0 .. Frames + Entries) /\ asked \in Nat \X Nat
  /\ retries \in 0 .. MaxRetries
  /\ idle \in {"off", "armed", "accepted", "refused"}
-----------------------------------------------------------------------------
(* The link.                                                                *)

Busy == phase \in {"opening", "active"}

Mishap == mishaps < MaxMishaps /\ mishaps' = mishaps + 1

\* Every write that arrives starts the timer again, also one that finds the ring full;
\* a termination that is accepted it does not call off.
Rearm == idle' = IF idle = "accepted" THEN idle ELSE "armed"

\* p is written to FT_Packet_In while no task of the device runs.
Write(p) ==
  /\ run = "off"
  /\ \/ /\ rx' = Received(p) /\ UNCHANGED mishaps
        /\ taskSet' = (taskSet \/ Len(rx) < Window)
        /\ Rearm
     \/ /\ Mishap
        /\ UNCHANGED <<rx, taskSet, idle>>

\* A task that runs keeps the others of the device waiting.  What the client does
\* meanwhile it could as well do afterwards.
DeviceRest == UNCHANGED <<state, run, failed, open, counterVars, fileVars, timerVars, tx,
                          linkVars>>

\* The device hands a packet to the stack; a client with no operation under way
\* does not listen.
Transmit ==
  /\ TransmitDone
  /\ Len(inbox) + Len(stash) < LinkLength
  /\ \/ /\ inbox' = IF connected /\ Busy /\ Head(tx).cmd # "OTHER"
                    THEN Append(inbox, Head(tx)) ELSE inbox
        /\ UNCHANGED mishaps
     \/ connected /\ Busy /\ Head(tx).cmd # "OTHER" /\ Mishap
        /\ UNCHANGED inbox
  /\ UNCHANGED <<op, phase, acked, sent, got, asked, retries, stash, operations, idle>>

\* Custom_CRS_OnDisconnect; the client finds out.
Disconnect ==
  /\ run = "off" /\ connected
  /\ connected' = FALSE /\ taskSet' = TRUE /\ idle' = "off"
  /\ phase' = IF Busy THEN "failed" ELSE phase
  /\ inbox' = <<>> /\ stash' = <<>>
  /\ UNCHANGED <<state, run, failed, open, counterVars, fileVars, timerVars, rx, tx, flow,
                 op, acked, sent, got, asked, retries, operations>>

Break == Disconnect /\ Mishap

\* Custom_App_Timeout: nothing was written for 30 s.  It runs in the interrupt of the
\* timer, once, and leaves the status of aci_gap_terminate alone.  A client with an
\* operation under way writes, or pings, more often.
IdleExpires ==
  /\ idle = "armed" /\ ~Busy
  /\ idle' \in {"accepted", "refused"}
  /\ UNCHANGED <<crsVars, clientVars, boundVars>>

IdleDisconnect == Disconnect /\ idle = "accepted" /\ UNCHANGED mishaps

\* Custom_CRS_OnConnect.  That a central is back before the task of crs.c has run
\* counts as a mishap: advertising takes longer than any task.
Connect ==
  /\ run = "off" /\ ~connected
  /\ connected' = TRUE /\ rx' = <<>> /\ idle' = "armed"
  /\ IF taskSet THEN Mishap ELSE UNCHANGED mishaps
  /\ UNCHANGED <<state, run, failed, open, counterVars, fileVars, timerVars, taskSet, tx,
                 flow, clientVars, operations>>
-----------------------------------------------------------------------------
(* The client.                                                              *)

\* _begin, and the write of the command; a new inbox.
Begin(t) ==
  /\ connected /\ ~Busy /\ operations < MaxOperations
  /\ op' = t /\ phase' = "opening"
  /\ acked' = 0 /\ sent' = 0 /\ got' = <<>> /\ retries' = 0
  /\ inbox' = <<>> /\ stash' = <<>>
  /\ operations' = operations + 1
  /\ IF t = "READ" THEN \E o \in Offsets, s \in Strides :
                          asked' = <<o, s>> /\ Write(Packet(t, s, o, t))
                   ELSE asked' = <<0, 1>> /\ Write(Command(t))
  /\ DeviceRest

\* The operation ends with an error: _end sends a CANCEL.
Fail ==
  /\ phase' = "failed" /\ inbox' = <<>> /\ stash' = <<>>
  /\ Write(Command("CANCEL"))
  /\ UNCHANGED <<op, acked, sent, got, asked, retries>>

Pop == inbox # <<>> /\ run = "off"
Drop  == inbox' = Tail(inbox)
Quiet == UNCHANGED <<rx, taskSet, mishaps, idle>>

\* A NAK that refuses what the client has asked for.
Refusal(p) == p.cmd = "NAK" /\ p.of \notin {"PING", "CANCEL"}

\* _await_ack.  Whatever is not an ACK or a NAK is kept, and comes first again
\* when the operation is open.
AwaitAck ==
  /\ phase = "opening" /\ Pop
  /\ LET p == Head(inbox)
     IN \/ Refusal(p) /\ Fail
        \/ /\ p.cmd = "ACK" /\ p.of = op
           /\ phase' = "active" /\ inbox' = stash \o Tail(inbox) /\ stash' = <<>>
           /\ UNCHANGED <<op, acked, sent, got, asked, retries>> /\ Quiet
        \/ /\ p.cmd \in {"ACK", "NAK"} /\ ~Refusal(p) /\ ~(p.cmd = "ACK" /\ p.of = op)
           /\ Drop
           /\ UNCHANGED <<op, phase, acked, sent, got, asked, retries, stash>> /\ Quiet
        \/ /\ p.cmd \notin {"ACK", "NAK"}
           /\ Drop /\ stash' = Append(stash, p)
           /\ UNCHANGED <<op, phase, acked, sent, got, asked, retries>> /\ Quiet
  /\ UNCHANGED operations /\ DeviceRest

Refused ==
  /\ phase = "active" /\ Pop /\ Refusal(Head(inbox))
  /\ Fail
  /\ UNCHANGED operations /\ DeviceRest

Unexpected ==   \* read_file and write_file pass over it
  /\ phase = "active" /\ Pop
  /\ ~Refusal(Head(inbox))
  /\ Head(inbox).cmd \notin (CASE op = "WRITE" -> {"FILE_ACK"}
                               [] op = "READ"  -> {"DATA"} [] op = "DIR" -> {"INFO"})
  /\ Drop
  /\ UNCHANGED <<op, phase, acked, sent, got, asked, retries, stash>>
  /\ Quiet /\ UNCHANGED operations /\ DeviceRest

\* UploadWindow.pending: the empty packet waits for the ACKs of all frames.
Pending ==
  /\ sent < acked + Window /\ sent <= Frames
  /\ sent < Frames \/ acked = Frames

SendFrame ==
  /\ phase = "active" /\ op = "WRITE" /\ Pending
  /\ sent' = sent + 1
  /\ Write(Packet("DATA", sent % Counters, sent, "WRITE"))
  /\ UNCHANGED <<op, phase, acked, got, asked, retries, inbox, stash, operations>> /\ DeviceRest

\* UploadWindow.on_ack: an ACK of a frame in flight is one of all before it.
Ahead(n) == (n - acked) % Counters

AckedUpTo ==
  /\ phase = "active" /\ op = "WRITE" /\ ~Pending /\ Pop /\ Head(inbox).cmd = "FILE_ACK"
  /\ IF Ahead(Head(inbox).n) < sent - acked
     THEN acked' = acked + Ahead(Head(inbox).n) + 1 /\ retries' = 0
     ELSE UNCHANGED <<acked, retries>>
  /\ phase' = IF acked' > Frames THEN "done" ELSE phase
  /\ inbox' = IF phase' = "done" THEN <<>> ELSE Tail(inbox)
  /\ UNCHANGED <<op, sent, got, asked, stash, operations>>
  /\ Quiet /\ DeviceRest

\* read_file: the frame expected is taken; one it has had is acknowledged again;
\* one that is ahead is not.
ReceiveFrame ==
  /\ phase = "active" /\ op = "READ" /\ Pop /\ Head(inbox).cmd = "DATA"
  /\ LET p      == Head(inbox)
         behind == (Len(got) - p.n) % Counters
     IN /\ got' = IF behind = 0 /\ p.body # Eof THEN Append(got, p.body) ELSE got
        /\ retries' = IF behind = 0 THEN 0 ELSE retries
        /\ phase' = IF behind = 0 /\ p.body = Eof THEN "done" ELSE phase
        /\ inbox' = IF phase' = "done" THEN <<>> ELSE Tail(inbox)
        /\ IF behind <= Window THEN Write(Packet("FILE_ACK", p.n, 0, "DATA")) ELSE Quiet
  /\ UNCHANGED <<op, acked, sent, asked, stash, operations>> /\ DeviceRest

\* A listing is collected in the order of its counters; nothing is repeated.
ReceiveEntry ==
  /\ phase = "active" /\ op = "DIR" /\ Pop /\ Head(inbox).cmd = "INFO"
  /\ got' = Append(got, Head(inbox).body)
  /\ phase' = IF Head(inbox).body = Entries - 1 THEN "done" ELSE phase
  /\ inbox' = IF phase' = "done" THEN <<>> ELSE Tail(inbox)
  /\ UNCHANGED <<op, acked, sent, asked, retries, stash, operations>>
  /\ Quiet /\ DeviceRest

\* Nothing came for ACK_TIMEOUT or PACKET_TIMEOUT.  A read repeats its last ACK, an
\* upload goes back to the first frame not acknowledged.
ClientTimeout ==
  /\ Busy /\ inbox = <<>> /\ run = "off"
  /\ op = "WRITE" /\ phase = "active" => ~Pending
  /\ IF phase = "opening" \/ op = "DIR" \/ retries = MaxRetries THEN Fail
     ELSE /\ retries' = retries + 1
          /\ sent' = IF op = "WRITE" THEN acked ELSE sent
          /\ IF op = "READ" /\ got # <<>>
             THEN Write(Packet("FILE_ACK", (Len(got) - 1) % Counters, 0, "DATA"))
             ELSE Quiet
          /\ UNCHANGED <<op, phase, acked, got, asked, inbox, stash>>
  /\ UNCHANGED operations /\ DeviceRest

Abandon ==   \* the client is killed, without a CANCEL; the connection stays
  /\ Busy /\ run = "off" /\ Mishap
  /\ phase' = "failed" /\ inbox' = <<>> /\ stash' = <<>>
  /\ UNCHANGED <<op, acked, sent, got, asked, retries, operations>>
  /\ UNCHANGED <<rx, taskSet, idle>> /\ DeviceRest

OtherWrite(cmd) ==   \* the keep-alive PING, another user of the service
  /\ connected /\ run = "off" /\ Mishap
  /\ rx' = Received(Command(cmd)) /\ taskSet' = (taskSet \/ Len(rx) < Window)
  /\ Rearm
  /\ UNCHANGED <<clientVars, operations>> /\ DeviceRest
-----------------------------------------------------------------------------
Init ==
  /\ CrsInit
  /\ op = "NONE" /\ phase = "off" /\ acked = 0 /\ sent = 0 /\ got = <<>>
  /\ asked = <<0, 1>> /\ retries = 0 /\ inbox = <<>> /\ stash = <<>>
  /\ idle = "armed" /\ operations = 0 /\ mishaps = 0

Client ==
  \/ \E t \in Operations : Begin(t)
  \/ AwaitAck \/ Refused \/ Unexpected \/ SendFrame \/ AckedUpTo \/ ReceiveFrame
  \/ ReceiveEntry \/ ClientTimeout
  \/ \E cmd \in Others : OtherWrite(cmd)

Alone == UNCHANGED <<clientVars, idle, boundVars>>

Device ==
  /\ CrsTask \/ TimerExpires \/ TransmitRefused \/ PoolAvailable \/ OtherPacket
  /\ Alone

Next ==
  \/ Device \/ Transmit \/ Client \/ Break \/ Abandon \/ IdleExpires \/ IdleDisconnect
  \/ Connect

Spec == Init /\ [][Next]_vars

\* The sequencer comes back to a task that is set, timers expire, the stack frees
\* its buffers and carries out a termination that it accepted, and the client goes on
\* unless it is killed.  What waits out a run of
\* the task is enabled again and again, not always: fairness is strong there.
FairSpec ==
  /\ Spec
  /\ WF_vars(CrsTask /\ Alone) /\ WF_vars(TimerExpires /\ Alone)
  /\ WF_vars(PoolAvailable /\ Alone)
  /\ SF_vars(Transmit) /\ SF_vars(Client) /\ SF_vars(IdleExpires \/ IdleDisconnect)
-----------------------------------------------------------------------------
(* Properties.                                                              *)

Holds(n) == Len(disk) >= n /\ \A i \in 1 .. n : disk[i] = i - 1

\* During an upload the file is, up to the file pointer, the frames acknowledged so
\* far, each once and in order, whatever was repeated, lost, or rolled back because
\* its ACK found no buffer.
FileIsWhatWasAcked ==
  state = "WRITE" /\ run = "off" => pos = nextPacket /\ Holds(nextPacket)

\* What the client takes for acknowledged is in the file: a cumulative reading of
\* the ACKs skips nothing, although counters wrap.  An upload it reports as done is
\* whole and closed.
AckedIsWritten ==
  op = "WRITE" /\ phase \in {"active", "done"} =>
    /\ Holds(IF acked < Frames THEN acked ELSE Frames)
    /\ phase = "done" => Len(disk) = Frames /\ ~open

\* What a read or a listing has delivered is what was asked for, no frame missing,
\* repeated or out of place; when it is done, all of it.
ReceivedIsExact ==
  op = "READ" \/ (op = "DIR" /\ mishaps = 0) =>
    LET size == IF op = "READ" THEN Frames ELSE Entries
    IN /\ \A i \in DOMAIN got : got[i] = asked[1] + (i - 1) * asked[2] /\ got[i] < size
       /\ phase = "done" => asked[1] + Len(got) * asked[2] >= size

\* FatFs is given back, whatever becomes of the client and the link, unless the stack has
\* refused to end an idle link: the timer is not started again before the next write
\* (custom_app.c:870).
TransferEnds == state # "IDLE" ~> (state = "IDLE" \/ idle = "refused")
=============================================================================
