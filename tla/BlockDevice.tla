---------------------------- MODULE BlockDevice ----------------------------
(***************************************************************************)
(* What the mass storage of the device promises the USB host: a block reads *)
(* back as it was last written, an error says so, what has been synchronized *)
(* is on the card, and the disk is handed back to the firmware (the card    *)
(* pulled out of the host's hands) only when the card holds all of it.      *)
(*                                                                         *)
(* Commands are served until the disk is gone.  One that comes while the    *)
(* device is leaving may cost its own block, or tear the whole disk; what   *)
(* is not torn is kept all the same.                                        *)
(***************************************************************************)
CONSTANTS Blocks, Data

VARIABLES disk,    \* the contents as the host sees them
          medium,  \* the contents of the card
          state,   \* "off"; "on"; "leaving", the device takes the disk back; "dead"
          torn,    \* the blocks that commands in between have cost
          answer   \* the last answer to the host, <<>> at first

vars == <<disk, medium, state, torn, answer>>

Contents == [Blocks -> Data]

Init ==
  /\ medium \in Contents /\ disk = medium
  /\ state = "off" /\ torn = {} /\ answer = <<>>

Served == state \in {"on", "leaving"}

\* An answer that is not an error tells the value of the disk.  A cache may clean up
\* on the way, so the card changes whatever the command.
Read(b) ==
  /\ Served
  /\ UNCHANGED <<state, torn, disk>>
  /\ answer' \in {<<b, disk[b]>>, <<"failed">>}
  /\ medium' \in Contents

\* A write that fails may have happened or not; no other block changes.
Write(b, v) ==
  /\ Served
  /\ UNCHANGED state
  /\ torn' = torn \/ (state = "leaving" /\ torn' = torn \cup {b})
  /\ \/ answer' \in {<<"done">>, <<"failed">>} /\ disk' = [disk EXCEPT ![b] = v]
     \/ answer' = <<"failed">> /\ UNCHANGED disk
  /\ medium' \in Contents

Sync ==
  /\ Served
  /\ UNCHANGED <<state, torn>>
  /\ answer' = <<"failed">> \/ (answer' = <<"done">> /\ medium' = disk)
  /\ medium' \in Contents /\ UNCHANGED disk

CleanUp ==   \* without a command of the host
  /\ Served
  /\ UNCHANGED <<state, torn, answer>>
  /\ medium' \in Contents /\ disk' \in Contents
  /\ \A b \in Blocks \ torn : disk'[b] = disk[b]

Ruin ==   \* a command that comes too late
  /\ state = "leaving"
  /\ torn' = Blocks
  /\ disk' \in Contents /\ medium' \in Contents
  /\ UNCHANGED state

Attach ==
  /\ state = "off" /\ state' = "on"
  /\ UNCHANGED <<disk, medium, torn, answer>>

Leave ==
  /\ state = "on" /\ state' = "leaving"
  /\ UNCHANGED <<disk, medium, torn, answer>>

Detach ==   \* everything but what is torn is on the card
  /\ state = "leaving" /\ state' = "off"
  /\ medium' \in Contents /\ disk' = medium'
  /\ \A b \in Blocks \ torn : disk'[b] = disk[b]
  /\ torn' = {} /\ answer' = <<>>

Die ==   \* the loss is announced: the firmware halts
  /\ Served /\ state' = "dead"
  /\ medium' \in Contents /\ disk' \in Contents
  /\ UNCHANGED <<torn, answer>>

FirmwareWrites ==   \* the firmware's own files, while the host has no disk
  /\ state = "off"
  /\ medium' \in Contents /\ disk' = medium'
  /\ UNCHANGED <<state, torn, answer>>

Next ==
  \/ Ruin \/ Sync \/ CleanUp
  \/ \E b \in Blocks : Read(b) \/ \E v \in Data : Write(b, v)
  \/ Attach \/ Leave \/ Detach \/ Die \/ FirmwareWrites

Spec == Init /\ [][Next]_vars
=============================================================================
