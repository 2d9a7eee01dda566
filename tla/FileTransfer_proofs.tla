-------------------------- MODULE FileTransfer_proofs --------------------------
(***************************************************************************)
(* Proofs about FileTransfer, for windows, counters and files of any size:   *)
(* its types; and, of one operation of the client, that an upload is what was *)
(* acknowledged, that what the client takes for acknowledged is in the file,  *)
(* and that what a read or a listing delivers is what was asked for.          *)
(*                                                                           *)
(* The packets carry counters, which wrap.  The invariant says of every       *)
(* packet on its way which number its counter stands for, by lifting the      *)
(* counter to a base that the receiver knows (Lift): a packet is never a      *)
(* window or more away from the number the receiver expects, and one that is  *)
(* behind another is never a window or more before it.  As there are at least *)
(* twice as many counters as a window has packets, the packet that is taken   *)
(* is the one expected.                                                      *)
(*                                                                           *)
(* Most steps leave the transfer where it is, and have that in common (Shape, *)
(* Still); the others are taken one by one.                                  *)
(***************************************************************************)
EXTENDS FileTransfer, SequenceTheorems, TLAPS

-----------------------------------------------------------------------------
(* Counters.                                                                *)

\* The number from b on, less than Counters away, that has the counter n.
Lift(n, b) == b + ((n - b) % Counters)

\* Euclid's division.
LEMMA Division ==
  ASSUME NEW n \in Nat \ {0}, NEW a \in Int
  PROVE  a % n \in 0 .. n - 1 /\ a \div n \in Int /\ a = n * (a \div n) + (a % n)
OBVIOUS

\* A remainder is found again whatever multiple of the modulus has been added.
LEMMA Remainder ==
  ASSUME NEW n \in Nat \ {0}, NEW r \in 0 .. n - 1, NEW k \in Int
  PROVE  (r + n * k) % n = r
<1> DEFINE a == r + n * k
<1> DEFINE q == a \div n
<1>1. n * k \in Int /\ a \in Int
  OBVIOUS
<1>2. q \in Int /\ a = n * q + (a % n) /\ a % n \in 0 .. n - 1
  BY <1>1, Division
<1> DEFINE m == a % n
<1>3. r - m = n * (q - k) /\ m \in 0 .. n - 1
  BY <1>1, <1>2
<1> HIDE DEF a, q, m
<1>4. CASE q - k <= -1
  <2>1. n * (q - k) <= -n BY <1>2, <1>4
  <2> QED BY <2>1, <1>3
<1>5. CASE q - k >= 1
  <2>1. n * (q - k) >= n BY <1>2, <1>5
  <2> QED BY <2>1, <1>3
<1>6. CASE q - k = 0
  <2>1. n * (q - k) = 0 BY <1>2, <1>6
  <2>2. m = r BY <2>1, <1>3
  <2> QED BY <2>2 DEF m, a
<1> QED BY <1>2, <1>4, <1>5, <1>6

\* A number less than Counters from the base is what its counter is taken for.
LEMMA LiftOfCounter ==
  ASSUME NEW b \in Int, NEW f \in Int, b <= f, f < b + Counters
  PROVE  Lift(f % Counters, b) = f /\ f % Counters \in 0 .. Counters - 1
<1> DEFINE q == f \div Counters
<1>1. Counters \in Nat \ {0}
  BY CountersAssumption, WindowAssumption
<1>2. q \in Int /\ f = Counters * q + (f % Counters) /\ f % Counters \in 0 .. Counters - 1
  BY <1>1, Division
<1> DEFINE n == f % Counters
<1>3. n \in 0 .. Counters - 1 /\ f = Counters * q + n
  BY <1>2
<1> HIDE DEF q, n
<1>4. n - b = (f - b) + Counters * (-q)
  BY <1>1, <1>2, <1>3
<1>5. f - b \in 0 .. Counters - 1 /\ -q \in Int
  BY <1>1, <1>2
<1>6. ((f - b) + Counters * (-q)) % Counters = f - b
  BY <1>1, <1>5, Remainder
<1> QED BY <1>3, <1>4, <1>5, <1>6 DEF Lift, n

\* Where a counter is lifted to, and that its own counter is the one it was lifted from.
LEMMA LiftRange ==
  ASSUME NEW b \in Int, NEW n \in 0 .. Counters - 1
  PROVE  /\ Lift(n, b) \in Int /\ b <= Lift(n, b) /\ Lift(n, b) < b + Counters
         /\ Lift(n, b) % Counters = n
<1> DEFINE r == (n - b) % Counters
<1> DEFINE q == (n - b) \div Counters
<1>1. Counters \in Nat \ {0}
  BY CountersAssumption, WindowAssumption
<1>2. n - b \in Int
  BY <1>1
<1>3. q \in Int /\ n - b = Counters * q + r /\ r \in 0 .. Counters - 1
  BY <1>1, <1>2, Division
<1> HIDE DEF q, r
<1>4. b + r = n + Counters * (-q) /\ -q \in Int
  BY <1>1, <1>3
<1>6. (n + Counters * (-q)) % Counters = n
  BY <1>1, <1>4, Remainder
<1>5. Lift(n, b) = b + r
  BY DEF Lift, r
<1> QED BY <1>1, <1>3, <1>4, <1>5, <1>6

\* The base may move as long as the number stays in reach.
LEMMA LiftMoves ==
  ASSUME NEW b \in Int, NEW c \in Int, NEW n \in 0 .. Counters - 1,
         c <= Lift(n, b), Lift(n, b) < c + Counters
  PROVE  Lift(n, c) = Lift(n, b)
BY LiftRange, LiftOfCounter
-----------------------------------------------------------------------------
(* Packets on their way.                                                    *)

Elems(s) == {s[i] : i \in 1 .. Len(s)}
Before(s, p, q) == \E i, j \in 1 .. Len(s) : i < j /\ s[i] = p /\ s[j] = q

\* From the device to the client: what it has received and not looked at, and what is
\* behind that in the TX ring.
Flight == Elems(inbox) \cup Elems(tx)
Leads(p, q) == \/ Before(inbox, p, q)
               \/ p \in Elems(inbox) /\ q \in Elems(tx)
               \/ Before(tx, p, q)

\* An empty sequence.
LEMMA ElemsEmpty ==
  Elems(<<>>) = {} /\ \A p, q : ~Before(<<>>, p, q)
BY DEF Elems, Before

\* A packet queued is behind all others.
LEMMA ElemsAppend ==
  ASSUME NEW S, NEW s \in Seq(S), NEW x \in S
  PROVE  /\ Append(s, x) \in Seq(S) /\ Append(s, x) # <<>> /\ Len(Append(s, x)) = Len(s) + 1
         /\ Elems(Append(s, x)) = Elems(s) \cup {x}
         /\ \A p, q : Before(Append(s, x), p, q) <=> Before(s, p, q) \/ (p \in Elems(s) /\ q = x)
<1> DEFINE t == Append(s, x)
<1>1. /\ t \in Seq(S) /\ Len(t) = Len(s) + 1 /\ t[Len(s) + 1] = x
      /\ \A i \in 1 .. Len(s) : t[i] = s[i]
  OBVIOUS
<1>2. Len(s) \in Nat
  OBVIOUS
<1> HIDE DEF t
<1>3. Elems(t) = Elems(s) \cup {x}
  <2>1. Elems(t) \subseteq Elems(s) \cup {x} BY <1>1, <1>2 DEF Elems
  <2>2. Elems(s) \subseteq Elems(t) BY <1>1, <1>2 DEF Elems
  <2>3. x \in Elems(t) BY <1>1, <1>2 DEF Elems
  <2> QED BY <2>1, <2>2, <2>3
<1>4. ASSUME NEW p, NEW q, Before(t, p, q) PROVE Before(s, p, q) \/ (p \in Elems(s) /\ q = x)
  <2>1. PICK i, j \in 1 .. Len(t) : i < j /\ t[i] = p /\ t[j] = q
    BY <1>4 DEF Before
  <2>2. i \in 1 .. Len(s) /\ s[i] = p
    BY <1>1, <1>2, <2>1
  <2>3. CASE j = Len(s) + 1
    BY <1>1, <2>1, <2>2, <2>3 DEF Elems
  <2>4. CASE j # Len(s) + 1
    BY <1>1, <1>2, <2>1, <2>2, <2>4 DEF Before
  <2> QED BY <2>3, <2>4
<1>5. ASSUME NEW p, NEW q, Before(s, p, q) PROVE Before(t, p, q)
  BY <1>1, <1>2, <1>5 DEF Before
<1>6. ASSUME NEW p, p \in Elems(s) PROVE Before(t, p, x)
  <2>1. PICK i \in 1 .. Len(s) : s[i] = p
    BY <1>6 DEF Elems
  <2> QED BY <1>1, <1>2, <2>1 DEF Before
<1>7. t # <<>>
  BY <1>1, <1>2
<1> QED BY <1>1, <1>3, <1>4, <1>5, <1>6, <1>7 DEF t

\* The packet at the head comes before all that is behind it.
LEMMA ElemsTail ==
  ASSUME NEW S, NEW s \in Seq(S), s # <<>>
  PROVE  /\ Head(s) \in S /\ Head(s) \in Elems(s)
         /\ Tail(s) \in Seq(S) /\ Len(Tail(s)) = Len(s) - 1 /\ Len(s) \in Nat \ {0}
         /\ Elems(s) = Elems(Tail(s)) \cup {Head(s)}
         /\ \A p, q : Before(Tail(s), p, q) => Before(s, p, q)
         /\ \A q \in Elems(Tail(s)) : Before(s, Head(s), q)
<1> DEFINE t == Tail(s)
<1>1. /\ t \in Seq(S) /\ Len(t) = Len(s) - 1 /\ Head(s) = s[1] /\ s[1] \in S
      /\ \A i \in 1 .. Len(t) : t[i] = s[i + 1]
  OBVIOUS
<1>2. Len(s) \in Nat /\ Len(s) >= 1
  OBVIOUS
<1> HIDE DEF t
<1>3. Elems(t) \subseteq Elems(s)
  BY <1>1, <1>2 DEF Elems
<1>4. s[1] \in Elems(s)
  BY <1>2 DEF Elems
<1>5. ASSUME NEW p, p \in Elems(s) PROVE p \in Elems(t) \cup {s[1]}
  <2>1. PICK i \in 1 .. Len(s) : s[i] = p
    BY <1>5 DEF Elems
  <2>2. CASE i = 1
    BY <2>1, <2>2
  <2>3. CASE i > 1
    <3>1. i - 1 \in 1 .. Len(t) /\ t[i - 1] = s[(i - 1) + 1]
      BY <1>1, <1>2, <2>1, <2>3
    <3>2. t[i - 1] = p
      BY <2>1, <3>1
    <3> QED BY <3>1, <3>2 DEF Elems
  <2> QED BY <2>1, <2>2, <2>3
<1>6. ASSUME NEW p, NEW q, Before(t, p, q) PROVE Before(s, p, q)
  <2>1. PICK i, j \in 1 .. Len(t) : i < j /\ t[i] = p /\ t[j] = q
    BY <1>6 DEF Before
  <2>2. /\ i + 1 \in 1 .. Len(s) /\ j + 1 \in 1 .. Len(s) /\ i + 1 < j + 1
        /\ s[i + 1] = p /\ s[j + 1] = q
    BY <1>1, <1>2, <2>1
  <2> QED BY <2>2 DEF Before
<1>7. ASSUME NEW q, q \in Elems(t) PROVE Before(s, s[1], q)
  <2>1. PICK i \in 1 .. Len(t) : t[i] = q
    BY <1>7 DEF Elems
  <2>2. i + 1 \in 1 .. Len(s) /\ 1 \in 1 .. Len(s) /\ 1 < i + 1 /\ s[i + 1] = q
    BY <1>1, <1>2, <2>1
  <2> QED BY <2>2 DEF Before
<1> QED BY <1>1, <1>2, <1>3, <1>4, <1>5, <1>6, <1>7 DEF t

\* What comes before another is in the sequence, and so is the other.
LEMMA BeforeIsIn ==
  ASSUME NEW s, NEW p, NEW q, Before(s, p, q)
  PROVE  p \in Elems(s) /\ q \in Elems(s)
BY DEF Before, Elems
-----------------------------------------------------------------------------
(* Types.                                                                   *)

Cmds == Transfers \cup {"PING", "MK_DIR", "BAD", "CANCEL", "DATA", "FILE_ACK", "ACK", "NAK",
                        "INFO", "OTHER"}
Packets == {p \in [cmd : Cmds, n : Nat, body : Nat, of : Cmds] :
              /\ p.cmd = "DATA" => p.body <= Frames
              /\ p.cmd = "INFO" => p.body < Entries
              /\ p.cmd = "READ" => p.n > 0}

\* The rings hold packets, an upload stays within what has been written of the file, and a
\* listing within the directory.
ITypes ==
  /\ TypeOK
  /\ rx \in Seq(Packets) /\ tx \in Seq(Packets) /\ inbox \in Seq(Packets) /\ stash \in Seq(Packets)
  /\ operations \in Nat /\ mishaps \in Nat
  /\ state = "WRITE" => pos <= Len(disk)
  /\ state = "DIR" /\ run # "leave" => pos < Entries
  /\ run = "send" => state \in {"READ", "DIR"}

\* The length to which FS_CRS_SendPacket cuts what it is given.
LEMMA MinOfTwo ==
  ASSUME NEW a \in Int, NEW b \in Int
  PROVE  Min({a, b}) = IF a <= b THEN a ELSE b
<1>1. \E x \in {a, b} : \A y \in {a, b} : x <= y
  OBVIOUS
<1> QED BY <1>1 DEF Min

\* A ring that has room takes the packet, one that is full nothing.
LEMMA Sends ==
  ASSUME NEW p \in Packets, tx \in Seq(Packets), Len(tx) <= Window, Send(p)
  PROVE  tx' = IF Room THEN Append(tx, p) ELSE tx
<1> DEFINE s == tx \o <<p>>
<1>1. s = Append(tx, p) /\ s \in Seq(Packets) /\ Len(s) = Len(tx) + 1
  OBVIOUS
<1>2. Window \in Nat /\ Len(s) \in Nat
  BY <1>1, WindowAssumption
<1>3. tx' = SubSeq(s, 1, IF Window <= Len(s) THEN Window ELSE Len(s))
  <2>1. Min({Window, Len(s)}) = IF Window <= Len(s) THEN Window ELSE Len(s)
    BY <1>2, MinOfTwo
  <2> QED BY <2>1 DEF Send, SendAll
<1>4. CASE Room
  <2>1. tx' = SubSeq(s, 1, Len(s))
    BY <1>1, <1>2, <1>3, <1>4 DEF Room
  <2> HIDE DEF s
  <2>2. tx' = s
    BY <1>1, <2>1
  <2> QED BY <1>1, <1>4, <2>2
<1>5. CASE ~Room
  <2>1. tx' = SubSeq(s, 1, Len(tx))
    BY <1>1, <1>2, <1>3, <1>5 DEF Room
  <2>2. SubSeq(s, 1, Len(tx)) = tx
    BY <1>1
  <2> QED BY <1>5, <2>1, <2>2
<1> QED BY <1>4, <1>5

\* Two packets in a row.
LEMMA SendsTwice ==
  ASSUME NEW p \in Packets, tx \in Seq(Packets), Len(tx) <= Window, SendAll(<<p, p>>)
  PROVE  /\ tx' \in {tx, Append(tx, p), Append(Append(tx, p), p)}
         /\ Len(tx') <= Window
<1> DEFINE s == Append(Append(tx, p), p)
<1>1. s = tx \o <<p, p>> /\ s \in Seq(Packets) /\ Len(s) = Len(tx) + 2
  OBVIOUS
<1>2. Window \in Nat /\ Len(tx) \in Nat
  BY WindowAssumption
<1>3. tx' = SubSeq(s, 1, IF Window <= Len(s) THEN Window ELSE Len(s))
  <2>1. Min({Window, Len(s)}) = IF Window <= Len(s) THEN Window ELSE Len(s)
    BY <1>1, <1>2, MinOfTwo
  <2> QED BY <1>1, <2>1 DEF SendAll
<1>4. SubSeq(s, 1, Len(tx)) = tx /\ SubSeq(s, 1, Len(tx) + 1) = Append(tx, p)
      /\ SubSeq(s, 1, Len(tx) + 2) = s
  <2>1. SubSeq(s, 1, Len(tx)) = tx OBVIOUS
  <2>2. SubSeq(s, 1, Len(tx) + 1) = Append(tx, p) OBVIOUS
  <2>3. SubSeq(s, 1, Len(tx) + 2) = s OBVIOUS
  <2> QED BY <2>1, <2>2, <2>3
<1> HIDE DEF s
<1>5. CASE Window = Len(tx)
  <2>1. tx' = SubSeq(s, 1, Window) BY <1>1, <1>2, <1>3, <1>5
  <2>2. tx' = tx BY <2>1, <1>4, <1>5
  <2> QED BY <2>2, <1>5
<1>6. CASE Window = Len(tx) + 1
  <2>1. tx' = Append(tx, p) BY <1>1, <1>2, <1>3, <1>4, <1>6
  <2> QED BY <2>1, <1>6
<1>7. CASE Window >= Len(tx) + 2
  <2>1. tx' = s BY <1>1, <1>2, <1>3, <1>4, <1>7
  <2> QED BY <2>1, <1>1, <1>7 DEF s
<1> QED BY <1>2, <1>5, <1>6, <1>7

\* The packets that the device and the client put together.
LEMMA PacketsTyped ==
  /\ \A c \in Cmds \ {"DATA", "INFO", "READ"} : Command(c) \in Packets
  /\ \A c \in Cmds : Ack(c) \in Packets /\ Nak(c) \in Packets
  /\ \A n \in Nat, b \in 0 .. Frames, o \in Cmds : Packet("DATA", n, b, o) \in Packets
  /\ \A n \in Nat, o \in Cmds : Packet("FILE_ACK", n, 0, o) \in Packets
  /\ \A n \in Nat, b \in Nat, o \in Cmds : b < Entries => Packet("INFO", n, b, o) \in Packets
  /\ \A n \in Nat \ {0}, b \in Nat, o \in Cmds : Packet("READ", n, b, o) \in Packets
BY DEF Packets, Packet, Command, Ack, Nak, Cmds, Transfers

\* The commands and answers there are.
LEMMA CmdsTyped == /\ Transfers \subseteq Cmds
                   /\ {"READ", "WRITE", "DIR", "PING", "MK_DIR", "BAD", "CANCEL", "DATA",
                       "FILE_ACK", "ACK", "NAK", "INFO", "OTHER"} = Cmds
BY DEF Cmds, Transfers

\* A window is less than half of the counters.
LEMMA CountersTyped ==
  /\ Counters \in Nat \ {0} /\ Window \in Nat \ {0} /\ Counters >= 2 * Window
  /\ Window < Counters
  /\ \A a \in Int : a % Counters \in 0 .. Counters - 1 /\ a % Counters \in Nat
BY Division, CountersAssumption, WindowAssumption

\* Custom_CRS_OnRxWrite keeps the RX ring within its length.
LEMMA Receives ==
  ASSUME ITypes, NEW p \in Packets
  PROVE  Received(p) \in Seq(Packets) /\ Len(Received(p)) <= Window
BY ElemsAppend, WindowAssumption DEF ITypes, TypeOK, CrsTypeOK, Received

\* FS_CRS_SendPacket keeps the TX ring within its length.
LEMMA SendTyped ==
  ASSUME ITypes, NEW p \in Packets, Send(p)
  PROVE  tx' \in Seq(Packets) /\ Len(tx') <= Window
<1>1. tx \in Seq(Packets) /\ Len(tx) <= Window
  BY DEF ITypes, TypeOK, CrsTypeOK
<1>2. tx' = IF Room THEN Append(tx, p) ELSE tx
  BY <1>1, Sends
<1> QED BY <1>1, <1>2, ElemsAppend, WindowAssumption DEF Room

\* So does a write of the client the RX ring.
LEMMA WriteTyped ==
  ASSUME ITypes, NEW p \in Packets, Write(p)
  PROVE  rx' \in Seq(Packets) /\ Len(rx') <= Window /\ taskSet' \in BOOLEAN /\ mishaps' \in Nat
<1>1. rx \in Seq(Packets) /\ Len(rx) <= Window /\ taskSet \in BOOLEAN /\ mishaps \in Nat
  BY DEF ITypes, TypeOK, CrsTypeOK
<1>2. Received(p) \in Seq(Packets) /\ Len(Received(p)) <= Window
  BY Receives
<1>3. taskSet' \in BOOLEAN /\ mishaps' \in Nat
  <2>1. taskSet' = taskSet \/ taskSet' = (taskSet \/ Len(rx) < Window)
    BY DEF Write
  <2>2. taskSet' \in BOOLEAN
    BY <2>1, <1>1
  <2>3. mishaps' = mishaps \/ mishaps' = mishaps + 1
    BY DEF Write, Mishap
  <2> QED BY <2>2, <2>3, <1>1
<1>4. rx' \in {rx, Received(p)}
  BY DEF Write
<1> QED BY <1>1, <1>2, <1>3, <1>4

\* Where a read begins again.
LEMMA ProductTyped ==
  ASSUME NEW a \in Nat, NEW k \in Nat, NEW s \in Nat
  PROVE  a + k * s \in Nat
OBVIOUS

\* What the head of a ring is.
LEMMA TakesTyped ==
  ASSUME ITypes, NEW ss, NEW cmds, Takes(ss, cmds)
  PROVE  /\ Head(rx) \in Packets /\ Head(rx).cmd \in cmds /\ rx # <<>>
         /\ rx' = Tail(rx) /\ rx' \in Seq(Packets) /\ Len(rx') <= Window
         /\ run = "receive" /\ state \in ss
<1>1. rx \in Seq(Packets) /\ Len(rx) <= Window /\ rx # <<>>
  BY DEF ITypes, TypeOK, CrsTypeOK, Takes
<1> QED BY <1>1, ElemsTail, WindowAssumption DEF Takes

\* At first the rings are empty.
LEMMA TypesInit == Init => ITypes
<1> SUFFICES ASSUME Init PROVE ITypes
  OBVIOUS
<1> USE DEF Init, CrsInit
<1>1. CrsTypeOK
  <2>1. Len(rx) <= Window /\ Len(tx) <= Window
    BY WindowAssumption
  <2>2. nextPacket \in Nat /\ nextAck \in Nat /\ lastPacket \in Nat \cup {NotYet}
        /\ offset \in Nat /\ stride \in Nat /\ pos \in Nat /\ disk \in Seq(0 .. Torn)
    OBVIOUS
  <2> QED BY <2>1, <2>2 DEF CrsTypeOK
<1>2. TypeOK
  <2>1. acked \in 0 .. Frames + 1 /\ sent \in 0 .. Frames + 1 /\ acked <= sent
    BY FramesAssumption
  <2>2. retries \in 0 .. MaxRetries
    BY BoundsAssumption
  <2>3. got \in Seq(0 .. Frames + Entries) /\ asked \in Nat \X Nat
    OBVIOUS
  <2> QED BY <1>1, <2>1, <2>2, <2>3 DEF TypeOK
<1> QED BY <1>2 DEF ITypes

\* What is left to show of a step of the device.
CrsTypesNext ==
  /\ CrsTypeOK' /\ rx' \in Seq(Packets) /\ tx' \in Seq(Packets)
  /\ state' = "WRITE" => pos' <= Len(disk')
  /\ state' = "DIR" /\ run' # "leave" => pos' < Entries
  /\ run' = "send" => state' \in {"READ", "DIR"}

\* The outcome of a command that begins a transfer.
OpenOutcome(t, ok, begins) ==
  /\ begins => ok /\ Room
  /\ disk' = IF t = "WRITE" /\ ok THEN <<>> ELSE disk
  /\ state' = (IF begins THEN t ELSE state) /\ run' = (IF begins THEN "off" ELSE run)
  /\ open' = begins /\ UNCHANGED <<failed, linkVars>>
  /\ timeoutFlag' = (timeoutFlag /\ (~begins \/ t = "DIR"))
  /\ timer' = (timer \/ (begins /\ t # "DIR"))
  /\ taskSet' = (taskSet \/ (begins /\ t # "WRITE"))
  /\ IF t = "READ" /\ ok
     THEN /\ offset' = Head(rx).body /\ stride' = Head(rx).n
          /\ pos' = Seek(Head(rx).body)
          /\ nextPacket' = 0 /\ nextAck' = 0 /\ lastPacket' = NotYet
     ELSE /\ nextPacket' = IF begins THEN 0 ELSE nextPacket
          /\ pos' = IF ok THEN 0 ELSE pos
          /\ UNCHANGED <<offset, stride, nextAck, lastPacket>>

\* What becomes of the variables that READ, WRITE and READ_DIR set.
LEMMA OpenOutcomes ==
  ASSUME NEW t \in Transfers, OpenTransfer(t)
  PROVE  \E ok \in BOOLEAN, begins \in BOOLEAN : OpenOutcome(t, ok, begins)
<1>1. \A call : Result(call) \subseteq BOOLEAN
  BY DEF Result
<1>2. PICK ok \in Result("open"), found \in (IF t = "READ" THEN Result("seek") ELSE {TRUE}) :
       LET begins == ok /\ found /\ Room
       IN /\ disk' = IF t = "WRITE" /\ ok THEN <<>> ELSE disk
          /\ state' = (IF begins THEN t ELSE state) /\ run' = (IF begins THEN "off" ELSE run)
          /\ open' = begins /\ UNCHANGED failed
          /\ timeoutFlag' = (timeoutFlag /\ (~begins \/ t = "DIR"))
          /\ timer' = (timer \/ (begins /\ t # "DIR"))
          /\ taskSet' = (taskSet \/ (begins /\ t # "WRITE"))
          /\ IF t = "READ" /\ ok
             THEN /\ offset' = Head(rx).body /\ stride' = Head(rx).n
                  /\ pos' = Seek(Head(rx).body)
                  /\ nextPacket' = 0 /\ nextAck' = 0 /\ lastPacket' = NotYet
             ELSE /\ nextPacket' = IF begins THEN 0 ELSE nextPacket
                  /\ pos' = IF ok THEN 0 ELSE pos
                  /\ UNCHANGED <<offset, stride, nextAck, lastPacket>>
  BY ZenonT(60) DEF OpenTransfer
<1> DEFINE begins == ok /\ found /\ Room
<1>3. UNCHANGED linkVars
  BY DEF OpenTransfer
<1>4. OpenOutcome(t, ok, begins)
  BY <1>2, <1>3, Zenon DEF OpenOutcome
<1>5. begins \in BOOLEAN /\ ok \in BOOLEAN
  BY <1>1, <1>2
<1> QED BY <1>4, <1>5

\* A command that opens a transfer keeps the types.
LEMMA OpenTransferTypes ==
  ASSUME ITypes, NEW t \in Transfers, OpenTransfer(t)
  PROVE  CrsTypesNext
<1> USE DEF ITypes, TypeOK, CrsTypeOK, counterVars, fileVars, timerVars, linkVars
<1>1. Takes({"IDLE"}, {t})
  BY DEF OpenTransfer
<1>2. /\ Head(rx) \in Packets /\ Head(rx).cmd = t /\ state = "IDLE" /\ run = "receive"
      /\ rx' \in Seq(Packets) /\ Len(rx') <= Window
  BY <1>1, TakesTyped
<1>3. Ack(t) \in Packets /\ Nak(t) \in Packets
  BY PacketsTyped DEF Cmds
<1>4. tx' \in Seq(Packets) /\ Len(tx') <= Window
  <2>1. PICK p \in Packets : Send(p)
    BY <1>3 DEF OpenTransfer
  <2> QED BY <2>1, SendTyped
<1>5. PICK ok \in BOOLEAN, begins \in BOOLEAN : OpenOutcome(t, ok, begins)
  BY OpenOutcomes
<1> USE <1>5 DEF OpenOutcome
<1>6. Seek(Head(rx).body) \in Nat /\ Head(rx).body \in Nat /\ Head(rx).n \in Nat
  BY <1>2, FramesAssumption DEF Packets, Seek
<1>7. timeoutFlag' \in BOOLEAN /\ timer' \in BOOLEAN /\ taskSet' \in BOOLEAN
      /\ open' \in BOOLEAN /\ failed' \in BOOLEAN /\ flow' \in BOOLEAN /\ connected' \in BOOLEAN
  BY <1>5
<1>8. /\ nextPacket' \in Nat /\ nextAck' \in Nat /\ lastPacket' \in Nat \cup {NotYet}
      /\ offset' \in Nat /\ stride' \in Nat /\ pos' \in Nat
  <2>1. CASE t = "READ" /\ ok
    <3>1. /\ offset' = Head(rx).body /\ stride' = Head(rx).n /\ pos' = Seek(Head(rx).body)
          /\ nextPacket' = 0 /\ nextAck' = 0 /\ lastPacket' = NotYet
      BY ONLY <2>1, <1>5 DEF OpenOutcome
    <3> QED BY ONLY <3>1, <1>6
  <2>2. CASE ~(t = "READ" /\ ok)
    <3>1. /\ nextPacket' \in {0, nextPacket} /\ pos' \in {0, pos}
          /\ UNCHANGED <<offset, stride, nextAck, lastPacket>>
      BY ONLY <2>2, <1>5 DEF OpenOutcome
    <3> QED BY <3>1
  <2> QED BY <2>1, <2>2
<1>9. disk' \in Seq(0 .. Torn) /\ state' \in Transfers \cup {"IDLE"} /\ run' \in {"off", "receive"}
  <2>1. disk' = <<>> \/ disk' = disk
    OBVIOUS
  <2>2. state' \in Transfers \cup {"IDLE"}
    OBVIOUS
  <2>3. run' \in {"off", "receive"}
    BY <1>2
  <2>4. disk' \in Seq(0 .. Torn)
    <3>1. <<>> \in Seq(0 .. Torn) BY EmptySeq
    <3> QED BY <2>1, <3>1
  <2> QED BY <2>2, <2>3, <2>4
<1>10. state' = "WRITE" => pos' <= Len(disk')
  BY <1>2, <1>5
<1>11. state' = "DIR" => pos' < Entries
  BY <1>2, <1>5, FramesAssumption
<1> QED BY <1>2, <1>4, <1>7, <1>8, <1>9, <1>10, <1>11 DEF CrsTypesNext

\* What a write at the file pointer leaves.
LEMMA PutTyped ==
  ASSUME ITypes, state = "WRITE", NEW x \in 0 .. Torn
  PROVE  /\ Put(x) \in Seq(0 .. Torn)
         /\ Len(Put(x)) = (IF pos < Len(disk) THEN Len(disk) ELSE pos + 1)
         /\ Put(x)[pos + 1] = x /\ \A i \in 1 .. pos : Put(x)[i] = disk[i]
<1>1. disk \in Seq(0 .. Torn) /\ pos \in 0 .. Len(disk) /\ Len(disk) \in Nat
  BY DEF ITypes, TypeOK, CrsTypeOK
<1>0. \A i \in 1 .. Len(disk) : disk[i] \in 0 .. Torn
  BY <1>1, ElementOfSeq
<1> DEFINE a == SubSeq(disk, 1, pos)
<1> DEFINE b == SubSeq(disk, pos + 2, Len(disk))
<1>2. a \in Seq(0 .. Torn) /\ Len(a) = pos /\ \A i \in 1 .. pos : a[i] = disk[i]
  <2>1. \A i \in 1 .. pos : disk[i] \in 0 .. Torn
    BY <1>1, <1>0
  <2> QED BY <1>1, <2>1, SubSeqProperties
<1>3. b \in Seq(0 .. Torn) /\ Len(b) = IF pos < Len(disk) THEN Len(disk) - pos - 1 ELSE 0
  <2>1. \A i \in pos + 2 .. Len(disk) : disk[i] \in 0 .. Torn
    BY <1>1, <1>0
  <2>2. pos + 2 \in Int /\ Len(disk) \in Int
    BY <1>1
  <2>3. b \in Seq(0 .. Torn) /\ Len(b) = IF pos + 2 <= Len(disk) THEN Len(disk) - (pos + 2) + 1 ELSE 0
    BY <2>1, <2>2, SubSeqProperties
  <2> QED BY <1>1, <2>3
<1> HIDE DEF a, b
<1>4. a \o <<x>> \in Seq(0 .. Torn) /\ Len(a \o <<x>>) = pos + 1
      /\ (a \o <<x>>)[pos + 1] = x /\ \A i \in 1 .. pos : (a \o <<x>>)[i] = disk[i]
  <2>1. a \o <<x>> = Append(a, x)
    BY <1>2, AppendIsConcat
  <2> QED BY <1>1, <1>2, <2>1, AppendProperties
<1>5. Put(x) = (a \o <<x>>) \o b
  BY DEF Put, a, b
<1> DEFINE c == a \o <<x>>
<1>6. c \in Seq(0 .. Torn) /\ Len(c) = pos + 1
      /\ c[pos + 1] = x /\ (\A i \in 1 .. pos : c[i] = disk[i]) /\ Put(x) = c \o b
  BY <1>4, <1>5
<1> HIDE DEF c
<1>7. /\ c \o b \in Seq(0 .. Torn) /\ Len(c \o b) = Len(c) + Len(b)
      /\ \A i \in 1 .. Len(c) + Len(b) : (c \o b)[i] = IF i <= Len(c) THEN c[i] ELSE b[i - Len(c)]
  BY <1>3, <1>6, ConcatProperties
<1>8. Len(b) \in Nat
  BY <1>3
<1>9. Len(c \o b) = IF pos < Len(disk) THEN Len(disk) ELSE pos + 1
  <2>1. CASE pos < Len(disk)
    <3>1. Len(b) = Len(disk) - pos - 1 BY <1>3, <2>1
    <3> QED BY <1>1, <1>6, <1>7, <2>1, <3>1
  <2>2. CASE ~(pos < Len(disk))
    <3>1. Len(b) = 0 BY <1>3, <2>2
    <3> QED BY <1>1, <1>6, <1>7, <2>2, <3>1
  <2> QED BY <2>1, <2>2
<1>10. (c \o b)[pos + 1] = x /\ \A i \in 1 .. pos : (c \o b)[i] = disk[i]
  BY <1>1, <1>6, <1>7, <1>8
<1> QED BY <1>6, <1>7, <1>9, <1>10

\* So does a frame that is written, torn, or taken back.
LEMMA WriteFrameTypes ==
  ASSUME ITypes, WriteFrame
  PROVE  CrsTypesNext
<1>1. /\ Head(rx) \in Packets /\ Head(rx).cmd = "DATA" /\ state = "WRITE" /\ run = "receive"
      /\ rx' \in Seq(Packets) /\ Len(rx') <= Window
  <2>1. Takes({"WRITE"}, {"DATA"})
    BY DEF WriteFrame
  <2> QED BY <2>1, TakesTyped
<1>2. Head(rx).body \in 0 .. Torn /\ Torn \in 0 .. Torn
  BY <1>1, FramesAssumption DEF Packets, Torn
<1>3. PICK whole \in BOOLEAN, back \in BOOLEAN :
        /\ disk' \in IF whole THEN {Put(Head(rx).body)} ELSE {disk, Put(Torn)}
        /\ IF whole /\ Room
           THEN /\ pos' = pos + 1 /\ nextPacket' = nextPacket + 1
                /\ timer' = TRUE /\ UNCHANGED run
           ELSE /\ run' = IF back THEN run ELSE "leave"
                /\ UNCHANGED <<pos, nextPacket, timer>>
        /\ SendAll(CASE whole         -> <<Packet("FILE_ACK", Head(rx).n, 0, "DATA")>>
                     [] ~whole /\ back -> <<Nak("DATA")>>
                     [] OTHER         -> <<Nak("DATA"), Nak("DATA")>>)
  BY DEF WriteFrame, Result
<1>4. tx' \in Seq(Packets) /\ Len(tx') <= Window
  <2>1. Packet("FILE_ACK", Head(rx).n, 0, "DATA") \in Packets /\ Nak("DATA") \in Packets
    BY <1>1, PacketsTyped DEF Packets, Cmds
  <2>2. (\E p \in Packets : Send(p)) \/ SendAll(<<Nak("DATA"), Nak("DATA")>>)
    BY <1>3, <2>1 DEF Send
  <2>3. ASSUME SendAll(<<Nak("DATA"), Nak("DATA")>>)
        PROVE  tx' \in Seq(Packets) /\ Len(tx') <= Window
    <3>1. tx \in Seq(Packets) /\ Len(tx) <= Window
      BY DEF ITypes, TypeOK, CrsTypeOK
    <3>2. tx' \in {tx, Append(tx, Nak("DATA")), Append(Append(tx, Nak("DATA")), Nak("DATA"))}
          /\ Len(tx') <= Window
      BY <2>1, <2>3, <3>1, SendsTwice
    <3> QED BY <2>1, <3>1, <3>2, ElemsAppend
  <2> QED BY <2>2, <2>3, SendTyped
<1>5. disk \in Seq(0 .. Torn) /\ pos \in Nat /\ pos <= Len(disk) /\ nextPacket \in Nat
  BY <1>1 DEF ITypes, TypeOK, CrsTypeOK
<1>6. disk' \in Seq(0 .. Torn) /\ pos' \in Nat /\ pos' <= Len(disk') /\ nextPacket' \in Nat
  <2>1. CASE whole
    <3>1. disk' = Put(Head(rx).body)
      BY <1>3, <2>1
    <3>2. pos' \in {pos, pos + 1} /\ nextPacket' \in {nextPacket, nextPacket + 1}
      BY <1>3
    <3>3. disk' \in Seq(0 .. Torn) /\ Len(disk') >= pos + 1
      BY <1>1, <1>2, <1>5, <3>1, PutTyped
    <3> QED BY <1>5, <3>2, <3>3
  <2>2. CASE ~whole
    <3>1. disk' = disk \/ disk' = Put(Torn)
      BY <1>3, <2>2
    <3> QED BY <1>1, <1>2, <1>3, <1>5, <2>2, <3>1, PutTyped
  <2> QED BY <2>1, <2>2
<1>7. run' \in {"receive", "leave"} /\ timer' \in BOOLEAN
  BY <1>1, <1>3 DEF ITypes, TypeOK, CrsTypeOK
<1>8. UNCHANGED <<nextAck, lastPacket, offset, stride, timeoutFlag, state, failed, open,
                  taskSet, linkVars>>
  BY DEF WriteFrame
<1> QED BY <1>1, <1>4, <1>6, <1>7, <1>8 DEF CrsTypesNext, ITypes, TypeOK, CrsTypeOK, linkVars

\* The device.
LEMMA DeviceTypes ==
  ASSUME ITypes, Device
  PROVE  ITypes'
<1>1. UNCHANGED <<clientVars, boundVars>> /\ (CrsTask \/ TimerExpires \/ TransmitRefused
                                              \/ PoolAvailable \/ OtherPacket)
  BY DEF Device, Alone
<1>2. SUFFICES CrsTypesNext
  <2>1. idle' = idle
    BY DEF Device, Alone
  <2> QED BY <1>1, <2>1 DEF CrsTypesNext, ITypes, TypeOK, clientVars, boundVars
<1> USE DEF CrsTypesNext, ITypes, TypeOK, CrsTypeOK, counterVars, fileVars, timerVars, linkVars
<1>3. CASE TimerExpires \/ TransmitRefused \/ PoolAvailable
  BY <1>3, ZenonT(40) DEF TimerExpires, TransmitRefused, PoolAvailable
<1>4. CASE OtherPacket
  BY <1>4, ElemsAppend, WindowAssumption, PacketsTyped, Receives
     DEF OtherPacket, Room, Packets, Packet, Cmds
<1>5. CASE RunTask
  <2>1. /\ run = "off" /\ taskSet' = FALSE /\ run' \in {"leave", "receive"}
        /\ UNCHANGED <<state, open, offset, stride, disk, rx, tx, linkVars>>
    BY <1>5 DEF RunTask
  <2>2. CASE state = "READ" /\ timeoutFlag
    <3>1. Rewind
      BY <1>5, <2>2 DEF RunTask
    <3>2. offset + nextAck * stride \in Nat
      BY ProductTyped
    <3>3. Seek(offset + nextAck * stride) \in Nat
      BY <3>2, FramesAssumption DEF Seek
    <3>4. pos' \in Nat /\ nextPacket' = nextAck /\ UNCHANGED <<nextAck, lastPacket>>
          /\ failed' \in BOOLEAN /\ timer' \in BOOLEAN /\ timeoutFlag' = FALSE
      BY <3>1, <3>3 DEF Rewind
    <3> QED BY <2>1, <2>2, <3>4
  <2>3. CASE ~(state = "READ" /\ timeoutFlag)
    <3>1. UNCHANGED <<counterVars, pos, failed, timerVars>>
      BY <1>5, <2>3 DEF RunTask
    <3> QED BY <2>1, <3>1, ZenonT(40)
  <2> QED BY <2>2, <2>3
<1>6. CASE TaskStep
  <2>1. CASE Malformed
    <3>1. Nak("BAD") \in Packets /\ Send(Nak("BAD"))
      BY <2>1, PacketsTyped DEF Malformed, Cmds
    <3> QED BY <2>1, <3>1, SendTyped, TakesTyped DEF Malformed
  <2>2. CASE SimpleCommand
    <3>1. PICK p \in Packets : Send(p)
      <4>1. Takes({"IDLE"}, {"PING", "MK_DIR", "CANCEL", "DATA", "FILE_ACK"})
        BY <2>2 DEF SimpleCommand
      <4>2. Head(rx).cmd \in Cmds
        BY <4>1, TakesTyped DEF Packets
      <4> QED BY <2>2, <4>2, PacketsTyped DEF SimpleCommand
    <3> QED BY <2>2, <3>1, SendTyped, TakesTyped DEF SimpleCommand
  <2>3. ASSUME NEW t \in Transfers, OpenTransfer(t) PROVE CrsTypesNext
    BY <2>3, OpenTransferTypes DEF CrsTypesNext
  <2>4. CASE Ignored
    BY <2>4, TakesTyped DEF Ignored
  <2>5. CASE Cancel
    BY <2>5, TakesTyped DEF Cancel
  <2>6. CASE WriteFrame
    BY <2>6, WriteFrameTypes DEF CrsTypesNext
  <2>7. CASE WriteEof
    <3>1. Takes({"WRITE"}, {"DATA"})
      BY <2>7 DEF WriteEof
    <3>2. PICK p \in Packets : Send(p)
      BY <2>7, <3>1, TakesTyped, PacketsTyped DEF WriteEof, Packets, Cmds
    <3>3. nextPacket' \in Nat
      BY <2>7 DEF WriteEof
    <3> QED BY <2>7, <3>1, <3>2, <3>3, SendTyped, TakesTyped, ZenonT(40) DEF WriteEof
  <2>8. CASE OutOfOrder
    BY <2>8, TakesTyped DEF OutOfOrder
  <2>9. CASE FileAck
    <3>1. nextAck' = nextAck + 1 \/ nextAck' = nextAck
      BY <2>9 DEF FileAck
    <3>2. timer' = TRUE \/ timer' = timer
      BY <2>9 DEF FileAck
    <3>3. timer' \in BOOLEAN
      BY <3>2
    <3>4. nextAck' \in Nat
      BY <3>1
    <3> QED BY <2>9, <3>3, <3>4, TakesTyped DEF FileAck
  <2>10. CASE ReadFrame
    <3>1. CASE UNCHANGED <<tx, nextPacket, pos>> /\ failed' = TRUE /\ run' = "leave"
      BY <2>10, <3>1 DEF ReadFrame
    <3>2. CASE /\ Send(Packet("DATA", nextPacket % Counters, pos, "READ"))
               /\ nextPacket' = nextPacket + 1 /\ pos' = Seek(pos + stride)
               /\ UNCHANGED <<failed, run>>
      <4>1. Packet("DATA", nextPacket % Counters, pos, "READ") \in Packets
        <5>1. pos \in 0 .. Frames /\ nextPacket % Counters \in Nat /\ "READ" \in Cmds
          BY <2>10, CountersTyped, FramesAssumption, CmdsTyped, SMTT(40) DEF ReadFrame
        <5> QED BY <5>1, PacketsTyped
      <4>2. pos' \in Nat
        BY <3>2, FramesAssumption DEF Seek
      <4> QED BY <2>10, <3>2, <4>1, <4>2, SendTyped DEF ReadFrame
    <3> QED BY <2>10, <3>1, <3>2 DEF ReadFrame
  <2>11. CASE ReadEof
    <3>1. Packet("DATA", nextPacket % Counters, Eof, "READ") \in Packets
      <4>1. Eof \in 0 .. Frames /\ nextPacket % Counters \in Nat /\ "READ" \in Cmds
        <5>1. nextPacket % Counters \in Nat
          BY CountersTyped
        <5> QED BY <5>1, FramesAssumption, CmdsTyped DEF Eof
      <4> QED BY <4>1, PacketsTyped
    <3> QED BY <2>11, <3>1, SendTyped DEF ReadEof
  <2>12. CASE ReadEntry
    <3>1. CASE UNCHANGED <<tx, nextPacket, pos>> /\ failed' = TRUE /\ run' = "leave"
      BY <2>12, <3>1 DEF ReadEntry
    <3>2. CASE /\ Send(Packet("INFO", nextPacket % Counters, pos, "DIR"))
               /\ nextPacket' = nextPacket + 1 /\ pos' = pos + 1
               /\ run' = IF pos' = Entries THEN "leave" ELSE run
               /\ UNCHANGED failed
      <4>1. Packet("INFO", nextPacket % Counters, pos, "DIR") \in Packets
        <5>1. pos \in Nat /\ pos < Entries /\ nextPacket % Counters \in Nat /\ "DIR" \in Cmds
          BY <2>12, CountersTyped, FramesAssumption, CmdsTyped, SMTT(40) DEF ReadEntry
        <5> QED BY <5>1, PacketsTyped
      <4> QED BY <2>12, <3>2, <4>1, SendTyped, FramesAssumption DEF ReadEntry
    <3> QED BY <2>12, <3>1, <3>2 DEF ReadEntry
  <2>13. CASE ReceiveDone \/ SendDone
    <3>1. CASE ReceiveDone
      BY <3>1, SMTT(40) DEF ReceiveDone
    <3>2. CASE SendDone
      BY <3>2, SMTT(40) DEF SendDone
    <3> QED BY <2>13, <3>1, <3>2
  <2>14. CASE LeaveTransfer
    <3>1. tx' = tx \/ \E p \in Packets : Send(p)
      BY <2>14, PacketsTyped DEF LeaveTransfer, Cmds, Transfers
    <3> QED BY <2>14, <3>1, SendTyped DEF LeaveTransfer
  <2> QED BY <1>6, <2>1, <2>2, <2>3, <2>4, <2>5, <2>6, <2>7, <2>8, <2>9, <2>10, <2>11,
             <2>12, <2>13, <2>14 DEF TaskStep, CrsTypesNext
<1> QED BY <1>1, <1>3, <1>4, <1>5, <1>6 DEF CrsTask

\* What the client writes starts the timer of the device again, or leaves it alone.
LEMMA ClientRearms ==
  ASSUME idle \in {"off", "armed", "accepted", "refused"}, Client
  PROVE  idle' \in {"off", "armed", "accepted", "refused"}
<1> DEFINE Right == idle' \in {"off", "armed", "accepted", "refused"}
<1>1. ASSUME NEW p, Write(p) PROVE Right
  BY <1>1 DEF Write, Rearm
<1>2. Fail => Right
  BY <1>1 DEF Fail
<1>3. Quiet => Right
  BY DEF Quiet
<1>4. ASSUME NEW t \in Operations, Begin(t) PROVE Right
  <2>1. \E p : Write(p)
    BY <1>4, Zenon DEF Begin
  <2> QED BY <1>1, <2>1
<1>5. AwaitAck => Right
  <2>1. AwaitAck => Fail \/ Quiet
    BY Zenon DEF AwaitAck
  <2> QED BY <1>2, <1>3, <2>1
<1>6. Refused => Right
  BY <1>2 DEF Refused
<1>7. Unexpected \/ AckedUpTo \/ ReceiveEntry => Right
  BY <1>3 DEF Unexpected, AckedUpTo, ReceiveEntry
<1>8. SendFrame => Right
  BY <1>1 DEF SendFrame
<1>9. ReceiveFrame => Right
  <2>1. ReceiveFrame => Quiet \/ \E p : Write(p)
    BY Zenon DEF ReceiveFrame
  <2> QED BY <1>1, <1>3, <2>1
<1>10. ClientTimeout => Right
  <2>1. ClientTimeout => Fail \/ Quiet \/ \E p : Write(p)
    BY Zenon DEF ClientTimeout
  <2> QED BY <1>1, <1>2, <1>3, <2>1
<1>11. ASSUME NEW cmd \in Others, OtherWrite(cmd) PROVE Right
  BY <1>11 DEF OtherWrite, Rearm
<1> QED BY <1>4, <1>5, <1>6, <1>7, <1>8, <1>9, <1>10, <1>11 DEF Client

\* The client.
LEMMA ClientTypes ==
  ASSUME ITypes, Client
  PROVE  ITypes'
<1>0. idle' \in {"off", "armed", "accepted", "refused"}
  BY ClientRearms DEF ITypes, TypeOK
<1> USE DEF ITypes, TypeOK
<1> DEFINE Goal ==
      /\ op' \in Transfers \cup {"NONE"}
      /\ phase' \in {"off", "opening", "active", "done", "failed"}
      /\ acked' \in 0 .. Frames + 1 /\ sent' \in 0 .. Frames + 1 /\ acked' <= sent'
      /\ got' \in Seq(0 .. Frames + Entries) /\ asked' \in Nat \X Nat
      /\ retries' \in 0 .. MaxRetries
      /\ rx' \in Seq(Packets) /\ Len(rx') <= Window /\ taskSet' \in BOOLEAN
      /\ inbox' \in Seq(Packets) /\ stash' \in Seq(Packets)
      /\ operations' \in Nat /\ mishaps' \in Nat
<1>1. ASSUME DeviceRest, Goal PROVE ITypes'
  BY <1>0, <1>1 DEF DeviceRest, CrsTypeOK, counterVars, fileVars, timerVars, linkVars
<1>2. rx \in Seq(Packets) /\ Len(rx) <= Window /\ taskSet \in BOOLEAN
  BY DEF CrsTypeOK
<1>3. ASSUME Quiet PROVE rx' = rx /\ taskSet' = taskSet /\ mishaps' = mishaps
  BY <1>3 DEF Quiet
<1>4. Command("CANCEL") \in Packets /\ \A t \in {"WRITE", "DIR"} : Command(t) \in Packets
  BY PacketsTyped, CmdsTyped DEF Transfers
<1>5. ASSUME Fail PROVE
        /\ UNCHANGED <<op, acked, sent, got, asked, retries>>
        /\ phase' = "failed" /\ inbox' = <<>> /\ stash' = <<>>
        /\ rx' \in Seq(Packets) /\ Len(rx') <= Window /\ taskSet' \in BOOLEAN /\ mishaps' \in Nat
  BY <1>4, <1>5, WriteTyped DEF Fail
<1>6. ASSUME Pop PROVE Head(inbox) \in Packets /\ Tail(inbox) \in Seq(Packets)
  BY <1>6, ElemsTail DEF Pop
<1>7. ASSUME NEW t \in Operations, Begin(t) PROVE ITypes'
  <2>1. t \in Transfers
    BY OperationsAssumption
  <2>2. asked' \in Nat \X Nat /\ rx' \in Seq(Packets) /\ Len(rx') <= Window
        /\ taskSet' \in BOOLEAN /\ mishaps' \in Nat
    <3>1. CASE t = "READ"
      <4>1. PICK o \in Offsets, s \in Strides : asked' = <<o, s>> /\ Write(Packet(t, s, o, t))
        BY <1>7, <3>1 DEF Begin
      <4>2. o \in Nat /\ s \in Nat \ {0} /\ "READ" \in Cmds
        BY OperationsAssumption, CmdsTyped
      <4>3. Packet(t, s, o, t) \in Packets
        BY <3>1, <4>2, PacketsTyped
      <4> QED BY <4>1, <4>2, <4>3, WriteTyped
    <3>2. CASE t # "READ"
      <4>1. asked' = <<0, 1>> /\ Write(Command(t))
        BY <1>7, <3>2 DEF Begin
      <4>2. Command(t) \in Packets
        BY <1>4, <2>1, <3>2 DEF Transfers
      <4> QED BY <4>1, <4>2, WriteTyped
    <3> QED BY <3>1, <3>2
  <2>3. Goal
    BY <1>7, <2>1, <2>2, FramesAssumption, BoundsAssumption DEF Begin
  <2> QED BY <1>1, <1>7, <2>3 DEF Begin
<1>8. CASE AwaitAck
  <2>1. Pop /\ UNCHANGED operations /\ DeviceRest
    BY <1>8 DEF AwaitAck
  <2>2. Goal
    <3>1. CASE Fail
      BY <1>5, <2>1, <3>1
    <3>2. CASE /\ phase' = "active" /\ inbox' = stash \o Tail(inbox) /\ stash' = <<>>
               /\ UNCHANGED <<op, acked, sent, got, asked, retries>> /\ Quiet
      <4>1. stash \o Tail(inbox) \in Seq(Packets)
        BY <1>6, <2>1, ConcatProperties
      <4> QED BY <1>2, <1>3, <2>1, <3>2, <4>1
    <3>3. CASE Drop /\ UNCHANGED <<op, phase, acked, sent, got, asked, retries, stash>> /\ Quiet
      BY <1>2, <1>3, <1>6, <2>1, <3>3 DEF Drop
    <3>4. CASE /\ Drop /\ stash' = Append(stash, Head(inbox))
               /\ UNCHANGED <<op, phase, acked, sent, got, asked, retries>> /\ Quiet
      <4>1. Append(stash, Head(inbox)) \in Seq(Packets)
        BY <1>6, <2>1, AppendProperties
      <4> QED BY <1>2, <1>3, <1>6, <2>1, <3>4, <4>1 DEF Drop
    <3> QED BY <1>8, <3>1, <3>2, <3>3, <3>4 DEF AwaitAck
  <2> QED BY <1>1, <2>1, <2>2
<1>9. CASE Refused
  BY <1>1, <1>5, <1>9 DEF Refused
<1>10. CASE Unexpected
  BY <1>1, <1>2, <1>3, <1>6, <1>10 DEF Unexpected, Drop
<1>11. CASE SendFrame
  <2>1. sent \in 0 .. Frames /\ sent % Counters \in Nat /\ "WRITE" \in Cmds
    BY <1>11, FramesAssumption, CountersTyped, CmdsTyped DEF SendFrame, Pending
  <2>2. Write(Packet("DATA", sent % Counters, sent, "WRITE"))
        /\ Packet("DATA", sent % Counters, sent, "WRITE") \in Packets
    BY <1>11, <2>1, PacketsTyped DEF SendFrame
  <2>3. rx' \in Seq(Packets) /\ Len(rx') <= Window /\ taskSet' \in BOOLEAN /\ mishaps' \in Nat
    BY <2>2, WriteTyped
  <2>4. sent' \in 0 .. Frames + 1 /\ acked' <= sent' /\ acked' = acked
    BY <1>11, <2>1, FramesAssumption DEF SendFrame
  <2> QED BY <1>1, <1>11, <2>3, <2>4 DEF SendFrame
<1>12. CASE AckedUpTo
  <2>1. Pop /\ Quiet /\ DeviceRest /\ UNCHANGED <<op, sent, got, asked, stash, operations>>
        /\ phase' \in {"done", "active"}
    BY <1>12 DEF AckedUpTo
  <2>2. acked' \in 0 .. Frames + 1 /\ acked' <= sent' /\ retries' \in 0 .. MaxRetries
    <3>1. Ahead(Head(inbox).n) \in Nat
      <4>1. Head(inbox).n \in Nat
        BY <1>6, <2>1 DEF Packets
      <4>2. Head(inbox).n - acked \in Int
        BY <4>1, FramesAssumption
      <4> QED BY <4>2, CountersTyped DEF Ahead
    <3>2. acked \in Nat /\ sent \in 0 .. Frames + 1 /\ Frames \in Nat
      BY FramesAssumption
    <3>3. CASE Ahead(Head(inbox).n) < sent - acked
      <4>1. acked' = acked + Ahead(Head(inbox).n) + 1 /\ retries' = 0
        BY <1>12, <3>3 DEF AckedUpTo
      <4>2. sent' = sent /\ 0 \in 0 .. MaxRetries
        BY <2>1, BoundsAssumption
      <4> QED BY <3>1, <3>2, <3>3, <4>1, <4>2, SMTT(30)
    <3>4. CASE ~(Ahead(Head(inbox).n) < sent - acked)
      BY <1>12, <3>4 DEF AckedUpTo
    <3> QED BY <3>3, <3>4
  <2>3. inbox' \in Seq(Packets)
    <3>1. inbox' = <<>> \/ inbox' = Tail(inbox)
      BY <1>12 DEF AckedUpTo
    <3> QED BY <1>6, <2>1, <3>1, EmptySeq
  <2> QED BY <1>1, <1>2, <1>3, <2>1, <2>2, <2>3
<1>13. CASE ReceiveFrame
  <2>1. Pop /\ DeviceRest /\ UNCHANGED <<op, acked, sent, asked, stash, operations>>
        /\ phase' \in {"done", "active"} /\ Head(inbox).cmd = "DATA"
    BY <1>13 DEF ReceiveFrame
  <2>2. Head(inbox).n \in Nat /\ Head(inbox).body \in 0 .. Frames + Entries
    <3>1. Head(inbox) \in Packets
      BY <1>6, <2>1
    <3>2. Head(inbox).n \in Nat /\ Head(inbox).body \in Nat /\ Head(inbox).body <= Frames
      BY ONLY <2>1, <3>1 DEF Packets
    <3> QED BY <3>2, FramesAssumption
  <2>3. got' \in Seq(0 .. Frames + Entries)
    <3>1. got' = got \/ got' = Append(got, Head(inbox).body)
      BY <1>13 DEF ReceiveFrame
    <3>2. got \in Seq(0 .. Frames + Entries)
      OBVIOUS
    <3>3. Append(got, Head(inbox).body) \in Seq(0 .. Frames + Entries)
      BY <2>2, <3>2, AppendProperties
    <3> QED BY <3>1, <3>2, <3>3
  <2>4. retries' \in 0 .. MaxRetries
    BY <1>13, BoundsAssumption DEF ReceiveFrame
  <2>5. rx' \in Seq(Packets) /\ Len(rx') <= Window /\ taskSet' \in BOOLEAN /\ mishaps' \in Nat
    <3>1. Packet("FILE_ACK", Head(inbox).n, 0, "DATA") \in Packets
      BY <2>2, PacketsTyped, CmdsTyped
    <3>2. Write(Packet("FILE_ACK", Head(inbox).n, 0, "DATA")) \/ Quiet
      BY <1>13 DEF ReceiveFrame
    <3> QED BY <1>2, <1>3, <3>1, <3>2, WriteTyped
  <2>6. inbox' \in Seq(Packets)
    <3>1. inbox' = <<>> \/ inbox' = Tail(inbox)
      BY <1>13 DEF ReceiveFrame
    <3> QED BY <1>6, <2>1, <3>1, EmptySeq
  <2> QED BY <1>1, <2>1, <2>3, <2>4, <2>5, <2>6
<1>14. CASE ReceiveEntry
  <2>1. Pop /\ Quiet /\ DeviceRest /\ UNCHANGED <<op, acked, sent, asked, retries, stash, operations>>
        /\ phase' \in {"done", "active"} /\ Head(inbox).cmd = "INFO"
    BY <1>14 DEF ReceiveEntry
  <2>2. Head(inbox).body \in 0 .. Frames + Entries
    BY <1>6, <2>1, FramesAssumption DEF Packets
  <2>3. got' \in Seq(0 .. Frames + Entries)
    BY <1>14, <2>2, AppendProperties DEF ReceiveEntry
  <2>4. inbox' \in Seq(Packets)
    <3>1. inbox' = <<>> \/ inbox' = Tail(inbox)
      BY <1>14 DEF ReceiveEntry
    <3> QED BY <1>6, <2>1, <3>1, EmptySeq
  <2> QED BY <1>1, <1>2, <1>3, <2>1, <2>3, <2>4
<1>15. CASE ClientTimeout
  <2>1. DeviceRest /\ UNCHANGED operations
    BY <1>15 DEF ClientTimeout
  <2>2. CASE Fail
    BY <1>1, <1>5, <2>1, <2>2
  <2>3. CASE ~Fail
    <3>1. /\ retries # MaxRetries /\ retries' = retries + 1
          /\ sent' = IF op = "WRITE" THEN acked ELSE sent
          /\ UNCHANGED <<op, phase, acked, got, asked, inbox, stash>>
          /\ \/ Write(Packet("FILE_ACK", (Len(got) - 1) % Counters, 0, "DATA"))
             \/ Quiet
      BY <1>15, <2>3 DEF ClientTimeout
    <3>2. Packet("FILE_ACK", (Len(got) - 1) % Counters, 0, "DATA") \in Packets
      <4>1. Len(got) - 1 \in Int
        OBVIOUS
      <4> QED BY <4>1, PacketsTyped, CmdsTyped, CountersTyped
    <3>3. rx' \in Seq(Packets) /\ Len(rx') <= Window /\ taskSet' \in BOOLEAN /\ mishaps' \in Nat
      BY <1>2, <1>3, <3>1, <3>2, WriteTyped
    <3>4. retries' \in 0 .. MaxRetries /\ sent' \in 0 .. Frames + 1 /\ acked' <= sent'
      BY <3>1, BoundsAssumption, FramesAssumption
    <3> QED BY <1>1, <2>1, <3>1, <3>3, <3>4
  <2> QED BY <2>2, <2>3
<1>16. ASSUME NEW cmd \in Others, OtherWrite(cmd) PROVE ITypes'
  <2>1. Command(cmd) \in Packets
    BY OperationsAssumption, PacketsTyped, CmdsTyped
  <2>2. rx' \in Seq(Packets) /\ Len(rx') <= Window
    BY <1>16, <2>1, Receives DEF OtherWrite
  <2>3. taskSet' \in BOOLEAN
    BY <1>2, <1>16 DEF OtherWrite
  <2>4. mishaps' \in Nat /\ UNCHANGED <<clientVars, operations>> /\ DeviceRest
    BY <1>16 DEF OtherWrite, Mishap
  <2> QED BY <1>1, <2>2, <2>3, <2>4 DEF clientVars
<1> QED BY <1>7, <1>8, <1>9, <1>10, <1>11, <1>12, <1>13, <1>14, <1>15, <1>16 DEF Client

\* The link.
LEMMA LinkTypes ==
  ASSUME ITypes, Transmit \/ Break \/ Abandon \/ IdleExpires \/ IdleDisconnect \/ Connect
  PROVE  ITypes'
<1> USE DEF ITypes, TypeOK, CrsTypeOK, counterVars, fileVars, timerVars, linkVars, clientVars,
            boundVars
<1>1. CASE Transmit
  <2>1. /\ tx # <<>> /\ tx' = Tail(tx) /\ taskSet' \in BOOLEAN
        /\ UNCHANGED <<state, run, failed, open, counterVars, fileVars, timerVars, rx, linkVars>>
    BY <1>1 DEF Transmit, TransmitDone
  <2>2. /\ Tail(tx) \in Seq(Packets) /\ Len(Tail(tx)) = Len(tx) - 1 /\ Len(tx) \in Nat \ {0}
        /\ Head(tx) \in Packets
    BY <2>1, ElemsTail
  <2>3. Append(inbox, Head(tx)) \in Seq(Packets)
    BY <2>2, AppendProperties
  <2>4. inbox' \in {inbox, Append(inbox, Head(tx))}
    BY <1>1 DEF Transmit
  <2>5. mishaps' \in {mishaps, mishaps + 1}
    BY <1>1 DEF Transmit, Mishap
  <2>6. UNCHANGED <<op, phase, acked, sent, got, asked, retries, stash, operations>>
    BY <1>1 DEF Transmit
  <2>7. Len(tx') <= Window
    BY <2>1, <2>2, WindowAssumption
  <2>8. inbox' \in Seq(Packets)
    BY <2>3, <2>4
  <2>9. tx' \in Seq(Packets)
    BY <2>1, <2>2
  <2>10. mishaps' \in Nat
    BY <2>5
  <2>11. idle' = idle
    BY <1>1 DEF Transmit
  <2> QED BY <2>1, <2>6, <2>7, <2>8, <2>9, <2>10, <2>11
<1>2. CASE Break \/ IdleDisconnect
  <2>0. inbox' = <<>> /\ stash' = <<>>
    BY <1>2 DEF Break, IdleDisconnect, Disconnect
  <2>1. inbox' \in Seq(Packets) /\ stash' \in Seq(Packets) /\ mishaps' \in Nat
    BY <1>2, <2>0, EmptySeq DEF Break, IdleDisconnect, Mishap
  <2>2. phase' \in {phase, "failed"} /\ connected' = FALSE /\ taskSet' = TRUE
        /\ UNCHANGED <<state, run, failed, open, counterVars, fileVars, timerVars, rx, tx, flow,
                       op, acked, sent, got, asked, retries, operations>>
    BY <1>2 DEF Break, IdleDisconnect, Disconnect
  <2>3. CrsTypeOK'
    BY <2>2
  <2>4. phase' \in {"off", "opening", "active", "done", "failed"}
    BY <2>2
  <2>5. idle' = "off"
    BY <1>2 DEF Break, IdleDisconnect, Disconnect
  <2> QED BY <2>1, <2>2, <2>3, <2>4, <2>5
<1>3. CASE Abandon
  BY <1>3, EmptySeq DEF Abandon, Mishap, DeviceRest
<1>4. CASE IdleExpires
  <2>1. UNCHANGED <<crsVars, clientVars, boundVars>> /\ idle' \in {"accepted", "refused"}
    BY <1>4 DEF IdleExpires
  <2> QED BY <2>1 DEF crsVars
<1>5. CASE Connect
  <2>1. Len(<<>>) <= Window
    BY WindowAssumption
  <2> QED BY <1>5, <2>1, EmptySeq DEF Connect, Mishap
<1> QED BY <1>1, <1>2, <1>3, <1>4, <1>5

\* Every step keeps the types.
LEMMA TypesNext == ITypes /\ [Next]_vars => ITypes'
<1> SUFFICES ASSUME ITypes, [Next]_vars PROVE ITypes'
  OBVIOUS
<1>1. CASE UNCHANGED vars
  BY <1>1 DEF vars, ITypes, TypeOK, CrsTypeOK, crsVars, clientVars, boundVars, counterVars,
              fileVars, timerVars, linkVars
<1> QED BY <1>1, DeviceTypes, ClientTypes, LinkTypes DEF Next

\* What the variables are, of the device and of the client: the rings never hold more than
\* their length, the client never takes more frames for acknowledged than it has sent, and
\* no timeout is counted beyond MAX_RETRIES.
THEOREM TypesAlwaysRight == Spec => []TypeOK
<1>1. ITypes => TypeOK
  BY DEF ITypes
<1> QED BY TypesInit, TypesNext, <1>1, PTL DEF Spec
-----------------------------------------------------------------------------
(* One operation.                                                           *)

ToDevice(o) == CASE o = "WRITE" -> {"WRITE", "DATA"} [] o = "READ" -> {"READ", "FILE_ACK"}
                 [] o = "DIR" -> {"DIR"} [] o = "NONE" -> {}
ToClient(o) == CASE o = "WRITE" -> {"FILE_ACK"} [] o = "READ" -> {"DATA"}
                 [] o = "DIR" -> {"INFO"} [] o = "NONE" -> {}
Content == {"FILE_ACK", "DATA", "INFO"}
Opens(p) == p.cmd = "ACK" /\ p.of = op   \* the answer that opens the operation

\* Only the operation of the client, and of that what belongs to it, is ever under way.
OneInv ==
  /\ operations <= 1 /\ (operations = 0 <=> op = "NONE") /\ (op = "NONE" <=> phase = "off")
  /\ state \in {"IDLE", op} /\ (Busy => connected)
  /\ \A p \in Elems(rx) : p.cmd \in {"PING", "MK_DIR", "BAD", "CANCEL"} \cup ToDevice(op)
  /\ \A p \in Elems(tx) : p.cmd \in {"ACK", "NAK", "OTHER"} \cup ToClient(op)
  /\ \A p \in Elems(inbox) : p.cmd \in {"ACK", "NAK"} \cup ToClient(op)
  /\ \A p \in Flight : p.cmd = "ACK" => p.of \in {"PING", "MK_DIR", op}
  /\ op = "NONE" => nextPacket = 0 /\ nextAck = 0 /\ pos = 0 /\ disk = <<>>

\* Nothing of the operation is under way before its command has been taken, and its answer
\* comes before all else.
OpenInv ==
  /\ \A p, q \in Elems(rx) : Before(rx, p, q) => ~(p.cmd = op /\ q.cmd = op)
  /\ \A p \in Elems(rx) : p.cmd = op =>
       /\ state = "IDLE" /\ phase \in {"opening", "failed"} /\ stash = <<>>
       /\ \A q \in Elems(rx) : q.cmd \notin Content
       /\ \A q \in Flight : q.cmd \notin Content /\ ~Opens(q)
       /\ nextPacket = 0 /\ nextAck = 0
  /\ phase = "opening" => acked = 0 /\ sent = 0 /\ got = <<>>
                          /\ \A q \in Elems(rx) : q.cmd \notin Content
  /\ \A p, q \in Flight : Leads(p, q) /\ p.cmd \in Content => ~Opens(q)
  /\ stash # <<>> => phase = "opening" /\ \A q \in Flight : ~Opens(q)

\* Whether what is in flight will be looked at in an operation that is open.
Live == phase = "active" \/ (phase = "opening" /\ stash = <<>>)
-----------------------------------------------------------------------------
(* Uploads.                                                                 *)

\* The frame that an ACK the client has not looked at acknowledges.
AckedFrame(p) == Lift(p.n, acked)

DiskInv ==
  /\ pos <= Len(disk) /\ Len(disk) <= Frames /\ Holds(pos)
  /\ \/ nextPacket = pos
     \/ /\ nextPacket = Frames + 1 /\ pos = Frames /\ ~open
        /\ (run = "leave" \/ state = "IDLE")

WindowInv ==
  /\ acked <= nextPacket /\ nextPacket <= acked + Window
  /\ phase = "opening" => nextPacket = 0 /\ \A p \in Flight : p.cmd # "FILE_ACK"
  /\ phase = "done" => acked = Frames + 1

\* A frame in the RX ring is less than a window from any that may come to be expected.
FramesInv ==
  /\ \A p \in Elems(rx) : p.cmd = "DATA" =>
       /\ p.n = p.body % Counters /\ p.body < acked + Window
       /\ nextPacket <= p.body + Window
  /\ \A p, q \in Elems(rx) : Before(rx, p, q) /\ p.cmd = "DATA" /\ q.cmd = "DATA" =>
       p.body < q.body + Window

\* The ACKs in flight are of frames that are in the file, in their order.
AcksInv ==
  phase = "active" =>
    /\ \A p \in Flight : p.cmd = "FILE_ACK" =>
         p.n \in 0 .. Counters - 1 /\ AckedFrame(p) < nextPacket
    /\ \A p, q \in Flight : Leads(p, q) /\ p.cmd = "FILE_ACK" /\ q.cmd = "FILE_ACK" =>
         AckedFrame(p) < AckedFrame(q)

WriteInv == op = "WRITE" => DiskInv /\ WindowInv /\ FramesInv /\ AcksInv
-----------------------------------------------------------------------------
(* Downloads.                                                               *)

\* The place of a frame in flight in the order of the frames asked for, and that of the
\* frame an ACK in the RX ring acknowledges.
Place(p)    == Lift(p.n, Len(got) - Window)
AckPlace(p) == Lift(p.n, nextAck - Window)
Asked(k)    == asked[1] + k * asked[2]

ReaderInv ==
  /\ \A p \in Elems(rx) : p.cmd = "READ" => p.body = asked[1] /\ p.n = asked[2]
  /\ state = "READ" => offset = asked[1] /\ stride = asked[2]
  /\ state = "READ" /\ run # "leave" => pos = Seek(Asked(nextPacket))
  /\ asked[2] > 0

GotInv ==
  /\ \A i \in 1 .. Len(got) : got[i] = Asked(i - 1) /\ got[i] < Frames
  /\ phase = "done" => Asked(Len(got)) >= Frames

SentInv ==
  Live =>
    /\ nextAck <= Len(got) /\ Len(got) <= nextAck + Window
    /\ Len(got) <= nextPacket + Window
    /\ \A p \in Flight : p.cmd = "DATA" =>
         /\ p.n \in 0 .. Counters - 1 /\ p.body = Seek(Asked(Place(p)))
         /\ Place(p) < nextAck + Window /\ Place(p) < nextPacket + Window
    /\ \A p, q \in Flight : Leads(p, q) /\ p.cmd = "DATA" /\ q.cmd = "DATA" =>
         Place(p) < Place(q) + Window

ReplyInv ==
  Live =>
    /\ \A p \in Elems(rx) : p.cmd = "FILE_ACK" =>
         p.n \in 0 .. Counters - 1 /\ AckPlace(p) < Len(got)
    /\ \A p, q \in Elems(rx) : Before(rx, p, q) /\ p.cmd = "FILE_ACK" /\ q.cmd = "FILE_ACK" =>
         AckPlace(p) < AckPlace(q) + Window

ReadInv == op = "READ" => ReaderInv /\ GotInv /\ SentInv /\ ReplyInv
-----------------------------------------------------------------------------
(* Listings.                                                                *)

EntriesInv ==
  Live =>
    /\ Len(got) <= pos
    /\ \A p \in Flight : p.cmd = "INFO" => Len(got) <= p.body /\ p.body < pos
    /\ \A p, q \in Flight : Leads(p, q) /\ p.cmd = "INFO" /\ q.cmd = "INFO" => p.body < q.body
    /\ \A b \in Len(got) .. pos - 1 : \E p \in Flight : p.cmd = "INFO" /\ p.body = b

ListedInv ==
  /\ asked = <<0, 1>>
  /\ Len(got) <= Entries /\ \A i \in 1 .. Len(got) : got[i] = i - 1
  /\ phase = "done" => Len(got) >= Entries

DirInv == op = "DIR" /\ mishaps = 0 => ListedInv /\ EntriesInv

IInv == OneInv /\ OpenInv /\ WriteInv /\ ReadInv /\ DirInv
-----------------------------------------------------------------------------
(* What the steps do to the packets on their way.                           *)

\* What is in the rings and in the inbox are packets.
LEMMA ElemsTyped ==
  ASSUME ITypes
  PROVE  Elems(rx) \subseteq Packets /\ Flight \subseteq Packets /\ Elems(inbox) \subseteq Packets
<1>1. ASSUME NEW s \in Seq(Packets) PROVE Elems(s) \subseteq Packets
  BY ElementOfSeq DEF Elems
<1> QED BY <1>1 DEF ITypes, Flight

\* A task takes the head of the RX ring.
LEMMA TakesRx ==
  ASSUME ITypes, NEW ss, NEW cmds, Takes(ss, cmds)
  PROVE  /\ Head(rx) \in Packets /\ Head(rx).cmd \in cmds /\ Head(rx) \in Elems(rx)
         /\ Elems(rx') \subseteq Elems(rx)
         /\ \A p, q : Before(rx', p, q) => Before(rx, p, q)
         /\ \A q \in Elems(rx') : Before(rx, Head(rx), q)
<1>1. rx \in Seq(Packets) /\ rx # <<>> /\ rx' = Tail(rx) /\ Head(rx).cmd \in cmds
  BY DEF ITypes, Takes
<1> QED BY <1>1, ElemsTail

\* A write of the client adds its packet to the RX ring, or nothing.
LEMMA ReceivedRx ==
  ASSUME ITypes, NEW p \in Packets, rx' \in {rx, Received(p)}
  PROVE  /\ Elems(rx') \subseteq Elems(rx) \cup {p}
         /\ \A a, b : Before(rx', a, b) => Before(rx, a, b) \/ (a \in Elems(rx) /\ b = p)
<1>1. rx \in Seq(Packets)
  BY DEF ITypes
<1>2. CASE rx' = rx
  BY <1>2
<1>3. CASE rx' = Append(rx, p)
  BY <1>1, <1>3, ElemsAppend
<1> QED BY <1>2, <1>3 DEF Received

\* So does a write that may get lost.
LEMMA WriteRx ==
  ASSUME ITypes, NEW p \in Packets, Write(p)
  PROVE  /\ Elems(rx') \subseteq Elems(rx) \cup {p}
         /\ \A a, b : Before(rx', a, b) => Before(rx, a, b) \/ (a \in Elems(rx) /\ b = p)
<1>1. rx' \in {rx, Received(p)}
  BY DEF Write
<1> QED BY <1>1, ReceivedRx

\* Packets of F, and no others, come to be on their way to the client, behind all others.
FlightGains(F) ==
  /\ Elems(tx') \subseteq Elems(tx) \cup F
  /\ \A p \in Elems(inbox') : p \in Elems(inbox) \/ (p \in Elems(tx) /\ p.cmd # "OTHER")
  /\ \A p, q : Leads(p, q)' => Leads(p, q) \/ q \in F

\* A step that leaves the TX ring and the inbox alone.
LEMMA NoFlight ==
  ASSUME UNCHANGED <<tx, inbox>>
  PROVE  FlightGains({}) /\ Flight' = Flight
BY DEF FlightGains, Flight, Leads

\* A packet sent is on its way, behind all others, if there is a buffer for it.
LEMMA SendFlight ==
  ASSUME ITypes, NEW p \in Packets, Send(p), inbox' = inbox
  PROVE  /\ FlightGains({p})
         /\ Flight' = IF Room THEN Flight \cup {p} ELSE Flight
         /\ \A a, b : Leads(a, b)' => Leads(a, b) \/ (Room /\ a \in Flight /\ b = p)
<1>1. tx \in Seq(Packets) /\ Len(tx) <= Window
  BY DEF ITypes, TypeOK, CrsTypeOK
<1>2. tx' = IF Room THEN Append(tx, p) ELSE tx
  BY <1>1, Sends
<1>3. CASE Room
  <2>1. /\ Elems(tx') = Elems(tx) \cup {p}
        /\ \A a, b : Before(tx', a, b) => Before(tx, a, b) \/ (a \in Elems(tx) /\ b = p)
    BY <1>1, <1>2, <1>3, ElemsAppend
  <2>2. Flight' = Flight \cup {p}
    BY <2>1 DEF Flight
  <2>3. \A a, b : Leads(a, b)' => Leads(a, b) \/ (a \in Flight /\ b = p)
    BY <2>1 DEF Leads, Flight
  <2> QED BY <1>3, <2>1, <2>2, <2>3 DEF FlightGains
<1>4. CASE ~Room
  <2>1. tx' = tx
    BY <1>2, <1>4
  <2> QED BY <1>4, <2>1 DEF FlightGains, Flight, Leads
<1> QED BY <1>3, <1>4

\* The two NAKs of a write that failed and could not be taken back.
LEMMA SendTwiceFlight ==
  ASSUME ITypes, NEW p \in Packets, SendAll(<<p, p>>), inbox' = inbox
  PROVE  FlightGains({p}) /\ Flight' \subseteq Flight \cup {p}
<1>1. tx \in Seq(Packets) /\ Len(tx) <= Window
  BY DEF ITypes, TypeOK, CrsTypeOK
<1>2. tx' \in {tx, Append(tx, p), Append(Append(tx, p), p)}
  BY <1>1, SendsTwice
<1>3. /\ Append(tx, p) \in Seq(Packets) /\ Elems(Append(tx, p)) = Elems(tx) \cup {p}
      /\ \A a, b : Before(Append(tx, p), a, b) => Before(tx, a, b) \/ b = p
  BY <1>1, ElemsAppend
<1>4. /\ Elems(Append(Append(tx, p), p)) = Elems(tx) \cup {p}
      /\ \A a, b : Before(Append(Append(tx, p), p), a, b) => Before(tx, a, b) \/ b = p
  <2> DEFINE t == Append(tx, p)
  <2>1. t \in Seq(Packets) /\ Elems(t) = Elems(tx) \cup {p}
        /\ \A a, b : Before(t, a, b) => Before(tx, a, b) \/ b = p
    BY <1>3
  <2> HIDE DEF t
  <2>2. /\ Elems(Append(t, p)) = Elems(t) \cup {p}
        /\ \A a, b : Before(Append(t, p), a, b) => Before(t, a, b) \/ b = p
    BY <2>1, ElemsAppend
  <2>3. /\ Elems(Append(t, p)) = Elems(tx) \cup {p}
        /\ \A a, b : Before(Append(t, p), a, b) => Before(tx, a, b) \/ b = p
    BY <2>1, <2>2
  <2> QED BY <2>3 DEF t
<1>5. /\ Elems(tx') \subseteq Elems(tx) \cup {p}
      /\ \A a, b : Before(tx', a, b) => Before(tx, a, b) \/ b = p
  BY <1>2, <1>3, <1>4
<1> QED BY <1>5 DEF FlightGains, Flight, Leads

\* A packet handed to the stack keeps its place, or is lost.
LEMMA TransmitFlight ==
  ASSUME ITypes, Transmit
  PROVE  /\ FlightGains({}) /\ Flight' \subseteq Flight
         /\ Busy /\ connected /\ mishaps' = mishaps =>
              \A p \in Flight : p.cmd # "OTHER" => p \in Flight'
<1>1. /\ tx # <<>> /\ tx' = Tail(tx) /\ tx \in Seq(Packets) /\ inbox \in Seq(Packets)
      /\ mishaps \in Nat
  BY DEF ITypes, Transmit, TransmitDone
<1>2. /\ Head(tx) \in Packets /\ Elems(tx) = Elems(tx') \cup {Head(tx)}
      /\ (\A p, q : Before(tx', p, q) => Before(tx, p, q))
      /\ \A q \in Elems(tx') : Before(tx, Head(tx), q)
  BY <1>1, ElemsTail
<1>3. CASE inbox' = inbox
  <2>1. FlightGains({}) /\ Flight' \subseteq Flight
    BY <1>2, <1>3 DEF FlightGains, Flight, Leads
  <2>2. ASSUME Busy, connected, mishaps' = mishaps, Head(tx).cmd # "OTHER" PROVE FALSE
    <3>1. inbox' = Append(inbox, Head(tx))
      BY <1>1, <2>2 DEF Transmit, Mishap
    <3>2. Len(inbox') = Len(inbox) + 1 /\ Len(inbox) \in Nat
      BY <1>1, <1>2, <3>1, ElemsAppend
    <3> QED BY <1>3, <3>2
  <2> QED BY <1>2, <1>3, <2>1, <2>2 DEF Flight
<1>4. CASE inbox' = Append(inbox, Head(tx)) /\ Head(tx).cmd # "OTHER"
  <2>1. /\ Elems(inbox') = Elems(inbox) \cup {Head(tx)}
        /\ \A p, q : Before(inbox', p, q) =>
             Before(inbox, p, q) \/ (p \in Elems(inbox) /\ q = Head(tx))
    BY <1>1, <1>2, <1>4, ElemsAppend
  <2>2. Flight' = Flight
    BY <1>2, <2>1 DEF Flight
  <2>3. ASSUME NEW p, NEW q, Leads(p, q)' PROVE Leads(p, q)
    <3>1. CASE Before(inbox', p, q)
      BY <1>2, <2>1, <3>1 DEF Leads
    <3>2. CASE p \in Elems(inbox') /\ q \in Elems(tx')
      BY <1>2, <2>1, <3>2 DEF Leads
    <3>3. CASE Before(tx', p, q)
      BY <1>2, <3>3 DEF Leads
    <3> QED BY <2>3, <3>1, <3>2, <3>3 DEF Leads
  <2> QED BY <1>2, <1>4, <2>1, <2>2, <2>3 DEF FlightGains
<1> QED BY <1>1, <1>3, <1>4 DEF Transmit

\* The client looks at the head of its inbox.
LEMMA PopFlight ==
  ASSUME ITypes, inbox # <<>>, inbox' = Tail(inbox), tx' = tx
  PROVE  /\ FlightGains({}) /\ Flight' \subseteq Flight
         /\ Head(inbox) \in Packets /\ Head(inbox) \in Flight /\ Head(inbox) \in Elems(inbox)
         /\ Flight = Flight' \cup {Head(inbox)}
         /\ \A q \in Flight' : Leads(Head(inbox), q)
<1>1. inbox \in Seq(Packets)
  BY DEF ITypes
<1>2. /\ Head(inbox) \in Packets /\ Elems(inbox) = Elems(inbox') \cup {Head(inbox)}
      /\ (\A p, q : Before(inbox', p, q) => Before(inbox, p, q))
      /\ \A q \in Elems(inbox') : Before(inbox, Head(inbox), q)
  BY <1>1, ElemsTail
<1> QED BY <1>2 DEF FlightGains, Flight, Leads

\* A client whose operation is over forgets its inbox.
LEMMA ClearFlight ==
  ASSUME inbox' = <<>>, tx' = tx
  PROVE  FlightGains({}) /\ Flight' \subseteq Flight
BY ElemsEmpty DEF FlightGains, Flight, Leads

\* Only packets on their way have an order.
LEMMA LeadsInFlight ==
  ASSUME NEW p, NEW q, Leads(p, q)
  PROVE  p \in Flight /\ q \in Flight
BY BeforeIsIn DEF Leads, Flight

RxGains(R) ==
  /\ Elems(rx') \subseteq Elems(rx) \cup R
  /\ \A p, q : Before(rx', p, q) => Before(rx, p, q) \/ q \in R

Requests   == {p \in Packets : p.cmd \in {"PING", "MK_DIR", "BAD", "CANCEL"}}
InContent  == {p \in Packets : phase = "active" /\ p.cmd \in Content \cap ToDevice(op)}
Answers    == {p \in Packets : /\ p.cmd \in {"ACK", "NAK", "OTHER"}
                               /\ p.cmd = "ACK" => p.of \in {"PING", "MK_DIR"}}
OutContent == {p \in Packets : state = op /\ p.cmd \in ToClient(op)}

\* A step that neither begins an operation nor opens one, nor puts a packet aside.
Shape ==
  /\ UNCHANGED <<op, operations>>
  /\ \/ phase' = phase /\ stash' = stash
     \/ phase = "active" /\ phase' = "done" /\ stash' = stash
     \/ Busy /\ phase' = "failed" /\ stash' = <<>>
     \/ ~Busy /\ phase' = phase /\ stash' = <<>>
  /\ phase' = "opening" => UNCHANGED <<acked, sent, got>>
  /\ state' \in {state, "IDLE"}
  /\ state = "IDLE" => UNCHANGED <<nextPacket, nextAck, pos, disk>>
  /\ Busy' => (connected => connected')
  /\ RxGains(Requests \cup InContent)
  /\ FlightGains(Answers \cup OutContent)

\* One that leaves the transfer where it is, and sends nothing of it.
Still ==
  /\ UNCHANGED <<acked, got, asked, nextPacket, nextAck, pos, disk, offset, stride>>
  /\ phase' = "done" => phase = "done"
  /\ (open' => open) /\ (run = "leave" => run' = "leave" \/ state' = "IDLE")
  /\ RxGains(Requests) /\ FlightGains(Answers)

\* What gains nothing but R gains nothing but more than R.
LEMMA GainsGrow ==
  /\ \A R, S : R \subseteq S /\ RxGains(R) => RxGains(S)
  /\ \A F, G : F \subseteq G /\ FlightGains(F) => FlightGains(G)
BY DEF RxGains, FlightGains

\* Requests, answers, and the packets of transfers are told apart by their commands.
LEMMA CmdsOfOperation ==
  /\ \A o \in Transfers : /\ o \notin {"PING", "MK_DIR", "BAD", "CANCEL", "ACK", "NAK", "OTHER"}
                          /\ o \notin Content /\ o # "NONE" /\ o # "IDLE" /\ o \in ToDevice(o)
  /\ \A o \in Transfers \cup {"NONE"} :
       /\ ToClient(o) \subseteq Content /\ ToDevice(o) \subseteq Content \cup {o}
       /\ ToDevice(o) \cap Transfers \subseteq {o}
  /\ {"ACK", "NAK", "OTHER", "PING", "MK_DIR", "BAD", "CANCEL"} \cap Content = {}
BY DEF Transfers, Content, ToDevice, ToClient

\* Such a step keeps to the operation there is, and to its order.
LEMMA ShapeKeepsOne ==
  ASSUME ITypes, OneInv, Shape
  PROVE  OneInv'
<1> USE DEF OneInv
<1>1. op \in Transfers \cup {"NONE"} /\ state \in Transfers \cup {"IDLE"}
  BY DEF ITypes, TypeOK, CrsTypeOK
<1>2. op' = op /\ operations' = operations /\ ToDevice(op)' = ToDevice(op)
      /\ ToClient(op)' = ToClient(op)
  BY DEF Shape
<1>3. (op = "NONE" <=> phase' = "off")
  BY DEF Shape, Busy
<1>4. state' \in {"IDLE", op} /\ (Busy' => connected')
  BY DEF Shape, Busy
<1>5. op = "NONE" => state = "IDLE"
  BY <1>1, CmdsOfOperation DEF Transfers
<1>6. \A p \in Elems(rx') : p.cmd \in {"PING", "MK_DIR", "BAD", "CANCEL"} \cup ToDevice(op)
  BY DEF Shape, RxGains, Requests, InContent
<1>7. \A p \in Elems(tx') : p.cmd \in {"ACK", "NAK", "OTHER"} \cup ToClient(op)
  BY DEF Shape, FlightGains, Answers, OutContent
<1>8. \A p \in Elems(inbox') : p.cmd \in {"ACK", "NAK"} \cup ToClient(op)
  BY DEF Shape, FlightGains
<1>9. op = "NONE" => nextPacket' = 0 /\ nextAck' = 0 /\ pos' = 0 /\ disk' = <<>>
  BY <1>5 DEF Shape
<1>10. \A p \in Flight' : p.cmd = "ACK" => p.of \in {"PING", "MK_DIR", op}
  <2>1. Flight' \subseteq Flight \cup Answers \cup OutContent
    BY DEF Shape, FlightGains, Flight
  <2>2. \A p \in OutContent : p.cmd # "ACK"
    BY <1>1, CmdsOfOperation DEF OutContent
  <2> QED BY <2>1, <2>2 DEF Answers
<1> QED BY <1>2, <1>3, <1>4, <1>6, <1>7, <1>8, <1>9, <1>10

\* Nor does it put anything of the operation before its command, or before its answer.
LEMMA ShapeKeepsOpen ==
  ASSUME ITypes, OneInv, OpenInv, Shape
  PROVE  OpenInv'
<1>1. op \in Transfers \cup {"NONE"} /\ state \in Transfers \cup {"IDLE"} /\ op' = op
      /\ phase \in {"off", "opening", "active", "done", "failed"}
  BY DEF ITypes, TypeOK, CrsTypeOK, Shape
<1>2. rx \in Seq(Packets) /\ \A p \in Elems(rx) : p \in Packets
  BY DEF ITypes, Elems
<1>3. \A p \in Elems(rx) : p.cmd = op => op \in Transfers
  BY <1>1, <1>2 DEF Packets, Cmds, Transfers
<1>4. \A p \in Requests \cup InContent : p.cmd # op /\ (p.cmd \in Content => phase = "active")
  BY <1>1, CmdsOfOperation DEF Requests, InContent, Packets, Cmds, Transfers
<1>5. \A p \in Answers \cup OutContent :
         ~Opens(p) /\ (p.cmd \in Content => state = op /\ op \in Transfers)
  BY <1>1, CmdsOfOperation DEF Answers, OutContent, Opens, Content, ToClient
<1>6. /\ Elems(rx') \subseteq Elems(rx) \cup Requests \cup InContent
      /\ \A p, q : Before(rx', p, q) => Before(rx, p, q) \/ q \in Requests \cup InContent
  BY DEF Shape, RxGains
<1>7. /\ Flight' \subseteq Flight \cup Answers \cup OutContent
      /\ \A p, q : Leads(p, q)' => Leads(p, q) \/ q \in Answers \cup OutContent
  BY DEF Shape, FlightGains, Flight
<1>8. \A p : Opens(p)' <=> Opens(p)
  BY <1>1 DEF Opens
<1>9. (\A p, q \in Elems(rx) : Before(rx, p, q) => ~(p.cmd = op /\ q.cmd = op))'
  <2> SUFFICES ASSUME NEW p, NEW q, Before(rx', p, q), p.cmd = op, q.cmd = op PROVE FALSE
    BY <1>1
  <2>1. Before(rx, p, q)
    BY <1>4, <1>6
  <2> QED BY <2>1, BeforeIsIn DEF OpenInv
<1>10. ASSUME NEW p \in Elems(rx'), p.cmd = op
       PROVE  /\ state' = "IDLE" /\ phase' \in {"opening", "failed"} /\ stash' = <<>>
              /\ \A q \in Elems(rx') : q.cmd \notin Content
              /\ \A q \in Flight' : q.cmd \notin Content /\ ~Opens(q)
              /\ nextPacket' = 0 /\ nextAck' = 0
  <2>1. p \in Elems(rx)
    BY <1>4, <1>6, <1>10
  <2>2. /\ state = "IDLE" /\ phase \in {"opening", "failed"} /\ stash = <<>>
        /\ \A q \in Elems(rx) : q.cmd \notin Content
        /\ \A q \in Flight : q.cmd \notin Content /\ ~Opens(q)
        /\ nextPacket = 0 /\ nextAck = 0
    BY <1>10, <2>1 DEF OpenInv
  <2>3. op # "IDLE"
    BY <1>1 DEF Transfers
  <2>4. /\ state' = "IDLE" /\ phase' \in {"opening", "failed"} /\ stash' = <<>>
        /\ nextPacket' = 0 /\ nextAck' = 0
    BY <2>2 DEF Shape, Busy
  <2>5. \A q \in Elems(rx') : q.cmd \notin Content
    BY <1>4, <1>6, <2>2
  <2>6. \A q \in Flight' : q.cmd \notin Content /\ ~Opens(q)
    BY <1>5, <1>7, <2>2, <2>3
  <2> QED BY <2>4, <2>5, <2>6
<1>11. ASSUME phase' = "opening"
       PROVE  acked' = 0 /\ sent' = 0 /\ got' = <<>> /\ \A q \in Elems(rx') : q.cmd \notin Content
  <2>1. phase = "opening" /\ UNCHANGED <<acked, sent, got>>
    BY <1>1, <1>11 DEF Shape, Busy
  <2> QED BY <1>4, <1>6, <2>1 DEF OpenInv
<1>12. ASSUME NEW p, NEW q, Leads(p, q)', p.cmd \in Content PROVE ~Opens(q)
  BY <1>5, <1>7, <1>12, LeadsInFlight DEF OpenInv
<1>13. ASSUME stash' # <<>> PROVE phase' = "opening" /\ \A q \in Flight' : ~Opens(q)
  <2>1. stash # <<>> /\ phase' = "opening"
    BY <1>13 DEF Shape, OpenInv
  <2> QED BY <1>5, <1>7, <2>1 DEF OpenInv
<1> QED BY <1>1, <1>8, <1>9, <1>10, <1>11, <1>12, <1>13 DEF OpenInv

\* An upload that is left where it is keeps what is known of it.
LEMMA StillKeepsWrite ==
  ASSUME ITypes, WriteInv, Shape, Still
  PROVE  WriteInv'
<1> SUFFICES ASSUME op' = "WRITE" PROVE DiskInv' /\ WindowInv' /\ FramesInv' /\ AcksInv'
  BY DEF WriteInv
<1>1. DiskInv /\ WindowInv /\ FramesInv /\ AcksInv
  BY DEF WriteInv, Shape
<1>2. UNCHANGED <<acked, nextPacket, pos, disk>> /\ op' = op
  BY DEF Still, Shape
<1>3. /\ phase' = "opening" => phase = "opening"
      /\ phase' = "active" => phase = "active"
      /\ phase' = "done" => phase = "done"
  BY DEF Shape, Still, Busy
<1>4. /\ \A p \in Elems(rx') : p.cmd = "DATA" => p \in Elems(rx)
      /\ \A p, q : Before(rx', p, q) /\ q.cmd = "DATA" => Before(rx, p, q)
  BY DEF Still, RxGains, Requests
<1>5. /\ \A p \in Flight' : p.cmd = "FILE_ACK" => p \in Flight
      /\ \A p, q : Leads(p, q)' /\ q.cmd = "FILE_ACK" => Leads(p, q)
  BY DEF Still, FlightGains, Answers, Flight
<1>6. DiskInv'
  <2>1. (open' => open) /\ (run = "leave" => run' = "leave" \/ state' = "IDLE")
        /\ state' \in {state, "IDLE"}
    BY DEF Still, Shape
  <2>2. Holds(pos)' <=> Holds(pos)
    BY <1>2 DEF Holds
  <2> QED BY <1>1, <1>2, <2>1, <2>2 DEF DiskInv
<1>7. WindowInv'
  BY <1>1, <1>2, <1>3, <1>5 DEF WindowInv
<1>8. FramesInv'
  <2>1. ASSUME NEW p \in Elems(rx'), p.cmd = "DATA"
        PROVE  /\ p.n = p.body % Counters /\ p.body < acked' + Window
               /\ nextPacket' <= p.body + Window
    BY <1>1, <1>2, <1>4, <2>1 DEF FramesInv
  <2>2. ASSUME NEW p \in Elems(rx'), NEW q \in Elems(rx'), Before(rx', p, q),
               p.cmd = "DATA", q.cmd = "DATA"
        PROVE  p.body < q.body + Window
    BY <1>1, <1>4, <2>2, BeforeIsIn DEF FramesInv
  <2> QED BY <2>1, <2>2 DEF FramesInv
<1>9. AcksInv'
  <2>1. \A p : AckedFrame(p)' = AckedFrame(p)
    BY <1>2 DEF AckedFrame, Lift
  <2> QED BY <1>1, <1>2, <1>3, <1>5, <2>1, LeadsInFlight DEF AcksInv
<1> QED BY <1>6, <1>7, <1>8, <1>9

\* A step that opens no operation makes nothing in flight count that did not.
LEMMA StillLive ==
  ASSUME Shape, phase' = "active" => phase = "active" PROVE Live' => Live
BY DEF Shape, Live, Busy

\* So does a download.
LEMMA StillKeepsRead ==
  ASSUME ITypes, ReadInv, Shape, Still
  PROVE  ReadInv'
<1> SUFFICES ASSUME op' = "READ" PROVE ReaderInv' /\ GotInv' /\ SentInv' /\ ReplyInv'
  BY DEF ReadInv
<1>1. ReaderInv /\ GotInv /\ SentInv /\ ReplyInv
  BY DEF ReadInv, Shape
<1>2. UNCHANGED <<got, asked, nextPacket, nextAck, pos, offset, stride>> /\ op' = op
  BY DEF Still, Shape
<1>3. (Live' => Live) /\ (phase' = "done" => phase = "done")
  BY StillLive DEF Shape, Still, Busy
<1>4. /\ \A p \in Elems(rx') : p.cmd \in {"READ", "FILE_ACK"} => p \in Elems(rx)
      /\ \A p, q : Before(rx', p, q) /\ q.cmd = "FILE_ACK" => Before(rx, p, q)
  BY DEF Still, RxGains, Requests
<1>5. /\ \A p \in Flight' : p.cmd = "DATA" => p \in Flight
      /\ \A p, q : Leads(p, q)' /\ q.cmd = "DATA" => Leads(p, q)
  BY DEF Still, FlightGains, Answers, Flight
<1>6. \A k : Asked(k)' = Asked(k)
  BY <1>2 DEF Asked
<1>7. \A p : Place(p)' = Place(p) /\ AckPlace(p)' = AckPlace(p)
  BY <1>2 DEF Place, AckPlace, Lift
<1>8. ReaderInv'
  <2>1. (run = "leave" => run' = "leave" \/ state' = "IDLE") /\ state' \in {state, "IDLE"}
    BY DEF Still, Shape
  <2>2. Seek(Asked(nextPacket))' = Seek(Asked(nextPacket))
    BY <1>2 DEF Seek, Asked
  <2> QED BY <1>1, <1>2, <1>4, <2>1, <2>2 DEF ReaderInv
<1>9. GotInv'
  BY <1>1, <1>2, <1>3, <1>6 DEF GotInv
<1>10. SentInv'
  BY <1>1, <1>2, <1>3, <1>5, <1>6, <1>7, LeadsInFlight DEF SentInv, Seek
<1>11. ReplyInv'
  BY <1>1, <1>2, <1>3, <1>4, <1>7, BeforeIsIn DEF ReplyInv
<1> QED BY <1>8, <1>9, <1>10, <1>11

\* For a listing, nothing may get lost either.
LEMMA StillKeepsDir ==
  ASSUME ITypes, DirInv, Shape, Still, mishaps' = 0 => mishaps = 0,
         mishaps' = 0 /\ Live' => \A p \in Flight : p.cmd = "INFO" => p \in Flight'
  PROVE  DirInv'
<1> SUFFICES ASSUME op' = "DIR", mishaps' = 0 PROVE ListedInv' /\ EntriesInv'
  BY DEF DirInv
<1>1. ListedInv /\ EntriesInv
  BY DEF DirInv, Shape
<1>2. UNCHANGED <<got, asked, pos>>
  BY DEF Still
<1>3. (Live' => Live) /\ (phase' = "done" => phase = "done")
  BY StillLive DEF Shape, Still, Busy
<1>4. /\ \A p \in Flight' : p.cmd = "INFO" => p \in Flight
      /\ \A p, q : Leads(p, q)' /\ q.cmd = "INFO" => Leads(p, q)
  BY DEF Still, FlightGains, Answers, Flight
<1>5. ListedInv'
  BY <1>1, <1>2, <1>3 DEF ListedInv
<1>6. EntriesInv'
  <2> SUFFICES ASSUME Live' PROVE
        /\ Len(got') <= pos'
        /\ \A p \in Flight' : p.cmd = "INFO" => Len(got') <= p.body /\ p.body < pos'
        /\ \A p, q \in Flight' : Leads(p, q)' /\ p.cmd = "INFO" /\ q.cmd = "INFO" => p.body < q.body
        /\ \A b \in Len(got') .. pos' - 1 : \E p \in Flight' : p.cmd = "INFO" /\ p.body = b
    BY DEF EntriesInv
  <2> QED BY <1>1, <1>2, <1>3, <1>4, LeadsInFlight DEF EntriesInv
<1> QED BY <1>5, <1>6
-----------------------------------------------------------------------------
(* Steps that leave the transfer where it is.                               *)

\* Those of the device lose nothing either.
LEMMA QuietDevice ==
  ASSUME ITypes, OneInv, UNCHANGED clientVars, UNCHANGED boundVars,
         \/ TimerExpires \/ TransmitRefused \/ PoolAvailable \/ OtherPacket
         \/ RunTask /\ ~(state = "READ" /\ timeoutFlag)
         \/ Malformed \/ SimpleCommand \/ Ignored \/ Cancel \/ OutOfOrder
         \/ ReceiveDone \/ SendDone \/ LeaveTransfer
  PROVE  Shape /\ Still /\ Flight \subseteq Flight'
<1> USE DEF clientVars, boundVars, counterVars, fileVars, timerVars, linkVars
<1> DEFINE Rest ==
      /\ UNCHANGED <<nextPacket, nextAck, pos, disk, offset, stride, connected>>
      /\ state' \in {state, "IDLE"} /\ (open' => open)
      /\ run = "leave" => run' = "leave" \/ state' = "IDLE"
<1>1. ASSUME Rest, RxGains(Requests), FlightGains(Answers) PROVE Shape /\ Still
  BY <1>1, GainsGrow DEF Shape, Still
<1>2. ASSUME UNCHANGED rx PROVE RxGains(Requests)
  BY <1>2 DEF RxGains
<1>3. ASSUME NEW ss, NEW cmds, Takes(ss, cmds) PROVE RxGains(Requests)
  BY <1>3, TakesRx DEF RxGains
<1>4. ASSUME UNCHANGED tx PROVE FlightGains(Answers) /\ Flight \subseteq Flight'
  BY <1>4, NoFlight, GainsGrow
<1>5. ASSUME NEW p \in Answers, Send(p) PROVE FlightGains(Answers) /\ Flight \subseteq Flight'
  <2>1. p \in Packets
    BY DEF Answers
  <2>2. FlightGains({p}) /\ Flight \subseteq Flight'
    BY <1>5, <2>1, SendFlight
  <2> QED BY <2>2, GainsGrow
<1>6. \A c \in Cmds : Nak(c) \in Answers
  BY PacketsTyped DEF Answers, Nak, Packet
<1>7. \A c \in {"PING", "MK_DIR"} : Ack(c) \in Answers
  BY PacketsTyped, CmdsTyped DEF Answers, Ack, Packet
<1>8. CASE TimerExpires \/ TransmitRefused \/ PoolAvailable
  <2>1. Rest /\ UNCHANGED <<rx, tx>>
    BY <1>8 DEF TimerExpires, TransmitRefused, PoolAvailable
  <2> QED BY <1>1, <1>2, <1>4, <2>1
<1>9. CASE OtherPacket
  <2>1. Packet("OTHER", 0, 0, "OTHER") \in Answers
    BY CmdsTyped DEF Answers, Packet, Packets
  <2>2. Rest /\ UNCHANGED rx /\ Room /\ tx' = Append(tx, Packet("OTHER", 0, 0, "OTHER"))
    BY <1>9 DEF OtherPacket
  <2>3. Packet("OTHER", 0, 0, "OTHER") \in Packets /\ tx \in Seq(Packets)
    BY <2>1 DEF Answers, ITypes
  <2>4. FlightGains(Answers) /\ Flight \subseteq Flight'
    <3> DEFINE p == Packet("OTHER", 0, 0, "OTHER")
    <3>1. /\ Elems(Append(tx, p)) = Elems(tx) \cup {p}
          /\ \A a, b : Before(Append(tx, p), a, b) => Before(tx, a, b) \/ (a \in Elems(tx) /\ b = p)
      BY <2>3, ElemsAppend
    <3> HIDE DEF p
    <3> QED BY <2>1, <2>2, <3>1 DEF p, FlightGains, Flight, Leads
  <2> QED BY <1>1, <1>2, <2>2, <2>4
<1>10. CASE RunTask /\ ~(state = "READ" /\ timeoutFlag)
  <2>1. Rest /\ UNCHANGED <<rx, tx>>
    BY <1>10 DEF RunTask
  <2> QED BY <1>1, <1>2, <1>4, <2>1
<1>11. CASE Malformed
  <2>1. Rest /\ Send(Nak("BAD")) /\ Nak("BAD") \in Answers
    BY <1>6, <1>11, CmdsTyped DEF Malformed
  <2> QED BY <1>1, <1>3, <1>5, <1>11, <2>1 DEF Malformed
<1>12. CASE SimpleCommand
  <2>1. Takes({"IDLE"}, {"PING", "MK_DIR", "CANCEL", "DATA", "FILE_ACK"}) /\ Rest
    BY <1>12 DEF SimpleCommand
  <2>2. Head(rx).cmd \in Cmds
    BY <2>1, TakesTyped DEF Packets
  <2>3. PICK ok : Send(IF Head(rx).cmd = "PING" \/ (Head(rx).cmd = "MK_DIR" /\ ok)
                       THEN Ack(Head(rx).cmd) ELSE Nak(Head(rx).cmd))
    BY <1>12 DEF SimpleCommand
  <2>4. PICK p \in Answers : Send(p)
    BY <1>6, <1>7, <2>2, <2>3
  <2> QED BY <1>1, <1>3, <1>5, <2>1, <2>4
<1>13. CASE Ignored
  <2>1. Rest /\ UNCHANGED tx
    BY <1>13 DEF Ignored
  <2> QED BY <1>1, <1>3, <1>4, <1>13, <2>1 DEF Ignored
<1>14. CASE Cancel
  <2>1. Rest /\ UNCHANGED tx
    BY <1>14 DEF Cancel
  <2> QED BY <1>1, <1>3, <1>4, <1>14, <2>1 DEF Cancel
<1>15. CASE OutOfOrder
  <2>1. Rest /\ UNCHANGED tx
    BY <1>15 DEF OutOfOrder
  <2> QED BY <1>1, <1>3, <1>4, <1>15, <2>1 DEF OutOfOrder
<1>16. CASE ReceiveDone \/ SendDone
  <2>1. Rest /\ UNCHANGED <<rx, tx>>
    BY <1>16 DEF ReceiveDone, SendDone
  <2> QED BY <1>1, <1>2, <1>4, <2>1
<1>17. CASE LeaveTransfer
  <2>1. Rest /\ UNCHANGED rx
    BY <1>17 DEF LeaveTransfer
  <2>2. UNCHANGED tx \/ \E p \in Answers : Send(p)
    BY <1>6, <1>17, CmdsTyped DEF LeaveTransfer
  <2> QED BY <1>1, <1>2, <1>4, <1>5, <2>1, <2>2
<1> QED BY <1>8, <1>9, <1>10, <1>11, <1>12, <1>13, <1>14, <1>15, <1>16, <1>17

\* Those of the client and of the link lose something only when the operation is over or a
\* mishap is counted.
LEMMA QuietClient ==
  ASSUME ITypes, OneInv, OpenInv,
         \/ Refused \/ Unexpected
         \/ ClientTimeout /\ (Fail \/ op # "READ")
         \/ \E cmd \in Others : OtherWrite(cmd)
         \/ Transmit \/ Break \/ Abandon \/ IdleExpires \/ IdleDisconnect \/ Connect
         \/ AwaitAck /\ phase' # "active" /\ stash' \in {stash, <<>>}
  PROVE  /\ Shape /\ Still /\ (mishaps' = 0 => mishaps = 0)
         /\ mishaps' = 0 /\ Live' => \A p \in Flight : p.cmd = "INFO" => p \in Flight'
<1> USE DEF clientVars, boundVars, counterVars, fileVars, timerVars, linkVars
<1> DEFINE Rest ==
      /\ UNCHANGED <<op, acked, got, asked, operations>>
      /\ UNCHANGED <<state, run, open, nextPacket, nextAck, pos, disk, offset, stride>>
<1> DEFINE Kept ==
      /\ mishaps' = 0 => mishaps = 0
      /\ mishaps' = 0 /\ Live' => \A p \in Flight : p.cmd = "INFO" => p \in Flight'
<1> DEFINE Going ==
      /\ \/ phase' = phase /\ stash' = stash
         \/ Busy /\ phase' = "failed" /\ stash' = <<>>
         \/ ~Busy /\ phase' = phase /\ stash' = <<>>
      /\ phase' = "opening" => UNCHANGED sent
      /\ Busy' => (connected => connected')
<1>1. ASSUME Rest, Going, RxGains(Requests), FlightGains(Answers) PROVE Shape /\ Still
  <2>1. RxGains(Requests \cup InContent) /\ FlightGains(Answers \cup OutContent)
    BY <1>1, GainsGrow
  <2>2. phase' = "done" => phase = "done"
    BY <1>1
  <2> QED BY <1>1, <2>1, <2>2 DEF Shape, Still
<1>2. ASSUME UNCHANGED rx PROVE RxGains(Requests)
  BY <1>2 DEF RxGains
<1>3. ASSUME NEW p \in Requests, rx' \in {rx, Received(p)} PROVE RxGains(Requests)
  BY <1>3, ReceivedRx DEF RxGains, Requests
<1>4. ASSUME NEW F, F \subseteq Answers, FlightGains(F) PROVE FlightGains(Answers)
  BY <1>4, GainsGrow
<1>5. Command("CANCEL") \in Requests /\ \A cmd \in Others : Command(cmd) \in Requests
  BY OperationsAssumption, PacketsTyped, CmdsTyped DEF Requests, Command, Packet
<1>6. mishaps \in Nat
  BY DEF ITypes
<1>7. ASSUME NEW p, Write(p) PROVE rx' \in {rx, Received(p)} /\ (mishaps' = 0 => mishaps = 0)
  BY <1>6, <1>7 DEF Write, Mishap
<1>8. ASSUME Fail, DeviceRest, UNCHANGED operations, Busy
      PROVE  Shape /\ Still /\ Kept
  <2>1. Rest /\ Going /\ phase' = "failed"
    BY <1>8 DEF Fail, DeviceRest
  <2>2. RxGains(Requests) /\ (mishaps' = 0 => mishaps = 0)
    BY <1>3, <1>5, <1>7, <1>8 DEF Fail
  <2>3. FlightGains({})
    BY <1>8, ClearFlight DEF Fail, DeviceRest
  <2> QED BY <1>1, <1>4, <2>1, <2>2, <2>3 DEF Live
<1>9. CASE Refused
  BY <1>8, <1>9 DEF Refused, Busy
<1>10. CASE Unexpected
  <2>1. Rest /\ Going /\ UNCHANGED <<rx, mishaps, tx>> /\ inbox # <<>> /\ inbox' = Tail(inbox)
    BY <1>10 DEF Unexpected, DeviceRest, Quiet, Pop, Drop, Busy
  <2>2. FlightGains({}) /\ Flight = Flight' \cup {Head(inbox)}
    BY <2>1, PopFlight
  <2>3. op = "DIR" => Head(inbox).cmd # "INFO"
    BY <1>10 DEF Unexpected
  <2>4. Head(inbox).cmd = "INFO" => op = "DIR"
    <3>1. Head(inbox) \in Elems(inbox)
      BY <2>1, PopFlight
    <3>2. op \in Transfers \cup {"NONE"}
      BY DEF ITypes, TypeOK
    <3> QED BY <3>1, <3>2 DEF OneInv, ToClient, Transfers
  <2> QED BY <1>1, <1>2, <1>4, <2>1, <2>2, <2>3, <2>4
<1>11. CASE ClientTimeout /\ (Fail \/ op # "READ")
  <2>1. CASE Fail
    BY <1>8, <1>11, <2>1 DEF ClientTimeout
  <2>2. CASE ~Fail
    <3>1. /\ UNCHANGED <<op, phase, acked, got, asked, inbox, stash>> /\ Quiet
          /\ DeviceRest /\ UNCHANGED operations /\ phase # "opening"
      BY <1>11, <2>2 DEF ClientTimeout
    <3>2. Rest /\ Going /\ UNCHANGED <<rx, mishaps, tx, inbox>>
      BY <3>1 DEF Quiet, DeviceRest, Busy
    <3>3. FlightGains({}) /\ Flight' = Flight
      BY <3>2, NoFlight
    <3> QED BY <1>1, <1>2, <1>4, <3>2, <3>3
  <2> QED BY <2>1, <2>2
<1>12. ASSUME NEW cmd \in Others, OtherWrite(cmd) PROVE Shape /\ Still /\ Kept
  <2>1. Rest /\ Going /\ UNCHANGED <<tx, inbox>> /\ rx' = Received(Command(cmd))
    BY <1>12 DEF OtherWrite, DeviceRest, Busy
  <2>2. mishaps' # 0
    BY <1>6, <1>12 DEF OtherWrite, Mishap
  <2>3. FlightGains({})
    BY <2>1, NoFlight
  <2> QED BY <1>1, <1>3, <1>4, <1>5, <2>1, <2>2, <2>3
<1>13. CASE Transmit
  <2>1. Rest /\ Going /\ UNCHANGED <<rx, connected, phase, stash>>
    BY <1>13 DEF Transmit, TransmitDone, Busy
  <2>2. mishaps' = mishaps \/ mishaps' = mishaps + 1
    BY <1>13 DEF Transmit, Mishap
  <2>3. Live' => Busy /\ connected
    BY <2>1 DEF Live, Busy, OneInv
  <2>4. /\ FlightGains({})
        /\ Busy /\ connected /\ mishaps' = mishaps =>
              \A p \in Flight : p.cmd # "OTHER" => p \in Flight'
    BY <1>13, TransmitFlight
  <2> QED BY <1>1, <1>2, <1>4, <1>6, <2>1, <2>2, <2>3, <2>4
<1>14. CASE Break \/ IdleDisconnect
  <2>1. Rest /\ UNCHANGED <<rx, tx>> /\ inbox' = <<>> /\ Going /\ ~Live'
    BY <1>14 DEF Break, IdleDisconnect, Disconnect, Busy, Live
  <2>2. mishaps' = 0 => mishaps = 0
    BY <1>6, <1>14 DEF Break, IdleDisconnect, Mishap
  <2>3. FlightGains({})
    BY <2>1, ClearFlight
  <2> QED BY <1>1, <1>2, <1>4, <2>1, <2>2, <2>3
<1>15. CASE Abandon
  <2>1. Rest /\ UNCHANGED <<rx, tx>> /\ inbox' = <<>> /\ Going
    BY <1>15 DEF Abandon, DeviceRest, Busy
  <2>2. mishaps' # 0
    BY <1>6, <1>15 DEF Abandon, Mishap
  <2>3. FlightGains({})
    BY <2>1, ClearFlight
  <2> QED BY <1>1, <1>2, <1>4, <2>1, <2>2, <2>3
<1>16. CASE IdleExpires
  <2>1. Rest /\ Going /\ UNCHANGED <<rx, tx, inbox, mishaps>>
    BY <1>16 DEF IdleExpires, crsVars, Busy
  <2>2. FlightGains({}) /\ Flight' = Flight
    BY <2>1, NoFlight
  <2> QED BY <1>1, <1>2, <1>4, <2>1, <2>2
<1>17. CASE Connect
  <2>1. Rest /\ Going /\ UNCHANGED <<tx, inbox>> /\ rx' = <<>>
    BY <1>17 DEF Connect, Busy
  <2>2. mishaps' = mishaps \/ mishaps' = mishaps + 1
    BY <1>17 DEF Connect, Mishap
  <2>3. RxGains(Requests)
    BY <2>1, ElemsEmpty DEF RxGains
  <2>4. FlightGains({}) /\ Flight' = Flight
    BY <2>1, NoFlight
  <2> QED BY <1>1, <1>4, <1>6, <2>1, <2>2, <2>3, <2>4
<1>18. CASE AwaitAck /\ phase' # "active" /\ stash' \in {stash, <<>>}
  <2>1. phase = "opening" /\ Pop /\ UNCHANGED operations /\ DeviceRest
    BY <1>18 DEF AwaitAck
  <2>2. CASE Fail
    BY <1>8, <2>1, <2>2 DEF Busy
  <2>3. CASE /\ Head(inbox).cmd \in {"ACK", "NAK"} /\ Drop
             /\ UNCHANGED <<op, phase, acked, sent, got, asked, retries, stash>> /\ Quiet
    <3>1. Rest /\ Going /\ UNCHANGED <<rx, mishaps, tx>> /\ inbox # <<>> /\ inbox' = Tail(inbox)
      BY <2>1, <2>3 DEF DeviceRest, Quiet, Pop, Drop, Busy
    <3>2. FlightGains({}) /\ Flight = Flight' \cup {Head(inbox)}
      BY <3>1, PopFlight
    <3> QED BY <1>1, <1>2, <1>4, <2>3, <3>1, <3>2
  <2>4. CASE stash' = Append(stash, Head(inbox))
    <3>1. stash \in Seq(Packets) /\ Head(inbox) \in Packets
      BY <2>1, ElemsTail DEF ITypes, Pop
    <3>2. /\ Append(stash, Head(inbox)) # <<>>
          /\ Len(Append(stash, Head(inbox))) = Len(stash) + 1 /\ Len(stash) \in Nat
      BY <3>1, ElemsAppend
    <3> QED BY <1>18, <2>4, <3>2
  <2> QED BY <1>18, <2>2, <2>3, <2>4 DEF AwaitAck
<1> QED BY <1>9, <1>10, <1>11, <1>12, <1>13, <1>14, <1>15, <1>16, <1>17, <1>18
-----------------------------------------------------------------------------
(* Steps of an upload.                                                      *)

\* Within a window of each other, two frames with the same counter are one.
LEMMA CounterTells ==
  ASSUME NEW f \in Int, NEW g \in Int, g - Window <= f, f < g + Window,
         f % Counters = g % Counters
  PROVE  f = g
<1>1. g - Window \in Int /\ f < g - Window + Counters /\ g < g - Window + Counters
      /\ g - Window <= g
  BY CountersTyped
<1>2. Lift(f % Counters, g - Window) = f
  BY <1>1, LiftOfCounter
<1>3. Lift(g % Counters, g - Window) = g
  BY <1>1, LiftOfCounter
<1> QED BY <1>2, <1>3

\* The ACK of a frame queued is behind those of the frames before it.
LEMMA AckSent ==
  ASSUME ITypes, AcksInv, WindowInv, nextPacket < acked + Window, Room,
         Send(Packet("FILE_ACK", nextPacket % Counters, 0, "DATA")),
         nextPacket' = nextPacket + 1, UNCHANGED <<acked, phase, inbox>>
  PROVE  AcksInv'
<1> DEFINE ack == Packet("FILE_ACK", nextPacket % Counters, 0, "DATA")
<1>1. nextPacket \in Nat /\ acked \in Nat /\ Window \in Nat
  BY WindowAssumption, FramesAssumption DEF ITypes, TypeOK, CrsTypeOK
<1>2. ack \in Packets /\ ack.n = nextPacket % Counters
  <2>1. nextPacket % Counters \in Nat
    BY <1>1, CountersTyped
  <2> QED BY <2>1, PacketsTyped, CmdsTyped DEF Packet
<1>3. Flight' = Flight \cup {ack} /\ \A a, b : Leads(a, b)' => Leads(a, b) \/ (a \in Flight /\ b = ack)
  BY <1>2, SendFlight
<1>4. Lift(nextPacket % Counters, acked) = nextPacket /\ nextPacket % Counters \in 0 .. Counters - 1
  <2>1. acked <= nextPacket /\ nextPacket < acked + Counters
    BY <1>1, CountersTyped DEF WindowInv
  <2> QED BY <1>1, <2>1, LiftOfCounter
<1>5. AckedFrame(ack) = nextPacket /\ ack.n \in 0 .. Counters - 1
  BY <1>2, <1>4 DEF AckedFrame
<1>6. \A p : AckedFrame(p)' = AckedFrame(p)
  BY DEF AckedFrame, Lift
<1> HIDE DEF ack
<1> SUFFICES ASSUME phase' = "active" PROVE
        /\ \A p \in Flight' : p.cmd = "FILE_ACK" =>
             p.n \in 0 .. Counters - 1 /\ AckedFrame(p) < nextPacket'
        /\ \A p, q \in Flight' : Leads(p, q)' /\ p.cmd = "FILE_ACK" /\ q.cmd = "FILE_ACK" =>
             AckedFrame(p) < AckedFrame(q)
  BY <1>6 DEF AcksInv
<1>7. ASSUME NEW p \in Flight, p.cmd = "FILE_ACK"
      PROVE  p.n \in 0 .. Counters - 1 /\ AckedFrame(p) < nextPacket /\ AckedFrame(p) \in Int
  <2>1. p.n \in 0 .. Counters - 1 /\ AckedFrame(p) < nextPacket
    BY <1>7 DEF AcksInv
  <2> QED BY <1>1, <2>1, LiftRange DEF AckedFrame
<1>8. \A p \in Flight' : p.cmd = "FILE_ACK" =>
         p.n \in 0 .. Counters - 1 /\ AckedFrame(p) < nextPacket'
  BY <1>1, <1>3, <1>5, <1>7
<1>9. ASSUME NEW p, NEW q, Leads(p, q)', p.cmd = "FILE_ACK", q.cmd = "FILE_ACK"
      PROVE  AckedFrame(p) < AckedFrame(q)
  <2>1. CASE Leads(p, q)
    BY <1>9, <2>1, LeadsInFlight DEF AcksInv
  <2>2. CASE p \in Flight /\ q = ack
    BY <1>5, <1>7, <1>9, <2>2
  <2> QED BY <1>3, <1>9, <2>1, <2>2
<1> QED BY <1>8, <1>9

\* Nothing changes for the ACKs in flight when none is sent and the window stays.
LEMMA NoAckSent ==
  ASSUME AcksInv, UNCHANGED <<acked, phase, nextPacket>>,
         \A p \in Flight' : p.cmd = "FILE_ACK" => p \in Flight,
         \A p, q : Leads(p, q)' /\ q.cmd = "FILE_ACK" => Leads(p, q)
  PROVE  AcksInv'
<1>1. \A p : AckedFrame(p)' = AckedFrame(p)
  BY DEF AckedFrame, Lift
<1> QED BY <1>1, LeadsInFlight DEF AcksInv

\* The frame that is taken is the one expected: neither one that comes again nor one of a
\* later window has its counter.
LEMMA FrameExpected ==
  ASSUME ITypes, OneInv, OpenInv, WriteInv, Takes({"WRITE"}, {"DATA"}),
         Head(rx).n = nextPacket % Counters
  PROVE  /\ op = "WRITE" /\ state = "WRITE" /\ run = "receive" /\ phase # "opening"
         /\ DiskInv /\ WindowInv /\ FramesInv /\ AcksInv
         /\ nextPacket = pos /\ nextPacket \in Nat /\ acked \in Nat
         /\ Head(rx).body = nextPacket /\ nextPacket <= Frames /\ nextPacket < acked + Window
<1>1. /\ Head(rx) \in Packets /\ Head(rx).cmd = "DATA" /\ Head(rx) \in Elems(rx)
      /\ state = "WRITE" /\ run = "receive"
  BY TakesRx, TakesTyped
<1>2. op = "WRITE" /\ DiskInv /\ WindowInv /\ FramesInv /\ AcksInv
  BY <1>1 DEF OneInv, WriteInv
<1>3. nextPacket = pos
  BY <1>1, <1>2 DEF DiskInv
<1>4. nextPacket \in Nat /\ acked \in Nat /\ Window \in Nat /\ Frames \in Nat
  BY WindowAssumption, FramesAssumption DEF ITypes, TypeOK, CrsTypeOK
<1>5. Head(rx).body \in Nat /\ Head(rx).body <= Frames
  BY <1>1 DEF Packets
<1>6. /\ Head(rx).n = Head(rx).body % Counters /\ Head(rx).body < acked + Window
      /\ nextPacket <= Head(rx).body + Window
  BY <1>1, <1>2 DEF FramesInv
<1>7. acked <= nextPacket
  BY <1>2 DEF WindowInv
<1>8. Head(rx).body = nextPacket
  BY <1>4, <1>5, <1>6, <1>7, CounterTells
<1>9. phase # "opening"
  BY <1>1 DEF OpenInv, Content
<1> QED BY <1>1, <1>2, <1>3, <1>4, <1>5, <1>6, <1>8, <1>9

\* Taking it leaves those behind it within the window of the next.
LEMMA FramesBehind ==
  ASSUME ITypes, OneInv, OpenInv, WriteInv, Takes({"WRITE"}, {"DATA"}),
         Head(rx).n = nextPacket % Counters, nextPacket' \in {nextPacket, nextPacket + 1},
         UNCHANGED acked
  PROVE  FramesInv'
<1>1. /\ Elems(rx') \subseteq Elems(rx) /\ Head(rx).cmd = "DATA" /\ Head(rx) \in Elems(rx)
      /\ \A p, q : Before(rx', p, q) => Before(rx, p, q)
      /\ \A q \in Elems(rx') : Before(rx, Head(rx), q)
  BY TakesRx
<1>2. FramesInv /\ Head(rx).body = nextPacket /\ nextPacket \in Nat
  BY FrameExpected
<1>3. ASSUME NEW p \in Elems(rx'), p.cmd = "DATA"
      PROVE  /\ p.n = p.body % Counters /\ p.body < acked + Window
             /\ nextPacket' <= p.body + Window
  <2>1. /\ p.n = p.body % Counters /\ p.body < acked + Window
        /\ nextPacket <= p.body + Window /\ nextPacket < p.body + Window
    BY <1>1, <1>2, <1>3 DEF FramesInv
  <2>2. p.body \in Nat /\ Window \in Nat
    BY <1>1, <1>3, WindowAssumption, ElemsTyped DEF Packets
  <2> QED BY <1>2, <2>1, <2>2
<1>4. ASSUME NEW p \in Elems(rx'), NEW q \in Elems(rx'), Before(rx', p, q),
             p.cmd = "DATA", q.cmd = "DATA"
      PROVE  p.body < q.body + Window
  BY <1>1, <1>2, <1>4 DEF FramesInv
<1> QED BY <1>3, <1>4 DEF FramesInv

\* A frame is in the file when its ACK is queued, and is taken back when that cannot be.
LEMMA WriteFrameSafe ==
  ASSUME ITypes, OneInv, OpenInv, WriteInv, WriteFrame, UNCHANGED clientVars, UNCHANGED boundVars
  PROVE  Shape /\ WriteInv'
<1> USE DEF clientVars, boundVars
<1> DEFINE ack == Packet("FILE_ACK", nextPacket % Counters, 0, "DATA")
<1>1. Takes({"WRITE"}, {"DATA"}) /\ Head(rx).body # Eof /\ Head(rx).n = nextPacket % Counters
  BY DEF WriteFrame
<1>2. /\ op = "WRITE" /\ state = "WRITE" /\ run = "receive" /\ phase # "opening"
      /\ DiskInv /\ WindowInv /\ FramesInv /\ AcksInv
      /\ nextPacket = pos /\ nextPacket \in Nat /\ acked \in Nat
      /\ Head(rx).body = nextPacket /\ nextPacket <= Frames /\ nextPacket < acked + Window
  BY <1>1, FrameExpected
<1>3. pos < Frames /\ Frames \in Nat /\ Window \in Nat
  BY <1>1, <1>2, FramesAssumption, WindowAssumption DEF Eof
<1>4. PICK whole \in BOOLEAN, back \in BOOLEAN :
        /\ disk' \in IF whole THEN {Put(Head(rx).body)} ELSE {disk, Put(Torn)}
        /\ IF whole /\ Room
           THEN /\ pos' = pos + 1 /\ nextPacket' = nextPacket + 1
                /\ timer' = TRUE /\ UNCHANGED run
           ELSE /\ run' = IF back THEN run ELSE "leave"
                /\ UNCHANGED <<pos, nextPacket, timer>>
        /\ SendAll(CASE whole         -> <<Packet("FILE_ACK", Head(rx).n, 0, "DATA")>>
                     [] ~whole /\ back -> <<Nak("DATA")>>
                     [] OTHER         -> <<Nak("DATA"), Nak("DATA")>>)
  BY DEF WriteFrame, Result
<1>5. UNCHANGED <<state, open, nextAck, connected>>
  BY DEF WriteFrame, linkVars
<1>6. nextPacket' \in {nextPacket, nextPacket + 1}
  BY <1>4
<1>7. FramesInv'
  BY <1>1, <1>6, FramesBehind
<1>8. RxGains({})
  BY <1>1, TakesRx DEF RxGains
<1>9. Nak("DATA") \in Answers /\ ack \in OutContent
  <2>1. nextPacket % Counters \in Nat
    BY <1>2, CountersTyped
  <2>2. ack \in Packets /\ Nak("DATA") \in Packets
    BY <2>1, PacketsTyped, CmdsTyped
  <2> QED BY <1>2, <2>2 DEF Answers, OutContent, Nak, Packet, ToClient
<1>10. WindowInv'
  <2>1. acked <= nextPacket' /\ nextPacket' <= acked + Window
    BY <1>2, <1>3, <1>6 DEF WindowInv
  <2> QED BY <1>2, <2>1 DEF WindowInv
<1>11. \A x \in 0 .. Torn :
         /\ Len(Put(x)) = (IF pos < Len(disk) THEN Len(disk) ELSE pos + 1)
         /\ Put(x)[pos + 1] = x /\ \A i \in 1 .. pos : Put(x)[i] = disk[i]
  BY <1>2, PutTyped
<1>12. Torn \in 0 .. Torn /\ nextPacket \in 0 .. Torn
  BY <1>2, <1>3 DEF Torn
<1>13. Len(disk) \in Nat /\ pos <= Len(disk) /\ Len(disk) <= Frames /\ Holds(pos) /\ pos \in Nat
  BY <1>2 DEF ITypes, TypeOK, CrsTypeOK, DiskInv
<1>14. FlightGains(Answers \cup OutContent) =>  Shape
  BY <1>5, <1>8, <1>2, CmdsOfOperation, GainsGrow DEF Shape, Transfers
<1>15. CASE whole /\ Room
  <2>1. disk' = Put(nextPacket) /\ pos' = pos + 1 /\ nextPacket' = nextPacket + 1 /\ Send(ack)
    BY <1>1, <1>2, <1>4, <1>15 DEF Send
  <2>2. FlightGains(Answers \cup OutContent)
    <3>1. FlightGains({ack})
      BY <1>9, <2>1, SendFlight DEF OutContent
    <3> QED BY <1>9, <3>1, GainsGrow
  <2>3. AcksInv'
    BY <1>2, <1>15, <2>1, AckSent
  <2>4. DiskInv'
    <3>1. Len(disk') = (IF pos < Len(disk) THEN Len(disk) ELSE pos + 1)
          /\ disk'[pos + 1] = nextPacket /\ \A i \in 1 .. pos : disk'[i] = disk[i]
      BY <1>11, <1>12, <2>1
    <3>2. pos' <= Len(disk') /\ Len(disk') <= Frames
      BY <1>3, <1>13, <2>1, <3>1
    <3>3. \A i \in 1 .. pos' : disk'[i] = i - 1
      BY <1>2, <1>13, <2>1, <3>1 DEF Holds
    <3> QED BY <1>2, <2>1, <3>2, <3>3 DEF DiskInv, Holds
  <2> QED BY <1>7, <1>10, <1>14, <2>2, <2>3, <2>4 DEF WriteInv
<1>16. CASE ~(whole /\ Room)
  <2>1. UNCHANGED <<pos, nextPacket>> /\ disk' \in {disk, Put(nextPacket), Put(Torn)}
    BY <1>2, <1>4, <1>16
  <2>2. DiskInv'
    <3>1. Len(disk') \in {Len(disk), IF pos < Len(disk) THEN Len(disk) ELSE pos + 1}
          /\ \A i \in 1 .. pos : disk'[i] = disk[i]
      BY <1>11, <1>12, <2>1
    <3>2. pos' <= Len(disk') /\ Len(disk') <= Frames
      BY <1>3, <1>13, <2>1, <3>1
    <3>3. \A i \in 1 .. pos' : disk'[i] = i - 1
      BY <1>13, <2>1, <3>1 DEF Holds
    <3> QED BY <1>2, <2>1, <3>2, <3>3 DEF DiskInv, Holds
  <2>3. /\ FlightGains(Answers \cup OutContent)
        /\ \A p \in Flight' : p.cmd = "FILE_ACK" => p \in Flight
        /\ \A p, q : Leads(p, q)' /\ q.cmd = "FILE_ACK" => Leads(p, q)
    <3>1. CASE whole
      <4>1. Send(ack) /\ ~Room
        BY <1>1, <1>4, <1>16, <3>1 DEF Send
      <4>2. FlightGains({ack}) /\ Flight' = Flight /\ \A a, b : Leads(a, b)' => Leads(a, b)
        BY <1>9, <4>1, SendFlight DEF OutContent
      <4> QED BY <1>9, <4>2, GainsGrow
    <3>2. CASE ~whole
      <4>1. Send(Nak("DATA")) \/ SendAll(<<Nak("DATA"), Nak("DATA")>>)
        BY <1>4, <3>2 DEF Send
      <4>2. FlightGains({Nak("DATA")})
        BY <1>9, <4>1, SendFlight, SendTwiceFlight DEF Answers
      <4>3. Nak("DATA").cmd # "FILE_ACK"
        BY DEF Nak, Packet
      <4>4. /\ \A p \in Flight' : p.cmd = "FILE_ACK" => p \in Flight
            /\ \A p, q : Leads(p, q)' /\ q.cmd = "FILE_ACK" => Leads(p, q)
        BY <4>2, <4>3 DEF FlightGains, Flight
      <4> QED BY <1>9, <4>2, <4>4, GainsGrow
    <3> QED BY <3>1, <3>2
  <2>4. AcksInv'
    BY <1>2, <2>1, <2>3, NoAckSent
  <2> QED BY <1>7, <1>10, <1>14, <2>2, <2>3, <2>4 DEF WriteInv
<1> QED BY <1>15, <1>16

\* The last packet is acknowledged behind all frames.
LEMMA WriteEofSafe ==
  ASSUME ITypes, OneInv, OpenInv, WriteInv, WriteEof, UNCHANGED clientVars, UNCHANGED boundVars
  PROVE  Shape /\ WriteInv'
<1> USE DEF clientVars, boundVars
<1> DEFINE ack == Packet("FILE_ACK", nextPacket % Counters, 0, "DATA")
<1>1. Takes({"WRITE"}, {"DATA"}) /\ Head(rx).body = Eof /\ Head(rx).n = nextPacket % Counters
  BY DEF WriteEof
<1>2. /\ op = "WRITE" /\ state = "WRITE" /\ run = "receive" /\ phase # "opening"
      /\ DiskInv /\ WindowInv /\ FramesInv /\ AcksInv
      /\ nextPacket = pos /\ nextPacket \in Nat /\ acked \in Nat
      /\ Head(rx).body = nextPacket /\ nextPacket <= Frames /\ nextPacket < acked + Window
  BY <1>1, FrameExpected
<1>3. nextPacket = Frames /\ Frames \in Nat /\ Window \in Nat
  BY <1>1, <1>2, FramesAssumption, WindowAssumption DEF Eof
<1>4. PICK ok \in BOOLEAN :
        /\ Send(IF ok THEN Packet("FILE_ACK", Head(rx).n, 0, "DATA") ELSE Nak("DATA"))
        /\ nextPacket' = nextPacket + IF ok /\ Room THEN 1 ELSE 0
  BY DEF WriteEof, Result
<1>5. UNCHANGED <<state, pos, disk, nextAck, connected>> /\ open' = FALSE /\ run' = "leave"
  BY DEF WriteEof, fileVars, linkVars
<1>6. nextPacket' \in {nextPacket, nextPacket + 1}
  BY <1>2, <1>4
<1>7. FramesInv'
  BY <1>1, <1>6, FramesBehind
<1>8. RxGains({})
  BY <1>1, TakesRx DEF RxGains
<1>9. Nak("DATA") \in Answers /\ ack \in OutContent
  <2>1. nextPacket % Counters \in Nat
    BY <1>2, CountersTyped
  <2>2. ack \in Packets /\ Nak("DATA") \in Packets
    BY <2>1, PacketsTyped, CmdsTyped
  <2> QED BY <1>2, <2>2 DEF Answers, OutContent, Nak, Packet, ToClient
<1>10. WindowInv'
  <2>1. acked <= nextPacket' /\ nextPacket' <= acked + Window
    BY <1>2, <1>3, <1>6 DEF WindowInv
  <2> QED BY <1>2, <2>1 DEF WindowInv
<1>11. DiskInv'
  BY <1>2, <1>3, <1>5, <1>6 DEF DiskInv, Holds
<1>12. FlightGains(Answers \cup OutContent) => Shape
  BY <1>5, <1>8, <1>2, CmdsOfOperation, GainsGrow DEF Shape, Transfers
<1>13. CASE ok /\ Room
  <2>1. nextPacket' = nextPacket + 1 /\ Send(ack)
    BY <1>1, <1>2, <1>4, <1>13
  <2>2. FlightGains(Answers \cup OutContent)
    <3>1. FlightGains({ack})
      BY <1>9, <2>1, SendFlight DEF OutContent
    <3> QED BY <1>9, <3>1, GainsGrow
  <2>3. AcksInv'
    BY <1>2, <1>13, <2>1, AckSent
  <2> QED BY <1>7, <1>10, <1>11, <1>12, <2>2, <2>3 DEF WriteInv
<1>14. CASE ~(ok /\ Room)
  <2>1. nextPacket' = nextPacket
    BY <1>2, <1>4, <1>14
  <2>2. /\ FlightGains(Answers \cup OutContent)
        /\ \A p \in Flight' : p.cmd = "FILE_ACK" => p \in Flight
        /\ \A p, q : Leads(p, q)' /\ q.cmd = "FILE_ACK" => Leads(p, q)
    <3>1. CASE ok
      <4>1. Send(ack) /\ ~Room
        BY <1>1, <1>4, <1>14, <3>1
      <4>2. FlightGains({ack}) /\ Flight' = Flight /\ \A a, b : Leads(a, b)' => Leads(a, b)
        BY <1>9, <4>1, SendFlight DEF OutContent
      <4> QED BY <1>9, <4>2, GainsGrow
    <3>2. CASE ~ok
      <4>1. FlightGains({Nak("DATA")})
        BY <1>4, <1>9, <3>2, SendFlight DEF Answers
      <4>2. Nak("DATA").cmd # "FILE_ACK"
        BY DEF Nak, Packet
      <4>3. /\ \A p \in Flight' : p.cmd = "FILE_ACK" => p \in Flight
            /\ \A p, q : Leads(p, q)' /\ q.cmd = "FILE_ACK" => Leads(p, q)
        BY <4>1, <4>2 DEF FlightGains, Flight
      <4> QED BY <1>9, <4>1, <4>3, GainsGrow
    <3> QED BY <3>1, <3>2
  <2>3. AcksInv'
    BY <1>2, <2>1, <2>2, NoAckSent
  <2> QED BY <1>7, <1>10, <1>11, <1>12, <2>2, <2>3 DEF WriteInv
<1> QED BY <1>13, <1>14

\* A frame is sent only within the window, so that it is less than a window from whatever
\* the device may be waiting for.
LEMMA SendFrameSafe ==
  ASSUME ITypes, OneInv, WriteInv, SendFrame
  PROVE  Shape /\ WriteInv'
<1> DEFINE p == Packet("DATA", sent % Counters, sent, "WRITE")
<1>1. /\ phase = "active" /\ op = "WRITE" /\ Write(p) /\ sent < acked + Window /\ sent <= Frames
      /\ UNCHANGED <<op, phase, acked, got, inbox, stash, operations>> /\ DeviceRest
  BY DEF SendFrame, Pending
<1>2. UNCHANGED <<state, run, open, nextPacket, nextAck, pos, disk, tx, connected>>
  BY <1>1 DEF DeviceRest, counterVars, fileVars, linkVars
<1>3. DiskInv /\ WindowInv /\ FramesInv /\ AcksInv
  BY <1>1 DEF WriteInv
<1>4. acked \in Nat /\ sent \in Nat /\ acked <= sent /\ nextPacket \in Nat /\ Window \in Nat \ {0}
  BY FramesAssumption, WindowAssumption DEF ITypes, TypeOK, CrsTypeOK
<1>5. p \in Packets /\ p.cmd = "DATA" /\ p.n = sent % Counters /\ p.body = sent
  <2>1. sent % Counters \in Nat /\ sent \in 0 .. Frames
    BY <1>1, <1>4, CountersTyped, FramesAssumption
  <2> QED BY <2>1, PacketsTyped, CmdsTyped DEF Packet
<1>6. /\ Elems(rx') \subseteq Elems(rx) \cup {p}
      /\ \A a, b : Before(rx', a, b) => Before(rx, a, b) \/ (a \in Elems(rx) /\ b = p)
  BY <1>1, <1>5, WriteRx
<1> HIDE DEF p
<1>7. FlightGains({}) /\ Flight' = Flight
  BY <1>1, <1>2, NoFlight
<1>8. Shape
  <2>1. p \in InContent
    BY <1>1, <1>5 DEF InContent, Content, ToDevice
  <2>2. RxGains(Requests \cup InContent)
    BY <1>6, <2>1 DEF RxGains
  <2>3. FlightGains(Answers \cup OutContent)
    BY <1>7, GainsGrow
  <2> QED BY <1>1, <1>2, <2>2, <2>3 DEF Shape
<1>9. DiskInv' /\ WindowInv'
  BY <1>1, <1>2, <1>3, <1>7 DEF DiskInv, WindowInv, Holds
<1>10. AcksInv'
  <2>1. \A a, b : Leads(a, b)' => Leads(a, b)
    BY <1>7 DEF FlightGains
  <2> QED BY <1>1, <1>2, <1>3, <1>7, <2>1, NoAckSent
<1>11. FramesInv'
  <2>1. ASSUME NEW a \in Elems(rx'), a.cmd = "DATA"
        PROVE  /\ a.n = a.body % Counters /\ a.body < acked + Window
               /\ nextPacket <= a.body + Window
    <3>1. CASE a \in Elems(rx)
      BY <1>3, <2>1, <3>1 DEF FramesInv
    <3>2. CASE a = p
      <4>1. nextPacket <= acked + Window
        BY <1>3 DEF WindowInv
      <4> QED BY <1>1, <1>4, <1>5, <3>2, <4>1
    <3> QED BY <1>6, <2>1, <3>1, <3>2
  <2>2. ASSUME NEW a, NEW b, Before(rx', a, b), a.cmd = "DATA", b.cmd = "DATA"
        PROVE  a.body < b.body + Window
    <3>1. CASE Before(rx, a, b)
      BY <1>3, <2>2, <3>1, BeforeIsIn DEF FramesInv
    <3>2. CASE a \in Elems(rx) /\ b = p
      <4>1. a.body < acked + Window /\ a.body \in Nat
        BY <1>3, <2>2, <3>2, ElemsTyped DEF FramesInv, Packets
      <4> QED BY <1>4, <1>5, <3>2, <4>1
    <3> QED BY <1>6, <2>2, <3>1, <3>2
  <2> QED BY <1>1, <1>2, <2>1, <2>2 DEF FramesInv
<1> QED BY <1>8, <1>9, <1>10, <1>11 DEF WriteInv

\* An ACK moves the window of the client no further than the device has come.
LEMMA AckedUpToSafe ==
  ASSUME ITypes, OneInv, WriteInv, AckedUpTo
  PROVE  Shape /\ WriteInv'
<1> DEFINE h == Head(inbox)
<1>1. /\ phase = "active" /\ op = "WRITE" /\ inbox # <<>> /\ h.cmd = "FILE_ACK"
      /\ UNCHANGED <<op, sent, got, asked, stash, operations, rx>> /\ DeviceRest
      /\ phase' = IF acked' > Frames THEN "done" ELSE phase
      /\ inbox' = IF phase' = "done" THEN <<>> ELSE Tail(inbox)
  BY DEF AckedUpTo, Quiet, Pop
<1>2. UNCHANGED <<state, run, open, nextPacket, nextAck, pos, disk, tx, connected>>
  BY <1>1 DEF DeviceRest, counterVars, fileVars, linkVars
<1>3. DiskInv /\ WindowInv /\ FramesInv /\ AcksInv
  BY <1>1 DEF WriteInv
<1>4. acked \in Nat /\ acked <= Frames + 1 /\ sent \in Nat /\ sent <= Frames + 1
      /\ nextPacket \in Nat /\ Window \in Nat \ {0} /\ Frames \in Nat
  BY FramesAssumption, WindowAssumption DEF ITypes, TypeOK, CrsTypeOK
<1>5. h \in Flight /\ h \in Packets
  <2>1. inbox \in Seq(Packets)
    BY DEF ITypes
  <2> QED BY <1>1, <2>1, ElemsTail DEF Flight
<1>6. h.n \in 0 .. Counters - 1 /\ AckedFrame(h) < nextPacket
  BY <1>1, <1>3, <1>5 DEF AcksInv
<1>7. AckedFrame(h) = acked + Ahead(h.n) /\ AckedFrame(h) \in Int /\ acked <= AckedFrame(h)
  BY <1>4, <1>6, LiftRange DEF AckedFrame, Lift, Ahead
<1>8. \/ acked' = AckedFrame(h) + 1 /\ acked' <= sent
      \/ acked' = acked
  <2>1. CASE Ahead(h.n) < sent - acked
    <3>1. Ahead(h.n) \in Int
      BY <1>4, <1>6, CountersTyped DEF Ahead
    <3>2. acked' = acked + Ahead(h.n) + 1
      BY <2>1 DEF AckedUpTo
    <3> QED BY <1>4, <1>7, <2>1, <3>1, <3>2
  <2>2. CASE ~(Ahead(h.n) < sent - acked)
    BY <2>2 DEF AckedUpTo
  <2> QED BY <2>1, <2>2
<1>9. acked' \in Nat /\ acked <= acked' /\ acked' <= nextPacket /\ acked' <= Frames + 1
  BY <1>3, <1>4, <1>6, <1>7, <1>8 DEF WindowInv
<1>10. FlightGains({}) /\ Flight' \subseteq Flight
  BY <1>1, <1>2, PopFlight, ClearFlight
<1>11. Shape
  <2>1. RxGains({})
    BY <1>1 DEF RxGains
  <2>2. RxGains(Requests \cup InContent) /\ FlightGains(Answers \cup OutContent)
    BY <1>10, <2>1, GainsGrow
  <2>3. phase' \in {"active", "done"}
    BY <1>1
  <2> QED BY <1>1, <1>2, <2>2, <2>3 DEF Shape
<1>12. DiskInv'
  BY <1>2, <1>3 DEF DiskInv, Holds
<1>13. WindowInv'
  <2>1. nextPacket <= acked + Window
    BY <1>3 DEF WindowInv
  <2>2. nextPacket <= acked' + Window
    <3>1. acked' \in Int /\ acked \in Int /\ Window \in Int /\ nextPacket \in Int /\ acked <= acked'
      BY <1>4, <1>9
    <3>2. \A a, b, w, n \in Int : a <= b /\ n <= a + w => n <= b + w
      OBVIOUS
    <3> QED BY <2>1, <3>1, <3>2
  <2>3. phase' # "opening" /\ (phase' = "done" => acked' = Frames + 1)
    BY <1>1, <1>4, <1>9
  <2> QED BY <1>2, <1>9, <2>2, <2>3 DEF WindowInv
<1>14. FramesInv'
  <2>1. ASSUME NEW a \in Elems(rx), a.cmd = "DATA" PROVE a.body < acked' + Window
    <3>1. a.body < acked + Window /\ a.body \in Nat
      BY <1>3, <2>1, ElemsTyped DEF FramesInv, Packets
    <3> QED BY <1>4, <1>9, <3>1
  <2> QED BY <1>1, <1>2, <1>3, <2>1 DEF FramesInv
<1>15. AcksInv'
  <2> SUFFICES ASSUME phase' = "active" PROVE
        /\ \A p \in Flight' : p.cmd = "FILE_ACK" =>
             p.n \in 0 .. Counters - 1 /\ AckedFrame(p)' < nextPacket
        /\ \A p, q \in Flight' : Leads(p, q)' /\ p.cmd = "FILE_ACK" /\ q.cmd = "FILE_ACK" =>
             AckedFrame(p)' < AckedFrame(q)'
    BY <1>2 DEF AcksInv
  <2>1. \A q \in Flight' : Leads(h, q)
    BY <1>1, <1>2, PopFlight
  <2>2. ASSUME NEW p \in Flight', p.cmd = "FILE_ACK"
        PROVE  p.n \in 0 .. Counters - 1 /\ AckedFrame(p)' = AckedFrame(p)
               /\ AckedFrame(p) < nextPacket
    <3>1. /\ p.n \in 0 .. Counters - 1 /\ AckedFrame(p) < nextPacket
          /\ AckedFrame(h) < AckedFrame(p)
      BY <1>1, <1>3, <1>5, <1>10, <2>1, <2>2 DEF AcksInv
    <3>2. AckedFrame(p) \in Int /\ acked <= AckedFrame(p)
      BY <1>4, <3>1, LiftRange DEF AckedFrame
    <3>3. acked' <= AckedFrame(p)
      BY <1>4, <1>7, <1>8, <3>1, <3>2
    <3>4. AckedFrame(p) < acked' + Counters
      <4>1. nextPacket <= acked + Window
        BY <1>3 DEF WindowInv
      <4> QED BY <1>4, <1>9, <3>1, <3>2, <4>1, CountersTyped
    <3>5. Lift(p.n, acked') = Lift(p.n, acked)
      BY <1>4, <1>9, <3>1, <3>3, <3>4, LiftMoves DEF AckedFrame
    <3> QED BY <3>1, <3>5 DEF AckedFrame
  <2>3. ASSUME NEW p, NEW q, Leads(p, q)', p \in Flight', q \in Flight',
               p.cmd = "FILE_ACK", q.cmd = "FILE_ACK"
        PROVE  AckedFrame(p)' < AckedFrame(q)'
    <3>1. Leads(p, q)
      BY <1>10, <2>3 DEF FlightGains
    <3>2. AckedFrame(p) < AckedFrame(q)
      BY <1>1, <1>3, <2>3, <3>1, LeadsInFlight DEF AcksInv
    <3> QED BY <2>2, <2>3, <3>2
  <2> QED BY <2>2, <2>3
<1> QED BY <1>11, <1>12, <1>13, <1>14, <1>15 DEF WriteInv
-----------------------------------------------------------------------------
(* Steps of a download.                                                     *)

\* The frames that a READ asks for, one stride after the other.
LEMMA AskedNext ==
  ASSUME ITypes
  PROVE  /\ \A k \in Nat : Asked(k) \in Nat /\ Asked(k + 1) = Asked(k) + asked[2]
         /\ Asked(0) = asked[1] /\ asked[1] \in Nat /\ asked[2] \in Nat
<1>1. asked[1] \in Nat /\ asked[2] \in Nat
  BY DEF ITypes, TypeOK
<1>2. \A a, s, k \in Nat : a + k * s \in Nat /\ a + (k + 1) * s = (a + k * s) + s
  OBVIOUS
<1>3. \A a, s \in Nat : a + 0 * s = a
  OBVIOUS
<1> QED BY <1>1, <1>2, <1>3 DEF Asked

\* The numbers that a download counts with.
LEMMA ReadTyped ==
  ASSUME ITypes
  PROVE  /\ Len(got) \in Nat /\ nextPacket \in Nat /\ nextAck \in Nat /\ Frames \in Nat
         /\ Window \in Nat \ {0} /\ pos \in Nat
BY FramesAssumption, WindowAssumption DEF ITypes, TypeOK, CrsTypeOK

\* After the timer the device sends again what the client has not acknowledged.
LEMMA RewindSafe ==
  ASSUME ITypes, OneInv, ReadInv, RunTask, state = "READ" /\ timeoutFlag,
         UNCHANGED clientVars, UNCHANGED boundVars
  PROVE  Shape /\ op = "READ" /\ ReadInv'
<1> USE DEF clientVars, boundVars
<1>1. /\ op = "READ" /\ ReaderInv /\ GotInv /\ SentInv /\ ReplyInv
  BY DEF OneInv, ReadInv, ITypes, TypeOK, CrsTypeOK
<1>2. /\ Rewind /\ UNCHANGED <<state, open, offset, stride, disk, rx, tx, connected>>
      /\ run' = "leave" \/ ~failed'
  BY DEF RunTask, linkVars
<1>3. /\ nextPacket' = nextAck /\ UNCHANGED <<nextAck, lastPacket>>
      /\ failed' = TRUE \/ pos' = Seek(offset + nextAck * stride)
  BY <1>2 DEF Rewind
<1>4. FlightGains({}) /\ Flight' = Flight
  BY <1>2, NoFlight
<1>5. Shape
  <2>1. RxGains({})
    BY <1>2 DEF RxGains
  <2>2. RxGains(Requests \cup InContent) /\ FlightGains(Answers \cup OutContent)
    BY <1>4, <2>1, GainsGrow
  <2>3. state # "IDLE"
    OBVIOUS
  <2> QED BY <1>2, <2>2, <2>3 DEF Shape
<1>6. ReaderInv'
  <2>1. offset = asked[1] /\ stride = asked[2]
    BY <1>1 DEF ReaderInv
  <2>2. run' # "leave" => pos' = Seek(Asked(nextAck))
    BY <1>2, <1>3, <2>1 DEF Asked
  <2>3. Seek(Asked(nextPacket))' = Seek(Asked(nextAck))
    BY <1>3 DEF Seek, Asked
  <2> QED BY <1>1, <1>2, <2>1, <2>2, <2>3 DEF ReaderInv
<1>7. GotInv'
  BY <1>1 DEF GotInv, Asked
<1>8. SentInv'
  <2>1. \A p : Place(p)' = Place(p)
    BY DEF Place, Lift
  <2>2. \A k : Seek(Asked(k))' = Seek(Asked(k))
    BY DEF Seek, Asked
  <2>3. \A p, q : Leads(p, q)' => Leads(p, q)
    BY <1>4 DEF FlightGains
  <2> QED BY <1>1, <1>3, <1>4, <2>1, <2>2, <2>3, LeadsInFlight, ReadTyped DEF SentInv, Live, Asked, Seek
<1>9. ReplyInv'
  BY <1>1, <1>2, <1>3 DEF ReplyInv, Live, AckPlace, Lift
<1> QED BY <1>1, <1>5, <1>6, <1>7, <1>8, <1>9 DEF ReadInv

\* Only the ACK of the oldest frame not acknowledged moves the window of the device, and the
\* client has that frame.
LEMMA FileAckSafe ==
  ASSUME ITypes, OneInv, ReadInv, FileAck, UNCHANGED clientVars, UNCHANGED boundVars
  PROVE  Shape /\ op = "READ" /\ ReadInv'
<1> USE DEF clientVars, boundVars
<1> DEFINE h == Head(rx)
<1>1. /\ Takes({"READ"}, {"FILE_ACK"})
      /\ UNCHANGED <<nextPacket, state, run, open, offset, stride, pos, disk, tx, connected>>
      /\ \/ h.n = nextAck % Counters /\ nextAck' = nextAck + 1
         \/ nextAck' = nextAck
  BY DEF FileAck, fileVars, linkVars
<1>2. /\ h \in Packets /\ h \in Elems(rx) /\ h.cmd = "FILE_ACK"
      /\ Elems(rx') \subseteq Elems(rx)
      /\ \A p, q : Before(rx', p, q) => Before(rx, p, q)
      /\ \A q \in Elems(rx') : Before(rx, h, q)
  BY <1>1, TakesRx
<1>3. state = "READ" /\ run = "receive" /\ op = "READ" /\ ReaderInv /\ GotInv /\ SentInv /\ ReplyInv
  BY <1>1, TakesTyped DEF OneInv, ReadInv
<1> HIDE DEF h
<1>4. FlightGains({}) /\ Flight' = Flight
  BY <1>1, NoFlight
<1>5. Shape
  <2>1. RxGains({})
    BY <1>2 DEF RxGains
  <2>2. RxGains(Requests \cup InContent) /\ FlightGains(Answers \cup OutContent)
    BY <1>4, <2>1, GainsGrow
  <2> QED BY <1>1, <1>3, <2>2 DEF Shape
<1>6. ReaderInv'
  <2>1. Seek(Asked(nextPacket))' = Seek(Asked(nextPacket))
    BY <1>1 DEF Seek, Asked
  <2> QED BY <1>1, <1>2, <1>3, <2>1 DEF ReaderInv
<1>7. GotInv'
  BY <1>3 DEF GotInv, Asked
<1>8. ASSUME Live, h.n = nextAck % Counters, nextAck' = nextAck + 1
      PROVE  nextAck < Len(got) /\ AckPlace(h) = nextAck
  <2>1. AckPlace(h) < Len(got)
    BY <1>2, <1>3, <1>8 DEF ReplyInv
  <2>2. nextAck - Window \in Int /\ nextAck - Window <= nextAck
        /\ nextAck < nextAck - Window + Counters
    <3>1. nextAck \in Int /\ Window \in Int /\ Counters \in Int /\ 0 < Window /\ Window < Counters
      BY ReadTyped, CountersTyped
    <3> QED BY <3>1
  <2>3. Lift(nextAck % Counters, nextAck - Window) = nextAck
    BY <2>2, ReadTyped, LiftOfCounter
  <2> QED BY <1>8, <2>1, <2>3 DEF AckPlace
<1>9. SentInv'
  <2>1. \A p : Place(p)' = Place(p)
    BY DEF Place, Lift
  <2>2. \A k : Seek(Asked(k))' = Seek(Asked(k))
    BY DEF Seek, Asked
  <2>3. \A p, q : Leads(p, q)' => Leads(p, q)
    BY <1>4 DEF FlightGains
  <2> SUFFICES ASSUME Live PROVE
        /\ nextAck' <= Len(got) /\ Len(got) <= nextAck' + Window
        /\ Len(got) <= nextPacket + Window
        /\ \A p \in Flight : p.cmd = "DATA" =>
             /\ p.n \in 0 .. Counters - 1 /\ p.body = Seek(Asked(Place(p)))
             /\ Place(p) < nextAck' + Window /\ Place(p) < nextPacket + Window
        /\ \A p, q \in Flight : Leads(p, q)' /\ p.cmd = "DATA" /\ q.cmd = "DATA" =>
             Place(p) < Place(q) + Window
    BY <1>1, <1>4, <2>1, <2>2 DEF SentInv, Live, Seek, Asked
  <2>4. nextAck' <= Len(got) /\ nextAck <= nextAck' /\ nextAck' \in Nat
    BY <1>1, <1>3, <1>8, ReadTyped DEF SentInv
  <2>5. ASSUME NEW x \in Int, x < nextAck + Window PROVE x < nextAck' + Window
    BY <2>4, <2>5, ReadTyped
  <2>6. Len(got) <= nextAck' + Window
    BY <1>3, <2>4, ReadTyped DEF SentInv
  <2>7. ASSUME NEW p \in Flight, p.cmd = "DATA" PROVE Place(p) < nextAck' + Window
    <3>1. p.n \in 0 .. Counters - 1 /\ Place(p) < nextAck + Window
      BY <1>3, <2>7 DEF SentInv
    <3>2. Len(got) - Window \in Int
      BY ReadTyped
    <3>3. Place(p) \in Int
      BY <3>1, <3>2, LiftRange DEF Place
    <3> QED BY <2>5, <3>1, <3>3
  <2> QED BY <1>3, <2>3, <2>4, <2>6, <2>7 DEF SentInv
<1>10. ReplyInv'
  <2> SUFFICES ASSUME Live PROVE
        /\ \A p \in Elems(rx') : p.cmd = "FILE_ACK" =>
             p.n \in 0 .. Counters - 1 /\ AckPlace(p)' < Len(got)
        /\ \A p, q \in Elems(rx') : Before(rx', p, q) /\ p.cmd = "FILE_ACK" /\ q.cmd = "FILE_ACK" =>
             AckPlace(p)' < AckPlace(q)' + Window
    BY DEF ReplyInv, Live
  <2>1. ASSUME NEW p \in Elems(rx'), p.cmd = "FILE_ACK"
        PROVE  p.n \in 0 .. Counters - 1 /\ AckPlace(p) < Len(got) /\ AckPlace(p)' = AckPlace(p)
    <3>1. p.n \in 0 .. Counters - 1 /\ AckPlace(p) < Len(got) /\ AckPlace(h) < AckPlace(p) + Window
      BY <1>2, <1>3, <2>1 DEF ReplyInv
    <3>2. CASE nextAck' = nextAck
      BY <3>1, <3>2 DEF AckPlace
    <3>3. CASE h.n = nextAck % Counters /\ nextAck' = nextAck + 1
      <4>1. AckPlace(h) = nextAck
        BY <1>8, <3>3
      <4>2. nextAck - Window \in Int /\ nextAck' - Window \in Int /\ nextAck' = nextAck + 1
        BY <3>3, ReadTyped
      <4>3. AckPlace(p) \in Int /\ AckPlace(p) < nextAck - Window + Counters
        BY <3>1, <4>2, LiftRange DEF AckPlace
      <4>4. nextAck' - Window <= AckPlace(p) /\ AckPlace(p) < nextAck' - Window + Counters
        <5>1. nextAck < AckPlace(p) + Window
          BY <3>1, <4>1
        <5>2. \A a, b, w, c \in Int : a < b + w /\ b < a - w + c
                                        => a + 1 - w <= b /\ b < a + 1 - w + c
          OBVIOUS
        <5>3. nextAck \in Int /\ Window \in Int /\ Counters \in Int
          BY ReadTyped, CountersTyped
        <5> QED BY <4>2, <4>3, <5>1, <5>2, <5>3
      <4>5. Lift(p.n, nextAck' - Window) = Lift(p.n, nextAck - Window)
        BY <3>1, <4>2, <4>4, LiftMoves DEF AckPlace
      <4> QED BY <3>1, <4>5 DEF AckPlace
    <3> QED BY <1>1, <3>2, <3>3
  <2>2. ASSUME NEW p, NEW q, p \in Elems(rx'), q \in Elems(rx'), Before(rx', p, q),
               p.cmd = "FILE_ACK", q.cmd = "FILE_ACK"
        PROVE  AckPlace(p)' < AckPlace(q)' + Window
    <3>1. AckPlace(p) < AckPlace(q) + Window
      BY <1>2, <1>3, <2>2 DEF ReplyInv
    <3> QED BY <2>1, <2>2, <3>1
  <2> QED BY <2>1, <2>2
<1> QED BY <1>3, <1>5, <1>6, <1>7, <1>9, <1>10 DEF ReadInv

\* What is sent of a file is the frame whose turn it is, at its place in the order asked for.
LEMMA DataSent ==
  ASSUME ITypes, OneInv, ReadInv, op = "READ", state = "READ", run = "send", CanRead,
         NEW b \in 0 .. Frames, b = Seek(Asked(nextPacket)),
         Send(Packet("DATA", nextPacket % Counters, b, "READ")), nextPacket' = nextPacket + 1,
         UNCHANGED <<op, phase, got, asked, stash, inbox, nextAck>>
  PROVE  SentInv' /\ FlightGains(OutContent)
<1> DEFINE d == Packet("DATA", nextPacket % Counters, b, "READ")
<1>1. SentInv
  BY DEF ReadInv
<1>2. /\ Len(got) \in Nat /\ nextPacket \in Nat /\ nextAck \in Nat /\ Window \in Nat \ {0}
      /\ Counters \in Nat /\ Counters >= 2 * Window
  BY ReadTyped, CountersTyped
<1>3. d \in Packets /\ d.cmd = "DATA" /\ d.n = nextPacket % Counters /\ d.body = b
  <2>1. nextPacket % Counters \in Nat
    BY <1>2, CountersTyped
  <2> QED BY <2>1, PacketsTyped, CmdsTyped DEF Packet
<1>4. Room /\ nextPacket < nextAck + Window
  BY DEF CanRead
<1>5. /\ FlightGains({d}) /\ Flight' = Flight \cup {d}
      /\ \A p, q : Leads(p, q)' => Leads(p, q) \/ (p \in Flight /\ q = d)
  BY <1>3, <1>4, SendFlight
<1> HIDE DEF d
<1>6. FlightGains(OutContent)
  <2>1. d \in OutContent
    BY <1>3 DEF OutContent, ToClient
  <2> QED BY <1>5, <2>1, GainsGrow
<1>7. \A p : Place(p)' = Place(p)
  BY DEF Place, Lift
<1>8. \A k : Seek(Asked(k))' = Seek(Asked(k))
  BY DEF Seek, Asked
<1>9. ASSUME Live
      PROVE  /\ nextAck' <= Len(got') /\ Len(got') <= nextAck' + Window
             /\ Len(got') <= nextPacket' + Window
             /\ \A p \in Flight' : p.cmd = "DATA" =>
                  /\ p.n \in 0 .. Counters - 1 /\ p.body = Seek(Asked(Place(p)))
                  /\ Place(p) < nextAck + Window /\ Place(p) < nextPacket' + Window
             /\ \A p, q \in Flight' : Leads(p, q)' /\ p.cmd = "DATA" /\ q.cmd = "DATA" =>
                  Place(p) < Place(q) + Window
  <2>1. /\ nextAck <= Len(got) /\ Len(got) <= nextAck + Window /\ Len(got) <= nextPacket + Window
    BY <1>1, <1>9 DEF SentInv
  <2>2. Place(d) = nextPacket /\ d.n \in 0 .. Counters - 1
    <3>1. Len(got) - Window \in Int /\ Len(got) - Window <= nextPacket
      BY <1>2, <2>1
    <3>2. nextPacket < Len(got) - Window + Counters
      BY <1>2, <1>4, <2>1
    <3> QED BY <1>2, <1>3, <3>1, <3>2, LiftOfCounter DEF Place
  <2>3. ASSUME NEW p \in Flight, p.cmd = "DATA"
        PROVE  /\ p.n \in 0 .. Counters - 1 /\ p.body = Seek(Asked(Place(p)))
               /\ Place(p) < nextAck + Window /\ Place(p) < nextPacket + Window
               /\ Place(p) \in Int
    <3>1. /\ p.n \in 0 .. Counters - 1 /\ p.body = Seek(Asked(Place(p)))
          /\ Place(p) < nextAck + Window /\ Place(p) < nextPacket + Window
      BY <1>1, <1>9, <2>3 DEF SentInv
    <3>2. Len(got) - Window \in Int
      BY <1>2
    <3> QED BY <3>1, <3>2, LiftRange DEF Place
  <2>4. ASSUME NEW p \in Flight', p.cmd = "DATA"
        PROVE  /\ p.n \in 0 .. Counters - 1 /\ p.body = Seek(Asked(Place(p)))
               /\ Place(p) < nextAck + Window /\ Place(p) < nextPacket' + Window
    <3>1. CASE p = d
      BY <1>2, <1>3, <1>4, <2>2, <3>1
    <3>2. CASE p \in Flight
      <4>1. Place(p) < nextPacket + 1 + Window
        BY <1>2, <2>3, <2>4, <3>2
      <4> QED BY <2>3, <2>4, <3>2, <4>1
    <3> QED BY <1>5, <3>1, <3>2
  <2>5. ASSUME NEW p, NEW q, Leads(p, q)', p.cmd = "DATA", q.cmd = "DATA"
        PROVE  Place(p) < Place(q) + Window
    <3>1. CASE Leads(p, q)
      BY <1>1, <1>9, <2>5, <3>1, LeadsInFlight DEF SentInv
    <3>2. CASE p \in Flight /\ q = d
      BY <2>2, <2>3, <2>5, <3>2
    <3> QED BY <1>5, <2>5, <3>1, <3>2
  <2>6. Len(got) <= nextPacket + 1 + Window
    BY <1>2, <2>1
  <2> QED BY <2>1, <2>4, <2>5, <2>6
<1>10. Live' <=> Live
  BY DEF Live
<1> QED BY <1>6, <1>7, <1>8, <1>9, <1>10 DEF SentInv

\* What is sent of the file is what is asked for next.
LEMMA ReadFrameSafe ==
  ASSUME ITypes, OneInv, ReadInv, ReadFrame \/ ReadEof,
         UNCHANGED clientVars, UNCHANGED boundVars
  PROVE  Shape /\ op = "READ" /\ ReadInv'
<1> USE DEF clientVars, boundVars
<1>1. /\ run = "send" /\ state = "READ" /\ CanRead /\ pos <= Frames
      /\ UNCHANGED <<state, open, nextAck, offset, stride, disk, rx, connected>>
  BY ReadTyped DEF ReadFrame, ReadEof, fileVars, linkVars
<1>2. op = "READ" /\ ReaderInv /\ GotInv /\ SentInv /\ ReplyInv
  BY <1>1 DEF OneInv, ReadInv
<1>3. pos = Seek(Asked(nextPacket)) /\ offset = asked[1] /\ stride = asked[2]
  BY <1>1, <1>2 DEF ReaderInv
<1>4. RxGains({})
  BY <1>1 DEF RxGains
<1>5. /\ pos \in 0 .. Frames /\ Frames \in Nat /\ nextPacket \in Nat /\ stride \in Nat
      /\ Asked(nextPacket) \in Nat /\ Asked(nextPacket + 1) = Asked(nextPacket) + stride
  <2>1. pos \in 0 .. Frames /\ Frames \in Nat /\ nextPacket \in Nat
    BY <1>1, ReadTyped
  <2>2. \A k \in Nat : Asked(k) \in Nat /\ Asked(k + 1) = Asked(k) + asked[2]
    BY AskedNext
  <2>3. asked[2] \in Nat
    BY AskedNext
  <2> QED BY <1>3, <2>1, <2>2, <2>3
<1>6. CASE /\ Send(Packet("DATA", nextPacket % Counters, pos, "READ"))
           /\ nextPacket' = nextPacket + 1 /\ pos' = Seek(Asked(nextPacket + 1))
           /\ run' = run
  <2>1. SentInv' /\ FlightGains(OutContent)
    BY <1>1, <1>2, <1>3, <1>5, <1>6, DataSent
  <2>2. Shape
    <3>1. RxGains(Requests \cup InContent) /\ FlightGains(Answers \cup OutContent)
      BY <1>4, <2>1, GainsGrow
    <3> QED BY <1>1, <3>1 DEF Shape
  <2>3. ReaderInv'
    <3>1. Seek(Asked(nextPacket))' = Seek(Asked(nextPacket + 1))
      BY <1>6 DEF Seek, Asked
    <3> QED BY <1>1, <1>2, <1>6, <3>1 DEF ReaderInv
  <2>4. GotInv'
    BY <1>2 DEF GotInv, Asked
  <2>5. ReplyInv'
    BY <1>1, <1>2 DEF ReplyInv, Live, AckPlace, Lift
  <2> QED BY <1>2, <2>1, <2>2, <2>3, <2>4, <2>5 DEF ReadInv
<1>7. CASE UNCHANGED <<tx, nextPacket, pos>> /\ run' = "leave"
  <2>1. FlightGains({})
    BY <1>7, NoFlight
  <2>2. Shape
    <3>1. RxGains(Requests \cup InContent) /\ FlightGains(Answers \cup OutContent)
      BY <1>4, <2>1, GainsGrow
    <3> QED BY <1>1, <3>1 DEF Shape
  <2>3. Still
    <3>1. RxGains(Requests) /\ FlightGains(Answers)
      BY <1>4, <2>1, GainsGrow
    <3> QED BY <1>1, <1>7, <3>1 DEF Still
  <2> QED BY <1>2, <2>2, <2>3, StillKeepsRead
<1>8. CASE ReadFrame
  <2>1. pos < Frames
    BY <1>8 DEF ReadFrame
  <2>2. pos = Asked(nextPacket)
    BY <1>3, <1>5, <2>1 DEF Seek
  <2>3. pos + stride = Asked(nextPacket + 1)
    BY <1>5, <2>2
  <2> QED BY <1>6, <1>7, <1>8, <2>3 DEF ReadFrame
<1>9. CASE ReadEof
  <2>1. pos = Frames /\ Send(Packet("DATA", nextPacket % Counters, pos, "READ"))
        /\ nextPacket' = nextPacket + 1 /\ pos' = pos /\ run' = run
    BY <1>9 DEF ReadEof, Eof, fileVars
  <2>2. Asked(nextPacket) >= Frames
    BY <1>3, <1>5, <2>1 DEF Seek
  <2>3. Asked(nextPacket + 1) >= Frames
    BY <1>5, <2>2
  <2>4. pos' = Seek(Asked(nextPacket + 1))
    BY <1>5, <2>1, <2>3 DEF Seek
  <2> QED BY <1>6, <2>1, <2>4
<1> QED BY <1>8, <1>9

\* How far a counter is behind another tells which one it is.
LEMMA CounterBehind ==
  ASSUME NEW a \in Int, NEW n \in 0 .. Counters - 1
  PROVE  /\ (a - n) % Counters \in 0 .. Counters - 1
         /\ (a - ((a - n) % Counters)) % Counters = n
<1> DEFINE k == (a - n) % Counters
<1> DEFINE q == (a - n) \div Counters
<1>1. Counters \in Nat \ {0} /\ n \in Int
  BY CountersTyped
<1>2. a - n \in Int
  BY <1>1
<1>3. q \in Int /\ a - n = Counters * q + k /\ k \in 0 .. Counters - 1
  BY <1>1, <1>2, Division
<1> HIDE DEF k, q
<1>4. a - k = n + Counters * q
  BY <1>1, <1>3
<1>5. (n + Counters * q) % Counters = n
  BY <1>1, <1>3, Remainder
<1> QED BY <1>3, <1>4, <1>5 DEF k

\* An ACK of a frame that the client has, and of none that the device no longer waits for by
\* more than a window, is read for what it is.
LEMMA ReplyWritten ==
  ASSUME ITypes, SentInv, ReplyInv, phase = "active", stash' = stash,
         NEW k \in Int, k % Counters \in 0 .. Counters - 1,
         Len(got) <= k + Window, k <= Len(got), k < nextAck + Window,
         Write(Packet("FILE_ACK", k % Counters, 0, "DATA")),
         Live' => Len(got') \in Nat /\ k < Len(got') /\ Len(got) <= Len(got'),
         nextAck' = nextAck
  PROVE  ReplyInv'
<1> DEFINE ack == Packet("FILE_ACK", k % Counters, 0, "DATA")
<1>1. ack \in Packets /\ ack.cmd = "FILE_ACK" /\ ack.n = k % Counters
  BY PacketsTyped, CmdsTyped DEF Packet
<1>2. /\ Elems(rx') \subseteq Elems(rx) \cup {ack}
      /\ \A a, b : Before(rx', a, b) => Before(rx, a, b) \/ (a \in Elems(rx) /\ b = ack)
  BY <1>1, WriteRx
<1> HIDE DEF ack
<1>3. /\ Len(got) \in Nat /\ nextAck \in Nat /\ Window \in Nat \ {0}
      /\ Counters \in Nat /\ Counters >= 2 * Window
  BY ReadTyped, CountersTyped
<1>4. Live
  BY DEF Live
<1>5. nextAck <= Len(got)
  BY <1>4 DEF SentInv
<1>6. AckPlace(ack) = k /\ ack.n \in 0 .. Counters - 1
  <2>1. nextAck - Window \in Int /\ nextAck - Window <= k
    BY <1>3, <1>5
  <2>2. k < nextAck - Window + Counters
    BY <1>3
  <2> QED BY <1>1, <2>1, <2>2, LiftOfCounter DEF AckPlace
<1>7. \A p : AckPlace(p)' = AckPlace(p)
  BY DEF AckPlace, Lift
<1>8. ASSUME NEW p \in Elems(rx), p.cmd = "FILE_ACK"
      PROVE  p.n \in 0 .. Counters - 1 /\ AckPlace(p) < Len(got) /\ AckPlace(p) \in Int
  <2>1. p.n \in 0 .. Counters - 1 /\ AckPlace(p) < Len(got)
    BY <1>4, <1>8 DEF ReplyInv
  <2>2. nextAck - Window \in Int
    BY <1>3
  <2> QED BY <2>1, <2>2, LiftRange DEF AckPlace
<1> SUFFICES ASSUME Live' PROVE
      /\ \A p \in Elems(rx') : p.cmd = "FILE_ACK" =>
           p.n \in 0 .. Counters - 1 /\ AckPlace(p) < Len(got')
      /\ \A p, q \in Elems(rx') : Before(rx', p, q) /\ p.cmd = "FILE_ACK" /\ q.cmd = "FILE_ACK" =>
           AckPlace(p) < AckPlace(q) + Window
  BY <1>7 DEF ReplyInv
<1>9. ASSUME NEW p \in Elems(rx'), p.cmd = "FILE_ACK"
      PROVE  p.n \in 0 .. Counters - 1 /\ AckPlace(p) < Len(got')
  <2>1. CASE p \in Elems(rx)
    BY <1>3, <1>8, <1>9, <2>1
  <2>2. CASE p = ack
    BY <1>6, <2>2
  <2> QED BY <1>2, <2>1, <2>2
<1>10. ASSUME NEW p, NEW q, Before(rx', p, q), p.cmd = "FILE_ACK", q.cmd = "FILE_ACK"
       PROVE  AckPlace(p) < AckPlace(q) + Window
  <2>1. CASE Before(rx, p, q)
    BY <1>4, <1>10, <2>1, BeforeIsIn DEF ReplyInv
  <2>2. CASE p \in Elems(rx) /\ q = ack
    <3>1. AckPlace(p) < Len(got) /\ AckPlace(p) \in Int
      BY <1>8, <1>10, <2>2
    <3> QED BY <1>3, <1>6, <2>2, <3>1
  <2> QED BY <1>2, <1>10, <2>1, <2>2
<1> QED BY <1>9, <1>10

\* What a client does that has nothing to do with the state of the device.
LEMMA ReaderKept ==
  ASSUME ITypes, ReaderInv, DeviceRest, asked' = asked,
         \A p \in Elems(rx') : p.cmd = "READ" => p \in Elems(rx)
  PROVE  ReaderInv'
<1>1. UNCHANGED <<state, run, nextPacket, pos, offset, stride>>
  BY DEF DeviceRest, counterVars, fileVars
<1>2. Seek(Asked(nextPacket))' = Seek(Asked(nextPacket))
  BY <1>1 DEF Seek, Asked
<1> QED BY <1>1, <1>2 DEF ReaderInv

\* The frame that is taken is the one that is missing: neither one that comes again nor one of
\* a later window has its counter.
LEMMA ReceiveFrameSafe ==
  ASSUME ITypes, OneInv, ReadInv, ReceiveFrame
  PROVE  Shape /\ op = "READ" /\ ReadInv'
<1> DEFINE h == Head(inbox)
<1> DEFINE behind == (Len(got) - h.n) % Counters
<1>1. /\ phase = "active" /\ op = "READ" /\ inbox # <<>> /\ h.cmd = "DATA"
      /\ got' = (IF behind = 0 /\ h.body # Eof THEN Append(got, h.body) ELSE got)
      /\ phase' = (IF behind = 0 /\ h.body = Eof THEN "done" ELSE phase)
      /\ inbox' = (IF phase' = "done" THEN <<>> ELSE Tail(inbox))
      /\ IF behind <= Window THEN Write(Packet("FILE_ACK", h.n, 0, "DATA")) ELSE Quiet
      /\ UNCHANGED <<op, acked, sent, asked, stash, operations>> /\ DeviceRest
  BY DEF ReceiveFrame, Pop
<1>2. UNCHANGED <<state, run, open, nextPacket, nextAck, pos, disk, offset, stride, tx, connected>>
  BY <1>1 DEF DeviceRest, counterVars, fileVars, linkVars
<1>3. ReaderInv /\ GotInv /\ SentInv /\ ReplyInv /\ Live
  BY <1>1 DEF ReadInv, Live
<1>4. /\ Len(got) \in Nat /\ nextPacket \in Nat /\ nextAck \in Nat /\ Frames \in Nat
      /\ Window \in Nat \ {0} /\ Counters \in Nat /\ Counters >= 2 * Window /\ Window < Counters
  BY ReadTyped, CountersTyped
<1>5. h \in Flight /\ h \in Packets
  <2>1. inbox \in Seq(Packets)
    BY DEF ITypes
  <2> QED BY <1>1, <2>1, ElemsTail DEF Flight
<1>6. FlightGains({}) /\ Flight' \subseteq Flight
  BY <1>1, <1>2, PopFlight, ClearFlight
<1>7. phase' # "done" => \A q \in Flight' : Leads(h, q)
  BY <1>1, <1>2, PopFlight
<1>8. /\ h.n \in 0 .. Counters - 1 /\ h.body = Seek(Asked(Place(h)))
      /\ Place(h) < nextAck + Window /\ Place(h) < nextPacket + Window
  BY <1>1, <1>3, <1>5 DEF SentInv
<1>9. /\ Len(got) <= nextAck + Window /\ nextAck <= Len(got) /\ Len(got) <= nextPacket + Window
  BY <1>3 DEF SentInv
<1>10. behind \in 0 .. Counters - 1 /\ (Len(got) - behind) % Counters = h.n
  <2>1. Len(got) \in Int /\ h.n \in 0 .. Counters - 1
    BY <1>4, <1>8
  <2> HIDE DEF h
  <2> QED BY <2>1, CounterBehind
<1>11. h.body \in Nat
  BY <1>5 DEF Packets
<1> HIDE DEF h, behind
<1>12. behind = 0 => Place(h) = Len(got)
  <2>1. Len(got) - Window \in Int /\ Len(got) - Window <= Len(got)
        /\ Len(got) < Len(got) - Window + Counters
    BY <1>4
  <2>2. Lift(Len(got) % Counters, Len(got) - Window) = Len(got)
    <3>1. Len(got) \in Int
      BY <1>4
    <3> QED BY <2>1, <3>1, LiftOfCounter
  <2>3. Len(got) - 0 = Len(got)
    BY <1>4
  <2> QED BY <1>10, <2>2, <2>3 DEF Place
<1>13. /\ got \in Seq(0 .. Frames + Entries) /\ \A i \in 1 .. Len(got) : got[i] \in Nat
       /\ Asked(Len(got)) \in Nat
  <2>1. got \in Seq(0 .. Frames + Entries)
    BY DEF ITypes, TypeOK
  <2>2. \A i \in 1 .. Len(got) : got[i] \in 0 .. Frames + Entries
    BY <2>1, ElementOfSeq
  <2> QED BY <1>4, <2>1, <2>2, AskedNext, FramesAssumption
<1>14. /\ phase' = "done" => behind = 0 /\ h.body = Eof /\ got' = got
       /\ phase' \in {"active", "done"} /\ (Live' => phase' = "active")
  BY <1>1 DEF Live
<1>15. ASSUME behind = 0, h.body # Eof
       PROVE  Len(got') = Len(got) + 1 /\ GotInv' /\ SentInv'
  <2>1. got' = Append(got, h.body) /\ phase' = "active" /\ Place(h) = Len(got)
    BY <1>1, <1>12, <1>15
  <2>2. h.body = Asked(Len(got)) /\ h.body < Frames
    BY <1>4, <1>8, <1>11, <1>13, <1>15, <2>1 DEF Seek, Eof
  <2>3. /\ Len(got') = Len(got) + 1 /\ got'[Len(got) + 1] = h.body
        /\ \A i \in 1 .. Len(got) : got'[i] = got[i]
    BY <1>13, <2>1
  <2>4. GotInv'
    <3>1. \A k : Asked(k)' = Asked(k)
      BY <1>1 DEF Asked
    <3>2. ASSUME NEW i \in 1 .. Len(got') PROVE got'[i] = Asked(i - 1) /\ got'[i] < Frames
      <4>1. CASE i = Len(got) + 1
        <5>1. i - 1 = Len(got)
          BY <1>4, <4>1
        <5> QED BY <2>2, <2>3, <4>1, <5>1
      <4>2. CASE i \in 1 .. Len(got)
        BY <1>3, <2>3, <4>2 DEF GotInv
      <4> QED BY <1>4, <2>3, <4>1, <4>2
    <3>3. phase' # "done"
      BY <2>1
    <3> QED BY <3>1, <3>2, <3>3 DEF GotInv
  <2>5. SentInv'
    <3>1. ASSUME NEW p \in Flight', p.cmd = "DATA"
          PROVE  p \in Flight /\ Place(p) \in Int /\ Place(p)' = Place(p)
                 /\ p.n \in 0 .. Counters - 1
      <4>1. p \in Flight /\ Leads(h, p)
        BY <1>6, <1>7, <2>1, <3>1
      <4>2. Place(h) < Place(p) + Window /\ p.n \in 0 .. Counters - 1
        BY <1>1, <1>3, <1>5, <3>1, <4>1 DEF SentInv
      <4>3. Len(got) - Window \in Int /\ Len(got') - Window \in Int /\ Len(got') = Len(got) + 1
        BY <1>4, <2>3
      <4>4. Place(p) \in Int /\ Place(p) < Len(got) - Window + Counters
        BY <4>2, <4>3, LiftRange DEF Place
      <4>5. Len(got') - Window <= Place(p) /\ Place(p) < Len(got') - Window + Counters
        <5>1. Len(got) < Place(p) + Window
          BY <2>1, <4>2
        <5>2. \A a, b, w, c \in Int : a < b + w /\ b < a - w + c
                                        => a + 1 - w <= b /\ b < a + 1 - w + c
          OBVIOUS
        <5> QED BY <1>4, <4>3, <4>4, <5>1, <5>2
      <4>6. Lift(p.n, Len(got') - Window) = Lift(p.n, Len(got) - Window)
        BY <4>2, <4>3, <4>5, LiftMoves DEF Place
      <4> QED BY <4>1, <4>2, <4>4, <4>6 DEF Place
    <3>2. /\ nextAck <= Len(got') /\ Len(got') <= nextAck + Window
          /\ Len(got') <= nextPacket + Window
      BY <1>4, <1>8, <1>9, <2>1, <2>3
    <3>3. \A k : Seek(Asked(k))' = Seek(Asked(k))
      BY <1>1 DEF Seek, Asked
    <3>4. ASSUME NEW p \in Flight', p.cmd = "DATA"
          PROVE  /\ p.n \in 0 .. Counters - 1 /\ p.body = Seek(Asked(Place(p)))'
                 /\ Place(p)' < nextAck + Window /\ Place(p)' < nextPacket + Window
      BY <1>3, <3>1, <3>3, <3>4 DEF SentInv
    <3>5. ASSUME NEW p, NEW q, p \in Flight', q \in Flight', Leads(p, q)',
                 p.cmd = "DATA", q.cmd = "DATA"
          PROVE  Place(p)' < Place(q)' + Window
      <4>1. Leads(p, q)
        BY <1>6, <3>5 DEF FlightGains
      <4> QED BY <1>3, <3>1, <3>5, <4>1 DEF SentInv
    <3> QED BY <1>2, <3>2, <3>4, <3>5 DEF SentInv
  <2> QED BY <2>3, <2>4, <2>5
<1>16. ASSUME ~(behind = 0 /\ h.body # Eof)
       PROVE  got' = got /\ GotInv' /\ SentInv'
  <2>1. got' = got
    BY <1>1, <1>16
  <2>2. \A k : Asked(k)' = Asked(k) /\ Seek(Asked(k))' = Seek(Asked(k))
    BY <1>1 DEF Asked, Seek
  <2>3. GotInv'
    <3>1. ASSUME phase' = "done" PROVE Asked(Len(got)) >= Frames
      <4>1. h.body = Frames /\ h.body = Seek(Asked(Len(got)))
        BY <1>8, <1>12, <1>14, <3>1 DEF Eof
      <4> QED BY <1>4, <1>13, <4>1 DEF Seek
    <3> QED BY <1>3, <2>1, <2>2, <3>1 DEF GotInv
  <2>4. SentInv'
    <3>1. \A p : Place(p)' = Place(p)
      BY <2>1 DEF Place, Lift
    <3>2. \A p, q : Leads(p, q)' => Leads(p, q)
      BY <1>6 DEF FlightGains
    <3> QED BY <1>2, <1>3, <1>6, <2>1, <2>2, <3>1, <3>2 DEF SentInv
  <2> QED BY <2>1, <2>3, <2>4
<1>17. /\ Len(got') \in Nat /\ Len(got) <= Len(got') /\ GotInv' /\ SentInv'
       /\ behind = 0 /\ phase' = "active" => Len(got') = Len(got) + 1
  BY <1>1, <1>4, <1>15, <1>16
<1>18. ReplyInv'
  <2>1. CASE behind <= Window
    <3> DEFINE k == Len(got) - behind
    <3>1. k \in Int /\ k % Counters = h.n /\ k % Counters \in 0 .. Counters - 1
      BY <1>4, <1>8, <1>10
    <3>2. k <= Len(got) /\ Len(got) <= k + Window /\ (behind # 0 => k < Len(got))
      BY <1>4, <1>10, <2>1
    <3>3. k < nextAck + Window
      <4>1. CASE behind = 0
        BY <1>4, <1>8, <1>12, <4>1
      <4>2. CASE behind # 0
        BY <1>4, <1>9, <3>1, <3>2, <4>2
      <4> QED BY <4>1, <4>2
    <3>4. Live' => k < Len(got')
      BY <1>4, <1>14, <1>17, <3>1, <3>2
    <3>5. Write(Packet("FILE_ACK", k % Counters, 0, "DATA")) /\ UNCHANGED <<stash, nextAck>>
      BY <1>1, <1>2, <2>1, <3>1
    <3> HIDE DEF k
    <3> QED BY <1>1, <1>3, <1>17, <3>1, <3>2, <3>3, <3>4, <3>5, ReplyWritten
  <2>2. CASE ~(behind <= Window)
    <3>1. UNCHANGED <<rx, nextAck>>
      BY <1>1, <1>2, <2>2 DEF Quiet
    <3>2. \A p : AckPlace(p)' = AckPlace(p)
      BY <3>1 DEF AckPlace, Lift
    <3>3. ASSUME NEW p \in Elems(rx), p.cmd = "FILE_ACK"
          PROVE  p.n \in 0 .. Counters - 1 /\ AckPlace(p) < Len(got')
      <4>1. p.n \in 0 .. Counters - 1 /\ AckPlace(p) < Len(got) /\ nextAck - Window \in Int
        BY <1>3, <1>4, <3>3 DEF ReplyInv
      <4>2. AckPlace(p) \in Int
        BY <4>1, LiftRange DEF AckPlace
      <4> QED BY <1>4, <1>17, <4>1, <4>2
    <3> QED BY <1>3, <3>1, <3>2, <3>3 DEF ReplyInv
  <2> QED BY <2>1, <2>2
<1>19. RxGains(InContent)
  <2>1. CASE behind <= Window
    <3> DEFINE ack == Packet("FILE_ACK", h.n, 0, "DATA")
    <3>1. ack \in InContent
      <4>1. h.n \in Nat
        BY <1>5 DEF Packets
      <4>2. ack \in Packets /\ ack.cmd = "FILE_ACK"
        BY <4>1, PacketsTyped, CmdsTyped DEF Packet
      <4> QED BY <1>1, <4>2 DEF InContent, Content, ToDevice
    <3>2. Write(ack)
      BY <1>1, <2>1
    <3> HIDE DEF ack
    <3>3. ack \in Packets
      BY <3>1 DEF InContent
    <3> QED BY <3>1, <3>2, <3>3, WriteRx DEF RxGains
  <2>2. CASE ~(behind <= Window)
    BY <1>1, <2>2 DEF Quiet, RxGains
  <2> QED BY <2>1, <2>2
<1>20. Shape
  <2>1. RxGains(Requests \cup InContent) /\ FlightGains(Answers \cup OutContent)
    BY <1>6, <1>19, GainsGrow
  <2> QED BY <1>1, <1>2, <1>14, <2>1 DEF Shape
<1>21. ReaderInv'
  <2>1. \A p \in Elems(rx') : p.cmd = "READ" => p \in Elems(rx)
    BY <1>19 DEF RxGains, InContent, Content
  <2> QED BY <1>1, <1>3, <2>1, ReaderKept
<1> QED BY <1>1, <1>17, <1>18, <1>20, <1>21 DEF ReadInv

\* A client that hears nothing repeats its last ACK.
LEMMA ReadTimeoutSafe ==
  ASSUME ITypes, OneInv, ReadInv, ClientTimeout, ~Fail, op = "READ"
  PROVE  Shape /\ ReadInv'
<1>1. /\ phase = "active" /\ UNCHANGED <<op, phase, acked, got, asked, inbox, stash, operations>>
      /\ sent' = sent /\ DeviceRest
      /\ IF got # <<>> THEN Write(Packet("FILE_ACK", (Len(got) - 1) % Counters, 0, "DATA"))
                        ELSE Quiet
  BY DEF ClientTimeout, Busy
<1>2. UNCHANGED <<state, run, open, nextPacket, nextAck, pos, disk, offset, stride, tx, connected>>
  BY <1>1 DEF DeviceRest, counterVars, fileVars, linkVars
<1>3. ReaderInv /\ GotInv /\ SentInv /\ ReplyInv /\ Live
  BY <1>1 DEF ReadInv, Live
<1>4. /\ Len(got) \in Nat /\ nextAck \in Nat /\ Window \in Nat \ {0}
  BY ReadTyped
<1>5. FlightGains({}) /\ Flight' = Flight
  BY <1>1, <1>2, NoFlight
<1>6. \A k : Asked(k)' = Asked(k) /\ Seek(Asked(k))' = Seek(Asked(k))
  BY <1>1 DEF Asked, Seek
<1>7. GotInv'
  BY <1>1, <1>3, <1>6 DEF GotInv
<1>8. SentInv'
  <2>1. \A p : Place(p)' = Place(p)
    BY <1>1 DEF Place, Lift
  <2>2. \A p, q : Leads(p, q)' => Leads(p, q)
    BY <1>5 DEF FlightGains
  <2> QED BY <1>1, <1>2, <1>3, <1>5, <1>6, <2>1, <2>2 DEF SentInv
<1>9. RxGains(InContent) /\ ReplyInv'
  <2>1. CASE got # <<>>
    <3> DEFINE k == Len(got) - 1
    <3>1. k \in Nat /\ Len(got) <= k + Window /\ k <= Len(got) /\ k < Len(got)
      <4>1. got \in Seq(0 .. Frames + Entries)
        BY DEF ITypes, TypeOK
      <4>2. Len(got) # 0
        BY <2>1, <4>1
      <4> QED BY <1>4, <4>2
    <3>2. k < nextAck + Window
      <4>1. Len(got) <= nextAck + Window
        BY <1>3 DEF SentInv
      <4> QED BY <1>4, <3>1, <4>1
    <3>3. k % Counters \in 0 .. Counters - 1 /\ k % Counters \in Nat
      BY <3>1, CountersTyped
    <3>4. Write(Packet("FILE_ACK", k % Counters, 0, "DATA"))
      BY <1>1, <2>1
    <3> HIDE DEF k
    <3>5. ReplyInv'
      BY <1>1, <1>2, <1>3, <1>4, <3>1, <3>2, <3>3, <3>4, ReplyWritten
    <3>6. RxGains(InContent)
      <4> DEFINE ack == Packet("FILE_ACK", k % Counters, 0, "DATA")
      <4>1. ack \in Packets /\ ack.cmd = "FILE_ACK"
        BY <3>3, PacketsTyped, CmdsTyped DEF Packet
      <4>2. ack \in InContent
        BY <1>1, <4>1 DEF InContent, Content, ToDevice
      <4> HIDE DEF ack
      <4>3. Write(ack)
        BY <3>4 DEF ack
      <4> QED BY <4>1, <4>2, <4>3, WriteRx DEF RxGains
    <3> QED BY <3>5, <3>6
  <2>2. CASE got = <<>>
    <3>1. UNCHANGED <<rx, nextAck, got, phase, stash>>
      BY <1>1, <1>2, <2>2 DEF Quiet
    <3> QED BY <1>3, <3>1 DEF ReplyInv, Live, AckPlace, Lift, RxGains
  <2> QED BY <2>1, <2>2
<1>10. Shape
  <2>1. RxGains(Requests \cup InContent) /\ FlightGains(Answers \cup OutContent)
    BY <1>5, <1>9, GainsGrow
  <2> QED BY <1>1, <1>2, <2>1 DEF Shape
<1>11. ReaderInv'
  <2>1. \A p \in Elems(rx') : p.cmd = "READ" => p \in Elems(rx)
    BY <1>9 DEF RxGains, InContent, Content
  <2> QED BY <1>1, <1>3, <2>1, ReaderKept
<1> QED BY <1>7, <1>8, <1>9, <1>10, <1>11 DEF ReadInv
-----------------------------------------------------------------------------
(* Steps of a listing.                                                      *)

\* What is not at the head of the inbox is behind it.
LEMMA HeadLeads ==
  ASSUME ITypes, inbox # <<>>
  PROVE  /\ Head(inbox) \in Flight /\ Head(inbox) \in Packets
         /\ \A q \in Flight : q = Head(inbox) \/ Leads(Head(inbox), q)
<1>1. inbox \in Seq(Packets)
  BY DEF ITypes
<1>2. /\ Head(inbox) \in Packets /\ Head(inbox) \in Elems(inbox)
      /\ Elems(inbox) = Elems(Tail(inbox)) \cup {Head(inbox)}
      /\ \A q \in Elems(Tail(inbox)) : Before(inbox, Head(inbox), q)
  BY <1>1, ElemsTail
<1> QED BY <1>2 DEF Flight, Leads

\* Every entry is sent once, behind those before it.
LEMMA ReadEntrySafe ==
  ASSUME ITypes, OneInv, DirInv, ReadEntry, UNCHANGED clientVars, UNCHANGED boundVars
  PROVE  Shape /\ op = "DIR" /\ DirInv'
<1> USE DEF clientVars, boundVars
<1> DEFINE info == Packet("INFO", nextPacket % Counters, pos, "DIR")
<1>1. /\ run = "send" /\ state = "DIR" /\ Room /\ op = "DIR" /\ pos < Entries
      /\ UNCHANGED <<state, open, nextAck, offset, stride, disk, rx, connected>>
  BY DEF ReadEntry, linkVars, OneInv, ITypes
<1>2. RxGains({})
  BY <1>1 DEF RxGains
<1>3. nextPacket \in Nat /\ pos \in Nat /\ Len(got) \in Nat
  BY ReadTyped
<1>4. info \in Packets /\ info.cmd = "INFO" /\ info.body = pos
  <2>1. nextPacket % Counters \in Nat
    BY <1>3, CountersTyped
  <2> QED BY <1>1, <1>3, <2>1, PacketsTyped, CmdsTyped DEF Packet
<1>5. \/ Send(info) /\ nextPacket' = nextPacket + 1 /\ pos' = pos + 1
      \/ UNCHANGED <<tx, nextPacket, pos>> /\ run' = "leave"
  BY DEF ReadEntry
<1> HIDE DEF info
<1>6. CASE Send(info) /\ nextPacket' = nextPacket + 1 /\ pos' = pos + 1
  <2>1. /\ FlightGains({info}) /\ Flight' = Flight \cup {info}
        /\ \A p, q : Leads(p, q)' => Leads(p, q) \/ (p \in Flight /\ q = info)
    BY <1>1, <1>4, <1>6, SendFlight
  <2>2. Shape
    <3>1. info \in OutContent
      BY <1>1, <1>4 DEF OutContent, ToClient
    <3>2. RxGains(Requests \cup InContent) /\ FlightGains(Answers \cup OutContent)
      BY <1>2, <2>1, <3>1, GainsGrow
    <3> QED BY <1>1, <3>2 DEF Shape
  <2>3. ASSUME mishaps = 0 PROVE ListedInv' /\ EntriesInv'
    <3>1. ListedInv /\ EntriesInv
      BY <1>1, <2>3 DEF DirInv
    <3>2. ListedInv'
      BY <3>1 DEF ListedInv
    <3>3. ASSUME Live PROVE
            /\ Len(got) <= pos + 1
            /\ \A p \in Flight' : p.cmd = "INFO" => Len(got) <= p.body /\ p.body < pos + 1
            /\ \A p, q \in Flight' : Leads(p, q)' /\ p.cmd = "INFO" /\ q.cmd = "INFO" =>
                 p.body < q.body
            /\ \A b \in Len(got) .. pos : \E p \in Flight' : p.cmd = "INFO" /\ p.body = b
      <4>1. /\ Len(got) <= pos
            /\ \A p \in Flight : p.cmd = "INFO" => Len(got) <= p.body /\ p.body < pos
            /\ \A p, q \in Flight : Leads(p, q) /\ p.cmd = "INFO" /\ q.cmd = "INFO" => p.body < q.body
            /\ \A b \in Len(got) .. pos - 1 : \E p \in Flight : p.cmd = "INFO" /\ p.body = b
        BY <3>1, <3>3 DEF EntriesInv
      <4>2. \A p \in Flight : p.body \in Nat
        BY ElemsTyped DEF Packets
      <4>3. Len(got) <= pos + 1
        BY <1>3, <4>1
      <4>4. \A p \in Flight' : p.cmd = "INFO" => Len(got) <= p.body /\ p.body < pos + 1
        BY <1>3, <1>4, <2>1, <4>1, <4>2
      <4>5. ASSUME NEW p, NEW q, Leads(p, q)', p.cmd = "INFO", q.cmd = "INFO"
            PROVE  p.body < q.body
        BY <1>4, <2>1, <4>1, <4>5, LeadsInFlight
      <4>6. ASSUME NEW b \in Len(got) .. pos
            PROVE  \E p \in Flight' : p.cmd = "INFO" /\ p.body = b
        <5>1. CASE b = pos
          BY <1>4, <2>1, <5>1
        <5>2. CASE b # pos
          <6>1. b \in Len(got) .. pos - 1
            BY <1>3, <5>2
          <6> QED BY <2>1, <4>1, <6>1
        <5> QED BY <5>1, <5>2
      <4>7. \A p, q \in Flight' : Leads(p, q)' /\ p.cmd = "INFO" /\ q.cmd = "INFO" =>
              p.body < q.body
        BY <4>5
      <4>8. \A b \in Len(got) .. pos : \E p \in Flight' : p.cmd = "INFO" /\ p.body = b
        BY <4>6
      <4> QED BY <4>3, <4>4, <4>7, <4>8
    <3>4. EntriesInv'
      <4> SUFFICES ASSUME Live' PROVE
            /\ Len(got') <= pos'
            /\ \A p \in Flight' : p.cmd = "INFO" => Len(got') <= p.body /\ p.body < pos'
            /\ \A p, q \in Flight' : Leads(p, q)' /\ p.cmd = "INFO" /\ q.cmd = "INFO" =>
                 p.body < q.body
            /\ \A b \in Len(got') .. pos' - 1 : \E p \in Flight' : p.cmd = "INFO" /\ p.body = b
        BY DEF EntriesInv
      <4>1. Live
        BY DEF Live
      <4>2. got' = got /\ pos' = pos + 1
        BY <1>6
      <4>3. /\ Len(got') <= pos'
            /\ \A p \in Flight' : p.cmd = "INFO" => Len(got') <= p.body /\ p.body < pos'
        BY <3>3, <4>1, <4>2
      <4>4. \A p, q \in Flight' : Leads(p, q)' /\ p.cmd = "INFO" /\ q.cmd = "INFO" =>
                 p.body < q.body
        BY <3>3, <4>1
      <4>5. \A b \in Len(got') .. pos' - 1 : \E p \in Flight' : p.cmd = "INFO" /\ p.body = b
        <5>1. pos' - 1 = pos
          BY <1>3, <4>2
        <5>2. \A b \in Len(got) .. pos : \E p \in Flight' : p.cmd = "INFO" /\ p.body = b
          BY <3>3, <4>1
        <5> QED BY <4>2, <5>1, <5>2
      <4> QED BY <4>3, <4>4, <4>5
    <3> QED BY <3>2, <3>4
  <2> QED BY <1>1, <2>2, <2>3 DEF DirInv
<1>7. CASE UNCHANGED <<tx, nextPacket, pos>> /\ run' = "leave"
  <2>1. FlightGains({}) /\ Flight' = Flight
    BY <1>7, NoFlight
  <2>2. RxGains(Requests \cup InContent) /\ FlightGains(Answers \cup OutContent)
        /\ RxGains(Requests) /\ FlightGains(Answers)
    BY <1>2, <2>1, GainsGrow
  <2>3. Shape /\ Still
    BY <1>1, <1>7, <2>2 DEF Shape, Still
  <2> QED BY <1>1, <2>1, <2>3, StillKeepsDir
<1> QED BY <1>5, <1>6, <1>7

\* As long as nothing gets lost, the entry at the head is the next one.
LEMMA ReceiveEntrySafe ==
  ASSUME ITypes, OneInv, DirInv, ReceiveEntry
  PROVE  Shape /\ op = "DIR" /\ DirInv'
<1> DEFINE h == Head(inbox)
<1>1. /\ phase = "active" /\ op = "DIR" /\ inbox # <<>> /\ h.cmd = "INFO"
      /\ got' = Append(got, h.body)
      /\ phase' = (IF h.body = Entries - 1 THEN "done" ELSE phase)
      /\ inbox' = (IF phase' = "done" THEN <<>> ELSE Tail(inbox))
      /\ UNCHANGED <<op, acked, sent, asked, retries, stash, operations, rx, mishaps>> /\ DeviceRest
  BY DEF ReceiveEntry, Pop, Quiet
<1>2. UNCHANGED <<state, run, open, nextPacket, nextAck, pos, disk, tx, connected>>
  BY <1>1 DEF DeviceRest, counterVars, fileVars, linkVars
<1>3. h \in Flight /\ h \in Packets /\ \A q \in Flight : q = h \/ Leads(h, q)
  BY <1>1, HeadLeads
<1>4. FlightGains({}) /\ Flight' \subseteq Flight
  BY <1>1, <1>2, PopFlight, ClearFlight
<1>5. phase' # "done" => Flight = Flight' \cup {h} /\ \A q \in Flight' : Leads(h, q)
  BY <1>1, <1>2, PopFlight
<1> HIDE DEF h
<1>6. Shape
  <2>1. RxGains({})
    BY <1>1 DEF RxGains
  <2>2. RxGains(Requests \cup InContent) /\ FlightGains(Answers \cup OutContent)
    BY <1>4, <2>1, GainsGrow
  <2> QED BY <1>1, <1>2, <2>2 DEF Shape
<1>7. ASSUME mishaps = 0 PROVE ListedInv' /\ EntriesInv'
  <2>1. ListedInv /\ EntriesInv /\ Live
    BY <1>1, <1>7 DEF DirInv, Live
  <2>2. /\ Len(got) <= pos
        /\ \A p \in Flight : p.cmd = "INFO" => Len(got) <= p.body /\ p.body < pos
        /\ \A p, q \in Flight : Leads(p, q) /\ p.cmd = "INFO" /\ q.cmd = "INFO" => p.body < q.body
        /\ \A b \in Len(got) .. pos - 1 : \E p \in Flight : p.cmd = "INFO" /\ p.body = b
    BY <2>1 DEF EntriesInv
  <2>3. /\ Len(got) \in Nat /\ pos \in Nat /\ got \in Seq(0 .. Frames + Entries) /\ Entries \in Nat
        /\ \A p \in Flight : p.body \in Nat
    BY ReadTyped, ElemsTyped, FramesAssumption DEF ITypes, TypeOK, Packets
  <2>4. h.body = Len(got)
    <3>1. Len(got) <= h.body /\ h.body < pos
      BY <1>1, <1>3, <2>2
    <3>2. Len(got) \in Len(got) .. pos - 1
      BY <1>3, <2>3, <3>1
    <3>3. PICK q \in Flight : q.cmd = "INFO" /\ q.body = Len(got)
      BY <2>2, <3>2
    <3>4. q = h \/ h.body < q.body
      BY <1>1, <1>3, <2>2, <3>3
    <3> QED BY <1>3, <2>3, <3>1, <3>3, <3>4
  <2>5. h.body < Entries
    BY <1>1, <1>3 DEF Packets
  <2>6. /\ Len(got') = Len(got) + 1 /\ got'[Len(got) + 1] = h.body
        /\ \A i \in 1 .. Len(got) : got'[i] = got[i]
    <3>1. h.body \in 0 .. Frames + Entries
      BY <2>3, <2>5, <1>3, FramesAssumption
    <3> QED BY <1>1, <2>3, <3>1, AppendProperties
  <2>7. ListedInv'
    <3>1. ASSUME NEW i \in 1 .. Len(got') PROVE got'[i] = i - 1
      <4>1. CASE i = Len(got) + 1
        BY <2>3, <2>4, <2>6, <4>1
      <4>2. CASE i \in 1 .. Len(got)
        BY <2>1, <2>6, <4>2 DEF ListedInv
      <4> QED BY <2>3, <2>6, <4>1, <4>2
    <3>2. Len(got') <= Entries
      BY <2>3, <2>4, <2>5, <2>6
    <3>3. phase' = "done" => Len(got') >= Entries
      BY <1>1, <2>3, <2>4, <2>6
    <3> QED BY <1>1, <2>1, <3>1, <3>2, <3>3 DEF ListedInv
  <2>8. ASSUME phase' # "done"
        PROVE  /\ Len(got') <= pos
               /\ \A p \in Flight' : p.cmd = "INFO" => Len(got') <= p.body /\ p.body < pos
               /\ \A p, q \in Flight' : Leads(p, q)' /\ p.cmd = "INFO" /\ q.cmd = "INFO" =>
                    p.body < q.body
               /\ \A b \in Len(got') .. pos - 1 : \E p \in Flight' : p.cmd = "INFO" /\ p.body = b
    <3>1. Len(got') <= pos
      <4>1. h.body < pos
        BY <1>1, <1>3, <2>2
      <4> QED BY <2>3, <2>4, <2>6, <4>1
    <3>2. ASSUME NEW p \in Flight', p.cmd = "INFO" PROVE Len(got') <= p.body /\ p.body < pos
      <4>1. p \in Flight /\ Leads(h, p)
        BY <1>4, <1>5, <2>8, <3>2
      <4>2. h.body < p.body /\ p.body < pos /\ p.body \in Nat
        BY <1>1, <1>3, <2>2, <2>3, <3>2, <4>1
      <4> QED BY <2>3, <2>4, <2>6, <4>2
    <3>3. ASSUME NEW p, NEW q, Leads(p, q)', p.cmd = "INFO", q.cmd = "INFO"
          PROVE  p.body < q.body
      <4>1. Leads(p, q)
        BY <1>4, <3>3 DEF FlightGains
      <4> QED BY <2>2, <3>3, <4>1, LeadsInFlight
    <3>4. ASSUME NEW b \in Len(got') .. pos - 1
          PROVE  \E p \in Flight' : p.cmd = "INFO" /\ p.body = b
      <4>1. b \in Len(got) .. pos - 1 /\ b # Len(got)
        BY <2>3, <2>6
      <4>2. PICK p \in Flight : p.cmd = "INFO" /\ p.body = b
        BY <2>2, <4>1
      <4>3. p \in Flight'
        BY <1>5, <2>4, <2>8, <4>1, <4>2
      <4> QED BY <4>2, <4>3
    <3> QED BY <3>1, <3>2, <3>3, <3>4
  <2>9. EntriesInv'
    <3>1. Live' => phase' # "done"
      BY DEF Live
    <3> QED BY <1>2, <2>8, <3>1 DEF EntriesInv
  <2> QED BY <2>7, <2>9
<1> QED BY <1>1, <1>6, <1>7 DEF DirInv
-----------------------------------------------------------------------------
(* Steps that begin an operation, open it, or put a packet aside.           *)

\* The command of the operation is taken: nothing of the operation is under way yet.
LEMMA OpenTransferTakes ==
  ASSUME ITypes, OneInv, OpenInv, NEW t \in Transfers, OpenTransfer(t), UNCHANGED clientVars
  PROVE  /\ op = t /\ op' = op /\ state = "IDLE" /\ run = "receive" /\ run' \in {"receive", "off"}
         /\ state' \in {"IDLE", t}
         /\ Head(rx) \in Elems(rx) /\ Head(rx) \in Packets /\ Head(rx).cmd = t
         /\ Elems(rx') \subseteq Elems(rx) /\ \A p, q : Before(rx', p, q) => Before(rx, p, q)
         /\ phase \in {"opening", "failed"} /\ stash = <<>>
         /\ \A q \in Elems(rx') : q.cmd \notin Content /\ q.cmd # op
         /\ \A q \in Flight' : q.cmd \notin Content
         /\ FlightGains({Ack(t), Nak(t)})
         /\ nextPacket = 0 /\ nextAck = 0 /\ nextPacket' = 0 /\ nextAck' = 0
<1>1. Takes({"IDLE"}, {t})
  BY DEF OpenTransfer
<1>2. /\ Head(rx) \in Elems(rx) /\ Head(rx) \in Packets /\ Head(rx).cmd = t
      /\ Elems(rx') \subseteq Elems(rx) /\ \A p, q : Before(rx', p, q) => Before(rx, p, q)
      /\ \A q \in Elems(rx') : Before(rx, Head(rx), q)
      /\ state = "IDLE" /\ run = "receive"
  BY <1>1, TakesRx, TakesTyped
<1>3. op = t
  <2>1. op \in Transfers \cup {"NONE"}
    BY DEF ITypes, TypeOK
  <2>2. t \in {"PING", "MK_DIR", "BAD", "CANCEL"} \cup ToDevice(op)
    BY <1>2 DEF OneInv
  <2> QED BY <2>1, <2>2, CmdsOfOperation
<1>4. /\ phase \in {"opening", "failed"} /\ stash = <<>>
      /\ \A q \in Elems(rx) : q.cmd \notin Content
      /\ \A q \in Flight : q.cmd \notin Content /\ ~Opens(q)
      /\ nextPacket = 0 /\ nextAck = 0
  BY <1>2, <1>3 DEF OpenInv
<1>5. \A q \in Elems(rx') : q.cmd # op
  BY <1>2, <1>3 DEF OpenInv
<1>6. PICK ok \in BOOLEAN, begins \in BOOLEAN : OpenOutcome(t, ok, begins)
  BY OpenOutcomes
<1>7. nextPacket' = 0 /\ nextAck' = 0 /\ state' \in {"IDLE", t} /\ run' \in {"receive", "off"}
  BY <1>2, <1>4, <1>6 DEF OpenOutcome
<1>8. FlightGains({Ack(t), Nak(t)})
  <2>1. Ack(t) \in Packets /\ Nak(t) \in Packets
    BY PacketsTyped, CmdsTyped
  <2>2. Send(Ack(t)) \/ Send(Nak(t))
    BY DEF OpenTransfer
  <2>3. FlightGains({Ack(t)}) \/ FlightGains({Nak(t)})
    BY <2>1, <2>2, SendFlight DEF clientVars
  <2> QED BY <2>3, GainsGrow
<1>9. \A q \in Flight' : q.cmd \notin Content
  <2>1. Flight' \subseteq Flight \cup {Ack(t), Nak(t)}
    BY <1>8 DEF FlightGains, Flight
  <2> QED BY <1>4, <2>1 DEF Ack, Nak, Packet, Content
<1> QED BY <1>2, <1>3, <1>4, <1>5, <1>7, <1>8, <1>9 DEF clientVars

\* A command that opens its transfer, or is refused, is the only one of the operation.
LEMMA OpenTransferOpens ==
  ASSUME ITypes, OneInv, OpenInv, NEW t \in Transfers, OpenTransfer(t),
         UNCHANGED clientVars, UNCHANGED boundVars
  PROVE  OneInv' /\ OpenInv'
<1> USE DEF clientVars, boundVars
<1>1. /\ op = t /\ op' = op /\ state = "IDLE"
      /\ state' \in {"IDLE", t}
      /\ Elems(rx') \subseteq Elems(rx) /\ \A p, q : Before(rx', p, q) => Before(rx, p, q)
      /\ phase \in {"opening", "failed"} /\ stash = <<>>
      /\ \A q \in Elems(rx') : q.cmd \notin Content /\ q.cmd # op
      /\ \A q \in Flight' : q.cmd \notin Content
      /\ FlightGains({Ack(t), Nak(t)})
  BY OpenTransferTakes
<1>2. connected' = connected
  BY DEF OpenTransfer, linkVars
<1>3. /\ Ack(t).cmd = "ACK" /\ Ack(t).of = t /\ Nak(t).cmd = "NAK"
      /\ t # "NONE"
  BY DEF Ack, Nak, Packet, Transfers
<1>4. OneInv'
  <2>1. \A p \in Elems(rx') : p.cmd \in {"PING", "MK_DIR", "BAD", "CANCEL"} \cup ToDevice(op)
    BY <1>1 DEF OneInv
  <2>2. \A p \in Elems(tx') : p.cmd \in {"ACK", "NAK", "OTHER"} \cup ToClient(op)
    BY <1>1, <1>3 DEF OneInv, FlightGains
  <2>3. \A p \in Elems(inbox') : p.cmd \in {"ACK", "NAK"} \cup ToClient(op)
    BY DEF OneInv
  <2>4. \A p \in Flight' : p.cmd = "ACK" => p.of \in {"PING", "MK_DIR", op}
    BY <1>1, <1>3 DEF OneInv, FlightGains, Flight
  <2>5. Busy' => connected'
    BY <1>2 DEF OneInv, Busy
  <2> QED BY <1>1, <1>3, <2>1, <2>2, <2>3, <2>4, <2>5 DEF OneInv
<1>5. OpenInv'
  BY <1>1, BeforeIsIn, LeadsInFlight DEF OpenInv
<1> QED BY <1>4, <1>5

\* A transfer begins with an empty window at both ends.
LEMMA OpenTransferSafe ==
  ASSUME ITypes, OneInv, OpenInv, WriteInv, ReadInv, DirInv, NEW t \in Transfers,
         OpenTransfer(t), UNCHANGED clientVars, UNCHANGED boundVars
  PROVE  WriteInv' /\ ReadInv' /\ DirInv'
<1> USE DEF clientVars, boundVars
<1>1. /\ op = t /\ op' = op /\ state = "IDLE" /\ run = "receive" /\ run' \in {"receive", "off"}
      /\ state' \in {"IDLE", t}
      /\ Head(rx) \in Elems(rx) /\ Head(rx) \in Packets /\ Head(rx).cmd = t
      /\ Elems(rx') \subseteq Elems(rx) /\ \A p, q : Before(rx', p, q) => Before(rx, p, q)
      /\ phase \in {"opening", "failed"} /\ stash = <<>>
      /\ \A q \in Elems(rx') : q.cmd \notin Content /\ q.cmd # op
      /\ \A q \in Flight' : q.cmd \notin Content
      /\ nextPacket = 0 /\ nextAck = 0 /\ nextPacket' = 0 /\ nextAck' = 0
  BY OpenTransferTakes
<1>2. PICK ok \in BOOLEAN, begins \in BOOLEAN : OpenOutcome(t, ok, begins)
  BY OpenOutcomes
<1>3. \A q \in Flight : q.cmd \notin Content
  BY <1>1 DEF OpenInv
<1>4. /\ Len(got) \in Nat /\ pos \in Nat /\ Window \in Nat \ {0} /\ acked \in Nat
      /\ phase = "opening" => acked = 0 /\ got = <<>>
  BY <1>1, ReadTyped, FramesAssumption DEF ITypes, TypeOK, OpenInv
<1>5. begins => ok
  BY <1>2 DEF OpenOutcome
<1>6. ASSUME op = "WRITE" PROVE DiskInv' /\ WindowInv' /\ FramesInv' /\ AcksInv'
  <2>1. DiskInv /\ WindowInv
    BY <1>6 DEF WriteInv
  <2>2. DiskInv'
    <3>1. pos = 0 /\ Len(disk) \in Nat
      BY <1>1, <2>1, FramesAssumption DEF DiskInv, ITypes, TypeOK, CrsTypeOK
    <3>2. pos' = 0 /\ disk' \in {<<>>, disk}
      BY <1>1, <1>2, <1>6, <3>1 DEF OpenOutcome
    <3>3. Len(<<>>) = 0 /\ Frames \in Nat
      BY FramesAssumption
    <3>4. pos' <= Len(disk') /\ Len(disk') <= Frames
      BY <2>1, <3>1, <3>2, <3>3 DEF DiskInv
    <3>5. Len(disk') >= pos' /\ \A i \in 1 .. pos' : disk'[i] = i - 1
      BY <3>1, <3>2, <3>4
    <3> QED BY <1>1, <3>2, <3>4, <3>5 DEF DiskInv, Holds
  <2>3. WindowInv'
    <3>1. acked <= 0
      BY <1>1, <2>1 DEF WindowInv
    <3> QED BY <1>1, <1>4, <3>1 DEF WindowInv, Content
  <2>4. FramesInv'
    BY <1>1, BeforeIsIn DEF FramesInv, Content
  <2>5. AcksInv'
    BY <1>1 DEF AcksInv
  <2> QED BY <2>2, <2>3, <2>4, <2>5
<1>7. ASSUME op = "READ" PROVE ReaderInv' /\ GotInv' /\ SentInv' /\ ReplyInv'
  <2>1. ReaderInv /\ GotInv
    BY <1>7 DEF ReadInv
  <2>2. ReaderInv'
    <3>1. asked[2] > 0 /\ Head(rx).body = asked[1] /\ Head(rx).n = asked[2]
      BY <1>1, <1>7, <2>1 DEF ReaderInv
    <3>2. \A p \in Elems(rx') : p.cmd # "READ"
      BY <1>1, <1>7
    <3>3. ASSUME state' = "READ"
          PROVE  offset' = asked[1] /\ stride' = asked[2] /\ pos' = Seek(Asked(nextPacket))'
      <4>1. begins
        BY <1>1, <1>2, <3>3 DEF OpenOutcome
      <4>2. offset' = Head(rx).body /\ stride' = Head(rx).n /\ pos' = Seek(Head(rx).body)
        BY <1>1, <1>2, <1>5, <1>7, <4>1 DEF OpenOutcome
      <4>3. Asked(0) = asked[1]
        BY AskedNext
      <4>4. Seek(Asked(nextPacket))' = Seek(Asked(0))
        BY <1>1 DEF Seek, Asked
      <4> QED BY <3>1, <4>2, <4>3, <4>4
    <3> QED BY <3>1, <3>2, <3>3 DEF ReaderInv
  <2>3. GotInv'
    BY <2>1 DEF GotInv, Asked
  <2>4. SentInv'
    <3>1. ASSUME Live' PROVE got = <<>>
      BY <1>1, <1>4, <3>1 DEF Live
    <3>2. \A q \in Flight' : q.cmd # "DATA"
      BY <1>1 DEF Content
    <3> QED BY <1>1, <1>4, <3>1, <3>2 DEF SentInv
  <2>5. ReplyInv'
    BY <1>1 DEF ReplyInv, Content
  <2> QED BY <2>2, <2>3, <2>4, <2>5
<1>8. ASSUME op = "DIR", mishaps = 0 PROVE ListedInv' /\ EntriesInv'
  <2>1. ListedInv /\ EntriesInv
    BY <1>8 DEF DirInv
  <2>2. ListedInv'
    BY <2>1 DEF ListedInv
  <2>3. EntriesInv'
    <3>1. ASSUME Live' PROVE got = <<>> /\ pos' = 0
      <4>1. Live /\ got = <<>>
        BY <1>1, <1>4, <3>1 DEF Live
      <4>2. \A b \in 0 .. pos - 1 : FALSE
        BY <1>3, <2>1, <4>1 DEF EntriesInv, Content
      <4>3. pos = 0
        <5>1. ~(0 \in 0 .. pos - 1)
          BY <4>2
        <5> QED BY <1>4, <5>1
      <4>4. pos' \in {0, pos}
        BY <1>2, <1>8, <1>1 DEF OpenOutcome
      <4> QED BY <4>1, <4>3, <4>4
    <3>2. \A q \in Flight' : q.cmd # "INFO"
      BY <1>1 DEF Content
    <3> QED BY <3>1, <3>2 DEF EntriesInv
  <2> QED BY <2>2, <2>3
<1> QED BY <1>1, <1>6, <1>7, <1>8 DEF WriteInv, ReadInv, DirInv

\* A client that begins finds nothing under way but what has nothing to do with transfers.
LEMMA BeginSafe ==
  ASSUME MaxOperations = 1, ITypes, OneInv, NEW t \in Operations, Begin(t)
  PROVE  OneInv' /\ OpenInv' /\ WriteInv' /\ ReadInv' /\ DirInv'
<1>1. /\ connected /\ operations = 0 /\ operations' = 1 /\ op = "NONE"
      /\ op' = t /\ phase' = "opening" /\ acked' = 0 /\ sent' = 0 /\ got' = <<>>
      /\ inbox' = <<>> /\ stash' = <<>> /\ DeviceRest
  BY DEF Begin, OneInv, ITypes
<1>2. /\ t \in Transfers /\ t # "NONE" /\ t \notin {"PING", "MK_DIR", "BAD", "CANCEL", "ACK"}
      /\ t \notin Content /\ t \in ToDevice(t)
  BY OperationsAssumption, CmdsOfOperation
<1>3. UNCHANGED <<state, run, open, nextPacket, nextAck, pos, disk, offset, stride, tx, connected>>
  BY <1>1 DEF DeviceRest, counterVars, fileVars, linkVars
<1>4. state = "IDLE" /\ nextPacket = 0 /\ nextAck = 0 /\ pos = 0 /\ disk = <<>>
  <2>1. state \in Transfers \cup {"IDLE"}
    BY DEF ITypes, TypeOK, CrsTypeOK
  <2> QED BY <1>1, <2>1 DEF OneInv, Transfers
<1>5. /\ \A p \in Elems(rx) : p.cmd \in {"PING", "MK_DIR", "BAD", "CANCEL"}
      /\ \A p \in Elems(tx) : p.cmd \in {"ACK", "NAK", "OTHER"}
  BY <1>1 DEF OneInv, ToDevice, ToClient
<1>6. Flight' = Elems(tx) /\ \A p \in Elems(tx) : p.cmd = "ACK" => p.of \in {"PING", "MK_DIR", "NONE"}
  BY <1>1, <1>3, ElemsEmpty DEF Flight, OneInv
<1>7. PICK o \in Nat, s \in Nat \ {0}, c \in Packets :
        /\ Write(c) /\ c.cmd = t
        /\ t = "READ" => asked' = <<o, s>> /\ c.body = o /\ c.n = s
        /\ t # "READ" => asked' = <<0, 1>>
  <2>1. CASE t = "READ"
    <3>1. PICK o \in Offsets, s \in Strides : asked' = <<o, s>> /\ Write(Packet(t, s, o, t))
      BY <2>1 DEF Begin
    <3>2. o \in Nat /\ s \in Nat \ {0}
      BY OperationsAssumption
    <3>3. /\ Packet(t, s, o, t) \in Packets /\ Packet(t, s, o, t).cmd = t
          /\ Packet(t, s, o, t).body = o /\ Packet(t, s, o, t).n = s
      BY <2>1, <3>2, PacketsTyped, CmdsTyped DEF Packet
    <3> QED BY <2>1, <3>1, <3>2, <3>3
  <2>2. CASE t # "READ"
    <3>1. asked' = <<0, 1>> /\ Write(Command(t))
      BY <2>2 DEF Begin
    <3>2. Command(t) \in Packets /\ Command(t).cmd = t
      BY <1>2, <2>2, PacketsTyped, CmdsTyped DEF Command, Packet, Transfers
    <3> QED BY <2>2, <3>1, <3>2
  <2> QED BY <2>1, <2>2
<1>8. /\ Elems(rx') \subseteq Elems(rx) \cup {c}
      /\ \A a, b : Before(rx', a, b) => Before(rx, a, b) \/ (a \in Elems(rx) /\ b = c)
  BY <1>7, WriteRx
<1>9. \A p \in Elems(rx') : p.cmd \notin Content /\ (p.cmd = t => p = c)
  BY <1>2, <1>5, <1>7, <1>8, CmdsOfOperation
<1>10. \A p \in Flight' : p.cmd \notin Content /\ ~(p.cmd = "ACK" /\ p.of = t)
  BY <1>2, <1>5, <1>6, CmdsOfOperation
<1>11. OneInv'
  <2>1. \A p \in Elems(rx') : p.cmd \in {"PING", "MK_DIR", "BAD", "CANCEL"} \cup ToDevice(t)
    BY <1>2, <1>5, <1>7, <1>8
  <2>2. \A p \in Elems(tx') : p.cmd \in {"ACK", "NAK", "OTHER"} \cup ToClient(t)
    BY <1>3, <1>5
  <2>3. \A p \in Flight' : p.cmd = "ACK" => p.of \in {"PING", "MK_DIR", t}
    <3>1. \A p \in Flight' : p.of # "NONE"
      BY <1>3, <1>6, ElemsTyped DEF Packets, Cmds, Transfers, Flight
    <3> QED BY <1>6, <3>1
  <2> QED BY <1>1, <1>2, <1>3, <1>4, <2>1, <2>2, <2>3, ElemsEmpty DEF OneInv
<1>12. OpenInv'
  <2>1. ASSUME NEW p, NEW q, Before(rx', p, q) PROVE ~(p.cmd = t /\ q.cmd = t)
    BY <1>2, <1>5, <1>8, <2>1, BeforeIsIn
  <2> QED BY <1>1, <1>3, <1>4, <1>9, <1>10, <2>1, LeadsInFlight DEF OpenInv, Opens
<1>13. ASSUME t = "WRITE" PROVE DiskInv' /\ WindowInv' /\ FramesInv' /\ AcksInv'
  <2>1. DiskInv'
    <3>1. Len(<<>>) = 0 /\ Frames \in Nat /\ \A i \in 1 .. 0 : FALSE
      BY FramesAssumption
    <3> QED BY <1>3, <1>4, <3>1 DEF DiskInv, Holds
  <2>2. WindowInv'
    BY <1>1, <1>3, <1>4, <1>10, WindowAssumption DEF WindowInv, Content
  <2>3. FramesInv' /\ AcksInv'
    BY <1>1, <1>9, BeforeIsIn DEF FramesInv, AcksInv, Content
  <2> QED BY <2>1, <2>2, <2>3
<1>14. ASSUME t = "READ" PROVE ReaderInv' /\ GotInv' /\ SentInv' /\ ReplyInv'
  <2>1. ReaderInv'
    BY <1>3, <1>4, <1>7, <1>9, <1>14 DEF ReaderInv
  <2>2. Len(got') = 0
    BY <1>1
  <2>3. GotInv'
    BY <1>1, <2>2 DEF GotInv
  <2>4. SentInv'
    BY <1>3, <1>4, <1>10, <2>2, WindowAssumption DEF SentInv, Content
  <2>5. ReplyInv'
    BY <1>9 DEF ReplyInv, Content
  <2> QED BY <2>1, <2>3, <2>4, <2>5
<1>15. ASSUME t = "DIR" PROVE ListedInv' /\ EntriesInv'
  <2>1. Len(got') = 0 /\ Entries \in Nat
    BY <1>1, FramesAssumption
  <2>2. ListedInv'
    BY <1>1, <1>7, <1>15, <2>1 DEF ListedInv
  <2>3. EntriesInv'
    BY <1>3, <1>4, <1>10, <2>1 DEF EntriesInv, Content
  <2> QED BY <2>2, <2>3
<1> QED BY <1>1, <1>11, <1>12, <1>13, <1>14, <1>15 DEF WriteInv, ReadInv, DirInv

\* What AwaitAck leaves alone.
LEMMA AwaitAckTakes ==
  ASSUME ITypes, OneInv, OpenInv, AwaitAck, phase' = "active" \/ stash' \notin {stash, <<>>}
  PROVE  /\ phase = "opening" /\ UNCHANGED <<op, acked, sent, got, asked, retries, operations>>
         /\ Quiet /\ DeviceRest /\ inbox # <<>> /\ inbox' = Tail(inbox)
         /\ op # "NONE" /\ Head(inbox) \in Flight
         /\ FlightGains({}) /\ Flight = Flight' \cup {Head(inbox)} /\ Flight' \subseteq Flight
         /\ \A q \in Flight' : Leads(Head(inbox), q)
         /\ \/ Opens(Head(inbox)) /\ phase' = "active" /\ stash = <<>> /\ stash' = <<>>
            \/ /\ phase' = "opening" /\ stash' # <<>>
               /\ Head(inbox).cmd \in Content
<1>1. phase = "opening" /\ Pop /\ UNCHANGED operations /\ DeviceRest
  BY DEF AwaitAck
<1>2. inbox # <<>> /\ Head(inbox) \in Flight /\ Head(inbox) \in Packets /\ inbox \in Seq(Packets)
      /\ stash \in Seq(Packets)
  BY <1>1, HeadLeads DEF Pop, ITypes
<1>3. op # "NONE" /\ op \in Transfers
  BY <1>1 DEF OneInv, ITypes, TypeOK
<1>4. ~Fail
  BY DEF Fail
<1>5. /\ UNCHANGED <<op, acked, sent, got, asked, retries>> /\ Quiet
      /\ \/ /\ Opens(Head(inbox)) /\ phase' = "active"
            /\ inbox' = stash \o Tail(inbox) /\ stash' = <<>>
         \/ /\ Head(inbox).cmd \notin {"ACK", "NAK"} /\ phase' = "opening"
            /\ Drop /\ stash' = Append(stash, Head(inbox))
  BY <1>1, <1>4 DEF AwaitAck, Opens
<1>6. ASSUME Opens(Head(inbox)) PROVE stash = <<>>
  BY <1>2, <1>6 DEF OpenInv
<1>7. inbox' = Tail(inbox)
  <2>1. <<>> \o Tail(inbox) = Tail(inbox)
    BY <1>2
  <2> QED BY <1>5, <1>6, <2>1 DEF Drop
<1>8. tx' = tx
  BY <1>1 DEF DeviceRest
<1>9. /\ FlightGains({}) /\ Flight' \subseteq Flight /\ Flight = Flight' \cup {Head(inbox)}
      /\ \A q \in Flight' : Leads(Head(inbox), q)
  BY <1>2, <1>7, <1>8, PopFlight
<1>10. Append(stash, Head(inbox)) # <<>>
  BY <1>2, ElemsAppend
<1>11. Head(inbox).cmd \notin {"ACK", "NAK"} => Head(inbox).cmd \in Content
  <2>1. Head(inbox) \in Elems(inbox)
    BY <1>2, ElemsTail
  <2> QED BY <1>3, <2>1, CmdsOfOperation DEF OneInv
<1> QED BY <1>1, <1>2, <1>3, <1>5, <1>6, <1>7, <1>9, <1>10, <1>11

\* The client opens with nothing put aside, or puts aside what no answer follows.
LEMMA AwaitAckSafe ==
  ASSUME ITypes, IInv, AwaitAck, phase' = "active" \/ stash' \notin {stash, <<>>}
  PROVE  IInv'
<1> DEFINE h == Head(inbox)
<1>0. OneInv /\ OpenInv /\ WriteInv /\ ReadInv /\ DirInv
  BY DEF IInv
<1>1. /\ phase = "opening" /\ UNCHANGED <<op, acked, sent, got, asked, retries, operations>>
      /\ Quiet /\ DeviceRest /\ inbox # <<>> /\ inbox' = Tail(inbox)
      /\ op # "NONE" /\ h \in Flight
      /\ FlightGains({}) /\ Flight = Flight' \cup {h} /\ Flight' \subseteq Flight
      /\ \A q \in Flight' : Leads(h, q)
      /\ \/ Opens(h) /\ phase' = "active" /\ stash = <<>> /\ stash' = <<>>
         \/ phase' = "opening" /\ stash' # <<>> /\ h.cmd \in Content
  BY <1>0, AwaitAckTakes
<1> HIDE DEF h
<1>2. UNCHANGED <<state, run, open, nextPacket, nextAck, pos, disk, offset, stride, tx, connected,
                  rx, mishaps>>
  BY <1>1 DEF DeviceRest, Quiet, counterVars, fileVars, linkVars
<1>3. \A p, q : Leads(p, q)' => Leads(p, q)
  BY <1>1 DEF FlightGains
<1>4. Live' => Live
  BY <1>1 DEF Live
<1>5. \A p \in Elems(rx) : p.cmd # op
  <2>1. ASSUME NEW p \in Elems(rx), p.cmd = op PROVE FALSE
    <3>1. \A q \in Flight : q.cmd \notin Content /\ ~Opens(q)
      BY <1>0, <2>1 DEF OpenInv
    <3> QED BY <1>1, <3>1
  <2> QED BY <2>1
<1>6. OneInv'
  <2>1. \A p \in Elems(inbox') : p.cmd \in {"ACK", "NAK"} \cup ToClient(op)
    <3>1. inbox \in Seq(Packets)
      BY DEF ITypes
    <3> QED BY <1>0, <1>1, <3>1, ElemsTail DEF OneInv
  <2>2. \A p \in Flight' : p.cmd = "ACK" => p.of \in {"PING", "MK_DIR", op}
    BY <1>0, <1>1 DEF OneInv
  <2> QED BY <1>0, <1>1, <1>2, <2>1, <2>2 DEF OneInv, Busy
<1>7. OpenInv'
  <2>1. \A p : Opens(p)' <=> Opens(p)
    BY <1>1 DEF Opens
  <2>2. phase' = "opening" => acked' = 0 /\ sent' = 0 /\ got' = <<>>
                              /\ \A q \in Elems(rx') : q.cmd \notin Content
    BY <1>0, <1>1, <1>2 DEF OpenInv
  <2>3. \A p, q \in Flight' : Leads(p, q)' /\ p.cmd \in Content => ~Opens(q)
    BY <1>0, <1>1, <1>3 DEF OpenInv
  <2>4. stash' # <<>> => phase' = "opening" /\ \A q \in Flight' : ~Opens(q)
    BY <1>0, <1>1 DEF OpenInv
  <2> QED BY <1>1, <1>2, <1>5, <2>1, <2>2, <2>3, <2>4 DEF OpenInv
<1>8. ASSUME op = "WRITE" PROVE DiskInv' /\ WindowInv' /\ FramesInv' /\ AcksInv'
  <2>1. DiskInv /\ WindowInv /\ FramesInv /\ AcksInv
    BY <1>0, <1>8 DEF WriteInv
  <2>2. DiskInv' /\ FramesInv'
    BY <1>1, <1>2, <2>1 DEF DiskInv, FramesInv, Holds
  <2>3. \A p \in Flight' : p.cmd # "FILE_ACK"
    BY <1>1, <2>1 DEF WindowInv
  <2>4. WindowInv' /\ AcksInv'
    BY <1>1, <1>2, <2>1, <2>3 DEF WindowInv, AcksInv
  <2> QED BY <2>2, <2>4
<1>9. ASSUME op = "READ" PROVE ReaderInv' /\ GotInv' /\ SentInv' /\ ReplyInv'
  <2>1. ReaderInv /\ GotInv /\ SentInv /\ ReplyInv
    BY <1>0, <1>9 DEF ReadInv
  <2>2. /\ \A k : Asked(k)' = Asked(k) /\ Seek(Asked(k))' = Seek(Asked(k))
        /\ Seek(Asked(nextPacket))' = Seek(Asked(nextPacket))
        /\ \A p : Place(p)' = Place(p) /\ AckPlace(p)' = AckPlace(p)
    BY <1>1, <1>2 DEF Asked, Seek, Place, AckPlace, Lift
  <2>3. ReaderInv'
    BY <1>1, <1>2, <2>1, <2>2 DEF ReaderInv
  <2>4. GotInv'
    BY <1>1, <2>1, <2>2 DEF GotInv
  <2>5. SentInv'
    BY <1>1, <1>2, <1>3, <1>4, <2>1, <2>2 DEF SentInv
  <2>6. ReplyInv'
    BY <1>1, <1>2, <1>4, <2>1, <2>2 DEF ReplyInv
  <2> QED BY <2>3, <2>4, <2>5, <2>6
<1>10. ASSUME op = "DIR", mishaps = 0 PROVE ListedInv' /\ EntriesInv'
  <2>1. ListedInv /\ EntriesInv
    BY <1>0, <1>10 DEF DirInv
  <2>2. ListedInv'
    BY <1>1, <2>1 DEF ListedInv
  <2>3. ASSUME Live' PROVE h.cmd # "INFO"
    BY <1>1, <2>3 DEF Live, Opens
  <2>4. EntriesInv'
    BY <1>1, <1>2, <1>3, <1>4, <2>1, <2>3 DEF EntriesInv
  <2> QED BY <2>2, <2>4
<1> QED BY <1>1, <1>2, <1>6, <1>7, <1>8, <1>9, <1>10 DEF IInv, WriteInv, ReadInv, DirInv
-----------------------------------------------------------------------------
(* The invariant.                                                           *)

\* At first nothing is under way.
LEMMA IInit == Init => IInv
<1> SUFFICES ASSUME Init PROVE IInv
  OBVIOUS
<1>1. /\ op = "NONE" /\ phase = "off" /\ operations = 0 /\ state = "IDLE" /\ stash = <<>>
      /\ rx = <<>> /\ tx = <<>> /\ inbox = <<>>
      /\ nextPacket = 0 /\ nextAck = 0 /\ pos = 0 /\ disk = <<>>
  BY DEF Init, CrsInit
<1>2. Elems(rx) = {} /\ Elems(tx) = {} /\ Elems(inbox) = {} /\ Flight = {}
  BY <1>1, ElemsEmpty DEF Flight
<1>3. OneInv
  BY <1>1, <1>2 DEF OneInv, Busy
<1>4. OpenInv
  BY <1>1, <1>2 DEF OpenInv
<1>5. WriteInv /\ ReadInv /\ DirInv
  BY <1>1 DEF WriteInv, ReadInv, DirInv
<1> QED BY <1>3, <1>4, <1>5 DEF IInv

\* A step that leaves the transfer where it is keeps the invariant, if nothing gets lost
\* without a mishap.
LEMMA StillSafe ==
  ASSUME ITypes, IInv, Shape, Still, mishaps' = 0 => mishaps = 0,
         mishaps' = 0 /\ Live' => \A p \in Flight : p.cmd = "INFO" => p \in Flight'
  PROVE  IInv'
BY ShapeKeepsOne, ShapeKeepsOpen, StillKeepsWrite, StillKeepsRead, StillKeepsDir DEF IInv

\* A step of an upload, of a download, of a listing leaves nothing to show of the others.
LEMMA StepOfOne ==
  ASSUME ITypes, IInv, Shape,
         \/ op = "WRITE" /\ WriteInv'
         \/ op = "READ" /\ ReadInv'
         \/ op = "DIR" /\ DirInv'
  PROVE  IInv'
<1>1. OneInv' /\ OpenInv'
  BY ShapeKeepsOne, ShapeKeepsOpen DEF IInv
<1>2. op' = op
  BY DEF Shape
<1>3. WriteInv' /\ ReadInv' /\ DirInv'
  BY <1>2 DEF WriteInv, ReadInv, DirInv
<1> QED BY <1>1, <1>3 DEF IInv

\* The device.
LEMMA DeviceSafe ==
  ASSUME ITypes, IInv, Device
  PROVE  IInv'
<1>1. OneInv /\ OpenInv /\ WriteInv /\ ReadInv /\ DirInv
  BY DEF IInv
<1>2. UNCHANGED clientVars /\ UNCHANGED boundVars
  BY DEF Device, Alone
<1>3. mishaps' = mishaps
  BY <1>2 DEF boundVars
<1>4. CASE \/ TimerExpires \/ TransmitRefused \/ PoolAvailable \/ OtherPacket
           \/ RunTask /\ ~(state = "READ" /\ timeoutFlag)
           \/ Malformed \/ SimpleCommand \/ Ignored \/ Cancel \/ OutOfOrder
           \/ ReceiveDone \/ SendDone \/ LeaveTransfer
  <2>1. Shape /\ Still /\ Flight \subseteq Flight'
    BY <1>1, <1>2, <1>4, QuietDevice
  <2> QED BY <1>3, <2>1, StillSafe
<1>5. CASE RunTask /\ state = "READ" /\ timeoutFlag
  BY <1>1, <1>2, <1>5, RewindSafe, StepOfOne
<1>6. ASSUME NEW t \in Transfers, OpenTransfer(t) PROVE IInv'
  BY <1>1, <1>2, <1>6, OpenTransferOpens, OpenTransferSafe DEF IInv
<1>7. CASE WriteFrame \/ WriteEof
  <2>1. Takes({"WRITE"}, {"DATA"}) /\ Head(rx).n = nextPacket % Counters
    BY <1>7 DEF WriteFrame, WriteEof
  <2>2. op = "WRITE"
    BY <1>1, <2>1, FrameExpected
  <2>3. Shape /\ WriteInv'
    BY <1>1, <1>2, <1>7, WriteFrameSafe, WriteEofSafe
  <2> QED BY <2>2, <2>3, StepOfOne
<1>8. CASE FileAck
  BY <1>1, <1>2, <1>8, FileAckSafe, StepOfOne
<1>9. CASE ReadFrame \/ ReadEof
  BY <1>1, <1>2, <1>9, ReadFrameSafe, StepOfOne
<1>10. CASE ReadEntry
  BY <1>1, <1>2, <1>10, ReadEntrySafe, StepOfOne
<1> QED BY <1>4, <1>5, <1>6, <1>7, <1>8, <1>9, <1>10 DEF Device, CrsTask, TaskStep

\* The client.
LEMMA ClientSafe ==
  ASSUME MaxOperations = 1, ITypes, IInv, Client
  PROVE  IInv'
<1>1. OneInv /\ OpenInv /\ WriteInv /\ ReadInv /\ DirInv
  BY DEF IInv
<1>2. ASSUME \/ Refused \/ Unexpected
             \/ ClientTimeout /\ (Fail \/ op # "READ")
             \/ \E cmd \in Others : OtherWrite(cmd)
             \/ AwaitAck /\ phase' # "active" /\ stash' \in {stash, <<>>}
      PROVE IInv'
  <2>1. /\ Shape /\ Still /\ (mishaps' = 0 => mishaps = 0)
        /\ mishaps' = 0 /\ Live' => \A p \in Flight : p.cmd = "INFO" => p \in Flight'
    BY <1>1, <1>2, QuietClient
  <2> QED BY <2>1, StillSafe
<1>3. ASSUME NEW t \in Operations, Begin(t) PROVE IInv'
  BY <1>1, <1>3, BeginSafe DEF IInv
<1>4. CASE AwaitAck /\ (phase' = "active" \/ stash' \notin {stash, <<>>})
  BY <1>4, AwaitAckSafe
<1>5. CASE SendFrame
  <2>1. Shape /\ WriteInv' /\ op = "WRITE"
    BY <1>1, <1>5, SendFrameSafe DEF SendFrame
  <2> QED BY <2>1, StepOfOne
<1>6. CASE AckedUpTo
  <2>1. Shape /\ WriteInv' /\ op = "WRITE"
    BY <1>1, <1>6, AckedUpToSafe DEF AckedUpTo
  <2> QED BY <2>1, StepOfOne
<1>7. CASE ReceiveFrame
  BY <1>1, <1>7, ReceiveFrameSafe, StepOfOne
<1>8. CASE ReceiveEntry
  BY <1>1, <1>8, ReceiveEntrySafe, StepOfOne
<1>9. CASE ClientTimeout /\ ~Fail /\ op = "READ"
  BY <1>1, <1>9, ReadTimeoutSafe, StepOfOne
<1> QED BY <1>2, <1>3, <1>4, <1>5, <1>6, <1>7, <1>8, <1>9 DEF Client

\* Every step keeps the invariant.
LEMMA INext ==
  ASSUME MaxOperations = 1
  PROVE  ITypes /\ IInv /\ [Next]_vars => IInv'
<1> SUFFICES ASSUME ITypes, IInv, [Next]_vars PROVE IInv'
  OBVIOUS
<1>1. OneInv /\ OpenInv
  BY DEF IInv
<1>2. CASE Device
  BY <1>2, DeviceSafe
<1>3. CASE Client
  BY <1>3, ClientSafe
<1>4. CASE Transmit \/ Break \/ Abandon \/ IdleExpires \/ IdleDisconnect \/ Connect
  <2>1. /\ Shape /\ Still /\ (mishaps' = 0 => mishaps = 0)
        /\ mishaps' = 0 /\ Live' => \A p \in Flight : p.cmd = "INFO" => p \in Flight'
    BY <1>1, <1>4, QuietClient
  <2> QED BY <2>1, StillSafe
<1>5. CASE UNCHANGED vars
  <2>1. UNCHANGED <<op, phase, acked, sent, got, asked, inbox, stash, operations, mishaps,
                    state, run, open, nextPacket, nextAck, pos, disk, offset, stride, rx, tx,
                    connected>>
    BY <1>5 DEF vars, crsVars, clientVars, boundVars, counterVars, fileVars, timerVars, linkVars
  <2>2. RxGains({})
    BY <2>1 DEF RxGains
  <2>3. FlightGains({}) /\ Flight' = Flight
    BY <2>1, NoFlight
  <2>4. /\ RxGains(Requests) /\ RxGains(Requests \cup InContent)
        /\ FlightGains(Answers) /\ FlightGains(Answers \cup OutContent)
    BY <2>2, <2>3, GainsGrow
  <2>5. Busy' = Busy
    BY <2>1 DEF Busy
  <2>6. Shape
    BY <2>1, <2>4, <2>5 DEF Shape
  <2>7. Still
    BY <2>1, <2>4 DEF Still
  <2> QED BY <2>1, <2>3, <2>6, <2>7, StillSafe
<1> QED BY <1>2, <1>3, <1>4, <1>5 DEF Next

\* Of one operation, however long its file and however the packets of it are lost, repeated
\* or put off: whenever the task of crs.c has run during an upload, what it has
\* acknowledged is at the head of the file, each frame once and in order, and the pointer
\* stands behind it.
THEOREM FileIsAlwaysWhatWasAcked ==
  ASSUME MaxOperations = 1
  PROVE  Spec => []FileIsWhatWasAcked
<1>1. ITypes /\ IInv => FileIsWhatWasAcked
  <2> SUFFICES ASSUME ITypes, IInv, state = "WRITE", run = "off"
               PROVE  pos = nextPacket /\ Holds(nextPacket)
    BY DEF FileIsWhatWasAcked
  <2>1. op = "WRITE"
    BY DEF IInv, OneInv
  <2>2. DiskInv
    BY <2>1 DEF IInv, WriteInv
  <2> QED BY <2>2 DEF DiskInv
<1> QED BY <1>1, TypesInit, TypesNext, IInit, INext, PTL DEF Spec

\* Of one operation: what the client takes for acknowledged is in the file, although
\* counters wrap and one ACK stands for all before it; an upload that it reports as done is
\* whole and closed.
THEOREM AckedIsAlwaysWritten ==
  ASSUME MaxOperations = 1
  PROVE  Spec => []AckedIsWritten
<1>1. ITypes /\ IInv => AckedIsWritten
  <2> SUFFICES ASSUME ITypes, IInv, op = "WRITE", phase \in {"active", "done"}
               PROVE  /\ Holds(IF acked < Frames THEN acked ELSE Frames)
                      /\ phase = "done" => Len(disk) = Frames /\ ~open
    BY DEF AckedIsWritten
  <2>1. DiskInv /\ WindowInv
    BY DEF IInv, WriteInv
  <2>2. /\ acked \in Nat /\ nextPacket \in Nat /\ pos \in Nat /\ Frames \in Nat /\ Len(disk) \in Nat
        /\ acked <= nextPacket /\ pos <= Len(disk) /\ Len(disk) <= Frames
    BY <2>1, FramesAssumption DEF ITypes, TypeOK, CrsTypeOK, DiskInv, WindowInv
  <2>3. (nextPacket = pos) \/ (nextPacket = Frames + 1 /\ pos = Frames /\ ~open)
    BY <2>1 DEF DiskInv
  <2>4. Len(disk) >= pos /\ \A i \in 1 .. pos : disk[i] = i - 1
    BY <2>1 DEF DiskInv, Holds
  <2>5. ASSUME NEW n \in Nat, n <= pos PROVE Holds(n)
    BY <2>2, <2>4, <2>5 DEF Holds
  <2>6. Holds(IF acked < Frames THEN acked ELSE Frames)
    <3>1. CASE acked < Frames
      <4>1. acked <= pos
        BY <2>2, <2>3, <3>1
      <4> QED BY <2>2, <2>5, <3>1, <4>1
    <3>2. CASE ~(acked < Frames)
      <4>1. Frames <= pos
        BY <2>2, <2>3, <3>2
      <4> QED BY <2>2, <2>5, <3>2, <4>1
    <3> QED BY <3>1, <3>2
  <2>7. ASSUME phase = "done" PROVE Len(disk) = Frames /\ ~open
    <3>1. acked = Frames + 1
      BY <2>1, <2>7 DEF WindowInv
    <3> QED BY <2>2, <2>3, <3>1
  <2> QED BY <2>6, <2>7
<1> QED BY <1>1, TypesInit, TypesNext, IInit, INext, PTL DEF Spec

\* Of one operation: what a read has delivered is what was asked for, with its offset and
\* its stride, no frame missing, repeated or out of place, and all of it when the read is
\* done; so has a listing, as long as nothing was lost.
THEOREM ReceivedIsAlwaysExact ==
  ASSUME MaxOperations = 1
  PROVE  Spec => []ReceivedIsExact
<1>1. ITypes /\ IInv => ReceivedIsExact
  <2> SUFFICES ASSUME ITypes, IInv PROVE ReceivedIsExact
    OBVIOUS
  <2>1. Len(got) \in Nat /\ DOMAIN got = 1 .. Len(got) /\ asked[1] \in Nat /\ asked[2] \in Nat
    BY DEF ITypes, TypeOK
  <2>2. ASSUME op = "READ"
        PROVE  /\ \A i \in DOMAIN got : got[i] = asked[1] + (i - 1) * asked[2] /\ got[i] < Frames
               /\ phase = "done" => asked[1] + Len(got) * asked[2] >= Frames
    <3>1. GotInv
      BY <2>2 DEF IInv, ReadInv
    <3> QED BY <2>1, <3>1 DEF GotInv, Asked
  <2>3. ASSUME op = "DIR", mishaps = 0
        PROVE  /\ \A i \in DOMAIN got : got[i] = asked[1] + (i - 1) * asked[2] /\ got[i] < Entries
               /\ phase = "done" => asked[1] + Len(got) * asked[2] >= Entries
    <3>1. ListedInv
      BY <2>3 DEF IInv, DirInv
    <3>2. asked[1] = 0 /\ asked[2] = 1 /\ Entries \in Nat
      BY <3>1, FramesAssumption DEF ListedInv
    <3>3. \A i \in 1 .. Len(got) : got[i] = i - 1 /\ got[i] < Entries
      BY <2>1, <3>1, <3>2 DEF ListedInv
    <3>4. phase = "done" => Len(got) >= Entries
      BY <3>1 DEF ListedInv
    <3>5. \A k \in Int : 0 + k * 1 = k
      OBVIOUS
    <3>6. \A i \in 1 .. Len(got) : 0 + (i - 1) * 1 = i - 1
      BY <2>1, <3>5
    <3> QED BY <2>1, <3>2, <3>3, <3>4, <3>5, <3>6
  <2> QED BY <2>2, <2>3 DEF ReceivedIsExact
<1> QED BY <1>1, TypesInit, TypesNext, IInit, INext, PTL DEF Spec
=============================================================================
