----------------------- MODULE UsbStorageCache_proofs -----------------------
(***************************************************************************)
(* The cache implements the block device, for every size of the window and   *)
(* of the card, with the interrupt between any two steps of the last flush.  *)
(***************************************************************************)
EXTENDS UsbStorageCache, TLAPS

USE WindowAssumption, TotalAssumption

-----------------------------------------------------------------------------
(* Addresses and flushes.                                                   *)

\* The window of a block begins at or before it and reaches past it, and its count
\* stays on the card.
LEMMA Addresses ==
  ASSUME NEW b \in Blocks
  PROVE  /\ BaseBlock(b) \in Nat
         /\ b - BaseBlock(b) \in Offsets
         /\ BlockCount(BaseBlock(b)) \in 0 .. Window
         /\ BlockCount(BaseBlock(b)) <= Total - BaseBlock(b)
         /\ b - BaseBlock(b) < BlockCount(BaseBlock(b))
<1> DEFINE r == b % Window
<1>1. b \in Nat /\ Window \in Nat /\ Window > 0
  BY DEF Blocks
<1>2. r \in 0 .. Window - 1 /\ r <= b
  BY <1>1, Z3
<1>3. BaseBlock(b) = b - r
  BY DEF BaseBlock
<1> QED
  BY <1>1, <1>2, <1>3 DEF Blocks, Offsets, BlockCount

\* A flush, whether it succeeds or fails on the way, changes nothing of what the host
\* sees: what it clears is on the card, what is not on the card stays dirty.
LEMMA FlushKeepsView ==
  ASSUME NEW able \in BOOLEAN, NEW cd \in [Blocks -> Data], NEW bf \in [Offsets -> Data],
         NEW first \in Nat, NEW n \in Nat, NEW d \in SUBSET Offsets,
         NEW f \in Flushed(able, cd, bf, first, n, d)
  PROVE  /\ f \in [ok : BOOLEAN, card : [Blocks -> Data], dirty : SUBSET d]
         /\ f.ok => f.dirty = {}
         /\ Written(f.card, bf, first, f.dirty) = Written(cd, bf, first, d)
<1> DEFINE Early(s) == {o \in d : o < s}
           Late(s)  == {o \in d : o >= s}
           Failed(s, junk) == Written(Written(cd, bf, first, Early(s)), junk, first,
                                      RunFrom(s, n, d))
<1>1. CASE f = [ok |-> TRUE, card |-> cd, dirty |-> d] /\ d = {}
  BY <1>1
<1>2. CASE f = [ok |-> FALSE, card |-> cd, dirty |-> d]
  BY <1>2
<1>3. CASE f = [ok |-> TRUE, card |-> Written(cd, bf, first, d), dirty |-> {}]
  <2>1. Written(cd, bf, first, d) \in [Blocks -> Data]
    BY DEF Written, Blocks, Offsets
  <2>2. Written(Written(cd, bf, first, d), bf, first, {}) = Written(cd, bf, first, d)
    BY DEF Written
  <2> QED BY <1>3, <2>1, <2>2
<1>4. ASSUME NEW s \in d, NEW junk \in [RunFrom(s, n, d) -> Data],
             f = [ok |-> FALSE, card |-> Failed(s, junk), dirty |-> Late(s)]
      PROVE  /\ f \in [ok : BOOLEAN, card : [Blocks -> Data], dirty : SUBSET d]
             /\ f.ok => f.dirty = {}
             /\ Written(f.card, bf, first, f.dirty) = Written(cd, bf, first, d)
  <2>1. RunFrom(s, n, d) \subseteq Late(s)
    BY DEF RunFrom
  <2>2. Failed(s, junk) \in [Blocks -> Data]
    BY DEF Written, Blocks, Offsets, RunFrom
  <2>3. ASSUME NEW b \in Blocks
        PROVE  Written(Failed(s, junk), bf, first, Late(s))[b] = Written(cd, bf, first, d)[b]
    <3>1. b - first \in Int /\ s \in Int
      BY DEF Blocks, Offsets
    <3>2. b - first \in d <=> b - first \in Early(s) \/ b - first \in Late(s)
      BY <3>1
    <3>3. b - first \in Late(s) => b - first \in d
      OBVIOUS
    <3>4. b - first \notin Late(s) =>
            Failed(s, junk)[b] = Written(cd, bf, first, Early(s))[b]
      BY <2>1 DEF Written
    <3> QED BY <3>2, <3>3, <3>4 DEF Written
  <2>4. Written(Failed(s, junk), bf, first, Late(s)) = Written(cd, bf, first, d)
    BY <2>3 DEF Written
  <2> QED BY <1>4, <2>2, <2>4
<1> QED
  <2>1. CASE d = {} \/ ~able
    BY <2>1, <1>1, <1>2 DEF Flushed
  <2>2. CASE d # {} /\ able
    <3>1. \/ f = [ok |-> TRUE, card |-> Written(cd, bf, first, d), dirty |-> {}]
          \/ \E s \in d : \E junk \in [RunFrom(s, n, d) -> Data] :
               f = [ok |-> FALSE, card |-> Failed(s, junk), dirty |-> Late(s)]
      BY <2>2 DEF Flushed
    <3> QED BY <3>1, <1>3, <1>4
  <2> QED BY <2>1, <2>2
-----------------------------------------------------------------------------
(* The invariant.                                                           *)

\* Only a WRITE window is dirty, and a window is as long as its place allows.
Shape ==
  /\ mode # "invalid" => count = BlockCount(base)
  /\ torn # Blocks => (mode # "write" => dirty = {}) /\ \A o \in dirty : o < count

\* Outside USB the cache holds nothing, and only there is the buffer the logger's.
\* Only a command that meets the last flush tears anything.
Lending ==
  /\ usb = "off" => mode = "invalid" /\ ~active /\ owner # "cache"
  /\ owner = "batch" => usb = "off"
  /\ active => owner = "cache"
  /\ torn # {} => usb \notin {"off", "on"}

\* What the flush of the task has found and transferred, as far as nothing is torn: the
\* run in hand is dirty until its bits are stored; once transferred it is on the card; of
\* what the loaded mask does not have nothing is dirty.
Working ==
  /\ usb \in {"scan", "extend", "store"} => mask \subseteq dirty
  /\ usb \in {"extend", "transfer", "load", "store"} => Run \subseteq dirty
  /\ usb \in {"load", "store"} =>
       \A o \in Run : base + o \notin torn => card[base + o] = buffer[o]
  /\ usb = "store" => Run \subseteq mask /\ \A o \in dirty \ mask : base + o \in torn

Inv ==
  /\ TypeOK /\ Shape /\ Lending /\ ReadWindowIsCard
  /\ torn # Blocks => Working

\* There are blocks, so what is not torn at all is not torn everywhere.
LEMMA SomeBlock == {} # Blocks
<1>1. 0 \in Blocks
  BY DEF Blocks
<1> QED BY <1>1

\* A flush keeps to the types, whatever the window holds.
LEMMA FlushType ==
  ASSUME TypeOK, NEW able \in BOOLEAN, NEW f \in FlushedWindow(able)
  PROVE  f \in [ok : BOOLEAN, card : [Blocks -> Data], dirty : SUBSET dirty]
<1>1. CASE mode = "write"
  <2>1. f \in Flushed(able, card, buffer, base, count, dirty) /\ count \in Nat
    BY <1>1 DEF FlushedWindow, TypeOK
  <2> QED BY <2>1, FlushKeepsView DEF TypeOK
<1>2. CASE mode # "write"
  <2>1. f = [ok |-> TRUE, card |-> card, dirty |-> dirty]
    BY <1>2 DEF FlushedWindow
  <2> QED BY <2>1 DEF TypeOK
<1> QED BY <1>1, <1>2

\* The flush of the window in place, if the disk is not torn.
LEMMA WindowFlush ==
  ASSUME Inv, torn # Blocks, NEW able \in BOOLEAN, NEW f \in FlushedWindow(able)
  PROVE  /\ f \in [ok : BOOLEAN, card : [Blocks -> Data], dirty : SUBSET dirty]
         /\ f.ok => f.dirty = {}
         /\ Written(f.card, buffer, base, f.dirty) = View
         /\ f.ok => f.card = View
         /\ mode # "write" => f.ok /\ f.card = card
<1>1. CASE mode = "write"
  <2>1. f \in Flushed(able, card, buffer, base, count, dirty)
    BY <1>1 DEF FlushedWindow
  <2>2. count \in Nat
    BY DEF Inv, TypeOK
  <2>3. /\ f \in [ok : BOOLEAN, card : [Blocks -> Data], dirty : SUBSET dirty]
        /\ f.ok => f.dirty = {}
        /\ Written(f.card, buffer, base, f.dirty) = Written(card, buffer, base, dirty)
    BY <2>1, <2>2, FlushKeepsView DEF Inv, TypeOK
  <2>4. f.ok => Written(f.card, buffer, base, f.dirty) = f.card
    BY <2>3 DEF Written
  <2> QED BY <1>1, <2>3, <2>4 DEF View
<1>2. CASE mode # "write"
  <2>1. f = [ok |-> TRUE, card |-> card, dirty |-> dirty] /\ dirty = {}
    BY <1>2 DEF FlushedWindow, Inv, Shape
  <2>2. Written(card, buffer, base, {}) = card
    BY DEF Written, Inv, TypeOK
  <2> QED BY <2>1, <2>2 DEF View, Inv, TypeOK
<1> QED BY <1>1, <1>2

\* What the host sees is a disk.
LEMMA ViewIsContents ==
  ASSUME Inv
  PROVE  View \in [Blocks -> Data]
BY DEF Inv, TypeOK, View, Written, Blocks, Offsets

\* A write puts its block into the window it needs and changes nothing else of what
\* the host sees.  In the middle of a flush it is a write in place.
LEMMA WriteOutcome ==
  ASSUME Inv, torn # Blocks, NEW b \in Blocks, NEW v \in Data, Write(b, v)
  PROVE  /\ card' \in [Blocks -> Data] /\ buffer' \in [Offsets -> Data]
         /\ dirty' \in SUBSET Offsets /\ (\A o \in dirty' : o < count')
         /\ View' = [View EXCEPT ![b] = v]
<1> DEFINE inPlace == mode = "write" /\ base = BaseBlock(b)
           before  == IF inPlace THEN {[ok |-> TRUE, card |-> card, dirty |-> dirty]}
                      ELSE {[f EXCEPT !.dirty = {}] : f \in FlushedWindow(Able)}
           at      == b - base'
           filled  == [buffer EXCEPT ![at] = v]
<1>1. PICK f \in {g \in before : g.ok} :
        /\ buffer' = filled
        /\ \E g \in IF f.dirty \cup {at} = BlockMask(count')
                    THEN Flushed(Able, f.card, filled, base', count', f.dirty \cup {at})
                    ELSE {[ok |-> TRUE, card |-> f.card, dirty |-> f.dirty \cup {at}]} :
             card' = g.card /\ dirty' = g.dirty
  BY Zenon DEF Write
<1>2. /\ base' = BaseBlock(b) /\ count' = BlockCount(BaseBlock(b)) /\ base' \in Nat
      /\ at \in Offsets /\ at < count' /\ count' \in 0 .. Window
  BY Addresses DEF Write
<1>3. /\ f.card \in [Blocks -> Data] /\ f.dirty \in SUBSET Offsets
      /\ \A o \in f.dirty : o < count'
      /\ Written(f.card, buffer, base', f.dirty) = View
  <2>1. CASE inPlace
    BY <2>1, <1>2 DEF Inv, TypeOK, Shape, View
  <2>2. CASE ~inPlace
    <3>1. PICK g \in FlushedWindow(Able) : f = [g EXCEPT !.dirty = {}] /\ f.ok
      BY <2>2
    <3>2. Able \in BOOLEAN
      BY DEF Able, Inv, TypeOK
    <3>3. g \in [ok : BOOLEAN, card : [Blocks -> Data], dirty : SUBSET dirty]
      BY <3>2, WindowFlush
    <3>4. f.dirty = {} /\ f.card = g.card /\ g.ok
      BY <3>1, <3>3
    <3>5. f.card = View /\ View \in [Blocks -> Data]
      BY <3>2, <3>4, WindowFlush, ViewIsContents
    <3>6. Written(View, buffer, base', {}) = View
      BY <3>5 DEF Written
    <3> QED BY <3>4, <3>5, <3>6
  <2> QED BY <2>1, <2>2
<1> DEFINE marked == f.dirty \cup {at}
<1>4. /\ filled \in [Offsets -> Data] /\ marked \in SUBSET Offsets
      /\ \A o \in marked : o < count'
  BY <1>2, <1>3 DEF Inv, TypeOK
<1>5. Written(f.card, filled, base', marked) = [View EXCEPT ![b] = v]
  <2>1. ASSUME NEW x \in Blocks
        PROVE  Written(f.card, filled, base', marked)[x] = [View EXCEPT ![b] = v][x]
    <3>1. x - base' = at <=> x = b
      BY <1>2 DEF Blocks
    <3>2. View[x] = Written(f.card, buffer, base', f.dirty)[x]
      BY <1>3
    <3>3. CASE x = b
      BY <3>1, <3>3, <1>2, ViewIsContents DEF Written, Inv, TypeOK
    <3>4. CASE x # b
      BY <3>1, <3>2, <3>4, <1>2, <1>3, ViewIsContents DEF Written, Inv, TypeOK
    <3> QED BY <3>3, <3>4
  <2>2. Written(f.card, filled, base', marked) = [x \in Blocks |-> [View EXCEPT ![b] = v][x]]
    BY <2>1 DEF Written
  <2> QED BY <2>2, ViewIsContents
<1>6. CASE marked = BlockMask(count')
  <2>1. PICK g \in Flushed(Able, f.card, filled, base', count', marked) :
          card' = g.card /\ dirty' = g.dirty
    BY <1>1, <1>6
  <2>2. Able \in BOOLEAN /\ count' \in Nat
    BY <1>2 DEF Able, Inv, TypeOK
  <2> HIDE DEF filled, marked
  <2>3. /\ g.card \in [Blocks -> Data] /\ g.dirty \in SUBSET marked
        /\ Written(g.card, filled, base', g.dirty) = Written(f.card, filled, base', marked)
    BY ONLY g \in Flushed(Able, f.card, filled, base', count', marked), <2>2, <1>2, <1>3,
            <1>4, FlushKeepsView
  <2> QED BY <2>1, <2>3, <1>1, <1>4, <1>5 DEF View
<1>7. CASE marked # BlockMask(count')
  <2>1. PICK g \in {[ok |-> TRUE, card |-> f.card, dirty |-> marked]} :
          card' = g.card /\ dirty' = g.dirty
    BY <1>1, <1>7
  <2>2. card' = f.card /\ dirty' = marked
    BY <2>1
  <2>3. View' = Written(card', buffer', base', dirty')
    BY DEF View
  <2> HIDE DEF filled, marked, before
  <2> QED BY <2>2, <2>3, <1>1, <1>3, <1>4, <1>5
<1> QED BY <1>6, <1>7
\* The types of a write, on a torn disk too.
LEMMA WriteType ==
  ASSUME TypeOK, NEW b \in Blocks, NEW v \in Data, Write(b, v)
  PROVE  /\ card' \in [Blocks -> Data] /\ buffer' \in [Offsets -> Data]
         /\ dirty' \in SUBSET Offsets
<1> DEFINE inPlace == mode = "write" /\ base = BaseBlock(b)
           before  == IF inPlace THEN {[ok |-> TRUE, card |-> card, dirty |-> dirty]}
                      ELSE {[f EXCEPT !.dirty = {}] : f \in FlushedWindow(Able)}
           at      == b - base'
           filled  == [buffer EXCEPT ![at] = v]
<1>1. PICK f \in {g \in before : g.ok} :
        /\ buffer' = filled
        /\ \E g \in IF f.dirty \cup {at} = BlockMask(count')
                    THEN Flushed(Able, f.card, filled, base', count', f.dirty \cup {at})
                    ELSE {[ok |-> TRUE, card |-> f.card, dirty |-> f.dirty \cup {at}]} :
             card' = g.card /\ dirty' = g.dirty
  BY Zenon DEF Write
<1>2. base' \in Nat /\ at \in Offsets /\ count' \in Nat
  BY Addresses DEF Write
<1>3. Able \in BOOLEAN
  BY DEF Able, TypeOK
<1>4. f.card \in [Blocks -> Data] /\ f.dirty \in SUBSET Offsets
  <2>1. CASE inPlace
    BY <2>1 DEF TypeOK
  <2>2. CASE ~inPlace
    <3>1. PICK g \in FlushedWindow(Able) : f = [g EXCEPT !.dirty = {}]
      BY <2>2
    <3> QED BY <1>3, <3>1, FlushType
  <2> QED BY <2>1, <2>2
<1> DEFINE marked == f.dirty \cup {at}
<1>5. filled \in [Offsets -> Data] /\ marked \in SUBSET Offsets
  BY <1>2, <1>4 DEF TypeOK
<1>6. PICK g \in IF marked = BlockMask(count')
                THEN Flushed(Able, f.card, filled, base', count', marked)
                ELSE {[ok |-> TRUE, card |-> f.card, dirty |-> marked]} :
        card' = g.card /\ dirty' = g.dirty
  BY <1>1
<1> HIDE DEF filled, marked, before
<1>7. g.card \in [Blocks -> Data] /\ g.dirty \in SUBSET marked
  <2>1. CASE g \in Flushed(Able, f.card, filled, base', count', marked)
    BY ONLY <2>1, <1>2, <1>3, <1>4, <1>5, FlushKeepsView
  <2>2. CASE g = [ok |-> TRUE, card |-> f.card, dirty |-> marked]
    BY <2>2, <1>4
  <2> QED BY <1>6, <2>1, <2>2
<1> QED BY <1>1, <1>5, <1>6, <1>7

\* A write that does not tear everything is a write in place, or there is no run at work.
LEMMA WriteTears ==
  ASSUME NEW b \in Blocks, NEW v \in Data, Write(b, v), torn' # Blocks
  PROVE  \/ usb \notin {"scan", "extend", "transfer", "load", "store"} /\ torn' = torn
         \/ /\ mode = "write" /\ base' = base /\ card' = card
            /\ dirty' = dirty \cup {b - base}
            /\ buffer' = [buffer EXCEPT ![b - base] = v]
            /\ torn' = IF b - base \in AtRisk THEN torn \cup {b} ELSE torn
<1> DEFINE inPlace == mode = "write" /\ base = BaseBlock(b)
           before  == IF inPlace THEN {[ok |-> TRUE, card |-> card, dirty |-> dirty]}
                      ELSE {[f EXCEPT !.dirty = {}] : f \in FlushedWindow(Able)}
           at      == b - base'
           filled  == [buffer EXCEPT ![at] = v]
<1>1. PICK f \in {g \in before : g.ok} :
        /\ buffer' = filled
        /\ \E g \in IF f.dirty \cup {at} = BlockMask(count')
                    THEN Flushed(Able, f.card, filled, base', count', f.dirty \cup {at})
                    ELSE {[ok |-> TRUE, card |-> f.card, dirty |-> f.dirty \cup {at}]} :
             /\ card' = g.card /\ dirty' = g.dirty
             /\ IF inPlace /\ f.dirty \cup {at} # BlockMask(count')
                THEN torn' = IF at \in AtRisk THEN torn \cup {b} ELSE torn
                ELSE Crosses
  BY Zenon DEF Write
<1>2. CASE inPlace /\ f.dirty \cup {at} # BlockMask(count')
  <2>1. f = [ok |-> TRUE, card |-> card, dirty |-> dirty] /\ base' = base
    BY <1>2 DEF Write
  <2> QED BY <1>1, <1>2, <2>1
<1>3. CASE ~(inPlace /\ f.dirty \cup {at} # BlockMask(count'))
  BY <1>1, <1>3 DEF Crosses
<1> QED BY <1>2, <1>3

\* What a command does not touch; what it tears, it tears in the middle of the flush.
LEMMA CommandFrame ==
  ASSUME Inv, Command
  PROVE  /\ usb \notin {"off", "stopped", "halted"} /\ UNCHANGED task
         /\ torn' \in SUBSET Blocks /\ torn \subseteq torn'
         /\ torn' # torn => usb \in {"scan", "extend", "transfer", "load", "store"}
         /\ torn' = Blocks => answer' = <<>>
<1> USE DEF Inv, TypeOK, Interrupt, CapacityKnown, Crosses, Collides, Done, Answer
<1>1. CASE CapacityRefused
  BY <1>1 DEF CapacityRefused
<1>2. CASE WindowRefused
  BY <1>2 DEF WindowRefused
<1>3. ASSUME NEW b \in Blocks, ReadHit(b) \/ ReadMiss(b) \/ ReadFails(b)
      PROVE  /\ usb \notin {"off", "stopped", "halted"} /\ UNCHANGED task
             /\ torn' \in SUBSET Blocks /\ torn \subseteq torn'
             /\ torn' # torn => usb \in {"scan", "extend", "transfer", "load", "store"}
             /\ torn' = Blocks => answer' = <<>>
  BY <1>3 DEF ReadHit, ReadMiss, ReadFails
<1>4. ASSUME NEW b \in Blocks, NEW v \in Data, Write(b, v)
      PROVE  /\ usb \notin {"off", "stopped", "halted"} /\ UNCHANGED task
             /\ torn' \in SUBSET Blocks /\ torn \subseteq torn'
             /\ torn' # torn => usb \in {"scan", "extend", "transfer", "load", "store"}
             /\ torn' = Blocks => answer' = <<>>
  <2>1. \/ torn' = IF b - base' \in AtRisk THEN torn \cup {b} ELSE torn
        \/ Crosses
    BY <1>4, Zenon DEF Write
  <2>2. torn' = Blocks => answer' = <<>>
    BY <1>4, Zenon DEF Write
  <2>3. AtRisk # {} => usb \in {"transfer", "load", "store"}
    BY DEF AtRisk
  <2>4. usb \notin {"off", "stopped", "halted"} /\ UNCHANGED task
    BY <1>4 DEF Write
  <2> QED BY <2>1, <2>2, <2>3, <2>4
<1>5. CASE Sync
  BY <1>5 DEF Sync
<1>6. CASE GetCapacity \/ IsReady
  BY <1>6 DEF GetCapacity, IsReady
<1>7. CASE Configure
  BY <1>7 DEF Configure
<1> QED
  BY <1>1, <1>2, <1>3, <1>4, <1>5, <1>6, <1>7 DEF Command
-----------------------------------------------------------------------------
(* Every step keeps the invariant.                                          *)

\* The initial state satisfies the invariant.
LEMMA InitInv == Init => Inv
<1> SUFFICES ASSUME Init PROVE Inv
  OBVIOUS
<1>1. answer \in Answers
  BY Zenon DEF Init, Answers
<1>2. /\ card \in [Blocks -> Data] /\ buffer \in [Offsets -> Data] /\ owner = "none"
      /\ mode = "invalid" /\ base = 0 /\ count = 0 /\ dirty = {} /\ total = 0
      /\ active = FALSE /\ usb = "off" /\ start = 0 /\ next = 0 /\ mask = {} /\ torn = {}
  BY Zenon DEF Init
<1>3. TypeOK
  <2>1. base \in Nat /\ count \in 0 .. Window /\ start \in 0 .. Window /\ next \in 0 .. Window
    BY <1>2
  <2>2. dirty \in SUBSET Offsets /\ mask \in SUBSET Offsets /\ torn \in SUBSET Blocks
    BY <1>2
  <2>3. total \in {0, Total}
    BY <1>2
  <2>4. active \in BOOLEAN
    BY <1>2
  <2>5. owner \in {"none", "batch", "cache"} /\ mode \in {"invalid", "read", "write"}
    BY <1>2
  <2>6. usb \in {"off", "on", "look", "scan", "extend", "transfer", "load", "store",
                 "stopping", "stopped", "halted"}
    BY <1>2
  <2> QED BY <1>1, <1>2, <2>1, <2>2, <2>3, <2>4, <2>5, <2>6 DEF TypeOK
<1>4. Shape /\ Lending /\ ReadWindowIsCard /\ Working
  BY <1>2 DEF Shape, Lending, ReadWindowIsCard, Working
<1> QED BY <1>3, <1>4 DEF Inv

\* The commands of the host keep the types, torn or not.
LEMMA CommandType ==
  ASSUME Inv, Command
  PROVE  /\ TypeOK' /\ Lending'
         /\ mode' # "invalid" => count' = BlockCount(base')
<1> USE DEF Inv
<1>0. /\ Able \in BOOLEAN /\ (Able => owner = "cache" /\ usb # "off")
      /\ UNCHANGED task /\ usb \notin {"off", "stopped", "halted"}
      /\ torn' \in SUBSET Blocks /\ (torn' # {} => usb \notin {"off", "on"})
  BY CommandFrame DEF Able, TypeOK, Lending
<1>00. \A ok : Done(ok) => answer' \in Answers
  BY DEF Done, Answer, Answers
<1>1. CASE CapacityRefused
  BY <1>0, <1>00, <1>1 DEF CapacityRefused, window, task, flush, TypeOK, Shape, Lending
<1>2. CASE WindowRefused
  <2>1. PICK f \in FlushedWindow(Able) : card' = f.card /\ dirty' = f.dirty
    BY <1>2 DEF WindowRefused
  <2>2. f.card \in [Blocks -> Data] /\ f.dirty \in SUBSET dirty
    BY <1>0, FlushType
  <2> QED
    BY <1>0, <1>00, <1>2, <2>1, <2>2
    DEF WindowRefused, CapacityKnown, task, flush, TypeOK, Shape, Lending
<1>3. ASSUME NEW b \in Blocks, ReadHit(b)
      PROVE  /\ TypeOK' /\ Lending'
             /\ mode' # "invalid" => count' = BlockCount(base')
  <2>1. b - base \in Offsets
    BY <1>3, Addresses DEF ReadHit
  <2>2. <<b, buffer[b - base]>> \in Answers
    BY <2>1 DEF Answers, TypeOK
  <2>3. answer' \in Answers
    BY <1>3, <2>2 DEF ReadHit, Answer, Answers
  <2> QED
    BY <1>0, <1>3, <2>3 DEF ReadHit, window, task, flush, TypeOK, Shape, Lending
<1>4. ASSUME NEW b \in Blocks, ReadMiss(b)
      PROVE  /\ TypeOK' /\ Lending'
             /\ mode' # "invalid" => count' = BlockCount(base')
  <2>1. PICK f \in FlushedWindow(Able) : card' = f.card
    BY <1>4 DEF ReadMiss
  <2>2. card' \in [Blocks -> Data]
    BY <1>0, <2>1, FlushType
  <2>3. /\ base' = BaseBlock(b) /\ base' \in Nat /\ b - base' \in Offsets
        /\ count' = BlockCount(base') /\ count' \in 0 .. Window /\ count' <= Total - base'
    BY <1>4, Addresses DEF ReadMiss
  <2>4. \A o \in Offsets : o < count' => base' + o \in Blocks
    BY <2>3 DEF Blocks, Offsets
  <2>5. buffer' \in [Offsets -> Data]
    BY <1>4, <2>2, <2>4 DEF ReadMiss, TypeOK
  <2>6. <<b, buffer'[b - base']>> \in Answers
    BY <2>3, <2>5 DEF Answers
  <2>7. answer' \in Answers
    BY <1>4, <2>6 DEF ReadMiss, Answer, Answers
  <2> QED
    BY <1>0, <1>4, <2>2, <2>3, <2>5, <2>7
    DEF ReadMiss, task, flush, CapacityKnown, TypeOK, Lending
<1>5. ASSUME NEW b \in Blocks, ReadFails(b)
      PROVE  /\ TypeOK' /\ Lending'
             /\ mode' # "invalid" => count' = BlockCount(base')
  <2>1. PICK f \in FlushedWindow(Able) : card' = f.card
    BY <1>5 DEF ReadFails
  <2>2. card' \in [Blocks -> Data]
    BY <1>0, <2>1, FlushType
  <2>3. PICK junk \in [0 .. BlockCount(BaseBlock(b)) - 1 -> Data] :
          buffer' = [o \in Offsets |-> IF o \in DOMAIN junk THEN junk[o] ELSE buffer[o]]
    BY <1>5 DEF ReadFails
  <2>4. buffer' \in [Offsets -> Data]
    BY <2>3 DEF TypeOK
  <2>5. /\ mode' = "invalid" /\ base' = 0 /\ count' = 0 /\ dirty' = {} /\ total' = 0
        /\ Done(FALSE) /\ UNCHANGED <<owner, active, task>>
    BY <1>5 DEF ReadFails, Reset
  <2>6. answer' \in Answers
    BY <1>00, <2>5
  <2>7. TypeOK'
    BY <1>0, <2>2, <2>4, <2>5, <2>6 DEF task, flush, TypeOK
  <2>8. Lending'
    BY <1>0, <2>5 DEF task, Lending
  <2> QED BY <2>5, <2>7, <2>8
<1>6. ASSUME NEW b \in Blocks, NEW v \in Data, Write(b, v)
      PROVE  /\ TypeOK' /\ Lending'
             /\ mode' # "invalid" => count' = BlockCount(base')
  <2>1. /\ card' \in [Blocks -> Data] /\ buffer' \in [Offsets -> Data]
        /\ dirty' \in SUBSET Offsets
    BY <1>6, WriteType
  <2>2. /\ base' = BaseBlock(b) /\ base' \in Nat
        /\ count' = BlockCount(base') /\ count' \in 0 .. Window
    BY <1>6, Addresses DEF Write
  <2>3. /\ mode' = "write" /\ total' = Total /\ CapacityKnown
        /\ UNCHANGED <<owner, active, task>>
    BY <1>6 DEF Write
  <2>4. \E ok : Done(ok)
    BY <1>6, Zenon DEF Write
  <2>5. answer' \in Answers
    BY <2>4, <1>00
  <2> QED
    BY <1>0, <2>1, <2>2, <2>3, <2>5
    DEF CapacityKnown, task, flush, TypeOK, Lending
<1>7. CASE Sync
  <2>1. PICK f \in FlushedWindow(Able) : card' = f.card /\ dirty' = f.dirty /\ Done(f.ok)
    BY <1>7 DEF Sync
  <2>2. f.card \in [Blocks -> Data] /\ f.dirty \in SUBSET dirty
    BY <1>0, FlushType
  <2> QED
    BY <1>0, <1>00, <1>7, <2>1, <2>2 DEF Sync, task, flush, TypeOK, Shape, Lending
<1>8. CASE GetCapacity \/ IsReady
  <2>1. answer' \in Answers
    BY <1>8 DEF GetCapacity, IsReady, Answer, Answers, TypeOK
  <2> QED
    BY <1>0, <1>8, <2>1
    DEF GetCapacity, IsReady, window, task, flush, TypeOK, Shape, Lending
<1>9. CASE Configure
  <2>1. PICK f \in FlushedWindow(TRUE) :
          /\ card' = f.card
          /\ IF f.ok THEN Reset /\ owner' = "cache" /\ active' = TRUE
             ELSE /\ owner' = "none" /\ active' = FALSE /\ dirty' = f.dirty
                  /\ UNCHANGED <<mode, base, count, total>>
    BY <1>9 DEF Configure
  <2>2. f.card \in [Blocks -> Data] /\ f.dirty \in SUBSET dirty /\ f.ok \in BOOLEAN
    BY FlushType
  <2>3. answer' \in Answers
    BY <1>9 DEF Configure, Answer, Answers, TypeOK
  <2>4. UNCHANGED <<buffer, task>>
    BY <1>9 DEF Configure
  <2>5. CASE f.ok
    BY <1>0, <2>1, <2>2, <2>3, <2>4, <2>5 DEF Reset, task, flush, TypeOK, Lending
  <2>6. CASE ~f.ok
    BY <1>0, <2>1, <2>2, <2>3, <2>4, <2>6 DEF task, flush, TypeOK, Shape, Lending
  <2> QED BY <2>2, <2>5, <2>6
<1> QED
  BY <1>1, <1>2, <1>3, <1>4, <1>5, <1>6, <1>7, <1>8, <1>9 DEF Command

\* As long as it does not tear everything, a command keeps the window whole.
LEMMA CommandWindow ==
  ASSUME Inv, Command, torn' # Blocks
  PROVE  Shape' /\ ReadWindowIsCard'
<1> USE DEF Inv
<1>0. torn # Blocks /\ Able \in BOOLEAN /\ (mode' # "invalid" => count' = BlockCount(base'))
  BY CommandFrame, CommandType DEF Able, TypeOK
<1>1. CASE CapacityRefused \/ GetCapacity \/ IsReady
  BY <1>0, <1>1 DEF CapacityRefused, GetCapacity, IsReady, window, Shape, ReadWindowIsCard
<1>2. CASE WindowRefused
  <2>1. PICK f \in FlushedWindow(Able) : card' = f.card /\ dirty' = f.dirty
    BY <1>2 DEF WindowRefused
  <2>2. f.dirty \in SUBSET dirty
    BY <1>0, WindowFlush
  <2> QED
    BY <1>0, <1>2, <2>1, <2>2 DEF WindowRefused, Shape, ReadWindowIsCard
<1>3. ASSUME NEW b \in Blocks, ReadHit(b)
      PROVE  Shape' /\ ReadWindowIsCard'
  BY <1>0, <1>3 DEF ReadHit, window, Shape, ReadWindowIsCard
<1>4. ASSUME NEW b \in Blocks, ReadMiss(b)
      PROVE  Shape' /\ ReadWindowIsCard'
  <2>1. count' \in 0 .. Window /\ dirty' = {}
    BY <1>4, Addresses DEF ReadMiss
  <2>2. \A o \in 0 .. count' - 1 : buffer'[o] = card'[base' + o]
    BY <1>4, <2>1 DEF ReadMiss, Offsets
  <2> QED BY <1>0, <2>1, <2>2 DEF Shape, ReadWindowIsCard
<1>5. ASSUME NEW b \in Blocks, ReadFails(b)
      PROVE  Shape' /\ ReadWindowIsCard'
  BY <1>0, <1>5 DEF ReadFails, Reset, Shape, ReadWindowIsCard
<1>6. ASSUME NEW b \in Blocks, NEW v \in Data, Write(b, v)
      PROVE  Shape' /\ ReadWindowIsCard'
  <2>1. mode' = "write" /\ \A o \in dirty' : o < count'
    BY <1>0, <1>6, WriteOutcome DEF Write
  <2> QED BY <1>0, <2>1 DEF Shape, ReadWindowIsCard
<1>7. CASE Sync
  <2>1. PICK f \in FlushedWindow(Able) : card' = f.card /\ dirty' = f.dirty
    BY <1>7 DEF Sync
  <2>2. f.dirty \in SUBSET dirty /\ (mode # "write" => f.card = card)
    BY <1>0, WindowFlush
  <2> QED BY <1>0, <1>7, <2>1, <2>2 DEF Sync, Shape, ReadWindowIsCard
<1>8. CASE Configure
  <2>1. PICK f \in FlushedWindow(TRUE) :
          /\ card' = f.card
          /\ IF f.ok THEN Reset
             ELSE dirty' = f.dirty /\ UNCHANGED <<mode, base, count, total>>
    BY <1>8 DEF Configure
  <2>2. f.dirty \in SUBSET dirty /\ f.ok \in BOOLEAN /\ (mode # "write" => f.ok)
    BY <1>0, WindowFlush
  <2>3. CASE f.ok
    BY <1>0, <2>1, <2>3 DEF Reset, Shape, ReadWindowIsCard
  <2>4. CASE ~f.ok
    BY <1>0, <2>1, <2>2, <2>4 DEF Shape, ReadWindowIsCard
  <2> QED BY <2>2, <2>3, <2>4
<1> QED
  BY <1>1, <1>2, <1>3, <1>4, <1>5, <1>6, <1>7, <1>8 DEF Command

\* Nor does it take the run from under the task, but for the block it tears.
LEMMA CommandWorking ==
  ASSUME Inv, Command, torn' # Blocks
  PROVE  Working'
<1> DEFINE Busy == usb \in {"scan", "extend", "transfer", "load", "store"}
<1>0. /\ TypeOK /\ torn # Blocks /\ Working /\ torn \subseteq torn'
      /\ UNCHANGED <<usb, start, next, mask>>
  BY CommandFrame DEF Inv, task, flush
<1>1. CASE ~Busy
  BY <1>0, <1>1 DEF Working
<1>2. CASE Busy /\ UNCHANGED <<card, buffer, base, dirty>>
  <2>1. Run' = Run
    BY <1>0 DEF Run
  <2> QED BY <1>0, <1>2, <2>1 DEF Working
<1>3. ASSUME NEW b \in Blocks, NEW v \in Data, Write(b, v), Busy
      PROVE  Working'
  <2>1. /\ mode = "write" /\ base' = base /\ card' = card
        /\ dirty' = dirty \cup {b - base}
        /\ buffer' = [buffer EXCEPT ![b - base] = v]
        /\ torn' = IF b - base \in AtRisk THEN torn \cup {b} ELSE torn
    BY <1>3, WriteTears
  <2>2. Run' = Run /\ base + (b - base) = b /\ b - base \in Offsets
    <3>1. base = BaseBlock(b)
      BY <1>3, <2>1 DEF Write
    <3> QED BY <1>0, <3>1, Addresses DEF Run, Blocks
  <2>3. usb \in {"load", "store"} => Run \subseteq AtRisk
    <3>1. CASE usb = "load"
      BY <3>1 DEF AtRisk
    <3>2. CASE usb = "store"
      BY <3>2, <1>0 DEF AtRisk, Kept, Working, TypeOK
    <3> QED BY <3>1, <3>2
  <2>4. ASSUME usb' \in {"load", "store"}, NEW o \in Run', base' + o \notin torn'
        PROVE  card'[base' + o] = buffer'[o]
    <3>1. o # b - base
      BY <1>0, <2>1, <2>2, <2>3, <2>4
    <3>2. base + o \notin torn
      BY <1>0, <2>1, <2>4
    <3>3. card[base + o] = buffer[o]
      BY <1>0, <2>2, <2>4, <3>2 DEF Working
    <3> QED BY <1>0, <2>1, <3>1, <3>3 DEF TypeOK
  <2>5. ASSUME usb' = "store", NEW o \in dirty' \ mask' PROVE base' + o \in torn'
    <3>1. CASE o \in dirty
      BY <1>0, <2>1, <2>5, <3>1 DEF Working
    <3>2. CASE o = b - base
      <4>1. o \in AtRisk
        BY <1>0, <2>2, <2>5, <3>2 DEF AtRisk, Kept
      <4> QED BY <2>1, <2>2, <3>2, <4>1
    <3> QED BY <2>1, <2>5, <3>1, <3>2
  <2> QED BY <1>0, <2>1, <2>2, <2>4, <2>5 DEF Working
<1> QED
  <2>1. ASSUME Busy
        PROVE  \/ UNCHANGED <<card, buffer, base, dirty>>
               \/ \E b \in Blocks, v \in Data : Write(b, v)
    BY <1>0, <2>1
    DEF Command, CapacityRefused, WindowRefused, ReadHit, ReadMiss, ReadFails, Sync,
        GetCapacity, IsReady, Configure, Crosses, window
  <2> QED BY <1>1, <1>2, <1>3, <2>1

\* The commands of the host.
LEMMA CommandInv ==
  ASSUME Inv, Command
  PROVE  Inv'
<1>1. CASE torn' = Blocks
  BY <1>1, CommandType DEF Inv, Shape, ReadWindowIsCard
<1>2. CASE torn' # Blocks
  BY <1>2, CommandType, CommandWindow, CommandWorking DEF Inv
<1> QED BY <1>1, <1>2

\* The steps of the task that leave the window and the card alone.
LEMMA IdleStep ==
  ASSUME Inv, UNCHANGED <<card, buffer, owner, window, total, active, torn, answer>>,
         usb # "off", usb' \notin {"off", "on"},
         usb' \in {"look", "scan", "extend", "transfer", "load", "store",
                  "stopping", "stopped", "halted"},
         start' \in 0 .. Window, next' \in 0 .. Window, mask' \in SUBSET Offsets,
         torn # Blocks => Working'
  PROVE  Inv'
BY DEF Inv, window, TypeOK, Shape, Lending, ReadWindowIsCard

\* The search of the task for a run.
LEMMA SearchInv ==
  ASSUME Inv,
         \/ LeaveUsb \/ Look \/ Skip \/ NothingFound \/ RunBegins \/ RunGrows \/ RunEnds
         \/ Load \/ SyncEnds \/ Stop
  PROVE  Inv'
<1> USE DEF Inv, TypeOK, Task, window
<1>0. \A n \in 0 .. Window, d \in SUBSET Offsets : From(n, d) \in SUBSET d
  BY DEF From
<1>1. CASE LeaveUsb
  BY <1>1, IdleStep DEF LeaveUsb, Working
<1>2. CASE Look
  BY <1>0, <1>2, IdleStep DEF Look, Working
<1>3. CASE Skip
  <2>1. next' \in 0 .. Window /\ mask' \in SUBSET Offsets
    BY <1>0, <1>3 DEF Skip, Advance, From
  <2>2. mask \subseteq dirty => mask' \subseteq dirty
    BY <1>3 DEF Skip, Advance, From
  <2> QED BY <1>3, <2>1, <2>2, IdleStep DEF Skip, Working
<1>4. CASE RunBegins
  <2>1. /\ start' \in 0 .. Window /\ next' \in 0 .. Window /\ mask' \in SUBSET Offsets
        /\ start' = next /\ next' = next + 1
    BY <1>0, <1>4 DEF RunBegins, Advance, From
  <2>2. mask \subseteq dirty => mask' \subseteq dirty
    BY <1>4 DEF RunBegins, Advance, From
  <2>3. \A o \in Run' : o = next
    BY <2>1 DEF Run
  <2> QED BY <1>4, <2>1, <2>2, <2>3, IdleStep DEF RunBegins, Working
<1>5. CASE RunGrows
  <2>1. /\ next' \in 0 .. Window /\ mask' \in SUBSET Offsets
        /\ start' = start /\ next' = next + 1
    BY <1>0, <1>5 DEF RunGrows, Advance, From
  <2>2. mask \subseteq dirty => mask' \subseteq dirty
    BY <1>5 DEF RunGrows, Advance, From
  <2>3. \A o \in Run' : o = next \/ o \in Run
    BY <2>1 DEF Run
  <2> QED BY <1>5, <2>1, <2>2, <2>3, IdleStep DEF RunGrows, Working
<1>6. CASE RunEnds
  <2>1. Run' = Run
    BY <1>6 DEF RunEnds, Run
  <2> QED BY <1>6, <2>1, IdleStep DEF RunEnds, Working
<1>7. CASE Load
  <2>1. Run' = Run
    BY <1>7 DEF Load, Run
  <2> QED BY <1>7, <2>1, IdleStep DEF Load, Working
<1>8. CASE NothingFound \/ SyncEnds \/ Stop
  BY <1>8, IdleStep DEF NothingFound, SyncEnds, Forget, Stop, Working, flush
<1> QED BY <1>1, <1>2, <1>3, <1>4, <1>5, <1>6, <1>7, <1>8

\* A step of the transfer puts what is not torn on the card.
LEMMA TransferInv ==
  ASSUME Inv, Transfer
  PROVE  Inv' /\ (torn # Blocks => View' = View)
<1> USE DEF Inv, TypeOK, window, flush
<1>1. CASE torn = Blocks
  BY <1>1 DEF Transfer, Shape, Lending, ReadWindowIsCard
<1>2. CASE torn # Blocks
  <2>1. PICK sent \in [Run -> Data] :
          /\ \A o \in Run : base + o \notin torn => sent[o] = buffer[o]
          /\ card' = Written(card, sent, base, Run)
    BY <1>2 DEF Transfer
  <2>2. Run \subseteq dirty /\ Run' = Run /\ UNCHANGED <<buffer, window, torn>>
    BY <1>2 DEF Transfer, Working, Run
  <2>3. card' \in [Blocks -> Data]
    BY <2>1, <2>2 DEF Written, Blocks, Offsets
  <2>4. ASSUME NEW o \in Run, base + o \notin torn
        PROVE  card'[base + o] = buffer[o]
    <3>1. o \in Offsets /\ mode = "write" /\ o < count /\ count = BlockCount(base)
      BY <1>2, <2>2 DEF Shape
    <3>2. base + o \in Blocks /\ (base + o) - base = o
      BY <3>1 DEF BlockCount, Blocks, Offsets
    <3> QED BY <2>1, <2>4, <3>2 DEF Written
  <2>5. Working'
    BY <1>2, <2>2, <2>4 DEF Transfer, Working
  <2>6. ReadWindowIsCard'
    <3>1. CASE mode = "read"
      <4>1. Run = {} /\ card' = card
        BY <1>2, <2>1, <2>2, <3>1 DEF Shape, Written
      <4> QED BY <2>2, <4>1 DEF ReadWindowIsCard
    <3>2. CASE mode # "read"
      BY <2>2, <3>2 DEF ReadWindowIsCard
    <3> QED BY <3>1, <3>2
  <2>7. View' = View
    <3>1. View' = Written(Written(card, sent, base, Run), buffer, base, dirty)
      BY <2>1, <2>2 DEF View
    <3> QED BY <2>2, <3>1 DEF View, Written
  <2> QED BY <1>2, <2>2, <2>3, <2>5, <2>6, <2>7 DEF Transfer, Shape, Lending
<1> QED BY <1>1, <1>2

\* Storing the mask clears bits of blocks that are on the card, and no other block of
\* the disk changes but a torn one.
LEMMA StoreInv ==
  ASSUME Inv, Store
  PROVE  /\ Inv'
         /\ torn # Blocks => \A b \in Blocks \ torn : View'[b] = View[b]
<1> USE DEF Inv, TypeOK
<1>1. PICK last \in Run :
        /\ dirty' = mask \ (start .. last)
        /\ start' = IF last + 1 = next THEN 0 ELSE last + 1
        /\ usb' \in IF last + 1 = next THEN {"look"} ELSE {"load", "store"}
  BY DEF Store
<1>2. /\ usb = "store" /\ mask' = (IF usb' = "store" THEN dirty' ELSE {})
      /\ UNCHANGED <<card, buffer, owner, mode, base, count, total, active, next, torn, answer>>
  BY DEF Store
<1>3. /\ last \in Nat /\ start <= last /\ last < next /\ start' \in 0 .. Window
      /\ usb' \in {"look", "load", "store"}
  BY <1>1 DEF Run
<1>4. dirty' \in SUBSET Offsets /\ mask' \in SUBSET Offsets
  BY <1>1, <1>2
<1>5. CASE torn = Blocks
  BY <1>2, <1>3, <1>4, <1>5 DEF Shape, Lending, ReadWindowIsCard
<1>6. CASE torn # Blocks
  <2>1. /\ mask \subseteq dirty /\ Run \subseteq mask
        /\ \A o \in dirty \ mask : base + o \in torn
        /\ \A o \in Run : base + o \notin torn => card[base + o] = buffer[o]
    BY <1>2, <1>6 DEF Working
  <2>2. usb' \in {"load", "store"} => Run' \subseteq Run \ (start .. last)
    BY <1>1, <1>2, <1>3 DEF Run
  <2>3. Working'
    BY <1>1, <1>2, <1>3, <2>1, <2>2 DEF Working
  <2>4. dirty' \subseteq dirty
    BY <1>1, <2>1
  <2>5. Shape' /\ ReadWindowIsCard'
    BY <1>2, <1>6, <2>4 DEF Shape, ReadWindowIsCard
  <2>6. ASSUME NEW b \in Blocks \ torn
        PROVE  View'[b] = View[b]
    <3>1. base + (b - base) = b /\ b - base \in Int
      BY DEF Blocks
    <3>2. CASE b - base \in dirty'
      BY <1>2, <2>4, <3>2 DEF View, Written
    <3>3. CASE b - base \notin dirty
      BY <1>2, <2>4, <3>3 DEF View, Written
    <3>4. CASE b - base \in dirty /\ b - base \notin dirty'
      <4>1. b - base \in mask
        BY <2>1, <2>6, <3>1, <3>4
      <4>2. b - base \in Run
        BY <1>1, <1>3, <3>4, <4>1 DEF Run
      <4>3. card[b] = buffer[b - base]
        BY <2>1, <2>6, <3>1, <4>2
      <4> QED BY <1>2, <3>4, <4>3 DEF View, Written
    <3> QED BY <3>2, <3>3, <3>4
  <2> QED BY <1>2, <1>3, <1>4, <1>6, <2>3, <2>5, <2>6 DEF Lending
<1> QED BY <1>5, <1>6

\* The steps of the task, in USB mode and outside.
LEMMA TaskInv ==
  ASSUME Inv,
         EnterUsb \/ LeaveUsb \/ Leaving \/ BeginBatch \/ EndBatch
  PROVE  Inv'
<1> USE DEF Inv
<1>0. Able \in BOOLEAN
  BY DEF Able, TypeOK
<1>1. CASE EnterUsb
  BY <1>1, SomeBlock DEF EnterUsb, window, flush, TypeOK, Shape, Lending, ReadWindowIsCard,
                         Working
<1>2. CASE TransferFails
  <2>1. PICK junk \in [Run -> Data] : card' = Written(card, junk, base, Run)
    BY <1>2 DEF TransferFails
  <2>2. card' \in [Blocks -> Data]
    BY <2>1 DEF Written, TypeOK
  <2>3. UNCHANGED <<buffer, owner, window, total, active, torn, answer>>
    BY <1>2 DEF TransferFails
  <2>4. usb = "transfer" /\ usb' = "halted" /\ start' = 0 /\ next' = 0 /\ mask' = {}
    BY <1>2 DEF TransferFails, Forget
  <2>5. ReadWindowIsCard'
    <3>1. CASE mode = "read" /\ torn # Blocks
      <4>1. Run = {}
        BY <2>4, <3>1 DEF Shape, Working
      <4>2. card' = card
        BY <2>1, <4>1 DEF Written, TypeOK
      <4> QED BY <2>3, <4>2 DEF window, ReadWindowIsCard
    <3>2. CASE ~(mode = "read" /\ torn # Blocks)
      BY <2>3, <3>2 DEF window, ReadWindowIsCard
    <3> QED BY <3>1, <3>2
  <2> QED
    BY <2>2, <2>3, <2>4, <2>5 DEF window, TypeOK, Shape, Lending, Working
<1>3. CASE HandBack
  <2>1. PICK f \in FlushedWindow(Able) :
          /\ card' = f.card
          /\ IF f.ok THEN usb' = "off" /\ torn' = {} /\ answer' = <<>>
             ELSE usb' = "halted" /\ UNCHANGED <<torn, answer>>
    BY <1>3 DEF HandBack
  <2>2. f.card \in [Blocks -> Data] /\ f.ok \in BOOLEAN
    BY <1>0, FlushType
  <2>3. answer' \in Answers
    BY <2>1, Zenon DEF Answers, TypeOK
  <2>4. owner' \in {"none", "batch"} /\ (owner' = "batch" => owner = "batch")
    BY <1>3 DEF HandBack, TypeOK
  <2>5. /\ usb' \in {"off", "halted"} /\ torn' \in SUBSET Blocks
        /\ torn' # {} => usb' = "halted"
    BY <2>1, <2>2 DEF TypeOK
  <2>6. /\ mode' = "invalid" /\ base' = 0 /\ count' = 0 /\ dirty' = {} /\ total' = 0
        /\ active' = FALSE /\ UNCHANGED <<buffer, start, next, mask>> /\ usb = "stopped"
    BY <1>3 DEF HandBack, Reset, flush
  <2>7. owner # "batch"
    BY <2>6 DEF Lending
  <2>8. active' \in BOOLEAN /\ total' \in {0, Total}
    BY <2>6
  <2>9. base' \in Nat /\ count' \in 0 .. Window /\ dirty' \in SUBSET Offsets
    BY <2>6
  <2>10. TypeOK'
    BY <2>2, <2>1, <2>3, <2>4, <2>5, <2>6, <2>8, <2>9 DEF TypeOK
  <2>11. Shape' /\ Lending' /\ ReadWindowIsCard' /\ Working'
    BY <2>4, <2>5, <2>6, <2>7 DEF Shape, Lending, ReadWindowIsCard, Working
  <2> QED
    BY <2>10, <2>11
<1>4. CASE BeginBatch
  BY <1>4, SomeBlock DEF BeginBatch, window, task, flush, TypeOK, Shape, Lending,
                         ReadWindowIsCard, Working
<1>5. CASE EndBatch
  BY <1>5, SomeBlock DEF EndBatch, window, task, flush, TypeOK, Shape, Lending,
                         ReadWindowIsCard, Working
<1> QED
  BY <1>1, <1>2, <1>3, <1>4, <1>5, SearchInv, TransferInv, StoreInv DEF Leaving

\* The invariant holds in every state, whatever the size of the window and the card.
LEMMA Invariance == Spec => []Inv
<1>1. Inv /\ [Next]_vars => Inv'
  <2> SUFFICES ASSUME Inv, [Next]_vars PROVE Inv'
    OBVIOUS
  <2>1. CASE UNCHANGED vars
    BY <2>1 DEF vars, window, task, flush, Inv, TypeOK, Shape, Lending, ReadWindowIsCard,
                Working, Run
  <2> QED BY <2>1, CommandInv, TaskInv DEF Next
<1> QED BY <1>1, InitInv, PTL DEF Spec

\* Every variable keeps to its values.
THEOREM TypeCorrect == Spec => []TypeOK
BY Invariance, PTL DEF Inv

\* Dirty blocks are never in a buffer that the logger may take, initialization failed
\* or not.
THEOREM BufferIsKept == Spec => []DirtyBufferKept
<1>1. Inv => DirtyBufferKept
  BY SomeBlock DEF Inv, Shape, Lending, DirtyBufferKept
<1> QED BY <1>1, Invariance, PTL

\* What is cached for reading is what the card holds.
THEOREM ReadWindowIsNeverStale == Spec => []ReadWindowIsCard
BY Invariance, PTL DEF Inv
-----------------------------------------------------------------------------
(* Refinement.                                                              *)

\* With nothing dirty the host sees the card.
LEMMA CleanView ==
  ASSUME Inv, dirty = {}
  PROVE  View = card
BY DEF View, Written, Inv, TypeOK

\* A command of the host that does not tear everything is a command to the disk.
LEMMA CommandRefines ==
  ASSUME Inv, Inv', Command, torn' # Blocks
  PROVE  [Disk!Next]_(Disk!vars)
<1> USE DEF Disk!Contents
<1>0. /\ Able \in BOOLEAN /\ card' \in [Blocks -> Data]
      /\ View \in [Blocks -> Data] /\ View' \in [Blocks -> Data]
  <2>1. View' \in [Blocks -> Data]
    BY DEF Inv, TypeOK, View, Written, Blocks, Offsets
  <2> QED BY <2>1, ViewIsContents DEF Able, Inv, TypeOK
<1>00. /\ HostState \in {"on", "leaving"} /\ HostState' = HostState /\ torn # Blocks
       /\ torn' # torn => HostState = "leaving"
       /\ \A ok : Done(ok) => answer' = IF ok THEN <<"done">> ELSE <<"failed">>
  <2>1. /\ usb \notin {"off", "stopped", "halted"} /\ UNCHANGED usb
        /\ torn # Blocks
        /\ torn' # torn => usb \in {"scan", "extend", "transfer", "load", "store"}
    BY CommandFrame DEF task, Inv, TypeOK
  <2>2. \A ok : Done(ok) => answer' = IF ok THEN <<"done">> ELSE <<"failed">>
    BY DEF Done, Answer
  <2> QED BY <2>1, <2>2 DEF HostState
<1>1. CASE CapacityRefused
  <2>1. View' = View /\ answer' = <<"failed">> /\ torn' = torn
    BY <1>00, <1>1 DEF CapacityRefused, Collides, View, window
  <2> QED BY <2>1, <1>0, <1>00 DEF Disk!Next, Disk!Sync, Disk!Served
<1>2. CASE WindowRefused
  <2>1. PICK f \in FlushedWindow(Able) : card' = f.card /\ dirty' = f.dirty
    BY <1>2 DEF WindowRefused
  <2>2. View' = Written(f.card, buffer, base, f.dirty)
    BY <1>2, <2>1 DEF WindowRefused, View
  <2>3. View' = View /\ answer' = <<"failed">> /\ torn' = torn
    BY <1>0, <1>00, <1>2, <2>2, WindowFlush DEF WindowRefused, Crosses
  <2> QED BY <2>3, <1>0, <1>00 DEF Disk!Next, Disk!Sync, Disk!Served
<1>3. ASSUME NEW b \in Blocks, ReadHit(b)
      PROVE  [Disk!Next]_(Disk!vars)
  <2>1. /\ b - base \in Offsets /\ b - base < count /\ base \in Nat /\ mode = "read"
        /\ base + (b - base) = b
    BY <1>3, Addresses DEF ReadHit, Inv, Shape, Blocks
  <2>2. buffer[b - base] = card[b]
    BY <1>00, <2>1 DEF Inv, TypeOK, ReadWindowIsCard, Offsets
  <2>3. View = card /\ View' = View /\ torn' = torn
    BY <1>00, <1>3, <2>1, CleanView DEF ReadHit, Inv, Shape, View, window
  <2>4. answer' = <<b, View[b]>>
    BY <1>3, <2>2, <2>3 DEF ReadHit, Answer
  <2> QED BY <2>3, <2>4, <1>0, <1>00 DEF Disk!Next, Disk!Read, Disk!Served
<1>4. ASSUME NEW b \in Blocks, ReadMiss(b)
      PROVE  [Disk!Next]_(Disk!vars)
  <2>1. PICK f \in FlushedWindow(Able) : f.ok /\ card' = f.card
    BY <1>4 DEF ReadMiss
  <2>2. card' = View /\ torn' = torn
    BY <1>0, <1>00, <1>4, <2>1, WindowFlush DEF ReadMiss, Crosses
  <2>3. View' = card'
    BY <1>0, <1>4 DEF ReadMiss, View, Written
  <2>4. /\ base' = BaseBlock(b) /\ base' \in Nat /\ b - base' \in Offsets
        /\ b - base' < count' /\ base' + (b - base') = b
    BY <1>4, Addresses DEF ReadMiss, Blocks
  <2>5. buffer'[b - base'] = View[b]
    BY <1>4, <2>2, <2>4 DEF ReadMiss
  <2>6. answer' = <<b, View[b]>>
    BY <1>4, <2>5 DEF ReadMiss, Answer
  <2> QED BY <2>2, <2>3, <2>6, <1>0, <1>00 DEF Disk!Next, Disk!Read, Disk!Served
<1>5. ASSUME NEW b \in Blocks, ReadFails(b)
      PROVE  [Disk!Next]_(Disk!vars)
  <2>1. PICK f \in FlushedWindow(Able) : f.ok /\ card' = f.card
    BY <1>5 DEF ReadFails
  <2>2. card' = View /\ torn' = torn
    BY <1>0, <1>00, <1>5, <2>1, WindowFlush DEF ReadFails, Crosses
  <2>3. View' = card' /\ answer' = <<"failed">>
    BY <1>0, <1>00, <1>5 DEF ReadFails, Reset, View, Written
  <2> QED BY <2>2, <2>3, <1>0, <1>00 DEF Disk!Next, Disk!Read, Disk!Served
<1>6. ASSUME NEW b \in Blocks, NEW v \in Data, Write(b, v)
      PROVE  [Disk!Next]_(Disk!vars)
  <2>1. View' = [View EXCEPT ![b] = v]
    BY <1>00, <1>6, WriteOutcome
  <2>2. \E ok : Done(ok)
    BY <1>6, Zenon DEF Write
  <2>3. torn' \in {torn, torn \cup {b}}
    BY <1>6, WriteTears
  <2> QED BY <2>1, <2>2, <2>3, <1>0, <1>00 DEF Disk!Next, Disk!Write, Disk!Served
<1>7. CASE Sync
  <2>1. PICK f \in FlushedWindow(Able) : card' = f.card /\ dirty' = f.dirty /\ Done(f.ok)
    BY <1>7 DEF Sync
  <2>2. View' = Written(f.card, buffer, base, f.dirty)
    BY <1>7, <2>1 DEF Sync, View
  <2>3. /\ View' = View /\ (f.ok => card' = View) /\ f.ok \in BOOLEAN
        /\ torn' = torn
    BY <1>0, <1>00, <1>7, <2>1, <2>2, WindowFlush DEF Sync, Crosses
  <2>4. \/ answer' = <<"done">> /\ card' = View
        \/ answer' = <<"failed">>
    BY <1>00, <2>1, <2>3
  <2> QED BY <2>3, <2>4, <1>0, <1>00 DEF Disk!Next, Disk!Sync, Disk!Served
<1>8. CASE GetCapacity \/ IsReady
  BY <1>8, <1>00 DEF GetCapacity, IsReady, Collides, Answer, View, window, Disk!vars
<1>9. CASE Configure
  <2>1. PICK f \in FlushedWindow(TRUE) :
          /\ card' = f.card
          /\ IF f.ok THEN Reset ELSE dirty' = f.dirty /\ UNCHANGED base
    BY <1>9 DEF Configure
  <2>2. buffer' = buffer /\ answer' = answer /\ torn' = torn
    BY <1>00, <1>9 DEF Configure, Crosses, Answer
  <2>3. CASE f.ok
    <3>1. card' = View
      BY <1>00, <2>1, <2>3, WindowFlush
    <3>2. View' = card'
      BY <1>0, <2>1, <2>3 DEF Reset, View, Written
    <3> QED BY <3>1, <3>2, <2>2, <1>0, <1>00 DEF Disk!Next, Disk!CleanUp, Disk!Served
  <2>4. CASE ~f.ok
    <3>1. View' = Written(f.card, buffer, base, f.dirty)
      BY <2>1, <2>2, <2>4 DEF View
    <3>2. View' = View
      BY <1>00, <3>1, WindowFlush
    <3> QED BY <3>2, <2>2, <1>0, <1>00 DEF Disk!Next, Disk!CleanUp, Disk!Served
  <2> QED BY <2>3, <2>4
<1> QED
  BY <1>1, <1>2, <1>3, <1>4, <1>5, <1>6, <1>7, <1>8, <1>9 DEF Command

\* The disk the host sees, before and after.
LEMMA ContentsStep ==
  ASSUME Inv, Inv'
  PROVE  /\ card \in Disk!Contents /\ View \in Disk!Contents
         /\ card' \in Disk!Contents /\ View' \in Disk!Contents
<1>1. View' \in [Blocks -> Data]
  BY DEF Inv, TypeOK, View, Written, Blocks, Offsets
<1> QED BY <1>1, ViewIsContents DEF Inv, TypeOK, Disk!Contents

\* A command that has torn everything comes while the device leaves.
LEMMA CommandRuins ==
  ASSUME Inv, Inv', Command, torn' = Blocks
  PROVE  [Disk!Next]_(Disk!vars)
<1>1. HostState = "leaving" /\ HostState' = HostState
  <2>1. /\ usb \notin {"off", "stopped", "halted"} /\ UNCHANGED usb
        /\ torn' # torn => usb \in {"scan", "extend", "transfer", "load", "store"}
    BY CommandFrame DEF task
  <2>2. usb # "on"
    BY <2>1, SomeBlock DEF Inv, Lending
  <2> QED BY <2>1, <2>2 DEF HostState
<1> QED BY <1>1, ContentsStep DEF Disk!Next, Disk!Ruin

\* A step of the task is a step of the disk without a command.
LEMMA TaskRefines ==
  ASSUME Inv, Inv',
         EnterUsb \/ LeaveUsb \/ Leaving \/ BeginBatch \/ EndBatch
  PROVE  [Disk!Next]_(Disk!vars)
<1> USE DEF Disk!Contents, Disk!Served
<1>0. /\ card \in [Blocks -> Data] /\ card' \in [Blocks -> Data]
      /\ View \in [Blocks -> Data] /\ View' \in [Blocks -> Data]
  BY ContentsStep
<1>1. CASE EnterUsb
  BY <1>1 DEF EnterUsb, View, window, HostState, Disk!Next, Disk!Attach
<1>2. CASE LeaveUsb
  <2>1. View' = View /\ card' = card /\ torn' = torn /\ answer' = answer
    BY <1>2 DEF LeaveUsb, Task, View, window
  <2>2. usb = "on" /\ usb' \in {"stopping", "look", "halted"}
    BY <1>2 DEF LeaveUsb
  <2>3. CASE usb' = "halted"
    BY <2>1, <2>2, <2>3, <1>0 DEF HostState, Disk!Next, Disk!Die
  <2>4. CASE usb' # "halted"
    BY <2>1, <2>2, <2>4 DEF HostState, Disk!Next, Disk!Leave
  <2> QED BY <2>3, <2>4
<1>3. CASE \/ Look \/ Skip \/ NothingFound \/ RunBegins \/ RunGrows \/ RunEnds \/ Load
           \/ SyncEnds \/ Stop
  <2>1. View' = View /\ card' = card /\ torn' = torn /\ answer' = answer
    BY <1>3 DEF Look, Skip, NothingFound, RunBegins, RunGrows, RunEnds, Load, SyncEnds,
                Stop, Task, View, window
  <2>2. HostState = "leaving" /\ HostState' \in {"leaving", "dead"}
    BY <1>3 DEF Look, Skip, NothingFound, RunBegins, RunGrows, RunEnds, Load, SyncEnds,
                Stop, HostState
  <2> QED BY <2>1, <2>2, <1>0 DEF Disk!Next, Disk!Die, Disk!vars
<1>4. CASE TransferFails
  BY <1>0, <1>4 DEF TransferFails, HostState, Disk!Next, Disk!Die
<1>5. CASE Transfer \/ Store
  <2>1. \A b \in Blocks \ torn : View'[b] = View[b]
    BY <1>5, TransferInv, StoreInv DEF Inv, TypeOK
  <2>2. /\ HostState = "leaving" /\ HostState' = "leaving"
        /\ torn' = torn /\ answer' = answer
    BY <1>5 DEF Transfer, Store, HostState
  <2> QED BY <2>1, <2>2, <1>0 DEF Disk!Next, Disk!CleanUp
<1>6. CASE HandBack
  <2>0. Able \in BOOLEAN /\ usb = "stopped" /\ HostState = "leaving"
    BY <1>6 DEF Able, Inv, TypeOK, HandBack, HostState
  <2>1. PICK f \in FlushedWindow(Able) :
          /\ card' = f.card
          /\ IF f.ok THEN usb' = "off" /\ torn' = {} /\ answer' = <<>>
             ELSE usb' = "halted" /\ UNCHANGED <<torn, answer>>
    BY <1>6 DEF HandBack
  <2>2. View' = card'
    BY <1>0, <1>6 DEF HandBack, Reset, View, Written
  <2>3. CASE f.ok
    <3>1. torn # Blocks => card' = View
      BY <2>0, <2>1, <2>3, WindowFlush
    <3> QED BY <3>1, <2>0, <2>1, <2>2, <2>3, <1>0 DEF HostState, Disk!Next, Disk!Detach
  <2>4. CASE ~f.ok
    BY <2>0, <2>1, <2>4, <1>0 DEF HostState, Disk!Next, Disk!Die
  <2> QED BY <2>3, <2>4
<1>7. CASE BeginBatch \/ EndBatch
  <2>1. dirty = {} /\ dirty' = {} /\ usb = "off" /\ UNCHANGED <<usb, torn, answer>>
    BY <1>7, SomeBlock DEF BeginBatch, EndBatch, window, task, Inv, Shape, Lending
  <2>2. View = card /\ View' = card'
    BY <2>1, <1>0, CleanView DEF View, Written
  <2> QED BY <2>1, <2>2, <1>0 DEF HostState, Disk!Next, Disk!FirmwareWrites
<1> QED
  BY <1>1, <1>2, <1>3, <1>4, <1>5, <1>6, <1>7 DEF Leaving

\* The cache, with the flush, the failures of the card and the way out of USB mode, is
\* the disk of BlockDevice: whatever the interrupt does between two steps of the last
\* flush, a write in place costs no block but its own, and what is not torn is handed
\* back on the card.
THEOREM CacheImplementsDisk == Spec => DiskSpec
<1>1. Init => Disk!Init
  <2> SUFFICES ASSUME Init PROVE Disk!Init
    OBVIOUS
  <2>1. Inv /\ dirty = {} /\ usb = "off" /\ torn = {} /\ answer = <<>>
    BY InitInv DEF Init
  <2> QED BY <2>1, CleanView DEF Disk!Init, Disk!Contents, HostState, Inv, TypeOK
<1>2. Inv /\ Inv' /\ [Next]_vars => [Disk!Next]_(Disk!vars)
  <2> SUFFICES ASSUME Inv, Inv', [Next]_vars PROVE [Disk!Next]_(Disk!vars)
    OBVIOUS
  <2>1. CASE UNCHANGED vars
    BY <2>1 DEF vars, window, task, View, HostState, Disk!vars
  <2> QED BY <2>1, CommandRefines, CommandRuins, TaskRefines DEF Next
<1> QED
  BY <1>1, <1>2, Invariance, PTL DEF Spec, DiskSpec, Disk!Spec
=============================================================================
