--------------------------- MODULE UdpRing_proofs ---------------------------
(***************************************************************************)
(* Proofs about the DDP receiver, for a ring of any size, any number of    *)
(* datagrams and any backlog: types, the interrupt line, the order of the  *)
(* frames, and that the receiver implements the feed.                      *)
(***************************************************************************)
EXTENDS UdpRing, SequenceTheorems, FiniteSetTheorems, TLAPS

Datagram == 1..Datagrams
Places == {"top", "start", "scan", "copy", "free"}
Loops == [at: Places, rd: SlotId, left: 0..UDP_RING_COUNT, hdr: 0..Datagrams]

LEMMA SlotAfter ==
  ASSUME NEW i \in SlotId
  PROVE  After(i) \in SlotId
<1>1. UDP_RING_COUNT \in Nat /\ UDP_RING_COUNT > 0 /\ i + 1 \in Nat
  BY RingAssumption DEF SlotId
<1>2. (i + 1) % UDP_RING_COUNT \in 0 .. UDP_RING_COUNT - 1
  BY <1>1
<1> QED BY <1>2 DEF After, SlotId

LEMMA FirstSlot == 0 \in SlotId
BY RingAssumption DEF SlotId

\* Another place of the main loop, with nothing else changed ...
LEMMA PlaceField ==
  ASSUME NEW l \in Loops, NEW place \in Places, NEW m, m = [l EXCEPT !.at = place]
  PROVE  m \in Loops /\ m.at = place /\ m.left = l.left
BY DEF Loops

\* ... and with another slot.
LEMMA SlotField ==
  ASSUME NEW l \in Loops, NEW i \in SlotId, NEW n \in 0..UDP_RING_COUNT,
         NEW m, m = [l EXCEPT !.at = "scan", !.rd = i, !.left = n]
  PROVE  m \in Loops /\ m.at = "scan"
BY DEF Loops, Places

-----------------------------------------------------------------------------
(* Types. *)

\* While a slot is looked at there is a slot left to look at.
Bounded == main.at \in {"copy", "free"} => main.left > 0

\* The state of chip, handler, ring and loop, as it is used below.
ChipType ==
  /\ boot \in {"open", "cleared", "ready"}
  /\ arrived \in 0..Datagrams /\ rx \in Seq(Datagram)
  /\ ir \in BOOLEAN /\ edge \in BOOLEAN
  /\ late \in 0..ScanArrivals /\ hurried \in BOOLEAN
IsrType == isr \in {"off", "read", "clear", "clear all", "flag"}
RingType ==
  /\ udp_rx_ring_buf \in [SlotId -> 0..Datagrams]
  /\ udp_rx_buf_len \in [SlotId -> 0..1]
  /\ udp_ring_idx \in SlotId
LoopType == main \in Loops
AppliedType == applied \in Seq((0..Datagrams) \X (0..Datagrams))
FlagType == wiznet_isr_rx_pending \in BOOLEAN

LEMMA TypeParts ==
  /\ TypeOK <=> ChipType /\ IsrType /\ RingType /\ LoopType /\ AppliedType /\ FlagType
  /\ TypeOK' <=> ChipType' /\ IsrType' /\ RingType' /\ LoopType' /\ AppliedType' /\ FlagType'
BY DEF TypeOK, ChipType, IsrType, RingType, LoopType, AppliedType, FlagType,
       Loops, Places, Datagram

LEMMA TypeInit == Init => TypeOK /\ Bounded
<1> SUFFICES ASSUME Init PROVE TypeOK /\ Bounded
  OBVIOUS
<1>1. ChipType
  <2>1. 0 \in 0..Datagrams /\ 0 \in 0..ScanArrivals
    BY RingAssumption
  <2>2. rx = <<>> /\ rx \in Seq(Datagram)
    BY DEF Init
  <2> QED BY <2>1, <2>2 DEF Init, ChipType
<1>2. IsrType /\ FlagType
  BY DEF Init, IsrType, FlagType
<1>3. RingType
  BY FirstSlot, RingAssumption DEF Init, RingType
<1>4. main = [at |-> "top", rd |-> 0, left |-> 0, hdr |-> 0]
  BY DEF Init
<1>5. LoopType /\ Bounded
  BY <1>4, FirstSlot, RingAssumption DEF LoopType, Loops, Places, Bounded
<1>6. AppliedType
  BY EmptySeq DEF Init, AppliedType
<1> QED BY <1>1, <1>2, <1>3, <1>5, <1>6, TypeParts

LEMMA ArriveKeepsType == TypeOK /\ Bounded /\ Arrive => TypeOK' /\ Bounded'
<1> SUFFICES ASSUME TypeOK, Bounded, Arrive PROVE TypeOK' /\ Bounded'
  OBVIOUS
<1>1. arrived + 1 \in Datagram /\ arrived' \in 0..Datagrams
  <2>1. arrived \in 0..Datagrams /\ arrived < Datagrams /\ arrived' = arrived + 1
    BY DEF Arrive, TypeOK
  <2> QED BY <2>1, RingAssumption DEF Datagram
<1>2. rx' \in Seq(Datagram)
  BY <1>1, AppendProperties DEF Arrive, TypeOK, Datagram
<1>3. late' \in 0..ScanArrivals
  <2>1. /\ late \in 0..ScanArrivals
        /\ Scanning => late < ScanArrivals
        /\ late' = IF Scanning THEN late + 1 ELSE late
    BY DEF Arrive, TypeOK
  <2> QED BY <2>1, RingAssumption
<1>4. hurried' \in BOOLEAN /\ ir' \in BOOLEAN /\ edge' \in BOOLEAN /\ boot' = boot
  BY DEF Arrive, TypeOK
<1>5. ChipType'
  BY <1>1, <1>2, <1>3, <1>4, TypeParts DEF ChipType
<1>6. UNCHANGED <<isr, ring, wiznet_isr_rx_pending, main, applied>>
  BY DEF Arrive
<1> QED
  BY <1>5, <1>6, TypeParts
     DEF IsrType, RingType, LoopType, AppliedType, FlagType, Bounded, ring

LEMMA HandlerKeepsType == TypeOK /\ Bounded /\ (Setup \/ Handler) => TypeOK' /\ Bounded'
<1> SUFFICES ASSUME TypeOK, Bounded, Setup \/ Handler PROVE TypeOK' /\ Bounded'
  OBVIOUS
<1> USE TypeParts
<1>1. CASE Setup \/ IsrEnter \/ IsrClear \/ IsrLeave
  BY <1>1 DEF Setup, ClearPending, EnableEdge, IsrEnter, IsrClear, RecvCleared, IsrLeave,
     ChipType, IsrType, RingType, LoopType, AppliedType, FlagType, Bounded, ring, chip
<1>2. CASE IsrRead
  <2>1. Tail(rx) \in Seq(Datagram) /\ Head(rx) \in Datagram
    BY <1>2, HeadTailProperties DEF IsrRead, ChipType
  <2>2. ChipType' /\ IsrType'
    BY <1>2, <2>1 DEF IsrRead, ChipType, IsrType
  <2>3. RingType'
    <3>1. CASE UNCHANGED ring
      BY <3>1 DEF RingType, ring
    <3>2. CASE Store(Head(rx))
      <4>1. Head(rx) \in 0..Datagrams /\ 1 \in 0..1
        BY <2>1 DEF Datagram
      <4> QED BY <3>2, <4>1, SlotAfter DEF Store, RingType
    <3> QED BY <1>2, <3>1, <3>2 DEF IsrRead
  <2> QED
    BY <1>2, <2>2, <2>3 DEF IsrRead, LoopType, AppliedType, FlagType, Bounded
<1> QED BY <1>1, <1>2 DEF Handler

LEMMA LoopKeepsType == TypeOK /\ Bounded /\ Loop => TypeOK' /\ Bounded'
<1> SUFFICES ASSUME TypeOK, Bounded, Loop PROVE TypeOK' /\ Bounded'
  OBVIOUS
<1> USE TypeParts
<1>1. main \in Loops /\ 0 \in 0..ScanArrivals /\ 0 \in 0..Datagrams
  BY RingAssumption DEF LoopType
<1>2. main.rd \in SlotId /\ main.left \in Nat /\ main.hdr \in 0..Datagrams
  BY <1>1 DEF Loops
<1>3. CASE DdpLoop \/ ScanEnd
  <2>1. main' \in Loops /\ main'.at \in {"start", "top"}
    <3>1. \E place \in {"start", "top"} : main' = [main EXCEPT !.at = place]
      BY <1>3 DEF DdpLoop, ScanEnd
    <3> QED BY <1>1, <3>1, PlaceField DEF Places
  <2>2. UNCHANGED <<chip, isr, ring, applied>> /\ wiznet_isr_rx_pending' \in BOOLEAN
    BY <1>3 DEF DdpLoop, ScanEnd, FlagAfterScan, FlagType
  <2> QED BY <2>1, <2>2
    DEF ChipType, IsrType, RingType, LoopType, AppliedType, FlagType, Bounded, ring, chip
<1>4. CASE ScanStart
  <2>1. Oldest \in SlotId
    BY SlotAfter DEF Oldest, RingType
  <2>2. main' \in Loops /\ main'.at = "scan"
    <3>1. main' = [main EXCEPT !.at = "scan", !.rd = Oldest, !.left = UDP_RING_COUNT]
      BY <1>4 DEF ScanStart
    <3>2. UDP_RING_COUNT \in 0..UDP_RING_COUNT
      BY RingAssumption
    <3> QED BY ONLY <1>1, <2>1, <3>1, <3>2, SlotField
  <2> QED BY <1>1, <1>4, <2>2
    DEF ScanStart, ChipType, IsrType, RingType, LoopType, AppliedType, FlagType, Bounded, ring
<1>5. CASE ScanSkip
  <2>1. main' \in Loops /\ main'.at = "scan"
    <3>1. main.left > 0 /\ main' = NextSlot
      BY <1>5 DEF ScanSkip
    <3>2. After(main.rd) \in SlotId /\ main.left - 1 \in 0..UDP_RING_COUNT
      BY <1>1, <1>2, <3>1, SlotAfter, RingAssumption DEF Loops
    <3> QED BY <1>1, <3>1, <3>2, SlotField DEF NextSlot
  <2> QED BY <1>5, <2>1
    DEF ScanSkip, ChipType, IsrType, RingType, LoopType, AppliedType, FlagType, Bounded, ring, chip
<1>6. CASE ScanShort
  <2>1. main' \in Loops /\ main'.left = main.left
    BY <1>1, <1>6, PlaceField DEF ScanShort, Places
  <2> QED BY <1>6, <2>1
    DEF ScanShort, ChipType, IsrType, RingType, LoopType, AppliedType, FlagType, Bounded, ring, chip
<1>7. CASE ScanHeader
  <2>1. udp_rx_ring_buf[main.rd] \in 0..Datagrams
    BY <1>2 DEF RingType
  <2>2. main' \in Loops /\ main'.left = main.left
    <3>1. main' = [main EXCEPT !.at = "copy", !.hdr = udp_rx_ring_buf[main.rd]]
      BY <1>7 DEF ScanHeader
    <3>2. "copy" \in Places
      BY DEF Places
    <3> QED BY ONLY <1>1, <2>1, <3>1, <3>2 DEF Loops
  <2> QED BY <1>7, <2>2
    DEF ScanHeader, ChipType, IsrType, RingType, LoopType, AppliedType, FlagType, Bounded, ring, chip
<1>8. CASE CopyPayload
  <2>1. <<main.hdr, udp_rx_ring_buf[main.rd]>> \in (0..Datagrams) \X (0..Datagrams)
    BY <1>2 DEF RingType
  <2>2. AppliedType'
    BY <1>8, <2>1, AppendProperties DEF CopyPayload, AppliedType
  <2>3. main' \in Loops /\ main'.left = main.left
    <3>1. main' = [main EXCEPT !.at = "free", !.hdr = 0]
      BY <1>8 DEF CopyPayload
    <3>2. "free" \in Places
      BY DEF Places
    <3> QED BY ONLY <1>1, <3>1, <3>2 DEF Loops
  <2>4. main.left > 0
    BY <1>8 DEF CopyPayload, MainAt, Bounded
  <2> QED BY <1>8, <2>2, <2>3, <2>4
    DEF CopyPayload, ChipType, IsrType, RingType, LoopType, FlagType, Bounded, ring, chip
<1>9. CASE FreeSlot
  <2>1. main.left > 0
    BY <1>9 DEF FreeSlot, MainAt, Bounded
  <2>2. main' \in Loops /\ main'.at = "scan"
    <3>1. main.left > 0 /\ main' = NextSlot
      BY <1>9, <2>1 DEF FreeSlot
    <3>2. After(main.rd) \in SlotId /\ main.left - 1 \in 0..UDP_RING_COUNT
      BY <1>1, <1>2, <3>1, SlotAfter, RingAssumption DEF Loops
    <3> QED BY <1>1, <3>1, <3>2, SlotField DEF NextSlot
  <2>3. RingType'
    BY <1>2, <1>9 DEF FreeSlot, RingType
  <2> QED BY <1>9, <2>2, <2>3
    DEF FreeSlot, ChipType, IsrType, LoopType, AppliedType, FlagType, Bounded, chip
<1> QED BY <1>3, <1>4, <1>5, <1>6, <1>7, <1>8, <1>9 DEF Loop

\* The index and the scan stay in the ring, and a slot is only looked at while
\* the scan has slots left, for a ring of any size.
THEOREM UdpTypeCorrect == Spec => []TypeOK
<1> DEFINE Inv == TypeOK /\ Bounded
<1>1. Init => Inv
  BY TypeInit
<1>2. Inv /\ [Next]_vars => Inv'
  <2>1. ASSUME Inv, UNCHANGED vars PROVE Inv'
    BY <2>1, ZenonT(60) DEF vars, chip, ring, TypeOK, Bounded
  <2> QED BY <2>1, ArriveKeepsType, HandlerKeepsType, LoopKeepsType DEF Next
<1> QED BY <1>1, <1>2, PTL DEF Spec

-----------------------------------------------------------------------------
(* The interrupt line. *)

\* Until the edge is enabled nothing has come; afterwards a low line is one whose
\* fall is latched or whose handler has still to clear it.
LineServed ==
  /\ ir \in BOOLEAN
  /\ boot # "ready" => ir = FALSE /\ ~edge /\ isr = "off"
  /\ NeverDeaf

LEMMA LineNext == ~EarlyDatagram /\ LineServed /\ [Next]_vars => LineServed'
<1> SUFFICES ASSUME ~EarlyDatagram, LineServed, [Next]_vars PROVE LineServed'
  OBVIOUS
<1> USE DEF LineServed, NeverDeaf
<1>1. CASE Arrive
  BY <1>1 DEF Arrive
<1>2. CASE Setup
  <2>1. boot # "ready" /\ (boot' = "ready" => boot = "cleared")
    BY <1>2 DEF Setup, ClearPending, EnableEdge
  <2>2. ir' = FALSE /\ ~edge' /\ isr' = "off"
    <3>1. ir = FALSE /\ ~edge /\ isr = "off"
      BY <2>1
    <3>2. ir' = FALSE \/ ir' = ir
      BY <1>2 DEF Setup, ClearPending, EnableEdge
    <3>3. (edge' = FALSE \/ edge' = edge) /\ isr' = isr
      BY <1>2 DEF Setup, ClearPending, EnableEdge
    <3>4. ~edge' /\ isr' = "off"
      BY ONLY <3>1, <3>3
    <3>5. ir' = FALSE
      BY ONLY <3>1, <3>2
    <3> QED BY ONLY <3>4, <3>5
  <2> QED BY <2>2
<1>3. CASE Handler
  <2>1. CASE IsrEnter
    BY <2>1 DEF IsrEnter
  <2>2. CASE IsrRead
    BY <2>2 DEF IsrRead
  <2>3. CASE IsrClear
    <3>1. ir' = FALSE /\ boot' = boot /\ boot = "ready"
      BY <2>3 DEF IsrClear, RecvCleared
    <3> QED BY <3>1
  <2>4. CASE IsrLeave
    BY <2>4 DEF IsrLeave, chip
  <2> QED BY <1>3, <2>1, <2>2, <2>3, <2>4 DEF Handler
<1>4. CASE Loop
  <2>1. UNCHANGED <<boot, ir, edge, isr>>
    BY <1>4 DEF Loop, DdpLoop, ScanStart, ScanSkip, ScanShort, ScanHeader, CopyPayload,
       FreeSlot, ScanEnd, chip
  <2> QED BY <2>1
<1>5. CASE UNCHANGED vars
  BY <1>5 DEF vars, chip
<1> QED BY <1>1, <1>2, <1>3, <1>4, <1>5 DEF Next

\* If no datagram comes during set-up, INTn is never left low with nobody to serve
\* it, whenever datagrams come and however long the main loop takes.
THEOREM ReceiverHears ==
  ASSUME ~EarlyDatagram
  PROVE  Spec => []NeverDeaf
<1>1. Init => LineServed
  BY DEF Init, LineServed, NeverDeaf
<1>2. LineServed => NeverDeaf
  BY DEF LineServed
<1> QED BY <1>1, <1>2, LineNext, PTL DEF Spec

-----------------------------------------------------------------------------
(* Order. *)

\* How many slots were written after this one, if the index is x; the slot at
\* the index itself is the oldest.
Age(x, i) == IF i < x THEN x - 1 - i ELSE x - 1 - i + UDP_RING_COUNT
SlotAge(i) == Age(udp_ring_idx, i)

Holds(i) == udp_rx_buf_len[i] # 0

\* The slots in use are the ones written last, in the order of arrival, and hold
\* nothing that is empty.
RingInOrder ==
  /\ \A i, j \in SlotId : SlotAge(i) < SlotAge(j) /\ Holds(j) =>
       Holds(i) /\ udp_rx_ring_buf[j] < udp_rx_ring_buf[i]
  /\ \A i \in SlotId : Holds(i) => udp_rx_ring_buf[i] <= arrived /\ udp_rx_ring_buf[i] \notin Empty

\* What waits in the chip came later.
ChipInOrder ==
  /\ \A k \in DOMAIN rx : rx[k] <= arrived
  /\ \A k, l \in DOMAIN rx : k < l => rx[k] < rx[l]
  /\ \A k \in DOMAIN rx, i \in SlotId : Holds(i) => udp_rx_ring_buf[i] < rx[k]

\* The slot that is copied or freed is in use, and still the one whose header was
\* read: its payload is to be copied, or has been.
SlotKept ==
  /\ main.at \in {"copy", "free"} => Holds(main.rd)
  /\ main.at = "copy" => main.hdr = udp_rx_ring_buf[main.rd] /\ main.hdr \notin Short
  /\ main.at = "free" => udp_rx_ring_buf[main.rd] \in Short \union Shown

\* What was shown came before what is in hand, but for a slot still to be freed.
ShownFirst ==
  \A n \in DOMAIN applied :
    /\ applied[n][1] <= arrived
    /\ \A k \in DOMAIN rx : applied[n][1] < rx[k]
    /\ \A i \in SlotId : Holds(i) /\ ~(main.at = "free" /\ i = main.rd) =>
         applied[n][1] < udp_rx_ring_buf[i]

\* Where the scan is, if the handler has not stored anything since it began ...
ScanAlone ==
  /\ IF main.left = 1 THEN main.rd = udp_ring_idx ELSE SlotAge(main.rd) = main.left - 2
  /\ \A i \in SlotId : Holds(i) => SlotAge(i) + 2 <= main.left
  /\ late = 0 => ~edge /\ isr # "read"
  /\ ~(edge /\ isr = "read")

\* ... and if it has stored the datagram that came: no other comes during the scan.
ScanOvertaken ==
  /\ SlotAge(main.rd) = main.left - 1
  /\ \A i \in SlotId : Holds(i) => SlotAge(i) + 1 <= main.left
  /\ late = 1 /\ ~edge /\ isr # "read"

ScanPlace == Scanning /\ main.left > 0 => ScanAlone \/ ScanOvertaken

Room == Waiting <= Backlog

Order == RingInOrder /\ ChipInOrder /\ SlotKept /\ ShownFirst /\ ScanPlace /\ Room

\* The receiver keeps up: fewer datagrams wait than the ring has slots, and no more
\* than one comes while the ring is scanned.
KeepsUp == Backlog < UDP_RING_COUNT /\ ScanArrivals <= 1

LEMMA AfterValue ==
  ASSUME NEW i \in SlotId
  PROVE  After(i) = IF i = UDP_RING_COUNT - 1 THEN 0 ELSE i + 1
<1>1. UDP_RING_COUNT \in Nat /\ UDP_RING_COUNT > 0 /\ i \in Nat /\ i < UDP_RING_COUNT
  BY RingAssumption DEF SlotId
<1>2. CASE i = UDP_RING_COUNT - 1
  <2>1. UDP_RING_COUNT % UDP_RING_COUNT = 0
    BY <1>1
  <2> QED BY <1>1, <1>2, <2>1 DEF After
<1>3. CASE i # UDP_RING_COUNT - 1
  <2>1. i + 1 \in Nat /\ i + 1 < UDP_RING_COUNT
    BY <1>1, <1>3
  <2>2. (i + 1) % UDP_RING_COUNT = i + 1
    BY <1>1, <2>1
  <2> QED BY <1>3, <2>2 DEF After
<1> QED BY <1>2, <1>3

LEMMA AgeRange ==
  ASSUME NEW x \in SlotId, NEW i \in SlotId
  PROVE  /\ Age(x, i) \in 0 .. UDP_RING_COUNT - 1
         /\ Age(x, i) = UDP_RING_COUNT - 1 <=> i = x
BY RingAssumption DEF SlotId, Age

LEMMA AgeTells ==
  ASSUME NEW x \in SlotId, NEW i \in SlotId, NEW j \in SlotId, Age(x, i) = Age(x, j)
  PROVE  i = j
BY RingAssumption DEF SlotId, Age

\* The next slot is one younger, the slot after the youngest is the oldest; a slot
\* that is written becomes the youngest.
LEMMA AgeNext ==
  ASSUME NEW x \in SlotId, NEW i \in SlotId
  PROVE  /\ Age(x, After(i)) = IF Age(x, i) = 0 THEN UDP_RING_COUNT - 1 ELSE Age(x, i) - 1
         /\ Age(After(x), i) = IF i = x THEN 0 ELSE Age(x, i) + 1
BY RingAssumption, AfterValue DEF SlotId, Age

LEMMA UsedFinite ==
  /\ IsFiniteSet(SlotId) /\ Cardinality(SlotId) = UDP_RING_COUNT
  /\ IsFiniteSet(Used) /\ Cardinality(Used) \in Nat
<1>1. 0 \in Int /\ UDP_RING_COUNT - 1 \in Int /\ ~(0 > UDP_RING_COUNT - 1)
      /\ UDP_RING_COUNT - 1 - 0 + 1 = UDP_RING_COUNT
  BY RingAssumption
<1>2. IsFiniteSet(SlotId) /\ Cardinality(SlotId) = UDP_RING_COUNT
  BY <1>1, FS_Interval DEF SlotId
<1>3. Used \in SUBSET SlotId
  BY DEF Used
<1> QED BY <1>2, <1>3, FS_Subset, FS_CardinalityType

\* The slot that is written next is free.
LEMMA OldestFree ==
  ASSUME KeepsUp, TypeOK, Order
  PROVE  ~Holds(udp_ring_idx)
<1> SUFFICES ASSUME Holds(udp_ring_idx) PROVE FALSE
  OBVIOUS
<1>1. udp_ring_idx \in SlotId
  BY DEF TypeOK
<1>2. Used = SlotId
  <2>1. ASSUME NEW i \in SlotId PROVE Holds(i)
    <3>1. i = udp_ring_idx \/ SlotAge(i) < SlotAge(udp_ring_idx)
      <4>1. /\ Age(udp_ring_idx, i) \in 0 .. UDP_RING_COUNT - 1
            /\ Age(udp_ring_idx, i) = UDP_RING_COUNT - 1 <=> i = udp_ring_idx
            /\ Age(udp_ring_idx, udp_ring_idx) = UDP_RING_COUNT - 1
        BY <1>1, AgeRange
      <4> QED BY ONLY <4>1, RingAssumption DEF SlotAge
    <3> QED BY <1>1, <3>1 DEF Order, RingInOrder
  <2> QED BY <2>1 DEF Used, Holds
<1>3. Len(rx) \in Nat
  BY LenProperties DEF TypeOK
<1> QED BY <1>2, <1>3, UsedFinite, RingAssumption DEF KeepsUp, Order, Room, Waiting

LEMMA OrderInit == Init => Order /\ InOrder
<1> SUFFICES ASSUME Init PROVE Order /\ InOrder
  OBVIOUS
<1>1. rx = <<>> /\ applied = <<>> /\ DOMAIN rx = {} /\ DOMAIN applied = {}
  BY DEF Init
<1>2. Used = {} /\ \A i \in SlotId : ~Holds(i)
  BY DEF Init, Used, Holds
<1>3. RingInOrder /\ ChipInOrder /\ ShownFirst /\ InOrder
  BY <1>1, <1>2 DEF RingInOrder, ChipInOrder, ShownFirst, InOrder
<1>4. main.at = "top"
  BY DEF Init
<1>5. SlotKept /\ ScanPlace
  BY <1>4 DEF SlotKept, ScanPlace, Scanning
<1>6. Room
  BY <1>1, <1>2, FS_EmptySet, RingAssumption DEF Room, Waiting
<1> QED BY <1>3, <1>5, <1>6 DEF Order

\* Whatever is looked at in order is a number.
LEMMA NumbersNat ==
  ASSUME TypeOK
  PROVE  /\ \A i \in SlotId : udp_rx_ring_buf[i] \in Nat
         /\ \A k \in DOMAIN rx : rx[k] \in Nat
         /\ \A n \in DOMAIN applied : applied[n][1] \in Nat
<1>1. udp_rx_ring_buf \in [SlotId -> 0..Datagrams]
  BY DEF TypeOK
<1>2. \A k \in DOMAIN rx : rx[k] \in Datagram
  BY ElementOfSeq, LenProperties DEF TypeOK, Datagram
<1>3. \A n \in DOMAIN applied : applied[n] \in (0..Datagrams) \X (0..Datagrams)
  BY ElementOfSeq, LenProperties DEF TypeOK
<1>4. \A n \in DOMAIN applied : applied[n][1] \in 0..Datagrams
  BY <1>3
<1> QED BY <1>1, <1>2, <1>4, RingAssumption DEF Datagram

LEMMA LoopFields ==
  ASSUME TypeOK
  PROVE  main \in Loops /\ main.rd \in SlotId /\ main.left \in Nat /\ main.left <= UDP_RING_COUNT
<1>1. main \in Loops
  BY TypeParts DEF LoopType
<1>2. main.rd \in SlotId /\ main.left \in 0..UDP_RING_COUNT
  BY <1>1 DEF Loops
<1> QED BY <1>1, <1>2, RingAssumption

\* Datagrams, ring and loop are as they were, and no more interrupts wait.
LEMMA QuietOrder ==
  ASSUME TypeOK, Order, UNCHANGED <<arrived, rx, ring, main, applied, late>>,
         \/ UNCHANGED isr /\ (edge' => edge)
         \/ isr' # "read" /\ UNCHANGED edge
         \/ IsrEnter
  PROVE  Order'
<1> USE DEF Order
<1>1. RingInOrder'
  BY DEF RingInOrder, SlotAge, Holds, ring
<1>2. ChipInOrder'
  BY DEF ChipInOrder, Holds, ring
<1>3. SlotKept'
  BY DEF SlotKept, Holds, ring, Shown
<1>4. ShownFirst'
  BY DEF ShownFirst, Holds, ring
<1>5. ScanPlace'
  <2>1. edge \in BOOLEAN
    BY DEF TypeOK
  <2>2. Scanning' = Scanning /\ main' = main /\ late' = late
    BY DEF Scanning
  <2>3. ASSUME ScanAlone PROVE ScanAlone'
    <3>1. (late = 0 => ~edge' /\ isr' # "read") /\ ~(edge' /\ isr' = "read")
      BY <2>1, <2>3 DEF ScanAlone, IsrEnter
    <3> QED BY <2>2, <2>3, <3>1 DEF ScanAlone, SlotAge, Holds, ring
  <2>4. ASSUME ScanOvertaken PROVE ScanOvertaken'
    <3>1. ~edge' /\ isr' # "read"
      BY <2>1, <2>4 DEF ScanOvertaken, IsrEnter
    <3> QED BY <2>2, <2>4, <3>1 DEF ScanOvertaken, SlotAge, Holds, ring
  <2> QED BY <2>2, <2>3, <2>4 DEF ScanPlace
<1>6. Room'
  BY DEF Room, Waiting, Used, ring
<1> QED BY <1>1, <1>2, <1>3, <1>4, <1>5, <1>6

LEMMA ArriveOrder ==
  ASSUME KeepsUp, TypeOK, Order, Arrive
  PROVE  Order'
<1> USE DEF Order
<1>1. /\ rx \in Seq(Datagram) /\ arrived \in 0..Datagrams /\ arrived < Datagrams
      /\ arrived' = arrived + 1 /\ rx' = Append(rx, arrived + 1)
      /\ UNCHANGED <<udp_rx_ring_buf, udp_rx_buf_len, udp_ring_idx, main, applied, isr>>
  BY DEF TypeOK, Arrive, ring, Datagram
<1>2. arrived \in Nat /\ arrived + 1 \in Datagram
  BY <1>1, RingAssumption DEF Datagram
<1>3. /\ Len(rx) \in Nat /\ Len(rx') = Len(rx) + 1
      /\ DOMAIN rx = 1..Len(rx) /\ DOMAIN rx' = 1..Len(rx')
      /\ \A k \in 1..Len(rx) : rx'[k] = rx[k] /\ rx[k] \in Datagram
      /\ rx'[Len(rx) + 1] = arrived + 1
  BY <1>1, <1>2, AppendProperties, LenProperties, ElementOfSeq
<1>4. \A i \in SlotId : udp_rx_ring_buf[i] \in Nat
  BY NumbersNat
<1>5. RingInOrder'
  BY <1>1, <1>2, <1>4 DEF RingInOrder, SlotAge, Holds
<1>6. ChipInOrder'
  <2>1. \A k \in DOMAIN rx' : \/ /\ k \in DOMAIN rx /\ rx'[k] = rx[k]
                                 /\ rx[k] \in Nat
                              \/ k = Len(rx) + 1 /\ rx'[k] = arrived + 1
    <3> TAKE k \in DOMAIN rx'
    <3>1. CASE k \in 1..Len(rx)
      <4>1. k \in DOMAIN rx /\ rx'[k] = rx[k]
        BY <1>3, <3>1
      <4> QED BY <4>1, NumbersNat
    <3>2. CASE k = Len(rx) + 1
      BY <1>3, <3>2
    <3> QED BY <1>3, <3>1, <3>2
  <2>2. \A k \in DOMAIN rx' : rx'[k] <= arrived'
    BY <1>1, <1>2, <2>1 DEF ChipInOrder
  <2>3. \A k, l \in DOMAIN rx' : k < l => rx'[k] < rx'[l]
    BY <1>2, <1>3, <2>1 DEF ChipInOrder
  <2>4. \A k \in DOMAIN rx', i \in SlotId : Holds(i) => udp_rx_ring_buf[i] < rx'[k]
    <3>1. \A i \in SlotId : Holds(i) => udp_rx_ring_buf[i] < arrived + 1
      BY <1>2, <1>4 DEF RingInOrder
    <3> QED BY <2>1, <3>1 DEF ChipInOrder
  <2> QED BY <1>1, <2>2, <2>3, <2>4 DEF ChipInOrder, Holds
<1>7. SlotKept'
  BY <1>1 DEF SlotKept, Holds, Shown
<1>8. ShownFirst'
  <2>1. \A n \in DOMAIN applied : applied[n][1] \in Nat
    BY NumbersNat
  <2>2. \A n \in DOMAIN applied : applied[n][1] <= arrived' /\ applied[n][1] < arrived + 1
    BY <1>1, <1>2, <2>1 DEF ShownFirst
  <2>3. \A n \in DOMAIN applied, k \in DOMAIN rx' : applied[n][1] < rx'[k]
    BY <1>3, <2>2 DEF ShownFirst
  <2> QED BY <1>1, <2>2, <2>3 DEF ShownFirst, Holds
<1>9. ScanPlace'
  <2> SUFFICES ASSUME Scanning, main.left > 0 PROVE ScanAlone' \/ ScanOvertaken'
    BY <1>1 DEF ScanPlace, Scanning
  <2>1. late \in Nat /\ late < ScanArrivals /\ late' = late + 1
    <3>1. late \in 0..ScanArrivals
      BY DEF TypeOK
    <3>2. late < ScanArrivals /\ late' = late + 1
      BY DEF Arrive
    <3> QED BY ONLY <3>1, <3>2, RingAssumption
  <2>2. late = 0 /\ late' = 1
    BY <2>1, RingAssumption DEF KeepsUp
  <2>3. ScanAlone /\ isr # "read"
    BY <2>2 DEF ScanPlace, ScanOvertaken, ScanAlone
  <2> QED BY <1>1, <2>2, <2>3 DEF ScanAlone, SlotAge, Holds
<1>10. Room'
  <2>1. Used' = Used /\ Len(rx) + Cardinality(Used) < Backlog
    BY <1>1 DEF Used, Arrive, Waiting
  <2> QED BY <1>3, <2>1, UsedFinite, RingAssumption DEF Room, Waiting
<1> QED BY <1>5, <1>6, <1>7, <1>8, <1>9, <1>10

\* Reading takes the oldest datagram from the chip; the rest keeps its order.
LEMMA ReadOldest ==
  ASSUME TypeOK, Order, IsrRead
  PROVE  /\ Len(rx) \in Nat /\ Len(rx) > 0 /\ Len(rx') = Len(rx) - 1
         /\ DOMAIN rx = 1..Len(rx) /\ DOMAIN rx' = 1..(Len(rx) - 1)
         /\ Head(rx) = rx[1] /\ \A k \in DOMAIN rx' : k + 1 \in DOMAIN rx /\ rx'[k] = rx[k + 1]
         /\ \A k \in DOMAIN rx' : Head(rx) < rx'[k]
         /\ Head(rx) \in Datagram /\ Head(rx) <= arrived
         /\ ChipInOrder /\ \A i \in SlotId : Holds(i) => udp_rx_ring_buf[i] < Head(rx)
<1>1. rx \in Seq(Datagram) /\ rx # <<>> /\ rx' = Tail(rx)
  BY DEF IsrRead, TypeOK, Datagram
<1>2. /\ Len(rx) \in Nat /\ Len(rx) > 0 /\ DOMAIN rx = 1..Len(rx)
      /\ Head(rx) = rx[1] /\ Head(rx) \in Datagram
  BY <1>1, LenProperties, EmptySeq, HeadTailProperties
<1>3. Len(rx') = Len(rx) - 1 /\ rx' \in Seq(Datagram) /\ \A k \in 1..Len(rx') : rx'[k] = rx[k + 1]
  BY <1>1, HeadTailProperties
<1>4. DOMAIN rx' = 1..(Len(rx) - 1)
  BY <1>3, LenProperties
<1>5. \A k \in DOMAIN rx' : k + 1 \in DOMAIN rx /\ 1 < k + 1 /\ rx'[k] = rx[k + 1]
  BY <1>2, <1>3, <1>4
<1>6. ChipInOrder /\ 1 \in DOMAIN rx
  BY <1>2 DEF Order
<1>7. \A k \in DOMAIN rx' : rx[1] < rx'[k]
  BY <1>5, <1>6 DEF ChipInOrder
<1>8. rx[1] <= arrived /\ \A i \in SlotId : Holds(i) => udp_rx_ring_buf[i] < rx[1]
  BY <1>6 DEF ChipInOrder
<1> QED BY <1>2, <1>3, <1>4, <1>5, <1>6, <1>7, <1>8

\* An empty datagram leaves the ring alone.
LEMMA EmptyOrder ==
  ASSUME TypeOK, Order, IsrRead, UNCHANGED ring
  PROVE  Order'
<1>1. /\ UNCHANGED <<arrived, udp_rx_ring_buf, udp_rx_buf_len, udp_ring_idx, edge, late, main,
                     applied>>
      /\ isr' = "clear"
  BY DEF IsrRead, ring
<1>2. RingInOrder'
  BY <1>1 DEF Order, RingInOrder, SlotAge, Holds
<1>3. ChipInOrder'
  BY <1>1, ReadOldest DEF ChipInOrder, Holds
<1>4. SlotKept' /\ ShownFirst'
  BY <1>1, ReadOldest DEF Order, SlotKept, ShownFirst, Holds, Shown
<1>5. ScanPlace'
  <2>1. /\ ScanAlone => ScanAlone'
        /\ ScanOvertaken => ScanOvertaken'
    BY <1>1 DEF ScanAlone, ScanOvertaken, SlotAge, Holds
  <2> QED BY <1>1, <2>1 DEF Order, ScanPlace, Scanning
<1>6. Room'
  <2>1. Used' = Used
    BY <1>1 DEF Used
  <2> QED BY <2>1, ReadOldest, UsedFinite, RingAssumption DEF Order, Room, Waiting
<1> QED BY <1>2, <1>3, <1>4, <1>5, <1>6 DEF Order

\* What a datagram with payload does to the ring.
LEMMA StoreAfter ==
  ASSUME TypeOK, NEW d, Store(d)
  PROVE  /\ udp_ring_idx \in SlotId /\ udp_ring_idx' \in SlotId
         /\ \A i \in SlotId :
              /\ Age(udp_ring_idx', i) = IF i = udp_ring_idx THEN 0 ELSE SlotAge(i) + 1
              /\ udp_rx_ring_buf'[i] = IF i = udp_ring_idx THEN d ELSE udp_rx_ring_buf[i]
              /\ udp_rx_buf_len'[i] # 0 <=> i = udp_ring_idx \/ Holds(i)
<1>1. /\ udp_ring_idx \in SlotId /\ udp_ring_idx' = After(udp_ring_idx)
      /\ udp_rx_ring_buf \in [SlotId -> 0..Datagrams] /\ udp_rx_buf_len \in [SlotId -> 0..1]
  BY DEF TypeOK, Store
<1>2. \A i \in SlotId : Age(udp_ring_idx', i) = IF i = udp_ring_idx THEN 0 ELSE SlotAge(i) + 1
  BY <1>1, AgeNext DEF SlotAge
<1>3. \A i \in SlotId :
         /\ udp_rx_ring_buf'[i] = IF i = udp_ring_idx THEN d ELSE udp_rx_ring_buf[i]
         /\ udp_rx_buf_len'[i] # 0 <=> i = udp_ring_idx \/ Holds(i)
  BY <1>1 DEF Store, Holds
<1> QED BY <1>1, <1>2, <1>3, SlotAfter

LEMMA StoreOrder ==
  ASSUME KeepsUp, TypeOK, Order, IsrRead, Store(Head(rx)), Head(rx) \notin Empty,
         Bounded
  PROVE  Order'
<1> DEFINE x == udp_ring_idx
           d == Head(rx)
<1> USE DEF Order
<1>1. UNCHANGED <<arrived, edge, late, main, applied>> /\ isr' = "clear" /\ isr = "read"
  BY DEF IsrRead
<1>2. /\ x \in SlotId
      /\ \A i \in SlotId :
           /\ (SlotAge(i))' = IF i = x THEN 0 ELSE SlotAge(i) + 1
           /\ udp_rx_ring_buf'[i] = IF i = x THEN d ELSE udp_rx_ring_buf[i]
           /\ (Holds(i))' <=> i = x \/ Holds(i)
  BY StoreAfter DEF SlotAge, Holds
<1>3. /\ d \in Nat /\ d <= arrived
      /\ \A i \in SlotId : Holds(i) => udp_rx_ring_buf[i] < d
      /\ \A k \in DOMAIN rx' : d < rx'[k]
  BY ReadOldest DEF Datagram
<1>4. ~Holds(x)
  BY OldestFree
<1>5. \A i \in SlotId : SlotAge(i) \in Nat
  BY <1>2, AgeRange, RingAssumption DEF SlotAge
<1>6. RingInOrder'
  <2>1. ASSUME NEW i \in SlotId, NEW j \in SlotId, (SlotAge(i))' < (SlotAge(j))', (Holds(j))'
        PROVE  (Holds(i))' /\ udp_rx_ring_buf'[j] < udp_rx_ring_buf'[i]
    <3>1. j # x /\ Holds(j)
      BY <1>2, <1>5, <2>1
    <3>2. CASE i = x
      BY <1>2, <1>3, <3>1, <3>2
    <3>3. CASE i # x
      <4>1. SlotAge(i) < SlotAge(j)
        BY <1>2, <1>5, <2>1, <3>1, <3>3
      <4> QED BY <1>2, <3>1, <3>3, <4>1 DEF RingInOrder
    <3> QED BY <3>2, <3>3
  <2>2. \A i \in SlotId : (Holds(i))' => udp_rx_ring_buf'[i] <= arrived' /\ udp_rx_ring_buf'[i] \notin Empty
    BY <1>1, <1>2, <1>3 DEF RingInOrder
  <2> QED BY <2>1, <2>2 DEF RingInOrder
<1>7. ChipInOrder'
  <2>1. \A k \in DOMAIN rx', i \in SlotId : (Holds(i))' => udp_rx_ring_buf'[i] < rx'[k]
    BY <1>2, <1>3, ReadOldest DEF ChipInOrder
  <2>2. \A k \in DOMAIN rx' : rx'[k] <= arrived'
    BY <1>1, ReadOldest DEF ChipInOrder
  <2>3. \A k, l \in DOMAIN rx' : k < l => rx'[k] < rx'[l]
    BY ReadOldest DEF ChipInOrder
  <2> QED BY <2>1, <2>2, <2>3 DEF ChipInOrder
<1>8. SlotKept'
  <2>1. main.rd \in SlotId /\ Shown' = Shown
    BY <1>1, LoopFields DEF Shown
  <2>2. Holds(main.rd) => main.rd # x
    BY <1>4
  <2>3. main.at \in {"copy", "free"} =>
          (Holds(main.rd))' /\ udp_rx_ring_buf'[main.rd] = udp_rx_ring_buf[main.rd]
    BY <1>1, <1>2, <2>1, <2>2 DEF SlotKept
  <2> QED BY <1>1, <2>1, <2>3 DEF SlotKept
<1>9. ShownFirst'
  <2>1. \A n \in DOMAIN applied : applied[n][1] < d
    <3>1. 1 \in DOMAIN rx /\ d = rx[1]
      BY ReadOldest
    <3> QED BY <3>1 DEF ShownFirst
  <2>2. \A n \in DOMAIN applied, k \in DOMAIN rx' : applied[n][1] < rx'[k]
    BY ReadOldest DEF ShownFirst
  <2>3. \A n \in DOMAIN applied, i \in SlotId :
           (Holds(i))' /\ ~(main.at = "free" /\ i = main.rd) => applied[n][1] < udp_rx_ring_buf'[i]
    BY <1>2, <2>1 DEF ShownFirst
  <2> QED BY <1>1, <2>2, <2>3 DEF ShownFirst
<1>10. ScanPlace'
  <2> SUFFICES ASSUME Scanning, main.left > 0 PROVE ScanOvertaken'
    BY <1>1 DEF ScanPlace, Scanning
  <2>1. ScanAlone /\ ~edge /\ late = 1 /\ main.rd \in SlotId /\ main.left \in Nat
    <3>1. late \in 0..ScanArrivals
      BY DEF TypeOK
    <3>2. ScanAlone
      BY <1>1 DEF ScanPlace, ScanOvertaken
    <3>3. late # 0 /\ edge \in BOOLEAN /\ ~edge
      BY <1>1, <3>2 DEF ScanAlone, TypeOK
    <3>4. late = 1
      BY <3>1, <3>3, RingAssumption DEF KeepsUp
    <3> QED BY <3>2, <3>3, <3>4, LoopFields
  <2>2. (SlotAge(main.rd))' = main.left - 1
    <3>1. CASE main.left = 1
      BY <1>1, <1>2, <2>1, <3>1 DEF ScanAlone
    <3>2. CASE main.left # 1
      <4>1. SlotAge(main.rd) = main.left - 2
        BY <2>1, <3>2 DEF ScanAlone
      <4>2. main.rd # x
        BY <1>2, <2>1, <4>1, LoopFields, AgeRange, RingAssumption DEF SlotAge
      <4> QED BY <1>1, <1>2, <2>1, <4>1, <4>2
    <3> QED BY <3>1, <3>2
  <2>3. \A i \in SlotId : (Holds(i))' => (SlotAge(i))' + 1 <= main.left
    BY <1>2, <1>5, <2>1 DEF ScanAlone
  <2> QED BY <1>1, <2>1, <2>2, <2>3 DEF ScanOvertaken
<1>11. Room'
  <2>1. Used' = Used \union {x}
    BY <1>2 DEF Used, Holds
  <2>2. Cardinality(Used') <= Cardinality(Used) + 1 /\ Cardinality(Used') \in Nat
    <3>1. IsFiniteSet(Used) /\ Cardinality(Used) \in Nat
      BY UsedFinite
    <3>2. Cardinality(Used') = IF x \in Used THEN Cardinality(Used) ELSE Cardinality(Used) + 1
      BY <2>1, <3>1, FS_AddElement
    <3> QED BY <3>1, <3>2
  <2> QED BY <2>2, ReadOldest, UsedFinite, RingAssumption DEF Room, Waiting
<1> QED BY <1>6, <1>7, <1>8, <1>9, <1>10, <1>11

\* The slot the scan is at, if in use, holds what came first of all in the ring.
LEMMA OldestRead ==
  ASSUME TypeOK, Order, Scanning, main.left > 0, Holds(main.rd),
         NEW i \in SlotId, Holds(i), i # main.rd
  PROVE  udp_rx_ring_buf[main.rd] < udp_rx_ring_buf[i]
<1>1. udp_ring_idx \in SlotId /\ main.rd \in SlotId /\ main.left \in Nat
  BY LoopFields DEF TypeOK
<1>2. SlotAge(i) \in Nat /\ SlotAge(main.rd) \in Nat /\ SlotAge(i) # SlotAge(main.rd)
  BY <1>1, AgeRange, AgeTells, RingAssumption DEF SlotAge
<1>3. SlotAge(i) < SlotAge(main.rd)
  <2>1. CASE ScanAlone
    <3>1. SlotAge(i) + 2 <= main.left
      BY <2>1 DEF ScanAlone
    <3>2. SlotAge(main.rd) = main.left - 2
      BY <1>1, <1>2, <2>1, <3>1 DEF ScanAlone
    <3> QED BY <1>1, <1>2, <3>1, <3>2
  <2>2. CASE ScanOvertaken
    BY <1>1, <1>2, <2>2 DEF ScanOvertaken
  <2> QED BY <2>1, <2>2 DEF Order, ScanPlace
<1> QED BY <1>1, <1>3 DEF Order, RingInOrder

\* The scan goes on once its slot is free.
LEMMA NextPlace ==
  ASSUME TypeOK, ScanPlace, Scanning, main.left > 0, main' = NextSlot,
         UNCHANGED <<udp_ring_idx, edge, isr, late>>,
         \A i \in SlotId : (Holds(i))' => Holds(i) /\ i # main.rd
  PROVE  ScanPlace'
<1>1. /\ udp_ring_idx \in SlotId /\ main.rd \in SlotId
      /\ main.left \in Nat /\ main.left <= UDP_RING_COUNT
  BY LoopFields DEF TypeOK
<1>2. main'.rd = After(main.rd) /\ main'.left = main.left - 1 /\ main'.rd \in SlotId
  <2>1. main \in Loops
    BY LoopFields
  <2> QED BY <1>1, <2>1, SlotAfter DEF Loops, NextSlot
<1>3. \A i \in SlotId : (SlotAge(i))' = SlotAge(i) /\ SlotAge(i) \in Nat
  BY <1>1, AgeRange, RingAssumption DEF SlotAge
<1>4. \A i \in SlotId : (Holds(i))' => SlotAge(i) # SlotAge(main.rd)
  BY <1>1, AgeTells DEF SlotAge
<1>5. SlotAge(After(main.rd)) =
        IF SlotAge(main.rd) = 0 THEN UDP_RING_COUNT - 1 ELSE SlotAge(main.rd) - 1
  BY <1>1, AgeNext DEF SlotAge
<1>6. CASE main.left = 1
  BY <1>2, <1>6 DEF ScanPlace
<1>7. CASE main.left > 1 /\ ScanAlone
  <2>1. SlotAge(main.rd) = main.left - 2
    BY <1>1, <1>7 DEF ScanAlone
  <2>2. IF main'.left = 1 THEN main'.rd = udp_ring_idx ELSE SlotAge(main'.rd) = main'.left - 2
    <3>1. CASE main.left = 2
      <4>1. SlotAge(main'.rd) = UDP_RING_COUNT - 1
        BY <1>2, <1>5, <2>1, <3>1
      <4> QED BY <1>1, <1>2, <3>1, <4>1, AgeRange DEF SlotAge
    <3>2. CASE main.left # 2
      <4>1. SlotAge(main'.rd) = main.left - 3
        BY <1>1, <1>2, <1>5, <1>7, <2>1, <3>2
      <4> QED BY <1>1, <1>2, <3>2, <4>1
    <3> QED BY <3>1, <3>2
  <2>3. \A i \in SlotId : (Holds(i))' => SlotAge(i) + 2 <= main'.left
    <3> SUFFICES ASSUME NEW i \in SlotId, (Holds(i))' PROVE SlotAge(i) + 2 <= main'.left
      OBVIOUS
    <3>1. SlotAge(i) + 2 <= main.left /\ SlotAge(i) # main.left - 2 /\ SlotAge(i) \in Nat
      BY <1>3, <1>4, <1>7, <2>1 DEF ScanAlone
    <3> QED BY ONLY <1>1, <1>2, <3>1
  <2>4. ScanAlone'
    <3>1. SlotAge(main'.rd) = (SlotAge(main.rd))'
      BY DEF SlotAge
    <3> QED BY <1>3, <1>7, <2>2, <2>3, <3>1 DEF ScanAlone
  <2> QED BY <2>4 DEF ScanPlace
<1>8. CASE main.left > 1 /\ ScanOvertaken
  <2>1. SlotAge(main.rd) = main.left - 1 /\ SlotAge(main'.rd) = main'.left - 1
    BY <1>1, <1>2, <1>5, <1>8 DEF ScanOvertaken
  <2>2. \A i \in SlotId : (Holds(i))' => SlotAge(i) + 1 <= main'.left
    <3> SUFFICES ASSUME NEW i \in SlotId, (Holds(i))' PROVE SlotAge(i) + 1 <= main'.left
      OBVIOUS
    <3>1. SlotAge(i) + 1 <= main.left /\ SlotAge(i) # main.left - 1 /\ SlotAge(i) \in Nat
      BY <1>3, <1>4, <1>8, <2>1 DEF ScanOvertaken
    <3> QED BY ONLY <1>1, <1>2, <3>1
  <2>3. ScanOvertaken'
    <3>1. SlotAge(main'.rd) = (SlotAge(main.rd))'
      BY DEF SlotAge
    <3> QED BY <1>3, <1>8, <2>1, <2>2, <3>1 DEF ScanOvertaken
  <2> QED BY <2>3 DEF ScanPlace
<1> QED BY <1>1, <1>6, <1>7, <1>8 DEF ScanPlace

\* A pass of ddp_loop begins or ends.
LEMMA PassOrder ==
  ASSUME TypeOK, Order, DdpLoop \/ ScanEnd
  PROVE  Order'
<1>1. main.at # "free" /\ main'.at \in {"start", "top"}
  <2>1. main \in Loops
    BY LoopFields
  <2> QED BY <2>1 DEF DdpLoop, ScanEnd, MainAt, Loops
<1>2. UNCHANGED <<arrived, rx, udp_rx_ring_buf, udp_rx_buf_len, udp_ring_idx, applied>>
  BY DEF DdpLoop, ScanEnd, chip, ring
<1>3. RingInOrder' /\ ChipInOrder' /\ Room'
  BY <1>2 DEF Order, RingInOrder, ChipInOrder, Room, SlotAge, Holds, Waiting, Used
<1>4. SlotKept' /\ ScanPlace'
  BY <1>1 DEF SlotKept, ScanPlace, Scanning
<1>5. ShownFirst'
  BY <1>1, <1>2 DEF Order, ShownFirst, Holds
<1> QED BY <1>3, <1>4, <1>5 DEF Order

LEMMA StartOrder ==
  ASSUME KeepsUp, TypeOK, Order, ScanStart
  PROVE  Order'
<1>1. /\ main.at # "free" /\ isr = "off" /\ ~edge
      /\ main'.at = "scan" /\ main'.rd = Oldest /\ main'.left = UDP_RING_COUNT
  <2>1. main \in Loops
    BY LoopFields
  <2> QED BY <2>1 DEF ScanStart, MainAt, Loops
<1>2. UNCHANGED <<arrived, rx, udp_rx_ring_buf, udp_rx_buf_len, udp_ring_idx, applied, isr, edge>>
      /\ late' = 0
  BY DEF ScanStart, ring
<1>3. RingInOrder' /\ ChipInOrder' /\ Room'
  BY <1>2 DEF Order, RingInOrder, ChipInOrder, Room, SlotAge, Holds, Waiting, Used
<1>4. SlotKept' /\ ShownFirst'
  BY <1>1, <1>2 DEF Order, SlotKept, ShownFirst, Holds
<1>5. ScanPlace'
  <2> DEFINE x == udp_ring_idx
             n == UDP_RING_COUNT
  <2>1. x \in SlotId /\ n \in Nat /\ n > 0
    <3>1. x \in SlotId
      BY DEF TypeOK
    <3> QED BY <3>1, RingAssumption
  <2>2. IF n = 1 THEN After(x) = x ELSE SlotAge(After(x)) = n - 2
    <3>1. SlotAge(x) = n - 1
      BY <2>1, AgeRange DEF SlotAge
    <3>2. SlotAge(After(x)) = IF n - 1 = 0 THEN n - 1 ELSE n - 1 - 1
      BY <2>1, <3>1, AgeNext DEF SlotAge
    <3>3. CASE n = 1
      BY <2>1, <3>3, SlotAfter DEF SlotId
    <3>4. CASE n # 1
      BY <2>1, <3>2, <3>4
    <3> QED BY <3>3, <3>4
  <2>3. \A i \in SlotId : Holds(i) => SlotAge(i) + 2 <= n
    <3> SUFFICES ASSUME NEW i \in SlotId, Holds(i) PROVE SlotAge(i) + 2 <= n
      OBVIOUS
    <3>1. i # x
      BY OldestFree
    <3>2. SlotAge(i) \in 0 .. n - 1 /\ SlotAge(i) # n - 1
      BY <2>1, <3>1, AgeRange DEF SlotAge
    <3> QED BY <2>1, <3>2
  <2>4. ScanAlone'
    <3>1. SlotAge(main'.rd) = (SlotAge(main.rd))' /\ \A i \in SlotId : (SlotAge(i))' = SlotAge(i)
      BY <1>2 DEF SlotAge
    <3>2. \A i \in SlotId : (Holds(i))' = Holds(i)
      BY <1>2 DEF Holds
    <3> QED BY <1>1, <1>2, <2>2, <2>3, <3>1, <3>2 DEF ScanAlone, Oldest
  <2> QED BY <2>4 DEF ScanPlace
<1> QED BY <1>3, <1>4, <1>5 DEF Order

LEMMA SkipOrder ==
  ASSUME TypeOK, Order, ScanSkip
  PROVE  Order'
<1>1. /\ main.at = "scan" /\ main'.at = "scan" /\ main' = NextSlot /\ main.left > 0
      /\ ~Holds(main.rd)
  <2>1. main \in Loops
    BY LoopFields
  <2> QED BY <2>1 DEF ScanSkip, MainAt, Loops, NextSlot, Holds
<1>2. UNCHANGED <<arrived, rx, udp_rx_ring_buf, udp_rx_buf_len, udp_ring_idx, applied, isr, edge, late>>
  BY DEF ScanSkip, chip, ring
<1>3. RingInOrder' /\ ChipInOrder' /\ Room'
  BY <1>2 DEF Order, RingInOrder, ChipInOrder, Room, SlotAge, Holds, Waiting, Used
<1>4. SlotKept' /\ ShownFirst'
  BY <1>1, <1>2 DEF Order, SlotKept, ShownFirst, Holds
<1>5. ScanPlace'
  <2>1. \A i \in SlotId : (Holds(i))' => Holds(i) /\ i # main.rd
    BY <1>1, <1>2 DEF Holds
  <2> QED BY <1>1, <1>2, <2>1, NextPlace DEF Order, Scanning
<1> QED BY <1>3, <1>4, <1>5 DEF Order

\* The slot's header was read.
LEMMA HeaderOrder ==
  ASSUME TypeOK, Order, ScanShort \/ ScanHeader
  PROVE  Order'
<1>1. /\ main.at = "scan" /\ main.left > 0 /\ Holds(main.rd)
      /\ main'.rd = main.rd /\ main'.left = main.left
      /\ \/ main'.at = "free" /\ udp_rx_ring_buf[main.rd] \in Short
         \/ /\ main'.at = "copy" /\ main'.hdr = udp_rx_ring_buf[main.rd]
            /\ main'.hdr \notin Short
  <2>1. main \in Loops
    BY LoopFields
  <2>2. CASE ScanShort
    BY <2>1, <2>2 DEF ScanShort, MainAt, Loops, Holds
  <2>3. CASE ScanHeader
    BY <2>1, <2>3 DEF ScanHeader, MainAt, Loops, Holds
  <2> QED BY <2>2, <2>3
<1>2. UNCHANGED <<arrived, rx, udp_rx_ring_buf, udp_rx_buf_len, udp_ring_idx, applied, isr, edge, late>>
  BY DEF ScanShort, ScanHeader, chip, ring
<1>3. RingInOrder' /\ ChipInOrder' /\ Room'
  BY <1>2 DEF Order, RingInOrder, ChipInOrder, Room, SlotAge, Holds, Waiting, Used
<1>4. SlotKept'
  BY <1>1, <1>2 DEF SlotKept, Holds
<1>5. ShownFirst'
  BY <1>1, <1>2 DEF Order, ShownFirst, Holds
<1>6. ScanPlace'
  <2>1. ScanAlone \/ ScanOvertaken
    BY <1>1 DEF Order, ScanPlace, Scanning
  <2>2. (ScanAlone => ScanAlone') /\ (ScanOvertaken => ScanOvertaken')
    BY <1>1, <1>2 DEF ScanAlone, ScanOvertaken, SlotAge, Holds
  <2> QED BY <2>1, <2>2 DEF ScanPlace
<1> QED BY <1>3, <1>4, <1>5, <1>6 DEF Order

\* What a copy adds: header and payload of one datagram, the oldest in hand.
LEMMA CopyShows ==
  ASSUME TypeOK, Bounded, Order, CopyPayload
  PROVE  /\ main.at = "copy" /\ main.left > 0 /\ Scanning
         /\ main.hdr = udp_rx_ring_buf[main.rd] /\ main.hdr \in Nat /\ main.hdr <= arrived
         /\ Holds(main.rd) /\ main.hdr \notin Short /\ main.hdr \notin Empty
         /\ applied' = Append(applied, <<main.hdr, main.hdr>>)
         /\ \A n \in DOMAIN applied : applied[n][1] < main.hdr
         /\ \A k \in DOMAIN rx : main.hdr < rx[k]
         /\ \A i \in SlotId : Holds(i) /\ i # main.rd => main.hdr < udp_rx_ring_buf[i]
         /\ Len(applied) \in Nat /\ Len(applied') = Len(applied) + 1
         /\ DOMAIN applied = 1..Len(applied) /\ DOMAIN applied' = 1..(Len(applied) + 1)
         /\ \A n \in DOMAIN applied : applied'[n] = applied[n]
         /\ applied'[Len(applied) + 1] = <<main.hdr, main.hdr>>
<1>1. main.at = "copy" /\ main.left > 0 /\ Scanning
  BY DEF CopyPayload, MainAt, Bounded, Scanning
<1>2. /\ main.hdr = udp_rx_ring_buf[main.rd] /\ Holds(main.rd) /\ main.hdr \notin Short
      /\ main.rd \in SlotId /\ main.hdr \in 0..Datagrams
  BY <1>1, LoopFields DEF Order, SlotKept, Loops
<1>3. main.hdr \in Nat /\ main.hdr <= arrived /\ main.hdr \notin Empty
  BY <1>2, RingAssumption DEF Order, RingInOrder
<1>4. applied' = Append(applied, <<main.hdr, main.hdr>>)
  BY <1>2 DEF CopyPayload
<1>5. \A n \in DOMAIN applied : applied[n][1] < main.hdr
  BY <1>1, <1>2 DEF Order, ShownFirst
<1>6. \A k \in DOMAIN rx : main.hdr < rx[k]
  BY <1>2 DEF Order, ChipInOrder
<1>7. \A i \in SlotId : Holds(i) /\ i # main.rd => main.hdr < udp_rx_ring_buf[i]
  BY <1>1, <1>2, OldestRead
<1>8. /\ Len(applied) \in Nat /\ Len(applied') = Len(applied) + 1
      /\ DOMAIN applied = 1..Len(applied) /\ DOMAIN applied' = 1..(Len(applied) + 1)
      /\ \A n \in DOMAIN applied : applied'[n] = applied[n]
      /\ applied'[Len(applied) + 1] = <<main.hdr, main.hdr>>
  <2> DEFINE S == (0..Datagrams) \X (0..Datagrams)
  <2>1. applied \in Seq(S) /\ <<main.hdr, main.hdr>> \in S
    BY <1>2 DEF TypeOK
  <2> HIDE DEF S
  <2> QED BY <1>4, <2>1, AppendProperties, LenProperties
<1> QED BY <1>1, <1>2, <1>3, <1>4, <1>5, <1>6, <1>7, <1>8

LEMMA CopyOrder ==
  ASSUME TypeOK, Bounded, Order, InOrder, CopyPayload
  PROVE  Order' /\ InOrder'
<1>1. main'.at = "free" /\ main'.rd = main.rd /\ main'.left = main.left
  <2>1. main \in Loops
    BY LoopFields
  <2> QED BY <2>1 DEF CopyPayload, Loops
<1>2. UNCHANGED <<arrived, rx, udp_rx_ring_buf, udp_rx_buf_len, udp_ring_idx, isr, edge, late>>
  BY DEF CopyPayload, chip, ring
<1>3. RingInOrder' /\ ChipInOrder' /\ Room'
  BY <1>2 DEF Order, RingInOrder, ChipInOrder, Room, SlotAge, Holds, Waiting, Used
<1>4. \A n \in DOMAIN applied' :
        \/ n \in DOMAIN applied /\ n < Len(applied) + 1 /\ applied'[n] = applied[n]
        \/ n = Len(applied) + 1 /\ applied'[n][1] = main.hdr /\ applied'[n][2] = main.hdr
  <2> SUFFICES ASSUME NEW n \in DOMAIN applied', n # Len(applied) + 1
               PROVE  n \in DOMAIN applied /\ n < Len(applied) + 1 /\ applied'[n] = applied[n]
    BY CopyShows
  <2>1. n \in 1..(Len(applied) + 1) /\ Len(applied) \in Nat
    BY CopyShows
  <2>2. n \in 1..Len(applied) /\ n < Len(applied) + 1
    BY <2>1
  <2> QED BY <2>2, CopyShows
<1>5. SlotKept'
  <2>1. Len(applied) + 1 \in DOMAIN applied' /\ applied'[Len(applied) + 1][1] = main.hdr
    BY CopyShows
  <2> QED BY <1>1, <1>2, <2>1, CopyShows DEF SlotKept, Shown, Holds
<1>6. ShownFirst'
  <2> SUFFICES ASSUME NEW n \in DOMAIN applied'
               PROVE  /\ applied'[n][1] <= arrived
                      /\ \A k \in DOMAIN rx : applied'[n][1] < rx[k]
                      /\ \A i \in SlotId : Holds(i) /\ i # main.rd => applied'[n][1] < udp_rx_ring_buf[i]
    BY <1>1, <1>2 DEF ShownFirst, Holds
  <2>1. CASE n = Len(applied) + 1
    BY <1>4, <2>1, CopyShows
  <2>2. CASE n \in DOMAIN applied /\ applied'[n] = applied[n]
    BY <2>2 DEF Order, ShownFirst
  <2> QED BY <1>4, <2>1, <2>2
<1>7. ScanPlace'
  <2>1. ScanAlone \/ ScanOvertaken
    BY CopyShows DEF Order, ScanPlace
  <2>2. (ScanAlone => ScanAlone') /\ (ScanOvertaken => ScanOvertaken')
    BY <1>1, <1>2 DEF ScanAlone, ScanOvertaken, SlotAge, Holds
  <2> QED BY <2>1, <2>2 DEF ScanPlace
<1>8. InOrder'
  <2>1. \A n \in DOMAIN applied' : applied'[n][1] = applied'[n][2]
    BY <1>4 DEF InOrder
  <2>2. ASSUME NEW n \in DOMAIN applied', NEW m \in DOMAIN applied', n < m
        PROVE  applied'[n][1] < applied'[m][1]
    <3>1. n \in DOMAIN applied /\ applied'[n] = applied[n]
      <4>1. m <= Len(applied) + 1 /\ n # Len(applied) + 1
        BY <2>2, CopyShows
      <4> QED BY <1>4, <4>1
    <3>2. CASE m = Len(applied) + 1
      BY <1>4, <3>1, <3>2, CopyShows
    <3>3. CASE m \in DOMAIN applied /\ applied'[m] = applied[m]
      BY <2>2, <3>1, <3>3 DEF InOrder
    <3> QED BY <1>4, <3>2, <3>3
  <2> QED BY <2>1, <2>2 DEF InOrder
<1> QED BY <1>3, <1>5, <1>6, <1>7, <1>8 DEF Order

LEMMA FreeOrder ==
  ASSUME TypeOK, Bounded, Order, FreeSlot
  PROVE  Order'
<1>1. /\ main.at = "free" /\ main.left > 0 /\ Scanning /\ main'.at = "scan" /\ main' = NextSlot
      /\ main.rd \in SlotId
  <2>1. main \in Loops /\ main.rd \in SlotId
    BY LoopFields
  <2> QED BY <2>1 DEF FreeSlot, MainAt, Loops, NextSlot, Bounded, Scanning
<1>2. UNCHANGED <<arrived, rx, udp_rx_ring_buf, udp_ring_idx, applied, isr, edge, late>>
  BY DEF FreeSlot, chip
<1>3. \A i \in SlotId : (Holds(i))' <=> Holds(i) /\ i # main.rd
  <2>1. udp_rx_buf_len \in [SlotId -> 0..1]
    BY DEF TypeOK
  <2> QED BY <1>1, <2>1 DEF FreeSlot, Holds
<1>4. \A i \in SlotId : (SlotAge(i))' = SlotAge(i)
  BY <1>2 DEF SlotAge
<1>5. RingInOrder'
  <2>1. ASSUME NEW i \in SlotId, NEW j \in SlotId, SlotAge(i) < SlotAge(j), (Holds(j))'
        PROVE  (Holds(i))' /\ udp_rx_ring_buf[j] < udp_rx_ring_buf[i]
    <3>1. Holds(j) /\ Holds(i) /\ udp_rx_ring_buf[j] < udp_rx_ring_buf[i]
      BY <1>3, <2>1 DEF Order, RingInOrder
    <3>2. i # main.rd
      <4> SUFFICES ASSUME i = main.rd PROVE FALSE
        OBVIOUS
      <4>1. udp_rx_ring_buf[i] < udp_rx_ring_buf[j]
        BY <1>1, <1>3, <2>1, <3>1, OldestRead
      <4> QED BY <3>1, <4>1, NumbersNat
    <3> QED BY <1>3, <3>1, <3>2
  <2> QED BY <1>2, <1>3, <1>4, <2>1 DEF Order, RingInOrder
<1>6. ChipInOrder'
  BY <1>2, <1>3 DEF Order, ChipInOrder
<1>7. SlotKept' /\ ShownFirst'
  BY <1>1, <1>2, <1>3 DEF Order, SlotKept, ShownFirst
<1>8. ScanPlace'
  BY <1>1, <1>2, <1>3, NextPlace DEF Order
<1>9. Room'
  <2>1. Used' \in SUBSET Used
    BY <1>3 DEF Used, Holds
  <2>2. IsFiniteSet(Used) /\ Cardinality(Used) \in Nat
    BY UsedFinite
  <2>3. Cardinality(Used') <= Cardinality(Used) /\ IsFiniteSet(Used')
    BY <2>1, <2>2, FS_Subset
  <2>4. Cardinality(Used') \in Nat /\ Len(rx) \in Nat
    BY <2>3, FS_CardinalityType, LenProperties DEF TypeOK
  <2>5. Len(rx) + Cardinality(Used) <= Backlog /\ rx' = rx
    BY <1>2 DEF Order, Room, Waiting
  <2>6. Len(rx) + Cardinality(Used') <= Backlog
    BY ONLY <2>2, <2>3, <2>4, <2>5, RingAssumption
  <2> QED BY <2>5, <2>6 DEF Room, Waiting
<1> QED BY <1>5, <1>6, <1>7, <1>8, <1>9 DEF Order

Receiver == TypeOK /\ Bounded /\ Order /\ InOrder

LEMMA SameInOrder ==
  ASSUME InOrder, UNCHANGED applied
  PROVE  InOrder'
BY DEF InOrder

LEMMA ReceiverNext == KeepsUp /\ Receiver /\ [Next]_vars => Receiver'
<1> SUFFICES ASSUME KeepsUp, Receiver, [Next]_vars PROVE Receiver'
  OBVIOUS
<1> USE DEF Receiver
<1>1. CASE Arrive
  <2>1. UNCHANGED applied
    BY <1>1 DEF Arrive
  <2> QED BY <1>1, <2>1, ArriveKeepsType, ArriveOrder, SameInOrder
<1>2. CASE Setup \/ IsrEnter \/ IsrClear \/ IsrLeave
  <2>1. UNCHANGED <<arrived, rx, ring, main, applied, late>>
    BY <1>2 DEF Setup, ClearPending, EnableEdge, IsrEnter, IsrClear, IsrLeave, chip
  <2>2. \/ UNCHANGED isr /\ (edge' => edge)
        \/ isr' # "read" /\ UNCHANGED edge
        \/ IsrEnter
    BY <1>2 DEF Setup, ClearPending, EnableEdge, IsrClear, IsrLeave, chip
  <2> QED BY <1>2, <2>1, <2>2, HandlerKeepsType, QuietOrder, SameInOrder DEF Handler
<1>3. CASE IsrRead
  <2>1. Order'
    BY <1>3, EmptyOrder, StoreOrder DEF IsrRead
  <2>2. UNCHANGED applied
    BY <1>3 DEF IsrRead
  <2> QED BY <1>3, <2>1, <2>2, HandlerKeepsType, SameInOrder DEF Handler
<1>4. CASE Loop
  <2>1. TypeOK' /\ Bounded'
    BY <1>4, LoopKeepsType
  <2>2. CASE CopyPayload
    BY <2>1, <2>2, CopyOrder
  <2>3. CASE DdpLoop \/ ScanStart \/ ScanSkip \/ ScanShort \/ ScanHeader \/ FreeSlot \/ ScanEnd
    <3>1. Order'
      BY <2>3, PassOrder, StartOrder, SkipOrder, HeaderOrder, FreeOrder
    <3>2. UNCHANGED applied
      BY <2>3 DEF DdpLoop, ScanStart, ScanSkip, ScanShort, ScanHeader, FreeSlot, ScanEnd
    <3> QED BY <2>1, <3>1, <3>2, SameInOrder
  <2> QED BY <1>4, <2>2, <2>3 DEF Loop
<1>5. CASE UNCHANGED vars
  <2>1. UNCHANGED <<arrived, rx, ring, main, applied, late, isr, edge>>
    BY <1>5 DEF vars, chip
  <2>2. TypeOK' /\ Bounded'
    BY <1>5, ZenonT(60) DEF vars, chip, ring, TypeOK, Bounded
  <2> QED BY <2>1, <2>2, QuietOrder, SameInOrder
<1> QED BY <1>1, <1>2, <1>3, <1>4, <1>5 DEF Next, Handler

\* If fewer datagrams wait than the ring has slots and no more than one comes during
\* a scan, frames are shown whole and in the order of arrival: no slot is
\* overwritten between the reading of its header and the copying of its payload, and
\* the scan takes the datagrams oldest first even when the handler stores one behind
\* it.
THEOREM FramesInOrder ==
  ASSUME KeepsUp
  PROVE  Spec => []InOrder
<1>1. Init => Receiver
  BY TypeInit, OrderInit DEF Receiver
<1>2. Receiver => InOrder
  BY DEF Receiver
<1> QED BY <1>1, <1>2, ReceiverNext, PTL DEF Spec

-----------------------------------------------------------------------------
(* The receiver implements the feed. *)

ToBeShown == InHand \ (Shown \union Empty \union Short)

LEMMA FeedInit == Init => Feed!Init
BY DEF Init, Feed!Init, InHand, Used

LEMMA ArriveFeeds ==
  ASSUME Receiver, KeepsUp, Arrive
  PROVE  (\E d \in ToBeShown' : Feed!Arrive(d)) \/ UNCHANGED <<ToBeShown, applied>>
<1> DEFINE d == arrived + 1
<1>1. /\ rx \in Seq(Datagram) /\ arrived \in 0..Datagrams /\ arrived < Datagrams
      /\ rx' = Append(rx, d) /\ d \in Datagram
      /\ UNCHANGED <<udp_rx_ring_buf, udp_rx_buf_len, applied>>
  <2>1. rx \in Seq(Datagram) /\ arrived \in 0..Datagrams
    BY DEF Receiver, TypeOK, Datagram
  <2>2. arrived < Datagrams /\ rx' = Append(rx, d) /\ UNCHANGED <<udp_rx_ring_buf, udp_rx_buf_len, applied>>
    BY DEF Arrive, ring
  <2> QED BY <2>1, <2>2, RingAssumption DEF Datagram
<1>2. /\ Len(rx) \in Nat /\ DOMAIN rx = 1..Len(rx) /\ DOMAIN rx' = 1..(Len(rx) + 1)
      /\ \A k \in 1..Len(rx) : rx'[k] = rx[k]
      /\ rx'[Len(rx) + 1] = d
  <2>1. d \in Datagram
    BY <1>1
  <2> HIDE DEF d
  <2> QED BY <1>1, <2>1, AppendProperties, LenProperties
<1>3. {rx'[k] : k \in DOMAIN rx'} = {rx[k] : k \in DOMAIN rx} \union {d}
  <2> HIDE DEF d
  <2>1. \A k \in 1..(Len(rx) + 1) : k \in 1..Len(rx) \/ k = Len(rx) + 1
    BY <1>2
  <2>2. \A k \in 1..Len(rx) : k \in 1..(Len(rx) + 1)
    BY <1>2
  <2>3. Len(rx) + 1 \in 1..(Len(rx) + 1)
    BY <1>2
  <2> QED BY <1>2, <2>1, <2>2, <2>3
<1>4. Shown' = Shown /\ InHand' = InHand \union {d}
  <2>1. Used' = Used
    BY <1>1 DEF Used
  <2> HIDE DEF d
  <2> QED BY <1>1, <1>3, <2>1 DEF Shown, InHand
<1>5. \A e \in InHand : e < d
  <2>1. \A k \in DOMAIN rx : rx[k] < d
    BY <1>1, NumbersNat DEF Receiver, Order, ChipInOrder
  <2>2. \A i \in Used : udp_rx_ring_buf[i] < d
    BY <1>1, NumbersNat DEF Receiver, Order, RingInOrder, Used, Holds
  <2> HIDE DEF d
  <2> QED BY <2>1, <2>2 DEF InHand
<1>6. \A n \in DOMAIN applied : applied[n][1] < d
  BY <1>1, NumbersNat DEF Receiver, Order, ShownFirst
<1>7. d \notin Shown
  <2>1. d \in Nat
    BY <1>1
  <2> HIDE DEF d
  <2> QED BY <1>6, <2>1 DEF Shown
<1>8. CASE d \in Empty \union Short
  <2> HIDE DEF d
  <2> QED BY <1>1, <1>4, <1>8 DEF ToBeShown
<1>9. CASE d \notin Empty \union Short
  <2> HIDE DEF d
  <2>1. ToBeShown' = ToBeShown \union {d}
    BY <1>4, <1>7, <1>9 DEF ToBeShown
  <2>2. \A e \in ToBeShown : e < d
    BY <1>5 DEF ToBeShown
  <2>3. Feed!Arrive(d)
    BY <1>1, <1>6, <2>1, <2>2 DEF Feed!Arrive, ToBeShown
  <2> QED BY <2>1, <2>3
<1> QED BY <1>8, <1>9

\* Reading moves a datagram to the ring; only one that is empty gets lost.
LEMMA ReadFeeds ==
  ASSUME Receiver, KeepsUp, IsrRead
  PROVE  UNCHANGED <<ToBeShown, applied>>
<1> DEFINE d == Head(rx)
           C == {rx[k] : k \in DOMAIN rx}
           R == {udp_rx_ring_buf[i] : i \in Used}
<1>1. UNCHANGED applied /\ Shown' = Shown
  BY DEF IsrRead, Shown
<1>2. C = C' \union {d}
  <2>1. /\ Len(rx) \in Nat /\ Len(rx) > 0
        /\ DOMAIN rx = 1..Len(rx) /\ DOMAIN rx' = 1..(Len(rx) - 1) /\ d = rx[1]
        /\ \A k \in DOMAIN rx' : k + 1 \in DOMAIN rx /\ rx'[k] = rx[k + 1]
    BY ReadOldest DEF Receiver
  <2> HIDE DEF d
  <2>2. ASSUME NEW k \in DOMAIN rx PROVE rx[k] \in C' \union {d}
    <3>1. CASE k = 1
      BY <2>1, <3>1
    <3>2. CASE k # 1
      <4>1. k - 1 \in DOMAIN rx' /\ k - 1 + 1 = k
        BY <2>1, <3>2
      <4>2. rx'[k - 1] = rx[k]
        BY <2>1, <4>1
      <4> QED BY <4>1, <4>2
    <3> QED BY <3>1, <3>2
  <2>3. 1 \in DOMAIN rx
    BY <2>1
  <2> QED BY <2>1, <2>2, <2>3
<1>3. CASE d \in Empty /\ UNCHANGED ring
  <2>1. R' = R
    BY <1>3 DEF ring, Used
  <2>2. InHand = InHand' \union {d}
    <3>1. InHand = C \union R /\ InHand' = C' \union R'
      BY DEF InHand
    <3> HIDE DEF C, R, d
    <3> QED BY <1>2, <2>1, <3>1
  <2> HIDE DEF d
  <2> QED BY <1>1, <1>3, <2>2 DEF ToBeShown
<1>4. CASE Store(d)
  <2>1. R' = R \union {d}
    <3> DEFINE x == udp_ring_idx
    <3>1. /\ x \in SlotId /\ ~Holds(x)
          /\ \A i \in SlotId :
               /\ udp_rx_ring_buf'[i] = IF i = x THEN d ELSE udp_rx_ring_buf[i]
               /\ udp_rx_buf_len'[i] # 0 <=> i = x \/ Holds(i)
      BY <1>4, StoreAfter, OldestFree DEF Receiver
    <3> HIDE DEF d
    <3>2. x \notin Used /\ Used' = Used \union {x} /\ Used \subseteq SlotId
      BY <3>1 DEF Used, Holds
    <3> HIDE DEF x
    <3>3. udp_rx_ring_buf'[x] = d /\ \A i \in Used : udp_rx_ring_buf'[i] = udp_rx_ring_buf[i]
      BY <3>1, <3>2
    <3> QED BY <3>2, <3>3
  <2>2. InHand = InHand'
    <3>1. InHand = C \union R /\ InHand' = C' \union R'
      BY DEF InHand
    <3> HIDE DEF C, R, d
    <3> QED BY <1>2, <2>1, <3>1
  <2> QED BY <1>1, <2>2 DEF ToBeShown
<1> QED BY <1>3, <1>4 DEF IsrRead

\* A copy shows the oldest that waits.
LEMMA CopyFeeds ==
  ASSUME Receiver, CopyPayload
  PROVE  \E d \in ToBeShown : Feed!Show(d)
<1> DEFINE d == main.hdr
<1>1. UNCHANGED <<rx, udp_rx_ring_buf, udp_rx_buf_len>> /\ main.rd \in SlotId
  BY LoopFields DEF CopyPayload, chip, ring, Receiver
<1>2. InHand' = InHand /\ Used' = Used
  BY <1>1 DEF InHand, Used
<1>3. d \in InHand /\ d \notin Empty /\ d \notin Short /\ d \in Nat
  <2>1. main.rd \in Used /\ d = udp_rx_ring_buf[main.rd]
    BY <1>1, CopyShows DEF Used, Holds, Receiver
  <2> QED BY <2>1, CopyShows DEF InHand, Receiver
<1>4. \A e \in InHand : d <= e
  <2>1. \A k \in DOMAIN rx : d <= rx[k]
    BY <1>3, NumbersNat, CopyShows DEF Receiver
  <2>2. \A i \in Used : d <= udp_rx_ring_buf[i]
    <3> SUFFICES ASSUME NEW i \in Used PROVE d <= udp_rx_ring_buf[i]
      OBVIOUS
    <3>1. i \in SlotId /\ Holds(i)
      BY DEF Used, Holds
    <3>2. CASE i = main.rd
      BY <1>3, <3>2, CopyShows DEF Receiver
    <3>3. CASE i # main.rd
      BY <1>3, <3>1, <3>3, NumbersNat, CopyShows DEF Receiver
    <3> QED BY <3>2, <3>3
  <2> HIDE DEF d
  <2> QED BY <2>1, <2>2 DEF InHand
<1>5. d \notin Shown /\ Shown' = Shown \union {d}
  <2>1. /\ applied' = Append(applied, <<d, d>>)
        /\ \A n \in DOMAIN applied : applied[n][1] < d
        /\ Len(applied) \in Nat
        /\ DOMAIN applied = 1..Len(applied) /\ DOMAIN applied' = 1..(Len(applied) + 1)
        /\ \A n \in DOMAIN applied : applied'[n] = applied[n]
        /\ applied'[Len(applied) + 1] = <<d, d>>
    BY CopyShows DEF Receiver
  <2> HIDE DEF d
  <2>2. d \notin Shown
    BY <1>3, <2>1 DEF Shown
  <2>3. DOMAIN applied' = DOMAIN applied \union {Len(applied) + 1}
    BY <2>1
  <2>4. \A n \in DOMAIN applied : applied'[n][1] = applied[n][1]
    BY <2>1
  <2>5. applied'[Len(applied) + 1][1] = d
    BY <2>1
  <2> QED BY <2>2, <2>3, <2>4, <2>5 DEF Shown
<1>6. d \in ToBeShown /\ ToBeShown' = ToBeShown \ {d} /\ \A e \in ToBeShown : d <= e
  <2> HIDE DEF d
  <2> QED BY <1>2, <1>3, <1>4, <1>5 DEF ToBeShown
<1>7. applied' = Append(applied, <<d, d>>)
  BY CopyShows DEF Receiver
<1> HIDE DEF d
<1>8. Feed!Show(d)
  BY <1>6, <1>7 DEF Feed!Show, ToBeShown
<1> QED BY <1>6, <1>8

\* What is freed has no pixels or was shown.
LEMMA FreeFeeds ==
  ASSUME Receiver, FreeSlot
  PROVE  UNCHANGED <<ToBeShown, applied>>
<1> DEFINE d == udp_rx_ring_buf[main.rd]
<1>1. UNCHANGED <<rx, udp_rx_ring_buf, applied>> /\ main.rd \in SlotId /\ main.at = "free"
  BY LoopFields DEF FreeSlot, MainAt, chip, Receiver
<1>2. d \in Short \union Shown /\ main.rd \in Used
  BY <1>1 DEF Receiver, Order, SlotKept, Used, Holds
<1>3. Used' = Used \ {main.rd}
  <2>1. udp_rx_buf_len \in [SlotId -> 0..1]
    BY DEF Receiver, TypeOK
  <2> QED BY <1>1, <2>1 DEF FreeSlot, Used
<1>4. Shown' = Shown
  BY <1>1 DEF Shown
<1>5. InHand = InHand' \union {d}
  BY <1>1, <1>2, <1>3 DEF InHand
<1> HIDE DEF d
<1> QED BY <1>1, <1>2, <1>4, <1>5 DEF ToBeShown

\* All else leaves datagrams where they are.
LEMMA RestFeeds ==
  ASSUME UNCHANGED <<rx, udp_rx_ring_buf, udp_rx_buf_len, applied>>
  PROVE  UNCHANGED <<ToBeShown, applied>>
<1>1. Used' = Used
  BY DEF Used
<1> QED BY <1>1 DEF ToBeShown, InHand, Shown

LEMMA FeedNext == KeepsUp /\ Receiver /\ [Next]_vars => [Feed!Next]_Feed!feedVars
<1> SUFFICES ASSUME KeepsUp, Receiver, [Next]_vars
             PROVE  Feed!Next \/ UNCHANGED <<ToBeShown, applied>>
  BY DEF Feed!feedVars, ToBeShown
<1>1. CASE Arrive
  <2>1. (\E d \in ToBeShown' : Feed!Arrive(d)) \/ UNCHANGED <<ToBeShown, applied>>
    BY <1>1, ArriveFeeds
  <2> QED BY <2>1 DEF Feed!Next, ToBeShown
<1>2. CASE IsrRead
  BY <1>2, ReadFeeds
<1>3. CASE CopyPayload
  <2>1. \E d \in ToBeShown : Feed!Show(d)
    BY <1>3, CopyFeeds
  <2> QED BY <2>1 DEF Feed!Next, ToBeShown
<1>4. CASE FreeSlot
  BY <1>4, FreeFeeds
<1>5. CASE \/ Setup \/ IsrEnter \/ IsrClear \/ IsrLeave \/ UNCHANGED vars
           \/ DdpLoop \/ ScanStart \/ ScanSkip \/ ScanShort \/ ScanHeader \/ ScanEnd
  <2>1. UNCHANGED <<rx, udp_rx_ring_buf, udp_rx_buf_len, applied>>
    BY <1>5 DEF Setup, ClearPending, EnableEdge, IsrEnter, IsrClear, IsrLeave, DdpLoop,
       ScanStart, ScanSkip, ScanShort, ScanHeader, ScanEnd, vars, chip, ring
  <2> QED BY <2>1, RestFeeds
<1> QED BY <1>1, <1>2, <1>3, <1>4, <1>5 DEF Next, Handler, Loop

\* On the same terms nothing is lost either: the receiver implements the feed, in
\* which every datagram with pixels is shown once and the oldest goes first.
THEOREM ImplementsFrameFeed ==
  ASSUME KeepsUp
  PROVE  Spec => LosslessFeed
<1>1. Init => Receiver
  BY TypeInit, OrderInit DEF Receiver
<1> QED BY <1>1, ReceiverNext, FeedInit, FeedNext, PTL DEF Spec, LosslessFeed, Feed!Spec
=============================================================================
