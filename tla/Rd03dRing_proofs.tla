--------------------------- MODULE Rd03dRing_proofs ---------------------------
(***************************************************************************)
(* Proofs about the radar driver, for any length of frames, ring and FIFO: *)
(* bytes keep their order from the sensor to the parser, whatever is       *)
(* dropped between, so frames come out whole, in order, and none is        *)
(* dropped that the ring held the start of.                                *)
(***************************************************************************)
EXTENDS Rd03dRing, SequenceTheorems, WellFoundedInduction, TLAPS

-----------------------------------------------------------------------------
(* The stream: what is in the ring, behind it what is in the FIFO, behind that the *)
(* byte the sensor sends next.                                                     *)

Coming  == [k |-> next.k, p |-> next.p, v |-> Value(next.p, next.load)]
InRing  == Count(s_head, s_tail)
Waiting == InRing + Len(fifo)

At(i) == IF i <= InRing THEN s_rx[After(s_tail, i - 1)]
         ELSE IF i <= Waiting THEN fifo[i - InRing]
         ELSE Coming

\* A byte that comes d bytes after b is in a later frame, or that far behind.
Later(b, c, d) == c.k > b.k \/ (c.k = b.k /\ c.p >= b.p + d)

\* When none was lost between, it is exactly there.
Exact(b, c, d) ==
  /\ b.p + d <= FrameLen => c.k = b.k /\ c.p = b.p + d
  /\ b.p + d \in FrameLen + 1 .. 2 * FrameLen => c.k = b.k + 1 /\ c.p = b.p + d - FrameLen

\* Two bytes of one frame show one payload.
SamePayload(b, c) ==
  b.k = c.k => \E load \in Payload : b.v = Value(b.p, load) /\ c.v = Value(c.p, load)

Sent == \A i \in 1 .. Waiting + 1 :
          /\ At(i).k \in 1 .. Frames + 1 /\ At(i).p \in Positions
          /\ \E load \in Payload : At(i).v = Value(At(i).p, load)
          /\ At(i).k = next.k => At(i).v = Value(At(i).p, next.load)
Streams == \A i, j \in 1 .. Waiting + 1 : i < j =>
          /\ Later(At(i), At(j), j - i)
          /\ SamePayload(At(i), At(j))
          /\ ~lost => Exact(At(i), At(j), j - i)

\* Nothing of the frame published, and nothing before it, is still to come.
Consumes == s_last_data.frame # <<>> =>
              \A i \in 1 .. Waiting + 1 : At(i).k > s_last_data.frame[1].k

-----------------------------------------------------------------------------
(* Indices. *)

\* What a byte looks like to the parser.
Values == {"h1", "h2", "t", "d"}

LEMMA Sizes ==
  /\ PayloadLen \in Nat /\ FrameLen = PayloadLen + 3
  /\ RING_SIZE \in Nat /\ FrameLen < RING_SIZE
  /\ Frames \in Nat /\ Frames >= 1 /\ Fifo \in Nat /\ Fifo >= 1
  /\ FrameLen \in Nat /\ FrameLen >= 3
BY RingAssumption DEF FrameLen

\* An index wraps at most once.
LEMMA ModOnce ==
  ASSUME NEW n \in Nat, n > 0, NEW a \in Nat, a < 2 * n
  PROVE  a % n = IF a < n THEN a ELSE a - n
<1>1. CASE a < n
  BY <1>1
<1>2. CASE a >= n
  <2>1. a - n \in 0 .. n - 1
    BY <1>2
  <2>2. (a - n) % n = a - n
    BY <2>1
  <2>3. a % n = (a - n) % n
    BY <1>2
  <2> QED BY <1>2, <2>2, <2>3
<1> QED BY <1>1, <1>2

LEMMA AfterIs ==
  ASSUME NEW i \in Index, NEW n \in 0 .. RING_SIZE - 1
  PROVE  /\ After(i, n) \in Index
         /\ After(i, n) = IF i + n < RING_SIZE THEN i + n ELSE i + n - RING_SIZE
<1> DEFINE a == i + n
<1>1. RING_SIZE \in Nat /\ RING_SIZE > 0 /\ a \in Nat /\ a < 2 * RING_SIZE
  BY Sizes DEF Index
<1>2. a % RING_SIZE = IF a < RING_SIZE THEN a ELSE a - RING_SIZE
  <2> HIDE DEF a
  <2> QED BY ONLY <1>1, ModOnce
<1> QED BY <1>1, <1>2 DEF After, Index

LEMMA CountIs ==
  ASSUME NEW head \in Index, NEW tail \in Index
  PROVE  /\ Count(head, tail) \in 0 .. RING_SIZE - 1
         /\ Count(head, tail) = IF head >= tail THEN head - tail ELSE head + RING_SIZE - tail
<1> DEFINE a == head + RING_SIZE - tail
<1>1. RING_SIZE \in Nat /\ RING_SIZE > 0 /\ a \in Nat /\ a < 2 * RING_SIZE
  BY Sizes DEF Index
<1>2. a % RING_SIZE = IF a < RING_SIZE THEN a ELSE a - RING_SIZE
  <2> HIDE DEF a
  <2> QED BY ONLY <1>1, ModOnce
<1> QED BY <1>1, <1>2, Sizes DEF Count, Index

LEMMA Valued ==
  ASSUME NEW p \in Positions, NEW load \in Payload
  PROVE  /\ Value(p, load) \in Values
         /\ p = 1 => Value(p, load) = "h1"
         /\ p = 2 => Value(p, load) = "h2"
         /\ p = FrameLen => Value(p, load) = "t"
         /\ p \in 3 .. FrameLen - 1 => Value(p, load) = load[p - 2] /\ p - 2 \in 1..PayloadLen
<1>1. load \in [1..PayloadLen -> Values]
  BY RingAssumption DEF Values
<1>2. p \in 1..FrameLen /\ FrameLen = PayloadLen + 3 /\ PayloadLen \in Nat
  BY Sizes DEF Positions
<1>3. p \in 3 .. FrameLen - 1 => p - 2 \in 1..PayloadLen
  BY <1>2
<1>4. p = 1 \/ p = 2 \/ p = FrameLen \/ p \in 3 .. FrameLen - 1
  BY <1>2
<1>5. FrameLen # 1 /\ FrameLen # 2 /\ FrameLen \notin 3 .. FrameLen - 1
      /\ 1 \notin 3 .. FrameLen - 1 /\ 2 \notin 3 .. FrameLen - 1
  BY <1>2
<1> QED BY <1>1, <1>3, <1>4, <1>5 DEF Value, Values

\* What the parser looks at is the ring from tail to head.
LEMMA ContentIs ==
  ASSUME TypeOK
  PROVE  /\ InRing \in 0 .. RING_SIZE - 1
         /\ Content \in Seq(Byte) /\ Len(Content) = InRing
         /\ \A i \in 1..InRing : Content[i] = s_rx[After(s_tail, i - 1)] /\ Content[i] \in Byte
<1>1. s_rx \in [Index -> Byte] /\ s_head \in Index /\ s_tail \in Index
  BY DEF TypeOK
<1>2. InRing \in 0 .. RING_SIZE - 1 /\ RING_SIZE \in Nat
  BY <1>1, CountIs, Sizes DEF InRing
<1>3. ASSUME NEW i \in 1..InRing
      PROVE  After(s_tail, i - 1) \in Index /\ s_rx[After(s_tail, i - 1)] \in Byte
  <2>1. i - 1 \in 0 .. RING_SIZE - 1
    BY <1>2
  <2> QED BY <1>1, <2>1, AfterIs
<1>4. Content = [i \in 1..InRing |-> s_rx[After(s_tail, i - 1)]]
  BY DEF Content, InRing
<1>5. Content \in [1..InRing -> Byte]
  BY <1>3, <1>4
<1> HIDE DEF Content
<1> QED BY <1>2, <1>3, <1>4, <1>5

-----------------------------------------------------------------------------
(* Types. *)

LEMMA InitTypes == Init => TypeOK
<1> SUFFICES ASSUME Init PROVE TypeOK
  OBVIOUS
<1>1. next \in [k: 1 .. Frames + 1, p: Positions, load: Payload]
  <2>1. 1 \in 1 .. Frames + 1
    BY Sizes
  <2> QED BY <2>1 DEF Init
<1>2. fifo \in Seq(Byte) /\ Len(fifo) <= Fifo
  BY Sizes DEF Init
<1>3. NoByte \in Byte
  BY Sizes DEF NoByte, Byte
<1>4. 0 \in Index
  BY Sizes DEF Index
<1>5. s_rx \in [Index -> Byte] /\ s_head \in Index /\ s_tail \in Index
  BY <1>3, <1>4 DEF Init
<1>6. s_last_data \in [ready: BOOLEAN, frame: Seq(Byte)]
      /\ Len(s_last_data.frame) \in {0, FrameLen}
  BY DEF Init
<1>7. main \in {"rd03d_api_poll", "rd03d_drv_poll"} /\ lost \in BOOLEAN
  BY DEF Init
<1> QED BY <1>1, <1>2, <1>5, <1>6, <1>7 DEF TypeOK

LEMMA SendTypes ==
  ASSUME TypeOK, Send
  PROVE  /\ next' \in [k: 1 .. Frames + 1, p: Positions, load: Payload]
         /\ fifo' \in Seq(Byte) /\ Len(fifo') <= Fifo /\ lost' \in BOOLEAN
         /\ Coming \in Byte
         /\ \/ next.p < FrameLen /\ next'.k = next.k /\ next'.p = next.p + 1 /\ next'.load = next.load
            \/ next.p = FrameLen /\ next'.k = next.k + 1 /\ next'.p = 1
         /\ \/ fifo' = Append(fifo, Coming) /\ lost' = lost
            \/ fifo' = fifo /\ lost'
<1>1. next \in [k: 1 .. Frames + 1, p: Positions, load: Payload] /\ next.k <= Frames
      /\ fifo \in Seq(Byte) /\ Len(fifo) <= Fifo /\ lost \in BOOLEAN
  BY DEF TypeOK, Send
<1>2. next.k \in 0..Frames /\ next.p \in 1..FrameLen /\ next.p \in Positions /\ next.load \in Payload
      /\ next.k + 1 \in 1 .. Frames + 1
  BY <1>1, Sizes DEF Positions
<1>3. next.p \in 0..FrameLen
  BY <1>2, Sizes
<1>4. Coming \in Byte
  BY <1>2, <1>3, Valued DEF Coming, Byte, Values
<1>5. \/ Len(fifo) < Fifo /\ fifo' = Append(fifo, Coming) /\ UNCHANGED lost
      \/ Len(fifo) = Fifo /\ next.k <= LossUntil /\ lost' = TRUE /\ UNCHANGED fifo
  BY DEF Send, Coming
<1>6. fifo' \in Seq(Byte) /\ Len(fifo') <= Fifo /\ lost' \in BOOLEAN
  <2> HIDE DEF Coming
  <2>1. CASE Len(fifo) < Fifo /\ fifo' = Append(fifo, Coming) /\ UNCHANGED lost
    <3>1. fifo' \in Seq(Byte) /\ Len(fifo') = Len(fifo) + 1
      BY <1>1, <1>4, <2>1, AppendProperties
    <3>2. Len(fifo) \in Nat
      BY <1>1, LenProperties
    <3> QED BY <1>1, <2>1, <3>1, <3>2, Sizes
  <2> QED BY <1>1, <1>5, <2>1
<1>7. \/ next.p < FrameLen /\ next' = [next EXCEPT !.p = @ + 1]
      \/ next.p = FrameLen /\ \E load \in Payload :
           next' = [k |-> next.k + 1, p |-> 1, load |-> load]
  BY DEF Send
<1>8. CASE next.p < FrameLen /\ next' = [next EXCEPT !.p = @ + 1]
  <2>1. next.p + 1 \in Positions
    BY <1>2, <1>8, Sizes DEF Positions
  <2>2. next'.k = next.k /\ next'.p = next.p + 1 /\ next'.load = next.load
    BY <1>1, <1>8
  <2>3. next' \in [k: 1 .. Frames + 1, p: Positions, load: Payload]
    BY <1>1, <1>8, <2>1
  <2> QED BY <1>4, <1>5, <1>6, <1>8, <2>2, <2>3
<1>9. CASE next.p = FrameLen /\ \E load \in Payload :
             next' = [k |-> next.k + 1, p |-> 1, load |-> load]
  <2>1. 1 \in Positions
    BY Sizes DEF Positions
  <2>2. next' \in [k: 1 .. Frames + 1, p: Positions, load: Payload]
        /\ next'.k = next.k + 1 /\ next'.p = 1
    BY <1>2, <1>9, <2>1
  <2> QED BY <1>4, <1>5, <1>6, <1>9, <2>2
<1> QED BY <1>7, <1>8, <1>9

LEMMA PushTypes ==
  ASSUME TypeOK, Push
  PROVE  /\ fifo' \in Seq(Byte) /\ Len(fifo') = Len(fifo) - 1 /\ Len(fifo) \in Nat /\ Len(fifo) >= 1
         /\ s_rx' \in [Index -> Byte] /\ s_head' \in Index /\ s_tail' \in Index
         /\ s_rx' = [s_rx EXCEPT ![s_head] = fifo[1]]
         /\ \A i \in 1 .. Len(fifo) - 1 : fifo'[i] = fifo[i + 1]
<1>1. fifo \in Seq(Byte) /\ fifo # <<>> /\ s_rx \in [Index -> Byte]
      /\ s_head \in Index /\ s_tail \in Index
  BY DEF TypeOK, Push
<1>2. /\ Head(fifo) \in Byte /\ Tail(fifo) \in Seq(Byte)
      /\ Len(Tail(fifo)) = Len(fifo) - 1 /\ Head(fifo) = fifo[1]
      /\ \A i \in 1 .. Len(fifo) - 1 : Tail(fifo)[i] = fifo[i + 1]
  <2>1. Head(fifo) \in Byte /\ Tail(fifo) \in Seq(Byte) /\ Len(Tail(fifo)) = Len(fifo) - 1
    BY <1>1, HeadTailProperties
  <2>2. Len(Tail(fifo)) = Len(fifo) - 1 /\ \A i \in 1 .. Len(Tail(fifo)) : Tail(fifo)[i] = fifo[i + 1]
    BY <1>1, HeadTailProperties
  <2> QED BY <2>1, <2>2
<1>3. Len(fifo) \in Nat /\ Len(fifo) # 0
  BY <1>1, LenProperties, EmptySeq
<1>4. 1 \in 0 .. RING_SIZE - 1
  BY Sizes
<1>5. s_head' \in Index
  BY <1>1, <1>4, AfterIs DEF Push
<1>6. s_tail' \in Index
  BY <1>1, <1>4, AfterIs DEF Push, TailAfterPush
<1>7. s_rx' = [s_rx EXCEPT ![s_head] = fifo[1]] /\ s_rx' \in [Index -> Byte]
  BY <1>1, <1>2 DEF Push, Stored
<1>8. fifo' = Tail(fifo)
  BY DEF Push
<1> QED BY <1>2, <1>3, <1>5, <1>6, <1>7, <1>8

\* A set of offsets has a least one.
LEMMA LeastOffset ==
  ASSUME NEW S, S \subseteq Nat, S # {}
  PROVE  Min(S) \in S /\ \A o \in S : Min(S) <= o
<1>1. IsWellFoundedOn(OpToRel(<, Nat), Nat)
  BY NatLessThanWellFounded
<1>2. PICK x \in S : \A y \in S : <<y, x>> \notin OpToRel(<, Nat)
  BY <1>1, WFMin
<1>3. \E z \in S : \A y \in S : ~(y < z)
  BY <1>2 DEF OpToRel
<1>4. \E z \in S : \A y \in S : z <= y
  BY <1>3
<1> QED BY <1>4 DEF Min

\* The offsets of header, frames and partial frames.
LEMMA Offsets ==
  ASSUME TypeOK
  PROVE  /\ \A o : o \in Headers(Content) <=> /\ o \in Nat /\ o + 2 <= InRing
                                              /\ Content[o + 1].v = "h1" /\ Content[o + 2].v = "h2"
         /\ \A o \in Nat : Fits(Content, o) <=> o + FrameLen <= InRing
         /\ Good(Content) \subseteq Nat /\ Partial(Content) \subseteq Nat
         /\ \A o \in Good(Content) : o + FrameLen <= InRing
         /\ \A o \in Partial(Content) : o + 2 <= InRing
<1>1. Len(Content) = InRing /\ InRing \in Nat
  BY ContentIs, Sizes
<1>2. \A o : o \in Headers(Content) <=> /\ o \in Nat /\ o + 2 <= InRing
                                        /\ Content[o + 1].v = "h1" /\ Content[o + 2].v = "h2"
  BY <1>1 DEF Headers, HeaderAt
<1>3. \A o \in Nat : Fits(Content, o) <=> o + FrameLen <= InRing
  BY <1>1 DEF Fits
<1> QED BY <1>2, <1>3 DEF Good, Partial

\* What a poll drops, and what it publishes.
LEMMA ParseDrops ==
  ASSUME TypeOK, Parse
  PROVE  \E n \in 0 .. InRing :
           /\ s_tail' = After(s_tail, n)
           /\ \/ s_last_data' = s_last_data
              \/ \E o \in Good(Content) :
                   /\ n = o + FrameLen /\ \A g \in Good(Content) : o <= g
                   /\ s_last_data' = [ready |-> TRUE, frame |-> SubSeq(Content, o + 1, o + FrameLen)]
<1>1. InRing \in Nat /\ Len(Content) = InRing /\ s_tail \in Index /\ RING_SIZE \in Nat /\ RING_SIZE > 0
      /\ InRing <= RING_SIZE - 1
  BY ContentIs, Sizes DEF TypeOK
<1>2. CASE ~Enough(Content) /\ UNCHANGED <<s_tail, s_last_data>>
  <2>1. After(s_tail, 0) = s_tail
    BY <1>1, AfterIs DEF Index
  <2> QED BY <1>1, <1>2, <2>1
<1>3. CASE /\ Enough(Content) /\ Good(Content) = {}
           /\ s_tail' = After(s_tail, Noise(Content)) /\ UNCHANGED s_last_data
  <2>1. InRing >= FrameLen
    BY <1>1, <1>3 DEF Enough
  <2>2. Noise(Content) \in 0 .. InRing
    <3>1. CASE InRing - FrameLen \in Headers(Content)
      BY <1>1, <2>1, <3>1, Sizes DEF Noise
    <3>2. CASE InRing - FrameLen \notin Headers(Content) /\ Partial(Content) # {}
      <4>1. Min(Partial(Content)) \in Partial(Content)
        BY <3>2, Offsets, LeastOffset
      <4>2. Min(Partial(Content)) \in Nat /\ Min(Partial(Content)) + 2 <= InRing
        BY <4>1, Offsets
      <4>3. Noise(Content) = Min(Partial(Content))
        BY <1>1, <3>2 DEF Noise
      <4> QED BY <1>1, <4>2, <4>3
    <3>3. CASE InRing - FrameLen \notin Headers(Content) /\ Partial(Content) = {}
      BY <1>1, <2>1, <3>3, Sizes DEF Noise, KeptTail
    <3> QED BY <3>1, <3>2, <3>3
  <2> QED BY <1>3, <2>2
<1>4. CASE /\ Enough(Content) /\ Good(Content) # {}
           /\ LET o == Min(Good(Content))
              IN  /\ s_tail' = After(s_tail, Consumed(o))
                  /\ s_last_data' = [ready |-> TRUE,
                                     frame |-> SubSeq(Content, o + 1, o + FrameLen)]
  <2> DEFINE o == Min(Good(Content))
  <2>1. o \in Good(Content) /\ \A g \in Good(Content) : o <= g
    BY <1>4, Offsets, LeastOffset
  <2>2. o \in Nat /\ o + FrameLen <= InRing
    BY <2>1, Offsets
  <2>3. Consumed(o) = o + FrameLen /\ o + FrameLen \in 0 .. InRing
    BY <1>1, <2>2, Sizes DEF Consumed
  <2>4. s_tail' = After(s_tail, o + FrameLen)
        /\ s_last_data' = [ready |-> TRUE, frame |-> SubSeq(Content, o + 1, o + FrameLen)]
    BY <1>4, <2>3
  <2> HIDE DEF o
  <2> QED BY <2>1, <2>3, <2>4
<1> QED BY <1>2, <1>3, <1>4 DEF Parse

\* A frame published is as long as a frame.
LEMMA FramePublished ==
  ASSUME TypeOK, NEW o \in Good(Content)
  PROVE  LET f == SubSeq(Content, o + 1, o + FrameLen)
         IN  /\ f \in Seq(Byte) /\ Len(f) = FrameLen /\ f # <<>>
             /\ \A p \in 1..FrameLen : f[p] = Content[o + p]
<1> DEFINE f == SubSeq(Content, o + 1, o + FrameLen)
<1>1. o \in Nat /\ o + FrameLen <= InRing /\ FrameLen \in Nat /\ FrameLen >= 3
      /\ o + 1 \in Int /\ o + FrameLen \in Int
  BY Offsets, Sizes
<1>2. \A i \in o + 1 .. o + FrameLen : Content[i] \in Byte
  BY <1>1, ContentIs
<1>3. o + 1 <= (o + FrameLen) + 1 /\ (o + FrameLen) - (o + 1) + 1 = FrameLen
  BY <1>1
<1>4. /\ f \in Seq(Byte) /\ Len(f) = FrameLen
      /\ \A p \in 1..FrameLen : f[p] = Content[o + p]
  <2>1. f \in Seq(Byte)
    BY <1>1, <1>2, SubSeqProperties
  <2>2. Len(f) = IF o + 1 <= o + FrameLen THEN (o + FrameLen) - (o + 1) + 1 ELSE 0
    BY <1>1, <1>2, SubSeqProperties
  <2>3. \A p \in 1 .. (o + FrameLen) - (o + 1) + 1 : f[p] = Content[(o + 1) + p - 1]
    BY <1>1, <1>2, SubSeqProperties
  <2> HIDE DEF f
  <2>4. Len(f) = FrameLen
    BY <1>1, <2>2
  <2>5. \A p \in 1..FrameLen : (o + 1) + p - 1 = o + p
    BY <1>1
  <2> QED BY <1>3, <2>1, <2>3, <2>4, <2>5
<1>5. f # <<>>
  <2> HIDE DEF f
  <2> QED BY <1>1, <1>4
<1> QED BY <1>4, <1>5

LEMMA ParseTypes ==
  ASSUME TypeOK, Parse
  PROVE  /\ s_tail' \in Index
         /\ s_last_data' \in [ready: BOOLEAN, frame: Seq(Byte)]
         /\ Len(s_last_data'.frame) \in {0, FrameLen}
<1>1. PICK n \in 0 .. InRing :
        /\ s_tail' = After(s_tail, n)
        /\ \/ s_last_data' = s_last_data
           \/ \E o \in Good(Content) :
                s_last_data' = [ready |-> TRUE, frame |-> SubSeq(Content, o + 1, o + FrameLen)]
  BY ParseDrops
<1>2. s_tail \in Index /\ n \in 0 .. RING_SIZE - 1
  BY ContentIs, Sizes DEF TypeOK
<1>3. s_tail' \in Index
  BY <1>1, <1>2, AfterIs
<1>4. CASE s_last_data' = s_last_data
  BY <1>3, <1>4 DEF TypeOK
<1>5. ASSUME NEW o \in Good(Content),
             s_last_data' = [ready |-> TRUE, frame |-> SubSeq(Content, o + 1, o + FrameLen)]
      PROVE  s_last_data' \in [ready: BOOLEAN, frame: Seq(Byte)]
             /\ Len(s_last_data'.frame) \in {0, FrameLen}
  BY <1>5, FramePublished
<1> QED BY <1>1, <1>3, <1>4, <1>5

LEMMA NextTypes == TypeOK /\ [Next]_vars => TypeOK'
<1> SUFFICES ASSUME TypeOK, [Next]_vars PROVE TypeOK'
  OBVIOUS
<1>1. CASE Send
  <2>1. UNCHANGED <<ring, s_last_data, main>>
    BY <1>1 DEF Send
  <2> QED BY <1>1, <2>1, SendTypes DEF TypeOK, ring
<1>2. CASE Push
  <2>1. UNCHANGED <<next, s_last_data, main, lost>> /\ Len(fifo) <= Fifo
    BY <1>2 DEF Push, TypeOK
  <2>2. Len(fifo') <= Fifo
    BY <1>2, <2>1, PushTypes, Sizes
  <2>3. fifo' \in Seq(Byte) /\ s_rx' \in [Index -> Byte] /\ s_head' \in Index /\ s_tail' \in Index
    BY <1>2, PushTypes
  <2> QED BY <2>1, <2>2, <2>3 DEF TypeOK
<1>3. CASE Parse
  <2>1. UNCHANGED <<next, fifo, s_rx, s_head, lost>> /\ main' = "rd03d_api_poll"
    BY <1>3 DEF Parse
  <2> QED BY <1>3, <2>1, ParseTypes DEF TypeOK
<1>4. CASE Take
  <2>1. UNCHANGED <<next, fifo, ring, lost>> /\ main' = "rd03d_drv_poll"
    BY <1>4 DEF Take
  <2>2. s_last_data' = [s_last_data EXCEPT !.ready = FALSE]
    BY <1>4 DEF Take
  <2>3. s_last_data' \in [ready: BOOLEAN, frame: Seq(Byte)]
        /\ s_last_data'.frame = s_last_data.frame
    BY <2>2 DEF TypeOK
  <2> QED BY <2>1, <2>3 DEF TypeOK, ring
<1>5. CASE UNCHANGED vars
  BY <1>5 DEF TypeOK, vars, ring
<1> QED BY <1>1, <1>2, <1>3, <1>4, <1>5 DEF Next

\* Types are kept: the ring's indices stay inside it, and a frame published is a
\* whole frame long or none.
THEOREM RingTypeCorrect == Spec => []TypeOK
<1> QED BY InitTypes, NextTypes, PTL DEF Spec

-----------------------------------------------------------------------------
(* How the stream moves. *)

LEMMA AfterAfter ==
  ASSUME NEW t \in Index, NEW m \in Nat, NEW n \in Nat, m + n <= RING_SIZE - 1
  PROVE  After(After(t, m), n) = After(t, m + n)
<1>1. m \in 0 .. RING_SIZE - 1 /\ n \in 0 .. RING_SIZE - 1 /\ m + n \in 0 .. RING_SIZE - 1
  BY Sizes
<1>2. /\ After(t, m) \in Index
      /\ After(t, m) = IF t + m < RING_SIZE THEN t + m ELSE t + m - RING_SIZE
  BY <1>1, AfterIs
<1>3. After(t, m + n) = IF t + (m + n) < RING_SIZE THEN t + (m + n) ELSE t + (m + n) - RING_SIZE
  BY <1>1, AfterIs
<1>4. After(After(t, m), n) =
        IF After(t, m) + n < RING_SIZE THEN After(t, m) + n ELSE After(t, m) + n - RING_SIZE
  BY <1>1, <1>2, AfterIs
<1> QED BY <1>1, <1>2, <1>3, <1>4, Sizes DEF Index

\* The head is as far from the tail as there are bytes.
LEMMA HeadIs ==
  ASSUME NEW h \in Index, NEW t \in Index, NEW n \in 0 .. RING_SIZE - 1
  PROVE  /\ After(t, n) = h <=> n = Count(h, t)
         /\ n <= Count(h, t) => Count(h, After(t, n)) = Count(h, t) - n
<1>1. /\ Count(h, t) \in 0 .. RING_SIZE - 1
      /\ Count(h, t) = IF h >= t THEN h - t ELSE h + RING_SIZE - t
  BY CountIs
<1>2. /\ After(t, n) \in Index
      /\ After(t, n) = IF t + n < RING_SIZE THEN t + n ELSE t + n - RING_SIZE
  BY AfterIs
<1>3. Count(h, After(t, n)) = IF h >= After(t, n) THEN h - After(t, n) ELSE h + RING_SIZE - After(t, n)
  BY <1>2, CountIs
<1>4. h \in Nat /\ t \in Nat /\ h < RING_SIZE /\ t < RING_SIZE /\ RING_SIZE \in Nat
  BY Sizes DEF Index
<1>5. After(t, n) = h <=> n = Count(h, t)
  BY <1>1, <1>2, <1>4
<1>6. n <= Count(h, t) => Count(h, After(t, n)) = Count(h, t) - n
  BY <1>1, <1>2, <1>3, <1>4
<1> QED BY <1>5, <1>6

\* A byte on its way, the one the sensor sends next included.
WireByte == [k: 0 .. Frames + 1, p: 0..FrameLen, v: Values]

LEMMA WireTypes ==
  ASSUME TypeOK
  PROVE  /\ InRing \in 0 .. RING_SIZE - 1 /\ InRing \in Nat /\ Len(fifo) \in Nat
         /\ Waiting \in Nat /\ Waiting = InRing + Len(fifo)
         /\ \A i \in 1 .. Waiting + 1 : At(i) \in WireByte
         /\ \A i \in 1 .. InRing : At(i) = Content[i] /\ At(i) \in Byte
         /\ At(Waiting + 1) = Coming
         /\ Coming.k = next.k /\ Coming.p = next.p /\ Coming.v = Value(next.p, next.load)
         /\ next.k \in 1 .. Frames + 1 /\ next.p \in Positions /\ next.load \in Payload
<1>1. InRing \in 0 .. RING_SIZE - 1 /\ InRing \in Nat /\ Len(fifo) \in Nat
      /\ Waiting \in Nat /\ Waiting = InRing + Len(fifo) /\ fifo \in Seq(Byte)
  BY ContentIs, LenProperties, Sizes DEF TypeOK, Waiting
<1>2. next.k \in 1 .. Frames + 1 /\ next.p \in Positions /\ next.load \in Payload
  BY DEF TypeOK
<1>3. Coming.k = next.k /\ Coming.p = next.p /\ Coming.v = Value(next.p, next.load)
  BY DEF Coming
<1>4. \A b \in Byte : b \in WireByte
  BY Sizes DEF Byte, WireByte, Values
<1>5. Coming \in WireByte
  <2>1. next.k \in 0 .. Frames + 1 /\ next.p \in 0..FrameLen /\ Value(next.p, next.load) \in Values
    BY <1>2, Valued, Sizes DEF Positions
  <2> QED BY <2>1 DEF Coming, WireByte
<1>6. \A i \in 1 .. InRing : At(i) = Content[i] /\ At(i) \in Byte
  BY ContentIs DEF At
<1>7. At(Waiting + 1) = Coming
  BY <1>1 DEF At
<1>8. ASSUME NEW i \in 1 .. Waiting + 1 PROVE At(i) \in WireByte
  <2>1. CASE i <= InRing
    BY <1>1, <1>4, <1>6, <2>1
  <2>2. CASE ~(i <= InRing) /\ i <= Waiting
    <3>1. i - InRing \in 1..Len(fifo)
      BY <1>1, <2>2
    <3>2. fifo[i - InRing] \in Byte
      BY <1>1, <3>1, ElementOfSeq
    <3> QED BY <1>4, <2>2, <3>2 DEF At
  <2>3. CASE ~(i <= InRing) /\ ~(i <= Waiting)
    BY <1>5, <2>3 DEF At
  <2> QED BY <2>1, <2>2, <2>3
<1> QED BY <1>1, <1>2, <1>3, <1>6, <1>7, <1>8

\* m bytes leave the front.
Moved(m) == /\ Waiting' = Waiting - m /\ Coming' = Coming
            /\ \A i \in 1 .. Waiting - m + 1 : At(i)' = At(i + m)

\* A byte sent is the last, or lost.
LEMMA SendMoves ==
  ASSUME TypeOK, Send
  PROVE  \/ /\ Waiting' = Waiting + 1 /\ lost' = lost
            /\ \A i \in 1 .. Waiting + 1 : At(i)' = At(i)
         \/ /\ Waiting' = Waiting /\ lost'
            /\ \A i \in 1 .. Waiting : At(i)' = At(i)
<1>1. fifo \in Seq(Byte) /\ Coming \in Byte
  BY SendTypes DEF TypeOK
<1>2. InRing' = InRing /\ s_rx' = s_rx /\ s_tail' = s_tail
  BY DEF Send, ring, InRing
<1>3. InRing \in Nat /\ Len(fifo) \in Nat /\ Waiting \in Nat /\ Waiting = InRing + Len(fifo)
  BY WireTypes
<1>4. CASE fifo' = Append(fifo, Coming) /\ lost' = lost
  <2>1. Len(fifo') = Len(fifo) + 1 /\ fifo'[Len(fifo) + 1] = Coming
        /\ \A i \in 1..Len(fifo) : fifo'[i] = fifo[i]
    BY <1>1, <1>4, AppendProperties
  <2>2. Waiting' = Waiting + 1
    BY <1>2, <1>3, <2>1 DEF Waiting
  <2>3. ASSUME NEW i \in 1 .. Waiting + 1 PROVE At(i)' = At(i)
    <3>1. CASE i <= InRing
      BY <1>2, <3>1 DEF At
    <3>2. CASE ~(i <= InRing) /\ i <= Waiting
      <4>1. i - InRing \in 1..Len(fifo) /\ i <= Waiting'
        BY <1>3, <2>2, <3>2
      <4>2. fifo'[i - InRing] = fifo[i - InRing]
        BY <2>1, <4>1
      <4> QED BY <1>2, <3>2, <4>1, <4>2 DEF At
    <3>3. CASE i = Waiting + 1
      <4>1. i - InRing = Len(fifo) + 1 /\ ~(i <= InRing) /\ i <= Waiting' /\ ~(i <= Waiting)
        BY <1>3, <2>2, <3>3
      <4>2. fifo'[i - InRing] = Coming
        BY <2>1, <4>1
      <4> QED BY <1>2, <4>1, <4>2 DEF At
    <3> QED BY <1>3, <3>1, <3>2, <3>3
  <2> QED BY <1>4, <2>2, <2>3
<1>5. CASE fifo' = fifo /\ lost'
  <2>1. Waiting' = Waiting
    BY <1>2, <1>5 DEF Waiting
  <2>2. \A i \in 1 .. Waiting : At(i)' = At(i)
    BY <1>2, <1>3, <1>5, <2>1 DEF At
  <2> QED BY <1>5, <2>1, <2>2
<1> QED BY <1>4, <1>5, SendTypes

\* A parser that drops n bytes takes them from the front.
LEMMA ParseMoves ==
  ASSUME TypeOK, UNCHANGED <<next, fifo, s_rx, s_head>>,
         NEW n \in 0 .. InRing, s_tail' = After(s_tail, n)
  PROVE  Moved(n) /\ InRing' = InRing - n
<1>1. InRing \in 0 .. RING_SIZE - 1 /\ InRing \in Nat /\ Len(fifo) \in Nat /\ Waiting \in Nat
      /\ Waiting = InRing + Len(fifo) /\ RING_SIZE \in Nat
  BY WireTypes, Sizes
<1>2. s_head \in Index /\ s_tail \in Index /\ n \in 0 .. RING_SIZE - 1 /\ n \in Nat
  BY <1>1 DEF TypeOK
<1>3. InRing' = InRing - n
  BY <1>2, HeadIs DEF InRing
<1>4. Waiting' = Waiting - n
  BY <1>1, <1>2, <1>3 DEF Waiting
<1>5. Coming' = Coming
  BY DEF Coming
<1>6. ASSUME NEW i \in 1 .. Waiting - n + 1 PROVE At(i)' = At(i + n)
  <2>1. CASE i <= InRing - n
    <3>1. After(s_tail', i - 1) = After(s_tail, n + (i - 1))
      BY <1>1, <1>2, <2>1, AfterAfter
    <3>2. n + (i - 1) = (i + n) - 1 /\ i + n <= InRing /\ i <= InRing'
      BY <1>1, <1>2, <1>3, <2>1
    <3> QED BY <3>1, <3>2 DEF At
  <2>2. CASE ~(i <= InRing - n)
    <3>1. i - InRing' = (i + n) - InRing /\ ~(i <= InRing') /\ ~(i + n <= InRing)
          /\ (i <= Waiting' <=> i + n <= Waiting)
      BY <1>1, <1>2, <1>3, <1>4, <2>2
    <3> QED BY <1>5, <3>1 DEF At
  <2> QED BY <2>1, <2>2
<1> QED BY <1>3, <1>4, <1>5, <1>6 DEF Moved

\* A byte that goes to the ring keeps its place, and the oldest goes when the ring is
\* full.
LEMMA PushMoves ==
  ASSUME TypeOK, Push
  PROVE  Moved(0) \/ Moved(1)
<1>1. InRing \in 0 .. RING_SIZE - 1 /\ InRing \in Nat /\ Len(fifo) \in Nat /\ Waiting \in Nat
      /\ Waiting = InRing + Len(fifo) /\ RING_SIZE \in Nat /\ RING_SIZE > 1
  BY WireTypes, Sizes
<1>2. s_head \in Index /\ s_tail \in Index /\ s_rx \in [Index -> Byte] /\ s_head' \in Index
  BY PushTypes DEF TypeOK
<1>3. /\ Len(fifo') = Len(fifo) - 1 /\ Len(fifo) >= 1
      /\ s_rx' = [s_rx EXCEPT ![s_head] = fifo[1]]
      /\ \A i \in 1 .. Len(fifo) - 1 : fifo'[i] = fifo[i + 1]
  BY PushTypes
<1>4. /\ s_head' = After(s_head, 1) /\ next' = next
      /\ s_tail' = IF s_head' = s_tail THEN After(s_tail, 1) ELSE s_tail
  BY DEF Push, TailAfterPush
<1>5. Coming' = Coming
  BY <1>4 DEF Coming
<1>6. s_head = After(s_tail, InRing)
  BY <1>1, <1>2, HeadIs DEF InRing
\* The byte is stored behind the others.
<1>7. ASSUME NEW n \in 0 .. RING_SIZE - 1
      PROVE  s_rx'[After(s_tail, n)] = IF n = InRing THEN fifo[1] ELSE s_rx[After(s_tail, n)]
  <2>1. After(s_tail, n) \in Index
    BY <1>2, AfterIs
  <2>2. After(s_tail, n) = s_head <=> n = InRing
    BY <1>2, HeadIs DEF InRing
  <2> QED BY <1>2, <1>3, <2>1, <2>2
<1>8. CASE s_head' # s_tail
  <2>1. InRing + 1 <= RING_SIZE - 1 /\ InRing' = InRing + 1
    <3>1. s_head' = IF s_head + 1 < RING_SIZE THEN s_head + 1 ELSE s_head + 1 - RING_SIZE
      BY <1>1, <1>2, <1>4, AfterIs
    <3>2. InRing = IF s_head >= s_tail THEN s_head - s_tail ELSE s_head + RING_SIZE - s_tail
      BY <1>2, CountIs DEF InRing
    <3>3. InRing' = IF s_head' >= s_tail THEN s_head' - s_tail ELSE s_head' + RING_SIZE - s_tail
      BY <1>2, <1>4, <1>8, CountIs DEF InRing
    <3> QED BY <1>1, <1>2, <1>8, <3>1, <3>2, <3>3 DEF Index
  <2>2. Waiting' = Waiting
    BY <1>1, <1>3, <2>1 DEF Waiting
  <2>3. ASSUME NEW i \in 1 .. Waiting + 1 PROVE At(i)' = At(i)
    <3>1. CASE i <= InRing
      <4>1. i - 1 \in 0 .. RING_SIZE - 1 /\ i - 1 # InRing /\ i <= InRing'
        BY <1>1, <2>1, <3>1
      <4>2. s_rx'[After(s_tail, i - 1)] = s_rx[After(s_tail, i - 1)]
        BY <1>7, <4>1
      <4> QED BY <1>4, <1>8, <3>1, <4>1, <4>2 DEF At
    <3>2. CASE i = InRing + 1
      <4>1. i - 1 \in 0 .. RING_SIZE - 1 /\ i - 1 = InRing /\ i <= InRing' /\ ~(i <= InRing)
            /\ i <= Waiting /\ i - InRing = 1
        BY <1>1, <1>3, <2>1, <3>2
      <4>2. s_rx'[After(s_tail, i - 1)] = fifo[1]
        BY <1>7, <4>1
      <4> QED BY <1>4, <1>8, <4>1, <4>2 DEF At
    <3>3. CASE i > InRing + 1 /\ i <= Waiting
      <4>1. i - InRing' \in 1 .. Len(fifo) - 1 /\ (i - InRing') + 1 = i - InRing
            /\ ~(i <= InRing') /\ ~(i <= InRing)
        BY <1>1, <2>1, <3>3
      <4>2. fifo'[i - InRing'] = fifo[i - InRing]
        BY <1>3, <4>1
      <4> QED BY <2>2, <3>3, <4>1, <4>2 DEF At
    <3>4. CASE i > InRing + 1 /\ ~(i <= Waiting)
      <4>1. ~(i <= InRing') /\ ~(i <= InRing)
        BY <1>1, <2>1, <3>4
      <4> QED BY <1>5, <2>2, <3>4, <4>1 DEF At
    <3> QED BY <1>1, <3>1, <3>2, <3>3, <3>4
  <2>4. \A i \in 1 .. Waiting - 0 + 1 : At(i)' = At(i + 0)
    BY <1>1, <2>3
  <2>5. Waiting' = Waiting - 0
    BY <1>1, <2>2
  <2> QED BY <1>5, <2>4, <2>5 DEF Moved
<1>9. CASE s_head' = s_tail
  <2>1. s_tail' = After(s_tail, 1)
    BY <1>4, <1>9
  <2>2. InRing = RING_SIZE - 1 /\ InRing' = InRing
    <3>1. s_head' = IF s_head + 1 < RING_SIZE THEN s_head + 1 ELSE s_head + 1 - RING_SIZE
      BY <1>1, <1>2, <1>4, AfterIs
    <3>2. InRing = IF s_head >= s_tail THEN s_head - s_tail ELSE s_head + RING_SIZE - s_tail
      BY <1>2, CountIs DEF InRing
    <3>3. s_tail' \in Index
          /\ s_tail' = IF s_tail + 1 < RING_SIZE THEN s_tail + 1 ELSE s_tail + 1 - RING_SIZE
      BY <1>1, <1>2, <2>1, AfterIs
    <3>4. InRing' = IF s_head' >= s_tail' THEN s_head' - s_tail' ELSE s_head' + RING_SIZE - s_tail'
      BY <1>2, <3>3, CountIs DEF InRing
    <3>5. s_head \in Nat /\ s_tail \in Nat /\ s_head < RING_SIZE /\ s_tail < RING_SIZE
      BY <1>1, <1>2 DEF Index
    <3>6. s_tail = IF s_head + 1 < RING_SIZE THEN s_head + 1 ELSE s_head + 1 - RING_SIZE
      BY <1>9, <3>1
    <3>7. InRing = RING_SIZE - 1
      BY ONLY <1>1, <3>2, <3>5, <3>6
    <3>8. InRing' = IF s_tail >= s_tail' THEN s_tail - s_tail' ELSE s_tail + RING_SIZE - s_tail'
      BY <1>9, <3>4
    <3>9. InRing' = RING_SIZE - 1
      <4>1. CASE s_tail + 1 < RING_SIZE
        BY ONLY <1>1, <3>3, <3>5, <3>8, <4>1
      <4>2. CASE ~(s_tail + 1 < RING_SIZE)
        BY ONLY <1>1, <3>3, <3>5, <3>8, <4>2
      <4> QED BY <4>1, <4>2
    <3> QED BY <3>7, <3>9
  <2>3. Waiting' = Waiting - 1
    BY <1>1, <1>3, <2>2 DEF Waiting
  <2>4. ASSUME NEW i \in 1 .. Waiting - 1 + 1 PROVE At(i)' = At(i + 1)
    <3>1. CASE i < InRing
      <4>1. i - 1 \in Nat /\ 1 + (i - 1) <= RING_SIZE - 1 /\ 1 + (i - 1) = (i + 1) - 1
        BY <1>1, <2>2, <3>1
      <4>2. After(s_tail', i - 1) = After(s_tail, (i + 1) - 1)
        BY <1>2, <2>1, <4>1, AfterAfter
      <4>3. (i + 1) - 1 \in 0 .. RING_SIZE - 1 /\ (i + 1) - 1 # InRing /\ i <= InRing' /\ i + 1 <= InRing
        BY <1>1, <2>2, <3>1
      <4>4. s_rx'[After(s_tail, (i + 1) - 1)] = s_rx[After(s_tail, (i + 1) - 1)]
        BY <1>7, <4>3
      <4> QED BY <4>2, <4>3, <4>4 DEF At
    <3>2. CASE i = InRing
      <4>1. i - 1 \in Nat /\ 1 + (i - 1) <= RING_SIZE - 1 /\ 1 + (i - 1) = InRing
        BY <1>1, <2>2, <3>2
      <4>2. After(s_tail', i - 1) = After(s_tail, InRing)
        BY <1>2, <2>1, <4>1, AfterAfter
      <4>3. s_rx'[After(s_tail, InRing)] = fifo[1]
        BY <1>1, <1>7
      <4>4. i <= InRing' /\ ~(i + 1 <= InRing) /\ i + 1 <= Waiting /\ (i + 1) - InRing = 1
        BY <1>1, <1>3, <2>2, <3>2
      <4> QED BY <4>2, <4>3, <4>4 DEF At
    <3>3. CASE i > InRing /\ i + 1 <= Waiting
      <4>1. i - InRing' \in 1 .. Len(fifo) - 1 /\ (i - InRing') + 1 = (i + 1) - InRing
            /\ ~(i <= InRing') /\ ~(i + 1 <= InRing) /\ i <= Waiting'
        BY <1>1, <2>2, <2>3, <3>3
      <4>2. fifo'[i - InRing'] = fifo[(i + 1) - InRing]
        BY <1>3, <4>1
      <4> QED BY <3>3, <4>1, <4>2 DEF At
    <3>4. CASE i > InRing /\ ~(i + 1 <= Waiting)
      <4>1. ~(i <= InRing') /\ ~(i + 1 <= InRing) /\ ~(i <= Waiting')
        BY <1>1, <2>2, <2>3, <3>4
      <4> QED BY <1>5, <3>4, <4>1 DEF At
    <3> QED BY <1>1, <3>1, <3>2, <3>3, <3>4
  <2> QED BY <1>5, <2>3, <2>4 DEF Moved
<1> QED BY <1>8, <1>9

-----------------------------------------------------------------------------
(* The stream keeps its order. *)

\* The inductive invariant.
InStream == TypeOK /\ Sent /\ Streams /\ Consumes

LEMMA InitStream == Init => InStream
<1> SUFFICES ASSUME Init PROVE InStream
  OBVIOUS
<1>1. TypeOK
  BY InitTypes
<1>2. InRing = 0
  <2>1. 0 \in Index
    BY Sizes DEF Index
  <2>2. Count(0, 0) = 0
    BY <2>1, CountIs, Sizes
  <2> QED BY <2>2 DEF Init, InRing
<1>3. Waiting = 0
  BY <1>2 DEF Waiting, Init
<1>4. At(1) = Coming /\ Coming.k = next.k /\ Coming.p = next.p /\ Coming.v = Value(next.p, next.load)
      /\ next.k \in 1 .. Frames + 1 /\ next.p \in Positions /\ next.load \in Payload
  <2>1. Waiting + 1 = 1
    BY <1>3
  <2> QED BY <1>1, <2>1, WireTypes
<1>5. \A i \in 1 .. Waiting + 1 : i = 1
  BY <1>3
<1>6. Sent
  BY <1>4, <1>5 DEF Sent
<1>7. Streams
  <2>1. \A i, j \in 1 .. Waiting + 1 : ~(i < j)
    BY <1>5
  <2> QED BY <2>1 DEF Streams
<1>8. Consumes
  BY DEF Init, Consumes
<1> QED BY <1>1, <1>6, <1>7, <1>8 DEF InStream

\* What leaves the front of the stream disturbs nothing behind it.
LEMMA MoveKeeps ==
  ASSUME TypeOK, Sent, Streams, NEW m \in Nat, m <= Waiting, Moved(m), UNCHANGED <<next, lost>>
  PROVE  Sent' /\ Streams'
<1>1. Waiting \in Nat /\ Waiting' = Waiting - m
  BY WireTypes DEF Moved
<1>2. ASSUME NEW i \in 1 .. Waiting' + 1
      PROVE  i + m \in 1 .. Waiting + 1 /\ At(i)' = At(i + m)
  BY <1>1, <1>2 DEF Moved
<1>3. Sent'
  <2> SUFFICES ASSUME NEW i \in 1 .. Waiting' + 1
               PROVE  /\ At(i)'.k \in 1 .. Frames + 1 /\ At(i)'.p \in Positions
                      /\ \E load \in Payload : At(i)'.v = Value(At(i)'.p, load)
                      /\ At(i)'.k = next.k => At(i)'.v = Value(At(i)'.p, next.load)
    BY DEF Sent, Value
  <2> QED BY <1>2 DEF Sent
<1>4. Streams'
  <2> SUFFICES ASSUME NEW i \in 1 .. Waiting' + 1, NEW j \in 1 .. Waiting' + 1, i < j
               PROVE  /\ Later(At(i)', At(j)', j - i)
                      /\ SamePayload(At(i)', At(j)')
                      /\ ~lost => Exact(At(i)', At(j)', j - i)
    BY DEF Streams, Later, SamePayload, Exact
  <2>1. i + m \in 1 .. Waiting + 1 /\ j + m \in 1 .. Waiting + 1
        /\ At(i)' = At(i + m) /\ At(j)' = At(j + m)
    BY <1>2
  <2>2. i + m < j + m /\ (j + m) - (i + m) = j - i
    BY <1>1
  <2>3. /\ Later(At(i + m), At(j + m), (j + m) - (i + m))
        /\ SamePayload(At(i + m), At(j + m))
        /\ ~lost => Exact(At(i + m), At(j + m), (j + m) - (i + m))
    BY <2>1, <2>2 DEF Streams
  <2> QED BY <2>1, <2>2, <2>3
<1> QED BY <1>3, <1>4

\* The byte behind is one further on.
LEMMA OneOn ==
  ASSUME TypeOK, Send, NEW b \in WireByte, b.k >= 1, b.p \in Positions,
         NEW d \in Nat, Later(b, Coming, d)
  PROVE  /\ Later(b, Coming', d) /\ Later(b, Coming', d + 1)
         /\ Exact(b, Coming, d) => Exact(b, Coming', d + 1)
         /\ b.k = next'.k => next'.k = next.k /\ next'.load = next.load
         /\ b.k <= next'.k
         /\ next'.k >= next.k
<1>1. /\ b.k \in Nat /\ b.p \in Nat /\ b.p >= 1 /\ b.p <= FrameLen
      /\ next.k \in Nat /\ next.p \in Nat /\ next.p >= 1 /\ next.p <= FrameLen
      /\ FrameLen \in Nat /\ FrameLen >= 3
  BY WireTypes, Sizes DEF WireByte, Positions
<1>2. Coming.k = next.k /\ Coming.p = next.p
  BY DEF Coming
<1>3. Coming'.k = next'.k /\ Coming'.p = next'.p
  BY DEF Coming
<1>4. \/ next.p < FrameLen /\ next'.k = next.k /\ next'.p = next.p + 1 /\ next'.load = next.load
      \/ next.p = FrameLen /\ next'.k = next.k + 1 /\ next'.p = 1
  BY SendTypes
<1>5. next.k > b.k \/ (next.k = b.k /\ next.p >= b.p + d)
  BY <1>2 DEF Later
<1>6. next'.k >= next.k
  BY <1>1, <1>4
<1>7. b.k <= next'.k /\ (b.k = next'.k => next'.k = next.k /\ next'.load = next.load)
  BY <1>1, <1>4, <1>5
<1>8. Later(b, Coming', d) /\ Later(b, Coming', d + 1)
  BY <1>1, <1>3, <1>4, <1>5 DEF Later
<1>9. ASSUME Exact(b, Coming, d) PROVE Exact(b, Coming', d + 1)
  <2>1. b.p + d <= FrameLen => next.k = b.k /\ next.p = b.p + d
    BY <1>2, <1>9 DEF Exact
  <2>2. b.p + d \in FrameLen + 1 .. 2 * FrameLen => next.k = b.k + 1 /\ next.p = b.p + d - FrameLen
    BY <1>2, <1>9 DEF Exact
  <2>3. ASSUME b.p + (d + 1) <= FrameLen
        PROVE  next'.k = b.k /\ next'.p = b.p + (d + 1)
    BY <1>1, <1>4, <2>1, <2>3
  <2>4. ASSUME b.p + (d + 1) \in FrameLen + 1 .. 2 * FrameLen
        PROVE  next'.k = b.k + 1 /\ next'.p = b.p + (d + 1) - FrameLen
    <3>1. CASE b.p + d = FrameLen
      BY <1>1, <1>4, <2>1, <3>1
    <3>2. CASE b.p + d # FrameLen
      <4>1. b.p + d \in FrameLen + 1 .. 2 * FrameLen /\ b.p + d < 2 * FrameLen
        BY <1>1, <2>4, <3>2
      <4>2. next.k = b.k + 1 /\ next.p = b.p + d - FrameLen /\ next.p < FrameLen
        BY <1>1, <2>2, <4>1
      <4> QED BY <1>1, <1>4, <4>2
    <3> QED BY <3>1, <3>2
  <2> QED BY <1>3, <2>3, <2>4 DEF Exact
<1> QED BY <1>6, <1>7, <1>8, <1>9

\* The byte after the one sent is in order with all before it.
LEMMA SendKeeps ==
  ASSUME TypeOK, Sent, Streams, Send
  PROVE  Sent' /\ Streams' /\ (\A i \in 1 .. Waiting + 1 : At(i).k <= next'.k)
<1>1. /\ Waiting \in Nat /\ InRing \in Nat /\ InRing <= Waiting
      /\ \A i \in 1 .. Waiting + 1 : At(i) \in WireByte
      /\ At(Waiting + 1) = Coming
      /\ Coming.k = next.k /\ Coming.p = next.p /\ Coming.v = Value(next.p, next.load)
  BY WireTypes
<1>10. /\ Coming'.k = next'.k /\ Coming'.p = next'.p /\ Coming'.v = Value(next'.p, next'.load)
      /\ next'.k \in 1 .. Frames + 1 /\ next'.p \in Positions /\ next'.load \in Payload
  BY SendTypes DEF Coming
<1>11. InRing' = InRing
  BY DEF Send, ring, InRing
<1>12. Waiting' \in Nat /\ Waiting' >= Waiting
  <2>1. Waiting' = Waiting + 1 \/ Waiting' = Waiting
    BY SendMoves
  <2> QED BY <1>1, <2>1
\* Every byte, seen from the one that was coming.
<1>2. ASSUME NEW i \in 1 .. Waiting + 1
      PROVE  /\ At(i) \in WireByte /\ At(i).k >= 1 /\ At(i).p \in Positions
             /\ Waiting + 1 - i \in Nat /\ Later(At(i), Coming, Waiting + 1 - i)
             /\ ~lost => Exact(At(i), Coming, Waiting + 1 - i)
  <2>1. At(i) \in WireByte /\ At(i).k \in 1 .. Frames + 1 /\ At(i).p \in Positions
    BY <1>1 DEF Sent
  <2>2. At(i).k >= 1 /\ Waiting + 1 - i \in Nat
    BY <1>1, <2>1
  <2>3. CASE i = Waiting + 1
    <3>1. At(i) = Coming /\ Waiting + 1 - i = 0
      BY <1>1, <2>3
    <3>2. At(i).p \in Nat /\ At(i).p <= FrameLen /\ FrameLen \in Nat
      BY <2>1, Sizes DEF Positions
    <3>3. Later(At(i), At(i), 0) /\ Exact(At(i), At(i), 0)
      BY <3>2 DEF Later, Exact
    <3> QED BY <2>1, <2>2, <3>1, <3>3
  <2>4. CASE i < Waiting + 1
    <3>1. Waiting + 1 \in 1 .. Waiting + 1
      BY <1>1
    <3> DEFINE j == Waiting + 1
    <3>2. Later(At(i), At(j), j - i) /\ (~lost => Exact(At(i), At(j), j - i))
      <4>1. j \in 1 .. Waiting + 1 /\ i < j
        BY <2>4, <3>1
      <4> HIDE DEF j
      <4> QED BY <4>1 DEF Streams
    <3> QED BY <1>1, <2>1, <2>2, <3>2
  <2> QED BY <1>1, <2>3, <2>4
\* ... and from the next one.
<1>3. ASSUME NEW i \in 1 .. Waiting + 1
      PROVE  /\ Later(At(i), Coming', Waiting + 1 - i) /\ Later(At(i), Coming', Waiting + 2 - i)
             /\ ~lost => Exact(At(i), Coming', Waiting + 2 - i)
             /\ SamePayload(At(i), Coming')
             /\ At(i).k = next'.k => At(i).v = Value(At(i).p, next'.load)
             /\ At(i).k <= next'.k
  <2>1. /\ At(i) \in WireByte /\ At(i).k >= 1 /\ At(i).p \in Positions
        /\ Waiting + 1 - i \in Nat /\ Later(At(i), Coming, Waiting + 1 - i)
        /\ ~lost => Exact(At(i), Coming, Waiting + 1 - i)
    BY <1>2
  <2>2. /\ Later(At(i), Coming', Waiting + 1 - i)
        /\ Later(At(i), Coming', (Waiting + 1 - i) + 1)
        /\ Exact(At(i), Coming, Waiting + 1 - i) => Exact(At(i), Coming', (Waiting + 1 - i) + 1)
        /\ At(i).k = next'.k => next'.k = next.k /\ next'.load = next.load
        /\ At(i).k <= next'.k
    BY <2>1, OneOn
  <2>3. (Waiting + 1 - i) + 1 = Waiting + 2 - i
    BY <1>1
  <2>4. At(i).k = next'.k => At(i).v = Value(At(i).p, next'.load)
    BY <2>2 DEF Sent
  <2>5. SamePayload(At(i), Coming')
    BY <1>10, <2>4 DEF SamePayload
  <2> QED BY <2>1, <2>2, <2>3, <2>4, <2>5
<1>4. \/ /\ Waiting' = Waiting + 1 /\ lost' = lost
         /\ \A i \in 1 .. Waiting + 1 : At(i)' = At(i)
      \/ /\ Waiting' = Waiting /\ lost'
         /\ \A i \in 1 .. Waiting : At(i)' = At(i)
  BY SendMoves
<1>5. PICK w \in Nat : w = Waiting' /\ w >= Waiting
  BY <1>12
\* In front of the byte that is coming now the stream is as it was.
<1>6. ASSUME NEW i \in 1 .. w
      PROVE  /\ i \in 1 .. Waiting + 1 /\ At(i)' = At(i)
             /\ Later(At(i), Coming', w + 1 - i)
             /\ ~lost' => Exact(At(i), Coming', w + 1 - i)
  <2>1. CASE /\ w = Waiting + 1 /\ lost' = lost
             /\ \A n \in 1 .. Waiting + 1 : At(n)' = At(n)
    <3>1. i \in 1 .. Waiting + 1 /\ At(i)' = At(i) /\ w + 1 - i = Waiting + 2 - i
      BY <1>1, <1>5, <2>1
    <3> QED BY <1>3, <2>1, <3>1
  <2>2. CASE /\ w = Waiting /\ lost'
             /\ \A n \in 1 .. Waiting : At(n)' = At(n)
    <3>1. i \in 1 .. Waiting + 1 /\ At(i)' = At(i) /\ w + 1 - i = Waiting + 1 - i
      BY <1>1, <1>5, <2>2
    <3> QED BY <1>3, <2>2, <3>1
  <2> QED BY <1>4, <1>5, <2>1, <2>2
<1>7. ASSUME NEW i \in 1 .. w + 1, i \notin 1 .. w
      PROVE  i = w + 1 /\ At(i)' = Coming'
  <2>1. i = w + 1
    BY <1>7
  <2>2. ~(i <= w)
    BY <2>1
  <2>3. ~(i <= InRing)
    <3>1. w = Waiting \/ w = Waiting + 1
      BY <1>4, <1>5
    <3> QED BY <1>1, <2>1, <3>1
  <2> QED BY <1>5, <1>11, <2>1, <2>2, <2>3 DEF At
<1>8. Sent'
  <2> SUFFICES ASSUME NEW i \in 1 .. w + 1
               PROVE  /\ At(i)'.k \in 1 .. Frames + 1 /\ At(i)'.p \in Positions
                      /\ \E load \in Payload : At(i)'.v = Value(At(i)'.p, load)
                      /\ At(i)'.k = next'.k => At(i)'.v = Value(At(i)'.p, next'.load)
    BY <1>5 DEF Sent, Value
  <2>1. CASE i \in 1 .. w
    <3>1. i \in 1 .. Waiting + 1 /\ At(i)' = At(i)
      BY <1>6, <2>1
    <3>2. At(i).k \in 1 .. Frames + 1 /\ At(i).p \in Positions
          /\ \E load \in Payload : At(i).v = Value(At(i).p, load)
      BY <3>1 DEF Sent
    <3>3. At(i).k = next'.k => At(i).v = Value(At(i).p, next'.load)
      BY <1>3, <3>1
    <3> QED BY <3>1, <3>2, <3>3
  <2>2. CASE i \notin 1 .. w
    BY <1>10, <1>7, <2>2
  <2> QED BY <2>1, <2>2
<1>9. Streams'
  <2> SUFFICES ASSUME NEW i \in 1 .. w + 1, NEW j \in 1 .. w + 1, i < j
               PROVE  /\ Later(At(i)', At(j)', j - i)
                      /\ SamePayload(At(i)', At(j)')
                      /\ ~lost' => Exact(At(i)', At(j)', j - i)
    BY <1>5 DEF Streams, Later, SamePayload, Exact
  <2>1. i \in 1 .. w
    OBVIOUS
  <2>2. i \in 1 .. Waiting + 1 /\ At(i)' = At(i)
    BY <1>6, <2>1
  <2>3. CASE j \in 1 .. w
    <3>1. j \in 1 .. Waiting + 1 /\ At(j)' = At(j)
      BY <1>6, <2>3
    <3>2. /\ Later(At(i), At(j), j - i) /\ SamePayload(At(i), At(j))
          /\ ~lost => Exact(At(i), At(j), j - i)
      BY <2>2, <3>1 DEF Streams
    <3>3. ~lost' => ~lost
      BY <1>4, SendTypes DEF TypeOK
    <3> QED BY <2>2, <3>1, <3>2, <3>3
  <2>4. CASE j \notin 1 .. w
    <3>1. j = w + 1 /\ At(j)' = Coming'
      BY <1>7, <2>4
    <3>2. Later(At(i), Coming', j - i) /\ (~lost' => Exact(At(i), Coming', j - i))
      <4>1. /\ Later(At(i), Coming', w + 1 - i)
            /\ ~lost' => Exact(At(i), Coming', w + 1 - i)
        BY <1>6, <2>1
      <4> QED BY <3>1, <4>1
    <3>3. SamePayload(At(i), Coming')
      BY <1>3, <2>2
    <3> QED BY <2>2, <3>1, <3>2, <3>3
  <2> QED BY <2>3, <2>4
<1> QED BY <1>3, <1>8, <1>9

\* What was published stays behind the stream ...
LEMMA SendStaysAhead ==
  ASSUME TypeOK, Consumes, Sent, Streams, Send
  PROVE  Consumes'
<1>1. UNCHANGED s_last_data
  BY DEF Send
<1>2. SUFFICES ASSUME s_last_data.frame # <<>>, NEW i \in 1 .. Waiting' + 1
               PROVE  At(i)'.k > s_last_data.frame[1].k
  BY <1>1 DEF Consumes
<1>3. \A j \in 1 .. Waiting + 1 : At(j).k > s_last_data.frame[1].k /\ At(j).k \in Nat
  BY <1>2, WireTypes, Sizes DEF Consumes, WireByte
<1>4. s_last_data.frame[1].k \in Nat
  <2>1. s_last_data.frame \in Seq(Byte) /\ Len(s_last_data.frame) \in {0, FrameLen} /\ FrameLen >= 3
    BY Sizes DEF TypeOK
  <2>2. Len(s_last_data.frame) = FrameLen
    BY <1>2, <2>1, EmptySeq
  <2>3. 1 \in 1 .. Len(s_last_data.frame)
    BY <2>2, Sizes
  <2>4. s_last_data.frame[1] \in Byte
    BY <2>1, <2>3, ElementOfSeq
  <2> QED BY <2>4, Sizes DEF Byte
<1>5. next'.k > s_last_data.frame[1].k
  <2>1. Waiting + 1 \in 1 .. Waiting + 1 /\ At(Waiting + 1).k = next.k
    BY WireTypes
  <2>2. next.k > s_last_data.frame[1].k /\ next.k \in Nat
    BY <1>3, <2>1
  <2>3. next'.k = next.k \/ next'.k = next.k + 1
    BY SendTypes
  <2> QED BY <1>4, <2>2, <2>3
<1>6. \/ /\ Waiting' = Waiting + 1
         /\ \A n \in 1 .. Waiting + 1 : At(n)' = At(n)
      \/ /\ Waiting' = Waiting
         /\ \A n \in 1 .. Waiting : At(n)' = At(n)
  BY SendMoves
<1>7. PICK w \in Nat : w = Waiting' /\ (w = Waiting \/ w = Waiting + 1)
  BY <1>6, WireTypes
<1>8. i \in 1 .. w + 1
  BY <1>7
<1>9. Waiting \in Nat /\ InRing \in Nat /\ InRing <= Waiting
  BY WireTypes
<1>10. CASE i \in 1 .. w
  <2>1. i \in 1 .. Waiting + 1 /\ At(i)' = At(i)
    BY <1>6, <1>7, <1>9, <1>10
  <2> QED BY <1>3, <2>1
<1>11. CASE i \notin 1 .. w
  <2>1. ~(i <= w) /\ ~(i <= InRing)
    BY <1>7, <1>8, <1>9, <1>11
  <2>2. InRing' = InRing
    BY DEF Send, ring, InRing
  <2>3. At(i)' = Coming'
    BY <1>7, <2>1, <2>2 DEF At
  <2>4. Coming'.k = next'.k
    BY DEF Coming
  <2> QED BY <1>5, <2>3, <2>4
<1> QED BY <1>10, <1>11

\* ... and what leaves its front goes with it.
LEMMA MoveStaysAhead ==
  ASSUME TypeOK, Consumes, NEW m \in Nat, m <= Waiting, Moved(m),
         s_last_data'.frame = s_last_data.frame
  PROVE  Consumes'
<1>1. SUFFICES ASSUME s_last_data.frame # <<>>, NEW i \in 1 .. Waiting' + 1
               PROVE  At(i)'.k > s_last_data.frame[1].k
  BY DEF Consumes
<1>2. Waiting \in Nat /\ Waiting' = Waiting - m
  BY WireTypes DEF Moved
<1>3. i + m \in 1 .. Waiting + 1 /\ At(i)' = At(i + m)
  BY <1>2 DEF Moved
<1> QED BY <1>1, <1>3 DEF Consumes

\* After a frame was published everything in the stream belongs to later ones.
LEMMA PublishStaysAhead ==
  ASSUME TypeOK, Sent, Streams, NEW o \in Good(Content), Moved(o + FrameLen),
         s_last_data'.frame = SubSeq(Content, o + 1, o + FrameLen)
  PROVE  Consumes'
<1>1. Waiting \in Nat /\ InRing \in Nat /\ InRing <= Waiting /\ Waiting' = Waiting - (o + FrameLen)
      /\ o \in Nat /\ o + FrameLen <= InRing /\ FrameLen \in Nat /\ FrameLen >= 3
  BY WireTypes, Offsets, Sizes DEF Moved
<1>2. s_last_data'.frame[1] = At(o + 1)
  <2>1. 1 \in 1..FrameLen /\ o + 1 \in 1..InRing
    BY <1>1
  <2>2. s_last_data'.frame[1] = Content[o + 1]
    BY <2>1, FramePublished
  <2> QED BY <2>1, <2>2, WireTypes
<1>3. SUFFICES ASSUME NEW i \in 1 .. Waiting' + 1
               PROVE  At(i)'.k > At(o + 1).k
  BY <1>2 DEF Consumes
<1> DEFINE j == i + (o + FrameLen)
           h == o + 1
<1>4. At(i)' = At(j) /\ j \in 1 .. Waiting + 1 /\ h \in 1 .. Waiting + 1 /\ h < j /\ j - h >= FrameLen
      /\ j - h \in Nat
  BY <1>1 DEF Moved
<1>5. At(h) \in WireByte /\ At(j) \in WireByte /\ At(h).p \in Positions /\ At(j).p \in Positions
      /\ Later(At(h), At(j), j - h)
  <2> HIDE DEF h, j
  <2> QED BY <1>4, WireTypes DEF Sent, Streams
<1>6. /\ At(h).p \in Nat /\ At(h).p >= 1 /\ At(j).p \in Nat /\ At(j).p <= FrameLen
      /\ At(h).k \in Nat /\ At(j).k \in Nat
  <2> HIDE DEF h, j
  <2> QED BY <1>1, <1>5, Sizes DEF Positions, WireByte
<1>7. At(j).k > At(h).k
  <2> HIDE DEF h, j
  <2>1. At(j).k > At(h).k \/ (At(j).k = At(h).k /\ At(j).p >= At(h).p + (j - h))
    BY <1>5 DEF Later
  <2> QED BY <1>1, <1>4, <1>6, <2>1
<1> QED BY <1>4, <1>7

LEMMA NextStream == InStream /\ [Next]_vars => InStream'
<1> SUFFICES ASSUME InStream, [Next]_vars PROVE InStream'
  OBVIOUS
<1>1. TypeOK /\ Sent /\ Streams /\ Consumes /\ TypeOK'
  BY NextTypes DEF InStream
<1>2. Waiting \in Nat /\ InRing \in Nat /\ InRing <= Waiting /\ Waiting = InRing + Len(fifo)
      /\ Len(fifo) \in Nat
  BY <1>1, WireTypes
<1>3. CASE Send
  <2>1. Sent' /\ Streams'
    BY <1>1, <1>3, SendKeeps
  <2>2. Consumes'
    BY <1>1, <1>3, SendStaysAhead
  <2> QED BY <1>1, <2>1, <2>2 DEF InStream
<1>4. CASE Push
  <2>1. UNCHANGED <<next, lost>> /\ s_last_data'.frame = s_last_data.frame
    BY <1>4 DEF Push
  <2>2. 0 <= Waiting /\ 1 <= Waiting /\ 0 \in Nat /\ 1 \in Nat
    BY <1>1, <1>2, <1>4, PushTypes
  <2>3. PICK m \in {0, 1} : Moved(m)
    BY <1>1, <1>4, PushMoves
  <2>4. m \in Nat /\ m <= Waiting
    BY <2>2
  <2>5. Sent' /\ Streams'
    BY <1>1, <2>1, <2>3, <2>4, MoveKeeps
  <2>6. Consumes'
    BY <1>1, <2>1, <2>3, <2>4, MoveStaysAhead
  <2> QED BY <1>1, <2>5, <2>6 DEF InStream
<1>5. CASE Parse
  <2>1. UNCHANGED <<next, fifo, s_rx, s_head, lost>>
    BY <1>5 DEF Parse
  <2>2. PICK n \in 0 .. InRing :
          /\ s_tail' = After(s_tail, n)
          /\ \/ s_last_data' = s_last_data
             \/ \E o \in Good(Content) :
                  /\ n = o + FrameLen
                  /\ s_last_data' = [ready |-> TRUE, frame |-> SubSeq(Content, o + 1, o + FrameLen)]
    BY <1>1, <1>5, ParseDrops
  <2>3. Moved(n) /\ n \in Nat /\ n <= Waiting
    BY <1>1, <1>2, <2>1, <2>2, ParseMoves
  <2>4. Sent' /\ Streams'
    BY <1>1, <2>1, <2>3, MoveKeeps
  <2>5. CASE s_last_data' = s_last_data
    <3>1. Consumes'
      BY <1>1, <2>3, <2>5, MoveStaysAhead
    <3> QED BY <1>1, <2>4, <3>1 DEF InStream
  <2>6. ASSUME NEW o \in Good(Content), n = o + FrameLen,
               s_last_data' = [ready |-> TRUE, frame |-> SubSeq(Content, o + 1, o + FrameLen)]
        PROVE  InStream'
    <3>1. s_last_data'.frame = SubSeq(Content, o + 1, o + FrameLen) /\ Moved(o + FrameLen)
      BY <2>3, <2>6
    <3>2. Consumes'
      BY <1>1, <3>1, PublishStaysAhead
    <3> QED BY <1>1, <2>4, <3>2 DEF InStream
  <2> QED BY <2>2, <2>5, <2>6
<1>6. CASE Take
  <2>1. UNCHANGED <<next, fifo, ring, lost>> /\ s_last_data' = [s_last_data EXCEPT !.ready = FALSE]
    BY <1>6 DEF Take
  <2>2. s_last_data'.frame = s_last_data.frame
    BY <1>1, <2>1 DEF TypeOK
  <2>3. Moved(0)
    <3>1. InRing' = InRing /\ Waiting' = Waiting /\ Coming' = Coming /\ s_rx' = s_rx
          /\ s_tail' = s_tail /\ fifo' = fifo
      BY <2>1 DEF ring, InRing, Waiting, Coming
    <3>2. \A i \in 1 .. Waiting - 0 + 1 : At(i)' = At(i + 0)
      BY <1>2, <3>1 DEF At
    <3> QED BY <1>2, <3>1, <3>2 DEF Moved
  <2>4. 0 \in Nat /\ 0 <= Waiting
    BY <1>2
  <2>5. UNCHANGED <<next, lost>>
    BY <2>1
  <2>6. Sent' /\ Streams'
    BY <1>1, <2>3, <2>4, <2>5, MoveKeeps
  <2>7. Consumes'
    BY <1>1, <2>2, <2>3, <2>4, MoveStaysAhead
  <2> QED BY <1>1, <2>6, <2>7 DEF InStream
<1>7. CASE UNCHANGED vars
  <2>1. UNCHANGED <<next, fifo, s_rx, s_head, s_tail, s_last_data, lost>>
    BY <1>7 DEF vars, ring
  <2>2. /\ InRing' = InRing /\ Waiting' = Waiting /\ Coming' = Coming
        /\ \A i \in 1 .. Waiting - 0 + 1 : At(i)' = At(i + 0)
    <3>1. InRing' = InRing /\ Waiting' = Waiting /\ Coming' = Coming
      BY <2>1 DEF InRing, Waiting, Coming
    <3> QED BY <1>2, <2>1, <3>1 DEF At
  <2>3. Moved(0) /\ 0 \in Nat /\ 0 <= Waiting
    BY <1>2, <2>2 DEF Moved
  <2>4. Sent' /\ Streams'
    BY <1>1, <2>1, <2>3, MoveKeeps
  <2>5. Consumes'
    BY <1>1, <2>1, <2>3, MoveStaysAhead
  <2> QED BY <1>1, <2>4, <2>5 DEF InStream
<1> QED BY <1>3, <1>4, <1>5, <1>6, <1>7 DEF Next

-----------------------------------------------------------------------------
(* What the parser takes for a frame. *)

\* No payload can be taken for the end of one frame and the start of another: when
\* it shows a header, the next has no tail where the parser would look for it.
\* The protocol has neither checksum nor escapes, so this is the sensor's to keep.
Unmistaken == \A a, b \in Payload : \A i \in 2 .. PayloadLen - 1 :
                 ~(a[i] = "h1" /\ a[i + 1] = "h2" /\ b[i - 1] = "t")

\* What has header and tail is then a frame, from its first byte to its last.
LEMMA GoodIsFrame ==
  ASSUME Unmistaken, InStream, ~lost, NEW o \in Good(Content)
  PROVE  /\ Content[o + 1].k \in 1..Frames
         /\ \A p \in 1..FrameLen : Content[o + p].k = Content[o + 1].k /\ Content[o + p].p = p
<1>1. o \in Nat /\ o + FrameLen <= InRing /\ InRing \in Nat /\ FrameLen \in Nat /\ FrameLen >= 3
      /\ Waiting \in Nat /\ InRing <= Waiting /\ PayloadLen \in Nat /\ FrameLen = PayloadLen + 3
  BY Offsets, WireTypes, Sizes DEF InStream
<1>2. Content[o + 1].v = "h1" /\ Content[o + 2].v = "h2" /\ Content[o + FrameLen].v = "t"
  BY Offsets DEF InStream, Good, TailGood
<1>3. ASSUME NEW p \in 1..FrameLen
      PROVE  /\ o + p \in 1..InRing /\ o + p \in 1 .. Waiting + 1
             /\ Content[o + p] = At(o + p) /\ At(o + p) \in Byte /\ At(o + p).p \in Positions
             /\ At(o + p).k \in 1..Frames
  <2>1. o + p \in 1..InRing /\ o + p \in 1 .. Waiting + 1
    BY <1>1
  <2>2. Content[o + p] = At(o + p) /\ At(o + p) \in Byte
    BY <2>1, WireTypes DEF InStream
  <2>3. At(o + p).k \in 1 .. Frames + 1 /\ At(o + p).p \in Positions
    BY <2>1 DEF InStream, Sent
  <2>4. At(o + p).k \in 0..Frames
    BY <2>2 DEF Byte
  <2> QED BY <2>1, <2>2, <2>3, <2>4, Sizes
<1> DEFINE b == At(o + 1)
\* Every byte is where it was sent, counted from the first.
<1>4. ASSUME NEW p \in 2..FrameLen
      PROVE  Exact(b, At(o + p), p - 1) /\ SamePayload(b, At(o + p))
  <2> DEFINE i == o + 1
             j == o + p
  <2>1. p \in 1..FrameLen /\ 1 \in 1..FrameLen
    BY <1>1
  <2>2. i \in 1 .. Waiting + 1 /\ j \in 1 .. Waiting + 1
    BY <1>3, <2>1
  <2>3. i < j /\ j - i = p - 1
    BY <1>1
  <2>4. Exact(At(i), At(j), j - i) /\ SamePayload(At(i), At(j))
    <3> HIDE DEF i, j
    <3> QED BY <2>2, <2>3 DEF InStream, Streams
  <2> QED BY <2>3, <2>4
<1>5. b.v = "h1" /\ b.p \in 1..FrameLen /\ b.k \in 1..Frames /\ b.k \in Nat /\ b.p \in Nat
      /\ Content[o + 1] = b
  <2>1. 1 \in 1..FrameLen
    BY <1>1
  <2>2. Content[o + 1] = b /\ b.p \in Positions /\ b.k \in 1..Frames
    BY <1>3, <2>1
  <2> HIDE DEF b
  <2> QED BY <1>1, <1>2, <2>2, Sizes DEF Positions
<1>6. 2 \in 1..FrameLen /\ 2 \in 2..FrameLen /\ FrameLen \in 1..FrameLen /\ FrameLen \in 2..FrameLen
  BY <1>1
<1>7. At(o + 2).v = "h2" /\ At(o + FrameLen).v = "t"
  BY <1>2, <1>3, <1>6
<1>8. Exact(b, At(o + 2), 2 - 1) /\ SamePayload(b, At(o + 2))
      /\ Exact(b, At(o + FrameLen), FrameLen - 1)
  BY <1>4, <1>6
<1>9. At(o + 2).p \in Positions /\ At(o + FrameLen).p \in Positions /\ b.p \in Positions
  BY <1>3, <1>5, <1>6 DEF Positions
<1>10. ASSUME NEW p \in 1..FrameLen
       PROVE  \E load \in Payload : At(o + p).v = Value(At(o + p).p, load)
  BY <1>3 DEF InStream, Sent
<1>11. b.p = 1
  <2>1. PICK load \in Payload : b.v = Value(b.p, load)
    <3>1. 1 \in 1..FrameLen
      BY <1>1
    <3> QED BY <1>10, <3>1
  <2> HIDE DEF b
  <2>2. b.p # 2 /\ b.p # FrameLen
    BY <1>5, <1>9, <2>1, Valued
  <2>3. CASE b.p \in 3 .. FrameLen - 1
    <3>1. b.p + (2 - 1) <= FrameLen /\ b.p + (2 - 1) = b.p + 1
          /\ b.p + (FrameLen - 1) \in FrameLen + 1 .. 2 * FrameLen
          /\ b.p + (FrameLen - 1) - FrameLen = b.p - 1
      BY <1>1, <2>3
    <3>2. /\ At(o + 2).k = b.k /\ At(o + 2).p = b.p + 1
          /\ At(o + FrameLen).p = b.p - 1
      BY <1>8, <3>1 DEF Exact
    <3>3. PICK one \in Payload : b.v = Value(b.p, one) /\ At(o + 2).v = Value(b.p + 1, one)
      BY <1>8, <3>2 DEF SamePayload
    <3>4. PICK two \in Payload : At(o + FrameLen).v = Value(b.p - 1, two)
      BY <1>6, <1>10, <3>2
    <3>5. b.p + 1 \in Positions /\ b.p - 1 \in Positions
      BY <1>9, <3>2
    <3>6. b.p + 1 # FrameLen /\ b.p - 1 # 2
      BY <1>7, <3>3, <3>4, <3>5, Valued
    <3>7. b.p + 1 \in 3 .. FrameLen - 1 /\ b.p - 1 \in 3 .. FrameLen - 1
          /\ (b.p + 1) - 2 = (b.p - 2) + 1 /\ (b.p - 1) - 2 = (b.p - 2) - 1
          /\ b.p - 2 \in 2 .. PayloadLen - 1
      BY <1>1, <2>3, <3>6
    <3>8. one[b.p - 2] = "h1" /\ one[(b.p - 2) + 1] = "h2" /\ two[(b.p - 2) - 1] = "t"
      <4>1. one[b.p - 2] = "h1"
        BY <1>5, <1>9, <2>3, <3>3, Valued
      <4>2. one[(b.p + 1) - 2] = "h2"
        BY <1>7, <3>3, <3>5, <3>7, Valued
      <4>3. two[(b.p - 1) - 2] = "t"
        BY <1>7, <3>4, <3>5, <3>7, Valued
      <4> QED BY <3>7, <4>1, <4>2, <4>3
    <3> QED BY <3>7, <3>8 DEF Unmistaken
  <2> QED BY <1>1, <1>5, <2>2, <2>3
<1>12. ASSUME NEW p \in 1..FrameLen
       PROVE  Content[o + p].k = Content[o + 1].k /\ Content[o + p].p = p
  <2>1. CASE p = 1
    BY <1>5, <1>11, <2>1
  <2>2. CASE p # 1
    <3>1. p \in 2..FrameLen
      BY <2>2
    <3>2. Exact(b, At(o + p), p - 1)
      BY <1>4, <3>1
    <3>3. b.p + (p - 1) <= FrameLen /\ b.p + (p - 1) = p
      BY <1>1, <1>11
    <3>4. At(o + p).k = b.k /\ At(o + p).p = p
      BY <3>2, <3>3 DEF Exact
    <3> QED BY <1>3, <1>5, <3>4
  <2> QED BY <2>1, <2>2
<1> QED BY <1>5, <1>12

-----------------------------------------------------------------------------
(* Nothing is dropped that could still become a frame. *)

\* A byte behind those dropped is still there.
LEMMA StaysInRing ==
  ASSUME TypeOK, UNCHANGED <<next, fifo, s_rx, s_head>>,
         NEW n \in 0 .. InRing, s_tail' = After(s_tail, n),
         NEW i \in 1..InRing, i > n, Content[i].p = 1
  PROVE  Content[i].k \in Started(Content)'
<1>1. InRing \in Nat /\ Len(fifo) \in Nat /\ Waiting = InRing + Len(fifo) /\ n \in Nat
      /\ Waiting \in Nat
  BY WireTypes
<1>2. Moved(n) /\ InRing' = InRing - n
  BY ParseMoves
<1> DEFINE j == i - n
<1>3. j \in 1 .. InRing - n /\ j \in 1 .. Waiting - n + 1 /\ j + n = i
  BY <1>1
<1>4. At(j)' = At(i) /\ At(i) = Content[i]
  <2>1. At(i) = Content[i]
    BY WireTypes
  <2>2. At(j)' = At(j + n)
    <3> HIDE DEF j
    <3> QED BY <1>2, <1>3 DEF Moved
  <2> QED BY <1>3, <2>1, <2>2
<1>5. Content' = [m \in 1..InRing' |-> s_rx'[After(s_tail', m - 1)]]
  BY DEF Content, InRing
<1>6. j \in 1..InRing'
  BY <1>2, <1>3
<1>7. Content'[j] = At(j)' /\ j \in DOMAIN Content'
  <2> HIDE DEF j
  <2>1. j <= InRing'
    BY <1>1, <1>2, <1>3
  <2> QED BY <1>5, <1>6, <2>1 DEF At
<1>8. Started(Content)' = {Content'[m].k : m \in {l \in DOMAIN Content' : Content'[l].p = 1}}
  BY DEF Started
<1> HIDE DEF j
<1>9. Content'[j].k = Content[i].k /\ Content'[j].p = 1
  BY <1>4, <1>7
<1> QED BY <1>7, <1>8, <1>9

\* The first byte of a frame is seen as a header as soon as the second is there,
\* and as a frame as soon as the last is.
LEMMA StartSeen ==
  ASSUME InStream, ~lost, NEW i \in 1..InRing, Content[i].p = 1
  PROVE  /\ i - 1 \in Nat
         /\ (i - 1) + 2 <= InRing => i - 1 \in Headers(Content)
         /\ (i - 1) + FrameLen <= InRing => i - 1 \in Good(Content)
<1>1. InRing \in Nat /\ Waiting \in Nat /\ InRing <= Waiting /\ FrameLen \in Nat /\ FrameLen >= 3 /\ TypeOK
  BY WireTypes, Sizes DEF InStream
<1>2. ASSUME NEW j \in 1..InRing
      PROVE  /\ Content[j] = At(j) /\ j \in 1 .. Waiting + 1 /\ At(j).p \in Positions
             /\ \E load \in Payload : At(j).v = Value(At(j).p, load)
  <2>1. j \in 1 .. Waiting + 1
    BY <1>1
  <2> QED BY <2>1, WireTypes DEF InStream, Sent
<1>3. ASSUME NEW d \in 1 .. FrameLen - 1, i + d <= InRing
      PROVE  Content[i + d].p = 1 + d
  <2> DEFINE j == i + d
  <2>1. j \in 1..InRing /\ i < j /\ j - i = d
    BY <1>1, <1>3
  <2>2. Exact(At(i), At(j), j - i) /\ Content[j] = At(j) /\ Content[i] = At(i)
    <3> HIDE DEF j
    <3>1. i \in 1 .. Waiting + 1 /\ j \in 1 .. Waiting + 1
      BY <1>2, <2>1
    <3> QED BY <1>2, <2>1, <3>1 DEF InStream, Streams
  <2>3. 1 + d <= FrameLen
    BY <1>1
  <2> HIDE DEF j
  <2>4. At(j).p = 1 + d
    BY <2>1, <2>2, <2>3 DEF Exact
  <2> QED BY <2>2, <2>4 DEF j
<1>4. ASSUME NEW j \in 1..InRing
      PROVE  /\ Content[j].p = 1 => Content[j].v = "h1"
             /\ Content[j].p = 2 => Content[j].v = "h2"
             /\ Content[j].p = FrameLen => Content[j].v = "t"
  BY <1>2, Valued
<1>5. i - 1 \in Nat /\ (i - 1) + 1 = i /\ (i - 1) + 2 = i + 1 /\ (i - 1) + FrameLen = i + (FrameLen - 1)
  BY <1>1
<1>6. ASSUME (i - 1) + 2 <= InRing PROVE i - 1 \in Headers(Content)
  <2>1. 1 \in 1 .. FrameLen - 1 /\ i + 1 <= InRing /\ i + 1 \in 1..InRing
    BY <1>1, <1>6
  <2>2. Content[i + 1].p = 2
    <3>1. Content[i + 1].p = 1 + 1
      BY <1>3, <2>1
    <3> QED BY <3>1
  <2>3. Content[i].v = "h1" /\ Content[i + 1].v = "h2"
    BY <1>4, <2>1, <2>2
  <2> QED BY <1>1, <1>5, <1>6, <2>3, Offsets
<1>7. ASSUME (i - 1) + FrameLen <= InRing PROVE i - 1 \in Good(Content)
  <2>1. FrameLen - 1 \in 1 .. FrameLen - 1 /\ i + (FrameLen - 1) <= InRing
        /\ i + (FrameLen - 1) \in 1..InRing /\ (i - 1) + 2 <= InRing /\ 1 + (FrameLen - 1) = FrameLen
    BY <1>1, <1>7
  <2>2. Content[i + (FrameLen - 1)].p = FrameLen
    <3>1. Content[i + (FrameLen - 1)].p = 1 + (FrameLen - 1)
      BY <1>3, <2>1
    <3> QED BY <2>1, <3>1
  <2>3. Content[i + (FrameLen - 1)].v = "t"
    BY <1>4, <2>1, <2>2
  <2>4. i - 1 \in Headers(Content) /\ Fits(Content, i - 1)
    BY <1>1, <1>5, <1>6, <1>7, <2>1, Offsets
  <2>5. TailGood(Content, i - 1)
    BY <1>5, <2>3 DEF TailGood
  <2> QED BY <2>4, <2>5 DEF Good
<1> QED BY <1>5, <1>6, <1>7

\* A poll that publishes nothing drops no byte of a frame, and one that publishes drops
\* only the frame and what came before it.
LEMMA ParseKeeps ==
  ASSUME Unmistaken, InStream, Parse, ~lost, NEW k \in Started(Content)
  PROVE  \/ k \in Started(Content)'
         \/ s_last_data'.frame # <<>> /\ s_last_data'.frame[1].k = k
<1>1. InRing \in Nat /\ Len(Content) = InRing /\ s_tail \in Index /\ RING_SIZE \in Nat /\ RING_SIZE > 0
      /\ FrameLen \in Nat /\ FrameLen >= 3 /\ TypeOK /\ DOMAIN Content = 1..InRing
      /\ UNCHANGED <<next, fifo, s_rx, s_head>>
  <2>1. TypeOK
    BY DEF InStream
  <2>2. Content \in Seq(Byte) /\ Len(Content) = InRing /\ InRing \in Nat
    BY <2>1, ContentIs, Sizes
  <2>3. DOMAIN Content = 1..InRing
    BY <2>2, LenProperties
  <2> QED BY <2>1, <2>2, <2>3, Sizes DEF TypeOK, Parse
<1>2. PICK i \in 1..InRing : Content[i].p = 1 /\ Content[i].k = k
  BY <1>1 DEF Started
<1>3. /\ i - 1 \in Nat
      /\ (i - 1) + 2 <= InRing => i - 1 \in Headers(Content)
      /\ (i - 1) + FrameLen <= InRing => i - 1 \in Good(Content)
  BY <1>2, StartSeen
<1>4. ASSUME NEW n \in Nat, n < i, s_tail' = After(s_tail, n) PROVE k \in Started(Content)'
  <2>1. n \in 0 .. InRing
    BY <1>1, <1>4
  <2> QED BY <1>1, <1>2, <1>4, <2>1, StaysInRing
<1>5. CASE ~Enough(Content) /\ UNCHANGED <<s_tail, s_last_data>>
  <2>1. After(s_tail, 0) = s_tail
    BY <1>1, AfterIs DEF Index
  <2>2. 0 \in Nat /\ 0 < i
    BY <1>1
  <2> QED BY <1>4, <1>5, <2>1, <2>2
<1>6. CASE /\ Enough(Content) /\ Good(Content) = {}
           /\ s_tail' = After(s_tail, Noise(Content)) /\ UNCHANGED s_last_data
  <2>1. InRing >= FrameLen
    BY <1>1, <1>6 DEF Enough
  <2>2. ~((i - 1) + FrameLen <= InRing)
    BY <1>3, <1>6
  <2>3. Noise(Content) \in Nat /\ Noise(Content) < i
    <3>1. CASE InRing - FrameLen \in Headers(Content)
      <4>1. Noise(Content) = InRing - FrameLen + 1
        BY <1>1, <3>1 DEF Noise
      <4> QED BY <1>1, <2>1, <2>2, <4>1
    <3>2. CASE InRing - FrameLen \notin Headers(Content) /\ Partial(Content) # {}
      <4>1. Noise(Content) = Min(Partial(Content))
        BY <1>1, <3>2 DEF Noise
      <4>2. Min(Partial(Content)) \in Partial(Content)
            /\ \A g \in Partial(Content) : Min(Partial(Content)) <= g
        BY <1>1, <3>2, Offsets, LeastOffset
      <4>3. Min(Partial(Content)) \in Nat /\ Min(Partial(Content)) + 2 <= InRing
        BY <1>1, <4>2, Offsets
      <4>4. CASE (i - 1) + 2 <= InRing
        <5>1. i - 1 \in Partial(Content)
          BY <1>1, <1>3, <2>2, <4>4, Offsets DEF Partial
        <5>2. Min(Partial(Content)) <= i - 1
          BY <4>2, <5>1
        <5> QED BY <4>1, <4>3, <5>2
      <4>5. CASE ~((i - 1) + 2 <= InRing)
        BY <1>1, <4>1, <4>3, <4>5
      <4> QED BY <4>4, <4>5
    <3>3. CASE InRing - FrameLen \notin Headers(Content) /\ Partial(Content) = {}
      <4>1. Noise(Content) = InRing - 1
        BY <1>1, <3>3 DEF Noise, KeptTail
      <4>2. ~((i - 1) + 2 <= InRing)
        BY <1>1, <1>3, <2>2, <3>3, Offsets DEF Partial
      <4> QED BY <1>1, <2>1, <4>1, <4>2
    <3> QED BY <3>1, <3>2, <3>3
  <2> QED BY <1>4, <1>6, <2>3
<1>7. CASE /\ Enough(Content) /\ Good(Content) # {}
           /\ LET o == Min(Good(Content))
              IN  /\ s_tail' = After(s_tail, Consumed(o))
                  /\ s_last_data' = [ready |-> TRUE,
                                     frame |-> SubSeq(Content, o + 1, o + FrameLen)]
  <2> DEFINE o == Min(Good(Content))
  <2>1. o \in Good(Content) /\ \A g \in Good(Content) : o <= g
    BY <1>1, <1>7, Offsets, LeastOffset
  <2>2. s_tail' = After(s_tail, o + FrameLen)
        /\ s_last_data' = [ready |-> TRUE, frame |-> SubSeq(Content, o + 1, o + FrameLen)]
    BY <1>7 DEF Consumed
  <2> HIDE DEF o
  <2>3. o \in Nat /\ o + FrameLen <= InRing
    BY <1>1, <2>1, Offsets
  <2>4. CASE i - 1 < o
    <3>1. (i - 1) + FrameLen <= InRing
      BY <1>1, <2>3, <2>4
    <3> QED BY <1>3, <2>1, <2>3, <2>4, <3>1
  <2>5. CASE i = o + 1
    <3>1. 1 \in 1..FrameLen
      BY <1>1
    <3>2. /\ s_last_data'.frame # <<>>
          /\ s_last_data'.frame[1] = Content[o + 1]
      BY <1>1, <2>1, <2>2, <3>1, FramePublished
    <3> QED BY <1>2, <2>5, <3>2
  <2>6. CASE i > o + 1 /\ i <= o + FrameLen
    <3>1. i - o \in 1..FrameLen /\ o + (i - o) = i /\ i - o # 1
      BY <1>1, <2>3, <2>6
    <3>2. Content[o + (i - o)].p = i - o
      BY <2>1, <3>1, GoodIsFrame
    <3> QED BY <1>2, <3>1, <3>2
  <2>7. CASE i > o + FrameLen
    <3>1. o + FrameLen \in Nat /\ o + FrameLen < i
      BY <1>1, <2>3, <2>7
    <3> QED BY <1>4, <2>2, <3>1
  <2> QED BY <1>1, <2>3, <2>4, <2>5, <2>6, <2>7
<1> QED BY <1>5, <1>6, <1>7 DEF Parse

-----------------------------------------------------------------------------
(* Theorems. *)

\* Bytes reach the parser in the order in which they were sent; those of one frame show
\* one payload; while the FIFO loses nothing each is where it was sent.
THEOREM StreamInOrder == Spec => []InStream
<1> QED BY InitStream, NextStream, PTL DEF Spec

\* While the FIFO loses nothing, what is published is one frame as it was sent.
THEOREM WholeFramePublished ==
  ASSUME Unmistaken
  PROVE  Spec => []PublishedIsOneFrame
<1>1. Init => PublishedIsOneFrame
  BY DEF Init, PublishedIsOneFrame
<1>2. InStream /\ PublishedIsOneFrame /\ [Next]_vars => PublishedIsOneFrame'
  <2> SUFFICES ASSUME InStream, PublishedIsOneFrame, [Next]_vars,
                      s_last_data'.frame # <<>>, ~lost'
               PROVE  OneFrame(s_last_data'.frame)
    BY DEF PublishedIsOneFrame, OneFrame
  <2>1. ~lost /\ TypeOK
    <3>1. TypeOK
      BY DEF InStream
    <3>2. CASE Send
      BY <3>1, <3>2, SendTypes
    <3> QED BY <3>1, <3>2 DEF Next, Push, Parse, Take, vars
  <2>2. CASE s_last_data'.frame = s_last_data.frame
    BY <2>1, <2>2 DEF PublishedIsOneFrame
  <2>3. CASE Parse
    <3>1. s_last_data' = s_last_data \/
          \E o \in Good(Content) :
            s_last_data' = [ready |-> TRUE, frame |-> SubSeq(Content, o + 1, o + FrameLen)]
      BY <2>1, <2>3, ParseDrops
    <3>2. ASSUME NEW o \in Good(Content),
                 s_last_data' = [ready |-> TRUE, frame |-> SubSeq(Content, o + 1, o + FrameLen)]
          PROVE  OneFrame(s_last_data'.frame)
      <4> DEFINE f == s_last_data'.frame
                 k == Content[o + 1].k
      <4>1. f = SubSeq(Content, o + 1, o + FrameLen)
        BY <3>2
      <4>2. f \in Seq(Byte) /\ Len(f) = FrameLen /\ \A p \in 1..FrameLen : f[p] = Content[o + p]
        BY <2>1, <4>1, FramePublished
      <4>3. k \in 1..Frames /\ \A p \in 1..FrameLen : Content[o + p].k = k /\ Content[o + p].p = p
        BY <2>1, GoodIsFrame
      <4> HIDE DEF f, k
      <4>4. DOMAIN f = 1..FrameLen
        BY <4>2, LenProperties
      <4>5. \A p \in DOMAIN f : f[p].k = k /\ f[p].p = p
        BY <4>2, <4>3, <4>4
      <4>6. OneFrame(f)
        BY <4>3, <4>5 DEF OneFrame
      <4> QED BY <4>6 DEF f
    <3> QED BY <2>2, <3>1, <3>2
  <2>4. CASE Take
    <3>1. s_last_data' = [s_last_data EXCEPT !.ready = FALSE]
      BY <2>4 DEF Take
    <3>2. s_last_data'.frame = s_last_data.frame
      BY <2>1, <3>1 DEF TypeOK
    <3> QED BY <2>2, <3>2
  <2>5. CASE Send \/ Push \/ UNCHANGED vars
    <3>1. s_last_data' = s_last_data
      BY <2>5 DEF Send, Push, vars
    <3> QED BY <2>2, <3>1
  <2> QED BY <2>3, <2>4, <2>5 DEF Next
<1> QED BY <1>1, <1>2, StreamInOrder, PTL DEF Spec

\* Frames are published in the order of sending and none twice, whatever payloads
\* look like and whatever the FIFO loses.
THEOREM FramesPublishedInOrder == Spec => InOrder
<1>1. InStream /\ [Next]_vars =>
        [s_last_data'.ready /\ ~s_last_data.ready /\ s_last_data.frame # <<>>
           => s_last_data'.frame[1].k > s_last_data.frame[1].k]_vars
  <2> SUFFICES ASSUME InStream, [Next]_vars,
                      s_last_data'.ready, ~s_last_data.ready, s_last_data.frame # <<>>
               PROVE  s_last_data'.frame[1].k > s_last_data.frame[1].k
    OBVIOUS
  <2>1. TypeOK /\ Consumes /\ InRing \in Nat /\ Waiting \in Nat /\ InRing <= Waiting
        /\ FrameLen \in Nat /\ FrameLen >= 3
    BY WireTypes, Sizes DEF InStream
  <2>2. CASE Parse
    <3>1. PICK o \in Good(Content) :
            s_last_data' = [ready |-> TRUE, frame |-> SubSeq(Content, o + 1, o + FrameLen)]
      BY <2>1, <2>2, ParseDrops
    <3>2. o \in Nat /\ o + FrameLen <= InRing
      BY <2>1, Offsets
    <3>3. o + 1 \in 1..InRing /\ o + 1 \in 1 .. Waiting + 1 /\ 1 \in 1..FrameLen
      BY <2>1, <3>2
    <3>4. s_last_data'.frame[1] = At(o + 1)
      <4>1. s_last_data'.frame[1] = Content[o + 1]
        BY <2>1, <3>1, <3>3, FramePublished
      <4> QED BY <2>1, <3>3, <4>1, WireTypes
    <3>5. At(o + 1).k > s_last_data.frame[1].k
      BY <2>1, <3>3 DEF Consumes
    <3> QED BY <3>4, <3>5
  <2>3. CASE Send \/ Push \/ UNCHANGED vars
    BY <2>3 DEF Send, Push, vars
  <2>4. CASE Take
    <3>1. s_last_data' = [s_last_data EXCEPT !.ready = FALSE]
      BY <2>4 DEF Take
    <3>2. ~s_last_data'.ready
      BY <2>1, <3>1 DEF TypeOK
    <3> QED BY <3>2
  <2> QED BY <2>2, <2>3, <2>4 DEF Next
<1> QED BY <1>1, StreamInOrder, PTL DEF Spec, InOrder

\* While the FIFO loses nothing, a frame of which the ring holds the first byte is
\* kept or published.
THEOREM StartedFramesKept ==
  ASSUME Unmistaken
  PROVE  Spec => ParserKeepsFrames
<1>1. InStream =>
        [Parse /\ ~lost => \A k \in Started(Content) :
            \/ k \in Started(Content)'
            \/ s_last_data'.frame # <<>> /\ s_last_data'.frame[1].k = k]_vars
  BY ParseKeeps
<1> QED BY <1>1, StreamInOrder, PTL DEF Spec, ParserKeepsFrames
=============================================================================
