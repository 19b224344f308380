------------------------------ MODULE Rd03dRing ------------------------------
(***************************************************************************)
(* The polled driver of the RD-03D radar (kitchen_pwm/rd03d_drv.c): bytes  *)
(* come from the UART's hardware FIFO into a ring that drops its oldest    *)
(* byte when it is full, and a parser looks for header and tail, skips     *)
(* what is neither, and publishes one frame per poll.  main calls          *)
(* rd03d_api_poll and rd03d_drv_poll in turn, after other services that    *)
(* may keep it for any time.                                               *)
(*                                                                         *)
(* A byte carries the frame k and the position p it was sent for, and the  *)
(* value v the parser sees.  A frame has a header of two bytes, a payload  *)
(* and a tail of one byte (4, 24 and 2 in the code).                       *)
(***************************************************************************)
EXTENDS Naturals, Sequences, FiniteSetsExt

CONSTANTS
  Payload,     \* payloads: sequences of one length over "h1", "h2", "t", "d"
  PayloadLen,
  RING_SIZE,   \* RD03D_RX_RING_SIZE
  Fifo,        \* depth of the UART FIFO
  Frames,      \* bound on the frames of a behaviour
  LossUntil    \* the FIFO overruns in the frames up to this one, if at all

FrameLen  == 2 + PayloadLen + 1     \* RD03D_FRAME_BYTES
Positions == 1..FrameLen

ASSUME RingAssumption ==
  /\ PayloadLen \in Nat /\ Frames \in Nat \ {0} /\ LossUntil \in 0..Frames
  /\ Payload \subseteq [1..PayloadLen -> {"h1", "h2", "t", "d"}] /\ Payload # {}
  /\ RING_SIZE \in Nat /\ FrameLen < RING_SIZE /\ Fifo \in Nat \ {0}

VARIABLES
  next,          \* the byte the sensor sends next, and its payload
  fifo,
  s_rx, s_head, s_tail,
  s_last_data,   \* ready flag and the bytes of the last frame published
  main,          \* the call main makes next
  lost           \* has the FIFO overrun?

ring == <<s_rx, s_head, s_tail>>
vars == <<next, fifo, ring, s_last_data, main, lost>>

Value(p, load) ==
  IF p = 1 THEN "h1" ELSE IF p = 2 THEN "h2" ELSE IF p = FrameLen THEN "t" ELSE load[p - 2]

Index == 0 .. RING_SIZE - 1

\* Slip: an index runs past the end.
After_Unmasked(i, n) == i + n
After(i, n) == (i + n) % RING_SIZE
Count(head, tail) == (head + RING_SIZE - tail) % RING_SIZE
NoByte == [k |-> 0, p |-> 0, v |-> "d"]

\* The bytes from tail to head.
Content == [i \in 1..Count(s_head, s_tail) |-> s_rx[After(s_tail, i - 1)]]

\* The sensor may be in the middle of a frame when the board starts.
Init ==
  /\ next \in [k: {1}, p: Positions, load: Payload]
  /\ fifo = <<>>
  /\ s_rx = [i \in Index |-> NoByte] /\ s_head = 0 /\ s_tail = 0
  /\ s_last_data = [ready |-> FALSE, frame |-> <<>>]
  /\ main = "rd03d_api_poll" /\ lost = FALSE

-----------------------------------------------------------------------------
(* The sensor and the FIFO; a byte that finds it full is lost. *)

Send ==
  /\ next.k <= Frames
  /\ LET b == [k |-> next.k, p |-> next.p, v |-> Value(next.p, next.load)]
     IN \/ Len(fifo) < Fifo /\ fifo' = Append(fifo, b) /\ UNCHANGED lost
        \/ Len(fifo) = Fifo /\ next.k <= LossUntil /\ lost' = TRUE /\ UNCHANGED fifo
  /\ \/ next.p < FrameLen /\ next' = [next EXCEPT !.p = @ + 1]
     \/ next.p = FrameLen /\ \E load \in Payload :
          next' = [k |-> next.k + 1, p |-> 1, load |-> load]
  /\ UNCHANGED <<ring, s_last_data, main>>

-----------------------------------------------------------------------------
(* The driver. *)

Stored(b) == [s_rx EXCEPT ![s_head] = b]

\* Overrun policy: the oldest byte goes.
TailAfterPush(head) == IF head = s_tail THEN After(s_tail, 1) ELSE s_tail

\* rd03d_drv_poll moves what is readable ...
Push ==
  /\ main = "rd03d_drv_poll" /\ fifo # <<>>
  /\ fifo' = Tail(fifo)
  /\ s_rx' = Stored(Head(fifo))
  /\ s_head' = After(s_head, 1)
  /\ s_tail' = TailAfterPush(s_head')
  /\ UNCHANGED <<next, s_last_data, main, lost>>

HeaderAt(c, o) == o + 2 <= Len(c) /\ c[o + 1].v = "h1" /\ c[o + 2].v = "h2"
Headers(c) == {o \in 0..Len(c) : HeaderAt(c, o)}
Fits(c, o) == o + FrameLen <= Len(c)

\* Slip: any candidate passes.
TailGood_Any(c, o) == TRUE
TailGood(c, o) == c[o + FrameLen].v = "t"

\* Offsets of frames with header and tail.
Good(c) == {o \in Headers(c) : Fits(c, o) /\ TailGood(c, o)}
Partial(c) == {o \in Headers(c) : ~Fits(c, o)}

\* Slip: everything goes when no header is found.
KeptTail_None == 0
\* A header may be split across polls.
KeptTail == 1

\* How much of content c is dropped when nothing is published: false headers one
\* byte at a time, as long as a whole frame might be left.
Noise(c) ==
  IF Len(c) - FrameLen \in Headers(c) THEN Len(c) - FrameLen + 1
  ELSE IF Partial(c) # {} THEN Min(Partial(c))
  ELSE Len(c) - KeptTail

\* Slip: a ring that holds just one frame waits for more.
Enough_More(c) == Len(c) > FrameLen
Enough(c) == Len(c) >= FrameLen

\* Slip: the frame stays in the ring.
Consumed_Noise(o) == o
Consumed(o) == o + FrameLen

\* ... and then tries to parse one frame.
Parse ==
  /\ main = "rd03d_drv_poll" /\ fifo = <<>>
  /\ main' = "rd03d_api_poll"
  /\ \/ ~Enough(Content) /\ UNCHANGED <<s_tail, s_last_data>>
     \/ /\ Enough(Content) /\ Good(Content) = {}
        /\ s_tail' = After(s_tail, Noise(Content))
        /\ UNCHANGED s_last_data
     \/ /\ Enough(Content) /\ Good(Content) # {}
        /\ LET o == Min(Good(Content))
           IN /\ s_tail' = After(s_tail, Consumed(o))
              /\ s_last_data' = [ready |-> TRUE,
                                 frame |-> SubSeq(Content, o + 1, o + FrameLen)]
  /\ UNCHANGED <<next, fifo, s_rx, s_head, lost>>

\* rd03d_api_poll: rd03d_drv_get_ready takes the frame.
Take ==
  /\ main = "rd03d_api_poll" /\ main' = "rd03d_drv_poll"
  /\ s_last_data' = [s_last_data EXCEPT !.ready = FALSE]
  /\ UNCHANGED <<next, fifo, ring, lost>>

-----------------------------------------------------------------------------

Next == Send \/ Push \/ Parse \/ Take
Spec == Init /\ [][Next]_vars

\* The main loop comes round; the sensor goes on.
FairSpec == Spec /\ WF_vars(Push) /\ WF_vars(Parse) /\ WF_vars(Take) /\ WF_vars(Send)

-----------------------------------------------------------------------------
(* Properties. *)

Byte == [k: 0..Frames, p: 0..FrameLen, v: {"h1", "h2", "t", "d"}]

TypeOK ==
  /\ next \in [k: 1 .. Frames + 1, p: Positions, load: Payload]
  /\ fifo \in Seq(Byte) /\ Len(fifo) <= Fifo
  /\ s_rx \in [Index -> Byte] /\ s_head \in Index /\ s_tail \in Index
  /\ s_last_data \in [ready: BOOLEAN, frame: Seq(Byte)]
  /\ Len(s_last_data.frame) \in {0, FrameLen}
  /\ main \in {"rd03d_api_poll", "rd03d_drv_poll"} /\ lost \in BOOLEAN

\* Every byte of the sequence belongs to one frame, at its place.
OneFrame(f) == \E k \in 1..Frames : \A p \in DOMAIN f : f[p].k = k /\ f[p].p = p

\* While the FIFO loses nothing, what is published is one frame as the sensor sent
\* it, however late the ring is emptied and whatever it had to drop.
PublishedIsOneFrame == s_last_data.frame # <<>> /\ ~lost => OneFrame(s_last_data.frame)

\* Frames are published in the order of sending, none twice.
InOrder ==
  [][s_last_data'.ready /\ ~s_last_data.ready /\ s_last_data.frame # <<>>
       => s_last_data'.frame[1].k > s_last_data.frame[1].k]_vars

\* While the FIFO loses nothing, the parser drops no frame whose first byte is in
\* the ring, not even one of which only half the header has come: it stays or it
\* is published.
Started(c) == {c[i].k : i \in {j \in DOMAIN c : c[j].p = 1}}
ParserKeepsFrames ==
  [][Parse /\ ~lost => \A k \in Started(Content) :
                \/ k \in Started(Content)'
                \/ s_last_data'.frame # <<>> /\ s_last_data'.frame[1].k = k]_vars

\* However many bytes were lost before, the last frame that is sent whole is
\* published in the end.
LastFrameShown ==
  <>(s_last_data.frame # <<>> /\ \A p \in Positions :
       s_last_data.frame[p].k = Frames /\ s_last_data.frame[p].p = p)
=============================================================================
