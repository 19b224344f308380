------------------------------- MODULE UdpRing -------------------------------
(***************************************************************************)
(* The DDP receiver of common/network/network.c: the W6100's UDP socket    *)
(* and its INTn line, the GPIO interrupt handler that moves datagrams into *)
(* a ring of UDP_RING_COUNT slots, and the main loop that scans the ring   *)
(* and copies the payloads into the frame buffer.                          *)
(*                                                                         *)
(* One core: the handler starts between any two steps of the main loop and *)
(* runs to its end before the loop goes on; ddp_loop masks no interrupts.  *)
(* Datagrams arrive at any time and are numbered 1, 2, ...                 *)
(***************************************************************************)
EXTENDS Naturals, Sequences, FiniteSets

CONSTANTS
  UDP_RING_COUNT,
  Datagrams,      \* bound on the datagrams of a behaviour
  Empty,          \* the ones without any payload: recvfrom() returns 0
  Short,          \* the ones no longer than a DDP header
  Backlog,        \* most datagrams that wait in chip and ring
  ScanArrivals,   \* most datagrams that arrive during one scan of the ring
  EarlyDatagram   \* may a datagram arrive while udp_ddp_init runs?

ASSUME RingAssumption ==
  /\ UDP_RING_COUNT \in Nat \ {0} /\ Datagrams \in Nat /\ Backlog \in Nat
  /\ ScanArrivals \in Nat
  /\ Empty \subseteq 1..Datagrams /\ Short \subseteq 1..Datagrams
  /\ EarlyDatagram \in BOOLEAN

VARIABLES
  boot,           \* progress of udp_ddp_init
  arrived,        \* datagrams so far
  rx,             \* RX buffer of the socket
  ir,             \* Sn_IR RECV; INTn is low while it is set
  edge,           \* falling edge latched by the GPIO block
  isr,            \* where wiznet_gpio_irq_handler is
  udp_rx_ring_buf, udp_rx_buf_len, udp_ring_idx,
  wiznet_isr_rx_pending,
  main,           \* where ddp_loop is; rd_idx, slots left, header being handled
  applied,        \* copies into the frame buffer: <<header of, payload of>>
  late,           \* datagrams that arrived since the scan began
  hurried         \* has one arrived before the last interrupt was served?

ring == <<udp_rx_ring_buf, udp_rx_buf_len, udp_ring_idx>>
chip == <<boot, arrived, rx, ir, edge, late, hurried>>
vars == <<chip, isr, ring, wiznet_isr_rx_pending, main, applied>>

SlotId == 0 .. UDP_RING_COUNT - 1
\* Slip: the index does not wrap.
After_NoWrap(i) == i + 1
After(i) == (i + 1) % UDP_RING_COUNT

\* udp_rx_buf_len # 0.
Used == {i \in SlotId : udp_rx_buf_len[i] # 0}
Waiting == Len(rx) + Cardinality(Used)

Scanning == main.at \in {"scan", "copy", "free"}

Init ==
  /\ boot = "open" /\ arrived = 0 /\ rx = <<>> /\ ir = FALSE /\ edge = FALSE
  /\ isr = "off"
  /\ udp_rx_ring_buf = [i \in SlotId |-> 0] /\ udp_rx_buf_len = [i \in SlotId |-> 0]
  /\ udp_ring_idx = 0
  /\ wiznet_isr_rx_pending = FALSE
  /\ main = [at |-> "top", rd |-> 0, left |-> 0, hdr |-> 0]
  /\ applied = <<>> /\ late = 0 /\ hurried = FALSE

-----------------------------------------------------------------------------
(* The chip, and udp_ddp_init after socket().                              *)

\* RECV is set with every datagram; only a line that was high can fall.
Arrive ==
  /\ arrived < Datagrams /\ Waiting < Backlog
  /\ EarlyDatagram \/ boot = "ready"
  /\ Scanning => late < ScanArrivals
  /\ late' = IF Scanning THEN late + 1 ELSE late
  /\ hurried' = (hurried \/ ir \/ edge \/ isr # "off")
  /\ arrived' = arrived + 1
  /\ rx' = Append(rx, arrived + 1)
  /\ ir' = TRUE /\ edge' = (edge \/ ~ir)
  /\ UNCHANGED <<boot, isr, ring, wiznet_isr_rx_pending, main, applied>>

\* set_socket_interrupts_enable clears what is pending ...
ClearPending ==
  /\ boot = "open" /\ boot' = "cleared"
  /\ ir' = FALSE
  /\ UNCHANGED <<arrived, rx, edge, late, hurried, isr, ring, wiznet_isr_rx_pending, main, applied>>

\* ... and enabling GPIO_IRQ_EDGE_FALL acknowledges an edge latched before.
EnableEdge ==
  /\ boot = "cleared" /\ boot' = "ready"
  /\ edge' = FALSE
  /\ UNCHANGED <<arrived, rx, ir, late, hurried, isr, ring, wiznet_isr_rx_pending, main, applied>>

-----------------------------------------------------------------------------
(* wiznet_gpio_irq_handler: one datagram for every falling edge.           *)

\* The SDK acknowledges the edge, then calls the handler.
IsrEnter ==
  /\ boot = "ready" /\ isr = "off" /\ edge
  /\ isr' = "read" /\ edge' = FALSE
  /\ UNCHANGED <<boot, arrived, rx, ir, late, hurried, ring, wiznet_isr_rx_pending, main, applied>>

\* Slip: a slot is overwritten in place, the index stays.
Store_SameSlot(d) ==
  /\ udp_rx_ring_buf' = [udp_rx_ring_buf EXCEPT ![udp_ring_idx] = d]
  /\ udp_rx_buf_len' = [udp_rx_buf_len EXCEPT ![udp_ring_idx] = 1]
  /\ UNCHANGED udp_ring_idx

Store(d) ==
  /\ udp_rx_ring_buf' = [udp_rx_ring_buf EXCEPT ![udp_ring_idx] = d]
  /\ udp_rx_buf_len' = [udp_rx_buf_len EXCEPT ![udp_ring_idx] = 1]
  /\ udp_ring_idx' = After(udp_ring_idx)

IsrRead ==
  /\ isr = "read" /\ isr' = "clear"
  /\ rx # <<>>
  /\ rx' = Tail(rx)
  /\ \/ Head(rx) \in Empty /\ UNCHANGED ring
     \/ Head(rx) \notin Empty /\ Store(Head(rx))
  /\ UNCHANGED <<boot, arrived, ir, edge, late, hurried, wiznet_isr_rx_pending, main, applied>>

\* Slip: RECV stays set.
RecvCleared_Forgotten == UNCHANGED ir
RecvCleared == ir' = FALSE

\* setSn_IR, then wizchip_clrinterrupt: two writes that clear RECV.
IsrClear ==
  /\ \/ isr = "clear" /\ isr' = "clear all"
     \/ isr = "clear all" /\ isr' = "flag"
  /\ RecvCleared
  /\ UNCHANGED <<boot, arrived, rx, edge, late, hurried, ring, wiznet_isr_rx_pending, main, applied>>

IsrLeave ==
  /\ isr = "flag" /\ isr' = "off"
  /\ wiznet_isr_rx_pending' = TRUE
  /\ UNCHANGED <<chip, ring, main, applied>>

-----------------------------------------------------------------------------
(* ddp_loop and process_udp_ring.                                          *)

MainAt(place) == isr = "off" /\ ~edge /\ boot = "ready" /\ main.at = place

\* Slip: the flag goes down when the scan is over.
FlagAfterScan_Down == wiznet_isr_rx_pending' = FALSE

\* The flag went down before the scan; it is left alone after it.
FlagAfterScan == UNCHANGED wiznet_isr_rx_pending

DdpLoop ==
  /\ MainAt("top") /\ wiznet_isr_rx_pending
  /\ wiznet_isr_rx_pending' = FALSE
  /\ main' = [main EXCEPT !.at = "start"]
  /\ UNCHANGED <<chip, isr, ring, applied>>

\* Slip: the scan starts at slot 0.
Oldest_Zero == 0
\* The slot after the one that is written next.
Oldest == After(udp_ring_idx)

ScanStart ==
  /\ MainAt("start")
  /\ main' = [main EXCEPT !.at = "scan", !.rd = Oldest, !.left = UDP_RING_COUNT]
  /\ late' = 0
  /\ UNCHANGED <<boot, arrived, rx, ir, edge, hurried, isr, ring, wiznet_isr_rx_pending, applied>>

NextSlot == [main EXCEPT !.at = "scan", !.rd = After(@), !.left = @ - 1]

ScanSkip ==
  /\ MainAt("scan") /\ main.left > 0 /\ udp_rx_buf_len[main.rd] = 0
  /\ main' = NextSlot
  /\ UNCHANGED <<chip, isr, ring, wiznet_isr_rx_pending, applied>>

\* process_ddp_packet: a datagram without pixels is left alone ...
ScanShort ==
  /\ MainAt("scan") /\ main.left > 0 /\ udp_rx_buf_len[main.rd] # 0
  /\ udp_rx_ring_buf[main.rd] \in Short
  /\ main' = [main EXCEPT !.at = "free"]
  /\ UNCHANGED <<chip, isr, ring, wiznet_isr_rx_pending, applied>>

\* ... of any other the header says where the payload goes.
ScanHeader ==
  /\ MainAt("scan") /\ main.left > 0 /\ udp_rx_buf_len[main.rd] # 0
  /\ udp_rx_ring_buf[main.rd] \notin Short
  /\ main' = [main EXCEPT !.at = "copy", !.hdr = udp_rx_ring_buf[main.rd]]
  /\ UNCHANGED <<chip, isr, ring, wiznet_isr_rx_pending, applied>>

CopyPayload ==
  /\ MainAt("copy")
  /\ applied' = Append(applied, <<main.hdr, udp_rx_ring_buf[main.rd]>>)
  /\ main' = [main EXCEPT !.at = "free", !.hdr = 0]
  /\ UNCHANGED <<chip, isr, ring, wiznet_isr_rx_pending>>

FreeSlot ==
  /\ MainAt("free")
  /\ udp_rx_buf_len' = [udp_rx_buf_len EXCEPT ![main.rd] = 0]
  /\ main' = NextSlot
  /\ UNCHANGED <<chip, isr, udp_rx_ring_buf, udp_ring_idx, wiznet_isr_rx_pending, applied>>

ScanEnd ==
  /\ MainAt("scan") /\ main.left = 0
  /\ FlagAfterScan
  /\ main' = [main EXCEPT !.at = "top"]
  /\ UNCHANGED <<chip, isr, ring, applied>>

-----------------------------------------------------------------------------

Handler == IsrEnter \/ IsrRead \/ IsrClear \/ IsrLeave
Loop == \/ DdpLoop \/ ScanStart \/ ScanSkip \/ ScanShort \/ ScanHeader
        \/ CopyPayload \/ FreeSlot \/ ScanEnd
Setup == ClearPending \/ EnableEdge

Next == Arrive \/ Setup \/ Handler \/ Loop

Spec == Init /\ [][Next]_vars

\* The loop and the interrupts run for ever; datagrams may stop.
FairSpec == Spec /\ WF_vars(Setup) /\ WF_vars(Handler) /\ WF_vars(Loop)

-----------------------------------------------------------------------------
(* Properties. *)

TypeOK ==
  /\ boot \in {"open", "cleared", "ready"}
  /\ arrived \in 0..Datagrams /\ rx \in Seq(1..Datagrams)
  /\ ir \in BOOLEAN /\ edge \in BOOLEAN
  /\ isr \in {"off", "read", "clear", "clear all", "flag"}
  /\ udp_rx_ring_buf \in [SlotId -> 0..Datagrams]
  /\ udp_rx_buf_len \in [SlotId -> 0..1]
  /\ udp_ring_idx \in SlotId
  /\ wiznet_isr_rx_pending \in BOOLEAN
  /\ main \in [at: {"top", "start", "scan", "copy", "free"}, rd: SlotId,
               left: 0..UDP_RING_COUNT, hdr: 0..Datagrams]
  /\ applied \in Seq((0..Datagrams) \X (0..Datagrams))
  /\ late \in 0..ScanArrivals /\ hurried \in BOOLEAN

\* Frames are shown whole and in the order of arrival, although the handler
\* writes slots while the main loop scans and copies them.
InOrder ==
  /\ \A i \in DOMAIN applied : applied[i][1] = applied[i][2]
  /\ \A i, j \in DOMAIN applied : i < j => applied[i][1] < applied[j][1]

\* INTn is never left low with nobody to serve it: no falling edge can come any
\* more then, and the receiver would be deaf for good.
NeverDeaf ==
  boot = "ready" /\ ir => edge \/ isr \in {"read", "clear", "clear all"}

\* As long as each datagram waits for the last interrupt to be served, every one
\* with pixels is shown.
Delivered ==
  \A d \in (1..Datagrams) \ (Empty \union Short) :
    arrived = d /\ ~hurried ~> hurried \/ \E i \in DOMAIN applied : applied[i] = <<d, d>>

\* The receiver implements the feed: nothing erased, nothing twice, all in order.
Shown == {applied[i][1] : i \in DOMAIN applied}
InHand == {rx[i] : i \in DOMAIN rx} \union {udp_rx_ring_buf[i] : i \in Used}
Feed == INSTANCE FrameFeed WITH
          waiting <- InHand \ (Shown \union Empty \union Short), shown <- applied
LosslessFeed == Feed!Spec
=============================================================================
