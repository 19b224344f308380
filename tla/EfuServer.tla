------------------------------ MODULE EfuServer ------------------------------
(***************************************************************************)
(* The EFU (Ethernet firmware update) server of common/efu/efu_update.c:   *)
(* one TCP socket of the W6100, the struct efu_srv, the two application    *)
(* slots in flash, the boot ROM that picks a slot, and the upload client.  *)
(*                                                                         *)
(* Data is counted in units: a header of HdrLen units, an image, a CRC     *)
(* trailer of CrcLen units.  A unit carries where it comes from, so that   *)
(* the content of a slot tells which image, if any, it holds.  Junk is a   *)
(* unit nobody sent (damaged in transit, or what an unaligned flash        *)
(* program leaves behind), Blank an erased one.  The CRC of a sequence of  *)
(* units is represented by the sequence (no collisions).                   *)
(***************************************************************************)
EXTENDS Integers, Sequences

CONSTANTS
  Image,        \* firmware images
  SizeOf,       \* SizeOf[i]: units of image i
  Factory,      \* the image slot A holds when the board is first used
  HdrLen,       \* units of the header (8 bytes: stamp, version, size)
  CrcLen,       \* units of the trailer (4 bytes)
  PartSize,     \* units of an application slot
  Page,         \* units of a flash page (256 bytes)
  BufSize,      \* units of efu_srv.buf (EFU_BUF_SIZE)
  Junk, Blank,
  Lookup,       \* outcomes of get_alt_part_addr: a subset of BOOLEAN
  Eager,        \* may a client send on without waiting for HD and OK?
  Leaves,       \* may a client go away in the middle?
  EarlyConnect, \* may a client connect while main is still initialising?
  Damaged,      \* positions of the stream that may arrive damaged; 0: none
  PageFramed,   \* does the network deliver the image in whole pages?
  MaxSessions,  \* bound on the connections of a behaviour
  MaxCrashes    \* bound on the power losses of a behaviour

ASSUME SizesAssumption ==
  /\ Factory \in Image /\ {Junk, Blank} \cap Image = {} /\ Junk # Blank
  /\ SizeOf \in [Image -> Nat]
  /\ SizeOf[Factory] \in 1..PartSize
  /\ HdrLen \in Nat \ {0} /\ CrcLen \in Nat \ {0} /\ PartSize \in Nat
  /\ Page \in Nat \ {0} /\ BufSize \in Nat \ {0}
ASSUME ChoicesAssumption ==
  /\ Lookup \subseteq BOOLEAN /\ Eager \subseteq BOOLEAN /\ Leaves \subseteq BOOLEAN
  /\ PageFramed \in BOOLEAN /\ EarlyConnect \in BOOLEAN
  /\ Damaged \subseteq Nat
  /\ MaxSessions \in Nat /\ MaxCrashes \in Nat

VARIABLES
  efu_srv,      \* the server's struct
  pc,           \* where the main loop is in efu_server_poll
  buf,          \* efu_srv.buf from `consumed` on
  sock,         \* the W6100 socket: status, CON interrupt, RX pointers
  session,      \* what the connected client is sending
  heard,        \* replies that reached this client
  flash,        \* content of the two slots
  running,      \* boot_info.partition
  sessions, crashes

vars == <<efu_srv, pc, buf, sock, session, heard, flash, running, sessions, crashes>>

-----------------------------------------------------------------------------
(* The stream a client sends. *)

\* Nobody sends Junk or Blank.
ASSUME UnsentAssumption == {Junk, Blank} \cap ({"hdr", "img", "crc"} \X Image \X Nat) = {}

Unit == ({"hdr", "img", "crc"} \X Image \X Nat) \union {Junk, Blank}
Session == [img: Image, bad: Damaged, eager: Eager, leaves: Leaves]

ImageEnd(s)  == HdrLen + SizeOf[s.img]
StreamEnd(s) == ImageEnd(s) + CrcLen

UnitAt(s, p) ==
  IF p = s.bad THEN Junk
  ELSE IF p <= HdrLen THEN <<"hdr", s.img, p>>
  ELSE IF p <= ImageEnd(s) THEN <<"img", s.img, p - HdrLen>>
  ELSE <<"crc", s.img, p - ImageEnd(s)>>

Part(s, from, n) == [i \in 1..n |-> UnitAt(s, from + i)]

Whole(i)   == [k \in 1..SizeOf[i] |-> <<"img", i, k>>]
Trailer(i) == [k \in 1..CrcLen |-> <<"crc", i, k>>]

Lesser(a, b) == IF a < b THEN a ELSE b
Drop(s, k) == SubSeq(s, k + 1, Len(s))

-----------------------------------------------------------------------------
(* Flash. *)

Slot == {"A", "B"}
NoSlot == "none"

\* Slips: the running slot itself; one slot whatever runs.
Other_Self(s) == s
Other_AlwaysA(s) == "A"
Other_AlwaysB(s) == "B"

\* get_corresponding_partition_id: the B partition linked to A, or A itself.
Other(s) == IF s = "A" THEN "B" ELSE "A"

OnPage(o) == \E k \in 0..o : o = k * Page

\* flash_range_program writes whole pages: the rest of the last page takes what
\* follows the data in RAM, and at an offset that is not a page boundary the
\* chip wraps around inside the page.
Program(c, off, data) ==
  LET last == off + Len(data)
      SamePage(i, o) == ((i - 1) \div Page) = ((o - 1) \div Page)
      touched == {i \in 1..PartSize : \E o \in off + 1 .. last : SamePage(i, o)}
  IN [i \in 1..PartSize |->
        IF i \notin touched THEN c[i]
        ELSE IF OnPage(off) /\ i \in off + 1 .. last /\ c[i] = Blank
             THEN data[i - off] ELSE Junk]

ErasedTo(c, k) == [i \in 1..PartSize |-> IF i <= k THEN Blank ELSE c[i]]

\* The slot holds image i, every unit of it.
Holds(c, i) == SizeOf[i] <= PartSize /\ \A k \in 1..SizeOf[i] : c[k] = <<"img", i, k>>

\* What the boot ROM asks of an unhashed image: the block loop closes, that is,
\* the first and the last block are there.
Bootable(c) ==
  \E i \in Image : /\ SizeOf[i] \in 1..PartSize
                   /\ c[1] = <<"img", i, 1>>
                   /\ c[SizeOf[i]] = <<"img", i, SizeOf[i]>>

-----------------------------------------------------------------------------
(* efu_srv, the socket, and what they are after power-up. *)

States == {"IDLE", "LISTENING", "HEADER", "ERASING", "WRITING", "WAIT_FOR_CRC", "DONE", "ERROR"}

ZeroSrv ==
  [state |-> "IDLE", write_addr |-> NoSlot, expected_size |-> 0, header |-> <<>>,
   total_written |-> 0, crc_calc |-> <<>>, crc_buf |-> <<>>,
   complete |-> FALSE, reboot_requested |-> FALSE]

Closed == [sr |-> "CLOSED", con |-> FALSE, wr |-> 0, rd |-> 0]

RxSize == sock.wr - sock.rd

Factory0 == [i \in 1..PartSize |-> IF i <= SizeOf[Factory] THEN <<"img", Factory, i>> ELSE Blank]

Init ==
  /\ efu_srv = ZeroSrv /\ pc = "init" /\ buf = <<>> /\ sock = Closed
  /\ session = [img |-> Factory, bad |-> 0, eager |-> FALSE, leaves |-> FALSE]
  /\ heard = {}
  /\ flash = [s \in Slot |-> IF s = "A" THEN Factory0 ELSE ErasedTo(Factory0, PartSize)]
  /\ running = "A"
  /\ sessions = 0 /\ crashes = 0

world == <<session, flash, running, sessions, crashes>>

-----------------------------------------------------------------------------
(* efu_server_init: socket() closes and reopens the socket; listen() fails *)
(* when the chip has already left SOCK_LISTEN at the status read.          *)

Restart(s, st) ==
  [s EXCEPT !.state = st, !.complete = FALSE, !.total_written = 0,
            !.write_addr = NoSlot, !.crc_calc = <<>>, !.crc_buf = <<>>]

ListenWorks ==
  /\ efu_srv' = Restart(efu_srv, "LISTENING")
  /\ sock' = [Closed EXCEPT !.sr = "LISTEN"]

ListenFails ==
  /\ efu_srv' = Restart(efu_srv, "ERROR")
  /\ sock' = Closed

\* Slip: `complete` alone, which a CRC mismatch sets as well.
RebootDue_AnyComplete(s) == s.complete /\ ~s.reboot_requested

\* Reboot now, with the update accepted?  (the test in case SOCK_CLOSED)
RebootDue(s) == s.state = "DONE" /\ s.complete /\ ~s.reboot_requested

\* Slip: only a socket closed after an error is reopened.
MayOpen_AfterError == pc = "init" \/ (pc = "poll" /\ sock.sr = "CLOSED" /\ efu_srv.state = "ERROR")

\* efu_server_init, from main or from the CLOSED branch of the poll.
MayOpen == pc = "init" \/ (pc = "poll" /\ sock.sr = "CLOSED" /\ ~RebootDue(efu_srv))

Opened == pc' = IF pc = "init" THEN "setup" ELSE "poll"

Open       == MayOpen /\ ListenWorks /\ Opened /\ UNCHANGED <<buf, heard, world>>
OpenFailed == MayOpen /\ ListenFails /\ Opened /\ UNCHANGED <<buf, heard, world>>

\* Later in main, udp_ddp_init clears the interrupts of every socket, the CON
\* interrupt of this one included.
InterruptsCleared ==
  /\ pc = "setup"
  /\ sock' = [sock EXCEPT !.con = FALSE] /\ pc' = "poll"
  /\ UNCHANGED <<efu_srv, buf, heard, world>>

\* rom_reboot(FLASH_UPDATE, write_addr), then a loop until the chip resets.
PollReboot ==
  /\ pc = "poll" /\ sock.sr = "CLOSED" /\ RebootDue(efu_srv)
  /\ efu_srv' = [efu_srv EXCEPT !.reboot_requested = TRUE]
  /\ pc' = "reset"
  /\ UNCHANGED <<buf, sock, heard, world>>

\* The beginning of disconnect(): DISCON sends the FIN; what is left of the chunk,
\* and what comes after it, nobody reads.
Disconnect ==
  /\ pc' = "disconnect" /\ buf' = <<>>
  /\ sock' = [Closed EXCEPT !.sr = IF sock.sr = "ESTABLISHED" THEN "FIN_WAIT_1"
                                   ELSE IF sock.sr = "CLOSE_WAIT" THEN "LAST_ACK" ELSE "CLOSED"]

\* The end of disconnect(), which holds the main loop until the socket is closed.
Disconnected ==
  /\ pc = "disconnect" /\ sock.sr = "CLOSED" /\ pc' = "poll"
  /\ UNCHANGED <<efu_srv, buf, sock, heard, world>>

\* The state is set when disconnect() returns; nothing reads it before.
PollCloseWait ==
  /\ pc = "poll" /\ sock.sr = "CLOSE_WAIT"
  /\ Disconnect
  /\ efu_srv' = [efu_srv EXCEPT !.state = "ERROR"]
  /\ UNCHANGED <<heard, world>>

-----------------------------------------------------------------------------
(* case SOCK_ESTABLISHED.  A new connection starts over; then one recv() of *)
(* at most BufSize units, whatever the segments were.                       *)

\* Slip: header_received is not cleared.
NewConnection_KeepsHeader(s) ==
  [s EXCEPT !.state = "HEADER", !.total_written = 0, !.complete = FALSE]

NewConnection(s) ==
  [s EXCEPT !.state = "HEADER", !.header = <<>>, !.total_written = 0, !.complete = FALSE]

PollEstablished ==
  /\ pc = "poll" /\ sock.sr = "ESTABLISHED"
  /\ sock.con \/ RxSize > 0
  /\ efu_srv' = IF sock.con THEN NewConnection(efu_srv) ELSE efu_srv
  /\ LET n == Lesser(RxSize, BufSize)
     IN /\ buf' = Part(session, sock.rd, n)
        /\ sock' = [sock EXCEPT !.con = FALSE, !.rd = @ + n]
        /\ pc' = IF n = 0 THEN "poll" ELSE "handle"
  /\ UNCHANGED <<heard, world>>

\* send() reaches a client that is still there.
Reply(r) == heard' = IF sock.sr = "ESTABLISHED" THEN heard \union {r} ELSE heard

\* Leave the poll, the rest of the chunk dropped.
PollEnds == pc' = "poll" /\ buf' = <<>>

\* ER, then disconnect().
Nack(s) ==
  /\ efu_srv' = [s EXCEPT !.state = "ERROR"]
  /\ Reply("ER") /\ Disconnect

In(st) == pc = "handle" /\ efu_srv.state = st

HeaderWith(b) == efu_srv.header \o SubSeq(b, 1, Lesser(HdrLen - Len(efu_srv.header), Len(b)))
HeaderRest(b) == Drop(b, Lesser(HdrLen - Len(efu_srv.header), Len(b)))

StampOK(h) == h[1] \in {<<"hdr", i, 1>> : i \in Image}
\* The size field, whatever image's header its last unit belongs to.
SizeField(h) ==
  IF h[HdrLen] \in {<<"hdr", i, HdrLen>> : i \in Image}
  THEN SizeOf[h[HdrLen][2]] ELSE 0

HeaderPartial ==
  /\ In("HEADER")
  /\ Len(HeaderWith(buf)) < HdrLen
  /\ efu_srv' = [efu_srv EXCEPT !.header = HeaderWith(buf)]
  /\ PollEnds /\ UNCHANGED <<sock, heard, world>>

HeaderBad ==
  /\ In("HEADER")
  /\ Len(HeaderWith(buf)) = HdrLen /\ ~StampOK(HeaderWith(buf))
  /\ Nack([efu_srv EXCEPT !.header = HeaderWith(buf)])
  /\ UNCHANGED world

HeaderGood ==
  /\ In("HEADER")
  /\ Len(HeaderWith(buf)) = HdrLen /\ StampOK(HeaderWith(buf))
  /\ efu_srv' = [efu_srv EXCEPT !.header = HeaderWith(buf), !.state = "ERASING",
                                !.expected_size = SizeField(HeaderWith(buf))]
  /\ buf' = HeaderRest(buf)
  /\ UNCHANGED <<pc, sock, heard, world>>

\* get_alt_part_addr fails: no partition table, or not booted from a partition.
NoTarget == /\ In("ERASING") /\ FALSE \in Lookup
            /\ Nack(efu_srv) /\ UNCHANGED world

Target ==
  /\ In("ERASING") /\ TRUE \in Lookup
  /\ efu_srv' = [efu_srv EXCEPT !.state = "WRITING", !.write_addr = Other(running)]
  /\ pc' = "erase"
  /\ UNCHANGED <<buf, sock, heard, world>>

\* flash_range_erase goes up the slot; power may fail half-way.
EraseSome ==
  /\ pc = "erase"
  /\ \E k \in 1..PartSize - 1 : flash' = [flash EXCEPT ![efu_srv.write_addr] = ErasedTo(@, k)]
  /\ UNCHANGED <<efu_srv, pc, buf, sock, session, heard, running, sessions, crashes>>

EraseDone ==
  /\ pc = "erase"
  /\ flash' = [flash EXCEPT ![efu_srv.write_addr] = ErasedTo(@, PartSize)]
  /\ Reply("HD") /\ pc' = "handle"
  /\ UNCHANGED <<efu_srv, buf, sock, session, running, sessions, crashes>>

\* Slip: the chunk at hand is not counted.
TooLarge_BeforeChunk(s, n) == s.total_written > PartSize

TooLarge(s, n) == s.total_written + n > PartSize

WriteTooLarge == /\ In("WRITING") /\ TooLarge(efu_srv, Len(buf))
                 /\ Nack(efu_srv) /\ UNCHANGED world

\* CRC over the chunk, program it, count it; OK exactly when the count is met.
Write ==
  /\ In("WRITING") /\ ~TooLarge(efu_srv, Len(buf))
  /\ flash' = [flash EXCEPT ![efu_srv.write_addr] = Program(@, efu_srv.total_written, buf)]
  /\ LET s == [efu_srv EXCEPT !.crc_calc = @ \o buf, !.total_written = @ + Len(buf)]
     IN IF s.total_written = s.expected_size
        THEN efu_srv' = [s EXCEPT !.state = "WAIT_FOR_CRC", !.crc_buf = <<>>] /\ Reply("OK")
        ELSE efu_srv' = s /\ UNCHANGED heard
  /\ PollEnds /\ UNCHANGED <<sock, session, running, sessions, crashes>>

TrailerWith(b) == efu_srv.crc_buf \o SubSeq(b, 1, Lesser(CrcLen - Len(efu_srv.crc_buf), Len(b)))

\* Slip: any well-formed trailer will do.
CrcMatches_AnyTrailer(calc, received) == \E i \in Image : received = Trailer(i)

CrcMatches(calc, received) == \E i \in Image : calc = Whole(i) /\ received = Trailer(i)

CrcPartial ==
  /\ In("WAIT_FOR_CRC")
  /\ Len(TrailerWith(buf)) < CrcLen
  /\ efu_srv' = [efu_srv EXCEPT !.crc_buf = TrailerWith(buf)]
  /\ PollEnds /\ UNCHANGED <<sock, heard, world>>

CrcBad ==
  /\ In("WAIT_FOR_CRC") /\ Len(TrailerWith(buf)) = CrcLen
  /\ ~CrcMatches(efu_srv.crc_calc, TrailerWith(buf))
  /\ Nack([efu_srv EXCEPT !.crc_buf = TrailerWith(buf), !.complete = TRUE])
  /\ UNCHANGED world

CrcGood ==
  /\ In("WAIT_FOR_CRC") /\ Len(TrailerWith(buf)) = CrcLen
  /\ CrcMatches(efu_srv.crc_calc, TrailerWith(buf))
  /\ efu_srv' = [efu_srv EXCEPT !.crc_buf = TrailerWith(buf), !.state = "DONE", !.complete = TRUE]
  /\ Reply("CC") /\ Disconnect /\ UNCHANGED world

\* In every other state a chunk is read and dropped.
Receiving == {"HEADER", "ERASING", "WRITING", "WAIT_FOR_CRC"}
Dropped == /\ pc = "handle" /\ efu_srv.state \notin Receiving
           /\ PollEnds /\ UNCHANGED <<efu_srv, sock, heard, world>>

-----------------------------------------------------------------------------
(* The boot ROM.  A FLASH_UPDATE reboot tries the slot just written and    *)
(* falls back; an ordinary power-up may pick any slot that looks bootable. *)

BootInto(s) ==
  /\ running' = s
  /\ efu_srv' = ZeroSrv /\ pc' = "init" /\ buf' = <<>> /\ sock' = Closed
  /\ UNCHANGED <<session, heard, flash, sessions>>

BootUpdate ==
  /\ pc = "reset"
  /\ BootInto(IF Bootable(flash[efu_srv.write_addr]) THEN efu_srv.write_addr ELSE running)
  /\ UNCHANGED crashes

PowerLoss ==
  /\ crashes < MaxCrashes
  /\ crashes' = crashes + 1
  /\ \E s \in Slot : Bootable(flash[s]) /\ BootInto(s)

-----------------------------------------------------------------------------
(* The client (efu_upload.py) and the network.                             *)

Connect ==
  /\ sock.sr = "LISTEN" /\ sessions < MaxSessions
  /\ pc = "setup" => EarlyConnect
  /\ session' \in Session
  /\ sessions' = sessions + 1
  /\ heard' = {}
  /\ sock' = [sr |-> "ESTABLISHED", con |-> TRUE, wr |-> 0, rd |-> 0]
  /\ UNCHANGED <<efu_srv, pc, buf, flash, running, crashes>>

\* How far the client may have sent: efu_upload.py waits for HD, then for OK.
MaySend ==
  IF session.eager \/ "OK" \in heard THEN StreamEnd(session)
  ELSE IF "HD" \in heard THEN ImageEnd(session) ELSE HdrLen

\* With PageFramed the image comes in whole pages, except for its end.
Framed(to) ==
  PageFramed => to <= HdrLen \/ to >= ImageEnd(session) \/ OnPage(to - HdrLen)

Segment ==
  /\ sock.sr = "ESTABLISHED"
  /\ \E to \in sock.wr + 1 .. MaySend : Framed(to) /\ sock' = [sock EXCEPT !.wr = to]
  /\ UNCHANGED <<efu_srv, pc, buf, heard, world>>

ClientCloses ==
  /\ sock.sr = "ESTABLISHED" /\ session.leaves
  /\ sock' = [sock EXCEPT !.sr = "CLOSE_WAIT"]
  /\ UNCHANGED <<efu_srv, pc, buf, heard, world>>

\* A reset, or the chip's retransmissions ran out.
ConnectionLost ==
  /\ sock.sr \in {"ESTABLISHED", "CLOSE_WAIT"} /\ session.leaves
  /\ sock' = [sock EXCEPT !.sr = "CLOSED"]
  /\ UNCHANGED <<efu_srv, pc, buf, heard, world>>

\* FIN_WAIT_1, before the FIN is acknowledged, and FIN_WAIT_2, after it, are both
\* SOCK_FIN_WAIT to the code.
FinAcknowledged ==
  /\ sock.sr = "FIN_WAIT_1"
  /\ sock' = [sock EXCEPT !.sr = "FIN_WAIT_2"]
  /\ UNCHANGED <<efu_srv, pc, buf, heard, world>>

\* The peer has closed as well, or Sn_IR_TIMEOUT says that it does not answer.
FinAnswered ==
  /\ sock.sr \in {"FIN_WAIT_1", "FIN_WAIT_2", "LAST_ACK"}
  /\ sock' = [sock EXCEPT !.sr = "CLOSED"]
  /\ UNCHANGED <<efu_srv, pc, buf, heard, world>>

-----------------------------------------------------------------------------

Server ==
  \/ Open \/ OpenFailed \/ InterruptsCleared \/ PollReboot \/ PollCloseWait \/ PollEstablished
  \/ HeaderPartial \/ HeaderBad \/ HeaderGood
  \/ NoTarget \/ Target \/ EraseSome \/ EraseDone
  \/ WriteTooLarge \/ Write
  \/ CrcPartial \/ CrcBad \/ CrcGood \/ Dropped \/ Disconnected
Rom    == BootUpdate \/ PowerLoss
Client == Connect \/ Segment \/ ClientCloses \/ ConnectionLost \/ FinAcknowledged \/ FinAnswered

Next == Server \/ Rom \/ Client

Spec == Init /\ [][Next]_vars

-----------------------------------------------------------------------------
(* Properties. *)

\* The C struct; the bytes counted in total_written never exceed the partition.
SrvType == [state: States, write_addr: Slot \union {NoSlot}, expected_size: Nat,
            header: Seq(Unit), total_written: 0..PartSize, crc_calc: Seq(Unit),
            crc_buf: Seq(Unit), complete: BOOLEAN, reboot_requested: BOOLEAN]
SockType == [sr: {"CLOSED", "LISTEN", "ESTABLISHED", "CLOSE_WAIT",
                  "FIN_WAIT_1", "FIN_WAIT_2", "LAST_ACK"},
             con: BOOLEAN, wr: Nat, rd: Nat]
SessionType == [img: Image, bad: Nat, eager: BOOLEAN, leaves: BOOLEAN]

\* Every variable has its type, header_buf[8] and crc_buf[4] are not overrun, and
\* no more is read from the socket than was received.
TypeOK ==
  /\ efu_srv \in SrvType
  /\ Len(efu_srv.header) <= HdrLen /\ Len(efu_srv.crc_buf) <= CrcLen
  /\ pc \in {"init", "setup", "poll", "handle", "erase", "disconnect", "reset"}
  /\ buf \in Seq(Unit)
  /\ sock \in SockType /\ sock.rd <= sock.wr
  /\ session \in SessionType
  /\ heard \subseteq {"HD", "OK", "ER", "CC"}
  /\ flash \in [Slot -> [1..PartSize -> Unit]]
  /\ running \in Slot
  /\ sessions \in 0..MaxSessions /\ crashes \in 0..MaxCrashes

\* The update is fail-safe: whatever is half erased or half written when the
\* power goes, one slot can still be booted (README.md, "fail-safe OTA updates").
NeverBricked == \E s \in Slot : Bootable(flash[s])

WholeIn(c) == \E i \in Image : SizeOf[i] > 0 /\ Holds(c, i)

\* What runs is a complete, undamaged image, not just one that looks bootable
\* to the boot ROM (README.md: EFU "checks CRC32, and switches the boot selection").
RunsWholeImage == WholeIn(flash[running])

\* An image from its first unit to its last, but for damage between the two.
UploadIn(c) ==
  \E i \in Image : /\ SizeOf[i] \in 1..PartSize
                   /\ \A k \in 1..SizeOf[i] : \/ c[k] = <<"img", i, k>>
                                              \/ k \in 2..SizeOf[i] - 1 /\ c[k] = Junk

\* What is left of that promise when the power may fail between the last chunk
\* and the comparison of the CRC, or after ER: what runs is still one image that
\* was sent to its end, damaged between its ends at worst, and never what a
\* broken transfer or an erase left, or parts of two images.  Without a power
\* failure it is whole.
RunsOneImage == UploadIn(flash[running]) /\ (crashes = 0 => RunsWholeImage)

\* A client that heard CC may rely on it: its image is in flash and stays there
\* through the reboot, until the next client connects.
CcMeansStored == "CC" \in heard => \E s \in Slot : Holds(flash[s], session.img)

\* A client that heard ER is never followed by a reboot into what it sent.
ErMeansNoReboot == "ER" \in heard => pc # "reset" /\ "CC" \notin heard

\* Data is dropped unread only for a client whose CON interrupt was cleared
\* during initialisation: after an error or a commit no chunk is taken any more.
ChunkHasHandler == pc = "handle" => efu_srv.state \in Receiving \union {"LISTENING"}

\* A connection starts with a clean checksum, although only efu_server_init, and
\* not the connect branch, clears crc_calc and crc_buf.
FreshChecksum == sock.sr = "ESTABLISHED" /\ sock.con => efu_srv.crc_calc = <<>>

\* The slot the CPU executes from is never erased or programmed.
RunningSlotUntouched == [][flash'[running] = flash[running]]_vars

\* Short of a power loss the device changes slots only into the image its last
\* client sent, and never after it told that client ER.
SwitchOnlyByCommit ==
  [][running' # running /\ crashes' = crashes =>
       Holds(flash[running'], session.img) /\ "ER" \notin heard]_vars

\* The server implements the abstract update: erasing, programming and broken
\* transfers are rewrites of the other slot, and it reboots only into a whole
\* image; what looks bootable and is none takes a power failure to be run.
HeldBy(c) ==
  IF WholeIn(c) THEN CHOOSE i \in Image : SizeOf[i] > 0 /\ Holds(c, i)
  ELSE IF Bootable(c) THEN Junk ELSE Blank

Ota == INSTANCE OtaUpdate WITH
  Suspect <- Junk, None <- Blank, powerUps <- crashes,
  held <- [s \in Slot |-> HeldBy(flash[s])]
FailSafeUpdate == Ota!Spec

-----------------------------------------------------------------------------
(* Liveness.  The main loop polls for ever, and not every listen() meets a  *)
(* client in its gap.  A client that stays does what efu_upload.py does: it *)
(* sends what it may, and closes when the server does.  Of one that leaves  *)
(* nothing is assumed: it may close, be lost, or just fall silent, and need *)
(* not close when the server does.  Only for an acknowledgement of its FIN  *)
(* the chip does not wait for ever (Sn_IR_TIMEOUT).                         *)

Fairness ==
  /\ WF_vars(InterruptsCleared \/ PollReboot \/ PollCloseWait \/ PollEstablished
             \/ EraseDone \/ Target \/ NoTarget \/ Disconnected)
  /\ WF_vars(HeaderPartial \/ HeaderBad \/ HeaderGood \/ WriteTooLarge \/ Write \/ Dropped)
  /\ WF_vars(CrcPartial \/ CrcBad \/ CrcGood)
  /\ SF_vars(Open) /\ WF_vars(BootUpdate)
  /\ WF_vars(Segment /\ ~session.leaves)
  /\ WF_vars(sock.sr \in {"FIN_WAIT_1", "LAST_ACK"} /\ (FinAcknowledged \/ FinAnswered))
  /\ WF_vars(FinAnswered /\ ~session.leaves)

FairSpec == Spec /\ Fairness

\* The server waits for a peer that has gone without a word: for data, where it
\* has no timeout and asks for no keepalive, or for its FIN, in disconnect().
HeldByPeer ==
  /\ session.leaves
  /\ \/ pc = "poll" /\ sock.sr = "ESTABLISHED" /\ ~sock.con /\ RxSize = 0
     \/ pc = "disconnect" /\ sock.sr = "FIN_WAIT_2"

\* The EFU port comes back: after every upload, refused, broken off or complete,
\* the server listens again, unless a peer that fell silent holds it for ever.
ListensAgain == []<>(sock.sr = "LISTEN") \/ <>[]HeldByPeer

Honest(i) ==
  /\ sock.sr = "ESTABLISHED" /\ sock.con /\ session.img = i /\ session.bad = 0
  /\ ~session.eager /\ ~session.leaves /\ SizeOf[i] \in 1..PartSize

\* A client that follows the protocol and stays gets its image to run, whatever
\* earlier sessions left behind in efu_srv.
HonestUpdateLands == \A i \in Image : Honest(i) ~> Holds(flash[running], i)

=============================================================================
