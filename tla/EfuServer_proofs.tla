--------------------------- MODULE EfuServer_proofs ---------------------------
(***************************************************************************)
(* Proofs about EfuServer, for every set of images, every slot, page and   *)
(* buffer size, every damage and every TCP segmentation.                   *)
(***************************************************************************)
EXTENDS EfuServer, SequenceTheorems, TLAPS

-----------------------------------------------------------------------------
(* What the operators of the model return. *)

\* A position of a client's stream carries a unit.
LEMMA UnitAtType ==
  ASSUME NEW s \in SessionType, NEW p \in Nat
  PROVE  UnitAt(s, p) \in Unit
<1>1. SizeOf[s.img] \in Nat /\ s.img \in Image /\ HdrLen \in Nat
  BY SizesAssumption DEF SessionType
<1>2. CASE p = s.bad
  BY <1>2 DEF UnitAt, Unit
<1>3. CASE p # s.bad /\ p <= HdrLen
  BY <1>1, <1>3 DEF UnitAt, Unit
<1>4. CASE p # s.bad /\ p > HdrLen /\ p <= ImageEnd(s)
  <2>1. p - HdrLen \in Nat
    BY <1>1, <1>4
  <2> QED BY <1>1, <1>4, <2>1 DEF UnitAt, Unit
<1>5. CASE p # s.bad /\ p > HdrLen /\ p > ImageEnd(s)
  <2>1. p - ImageEnd(s) \in Nat
    BY <1>1, <1>5 DEF ImageEnd
  <2>2. ~(p <= ImageEnd(s)) /\ ~(p <= HdrLen)
    BY <1>1, <1>5 DEF ImageEnd
  <2> QED BY <1>1, <1>5, <2>1, <2>2 DEF UnitAt, Unit
<1> QED BY <1>1, <1>2, <1>3, <1>4, <1>5 DEF ImageEnd

\* What recv() reads is a sequence of units.
LEMMA PartType ==
  ASSUME NEW s \in SessionType, NEW from \in Nat, NEW n \in Nat
  PROVE  Part(s, from, n) \in Seq(Unit) /\ Len(Part(s, from, n)) = n
<1>1. \A i \in 1..n : UnitAt(s, from + i) \in Unit
  BY UnitAtType
<1>2. Part(s, from, n) \in [1..n -> Unit]
  BY <1>1 DEF Part
<1> QED BY <1>2

\* A prefix and a rest of a sequence of units are sequences of units.
LEMMA PrefixType ==
  ASSUME NEW b \in Seq(Unit), NEW k \in Nat
  PROVE  /\ SubSeq(b, 1, Lesser(k, Len(b))) \in Seq(Unit)
         /\ Drop(b, Lesser(k, Len(b))) \in Seq(Unit)
         /\ Len(SubSeq(b, 1, Lesser(k, Len(b)))) <= k
         /\ Lesser(k, Len(b)) \in Nat
<1> DEFINE n == Lesser(k, Len(b))
<1>1. Len(b) \in Nat /\ n \in 0..Len(b) /\ n <= k
  BY DEF Lesser
<1>2. \A i \in 1..n : b[i] \in Unit
  BY <1>1
<1>3. \A i \in n + 1 .. Len(b) : b[i] \in Unit
  BY <1>1
<1> HIDE DEF n
<1>4. SubSeq(b, 1, n) \in Seq(Unit) /\ Len(SubSeq(b, 1, n)) <= k
  BY <1>1, <1>2, SubSeqProperties
<1>5. SubSeq(b, n + 1, Len(b)) \in Seq(Unit)
  BY <1>1, <1>3, SubSeqProperties
<1> QED BY <1>1, <1>4, <1>5 DEF Drop, n

\* The header and the trailer stay inside header_buf[8] and crc_buf[4].
LEMMA CollectType ==
  ASSUME TypeOK, NEW b \in Seq(Unit)
  PROVE  /\ HeaderWith(b) \in Seq(Unit) /\ Len(HeaderWith(b)) <= HdrLen
         /\ HeaderRest(b) \in Seq(Unit)
         /\ TrailerWith(b) \in Seq(Unit) /\ Len(TrailerWith(b)) <= CrcLen
<1> DEFINE h == efu_srv.header
           c == efu_srv.crc_buf
<1>1. h \in Seq(Unit) /\ c \in Seq(Unit) /\ Len(h) <= HdrLen /\ Len(c) <= CrcLen
  BY DEF TypeOK, SrvType
<1> HIDE DEF h, c
<1>2. HdrLen - Len(h) \in Nat /\ CrcLen - Len(c) \in Nat /\ HdrLen \in Nat /\ CrcLen \in Nat
  BY <1>1, SizesAssumption
<1> DEFINE hp == SubSeq(b, 1, Lesser(HdrLen - Len(h), Len(b)))
           cp == SubSeq(b, 1, Lesser(CrcLen - Len(c), Len(b)))
<1>3. /\ hp \in Seq(Unit) /\ Len(hp) <= HdrLen - Len(h)
      /\ Drop(b, Lesser(HdrLen - Len(h), Len(b))) \in Seq(Unit)
      /\ cp \in Seq(Unit) /\ Len(cp) <= CrcLen - Len(c)
  BY <1>2, PrefixType
<1> HIDE DEF hp, cp
<1>4. /\ h \o hp \in Seq(Unit) /\ Len(h \o hp) = Len(h) + Len(hp)
      /\ c \o cp \in Seq(Unit) /\ Len(c \o cp) = Len(c) + Len(cp)
  BY <1>1, <1>3
<1>5. Len(h \o hp) <= HdrLen /\ Len(c \o cp) <= CrcLen
  BY <1>1, <1>2, <1>3, <1>4
<1> QED BY <1>3, <1>4, <1>5 DEF HeaderWith, HeaderRest, TrailerWith, h, c, hp, cp

\* Erasing and programming leave units in every place of a slot.
LEMMA FlashType ==
  ASSUME NEW c \in [1..PartSize -> Unit]
  PROVE  /\ \A k \in Int : ErasedTo(c, k) \in [1..PartSize -> Unit]
         /\ \A data \in Seq(Unit), off \in Nat :
              Program(c, off, data) \in [1..PartSize -> Unit]
<1>1. ASSUME NEW k \in Int PROVE ErasedTo(c, k) \in [1..PartSize -> Unit]
  BY DEF ErasedTo, Unit
<1>2. ASSUME NEW data \in Seq(Unit), NEW off \in Nat
      PROVE  Program(c, off, data) \in [1..PartSize -> Unit]
  <2>1. \A i \in off + 1 .. off + Len(data) : data[i - off] \in Unit
    <3> TAKE i \in off + 1 .. off + Len(data)
    <3>1. i - off \in 1..Len(data)
      OBVIOUS
    <3> QED BY <3>1
  <2>2. Junk \in Unit
    BY DEF Unit
  <2> QED BY <2>1, <2>2 DEF Program
<1> QED BY <1>1, <1>2


-----------------------------------------------------------------------------
(* Type correctness, one lemma per part of the program. *)

\* What efu_server_init leaves in the struct.
LEMMA RestartFields ==
  ASSUME NEW s \in SrvType, NEW st \in States
  PROVE  /\ Restart(s, st) \in SrvType
         /\ Restart(s, st).state = st
         /\ Restart(s, st).header = s.header
         /\ Restart(s, st).crc_calc = <<>>
         /\ Restart(s, st).crc_buf = <<>>
<1>1. Restart(s, st) \in SrvType
  <2> <<>> \in Seq(Unit) /\ 0 \in 0..PartSize
    BY SizesAssumption
  <2> QED BY DEF Restart, SrvType
<1>2. Restart(s, st).state = st
  BY DEF Restart, SrvType
<1>3. Restart(s, st).header = s.header
  BY DEF Restart, SrvType
<1>4. Restart(s, st).crc_calc = <<>>
  BY DEF Restart, SrvType
<1>5. Restart(s, st).crc_buf = <<>>
  BY DEF Restart, SrvType
<1> QED BY <1>1, <1>2, <1>3, <1>4, <1>5

\* DISCON leaves nothing to read, and the main loop inside disconnect().
LEMMA DisconnectFields ==
  ASSUME Disconnect
  PROVE  /\ sock' \in SockType /\ sock'.rd = 0 /\ sock'.wr = 0 /\ sock'.con = FALSE
         /\ sock'.sr \in {"FIN_WAIT_1", "LAST_ACK", "CLOSED"}
         /\ pc' = "disconnect" /\ buf' = <<>> /\ buf' \in Seq(Unit)
<1> DEFINE sr == IF sock.sr = "ESTABLISHED" THEN "FIN_WAIT_1"
                 ELSE IF sock.sr = "CLOSE_WAIT" THEN "LAST_ACK" ELSE "CLOSED"
<1>1. sr \in {"FIN_WAIT_1", "LAST_ACK", "CLOSED"}
  OBVIOUS
<1>2. sock' = [Closed EXCEPT !.sr = sr]
  BY DEF Disconnect
<1> HIDE DEF sr
<1>3. sock' = [sr |-> sr, con |-> FALSE, wr |-> 0, rd |-> 0]
  BY <1>2 DEF Closed
<1>4. pc' = "disconnect" /\ buf' = <<>> /\ <<>> \in Seq(Unit)
  BY DEF Disconnect
<1> QED BY <1>1, <1>3, <1>4 DEF SockType

\* efu_server_init and the polls without a chunk keep the types.
LEMMA PollType ==
  ASSUME TypeOK,
         Open \/ OpenFailed \/ InterruptsCleared \/ PollReboot \/ PollCloseWait \/ PollEstablished
  PROVE  TypeOK'
<1> <<>> \in Seq(Unit) /\ Len(<<>>) = 0 /\ HdrLen \in Nat /\ CrcLen \in Nat /\ PartSize \in Nat
  BY SizesAssumption
<1>a. Closed \in SockType /\ [Closed EXCEPT !.sr = "LISTEN"] \in SockType
      /\ Closed.rd = 0 /\ Closed.wr = 0
      /\ [Closed EXCEPT !.sr = "LISTEN"].rd = 0 /\ [Closed EXCEPT !.sr = "LISTEN"].wr = 0
  BY DEF Closed, SockType
<1> USE DEF TypeOK, world
<1>1. CASE Open
  <2>1. efu_srv' = Restart(efu_srv, "LISTENING") /\ "LISTENING" \in States
    BY <1>1 DEF Open, ListenWorks, States
  <2>2. efu_srv' \in SrvType /\ Len(efu_srv'.header) <= HdrLen /\ Len(efu_srv'.crc_buf) <= CrcLen
    BY <2>1, RestartFields
  <2> QED BY <1>1, <1>a, <2>2 DEF Open, ListenWorks, Opened
<1>2. CASE OpenFailed
  <2>1. efu_srv' = Restart(efu_srv, "ERROR") /\ "ERROR" \in States
    BY <1>2 DEF OpenFailed, ListenFails, States
  <2>2. efu_srv' \in SrvType /\ Len(efu_srv'.header) <= HdrLen /\ Len(efu_srv'.crc_buf) <= CrcLen
    BY <2>1, RestartFields
  <2> QED BY <1>2, <1>a, <2>2 DEF OpenFailed, ListenFails, Opened
<1>3. CASE InterruptsCleared
  <2>1. sock' \in SockType
    BY <1>3 DEF InterruptsCleared, SockType
  <2>2. sock'.rd <= sock'.wr
    BY <1>3 DEF InterruptsCleared, SockType
  <2> QED BY <1>3, <2>1, <2>2 DEF InterruptsCleared
<1>4. CASE PollReboot
  <2>1. efu_srv' \in SrvType
    BY <1>4 DEF PollReboot, SrvType
  <2>2. efu_srv'.header = efu_srv.header
    BY <1>4 DEF PollReboot, SrvType
  <2>3. efu_srv'.crc_buf = efu_srv.crc_buf
    BY <1>4 DEF PollReboot, SrvType
  <2> QED BY <1>4, <2>1, <2>2, <2>3 DEF PollReboot
<1>5. CASE PollCloseWait
  <2>1. efu_srv' \in SrvType
    BY <1>5 DEF PollCloseWait, SrvType, States
  <2>2. efu_srv'.header = efu_srv.header
    BY <1>5 DEF PollCloseWait, SrvType
  <2>3. efu_srv'.crc_buf = efu_srv.crc_buf
    BY <1>5 DEF PollCloseWait, SrvType
  <2>4. Disconnect /\ UNCHANGED <<heard, world>>
    BY <1>5 DEF PollCloseWait
  <2> QED BY <2>1, <2>2, <2>3, <2>4, DisconnectFields
<1>6. CASE PollEstablished
  <2> DEFINE n == Lesser(RxSize, BufSize)
  <2>1. n \in Nat /\ sock.rd + n \in Nat /\ sock.rd + n <= sock.wr
    <3>1. sock.rd \in Nat /\ sock.wr \in Nat /\ sock.rd <= sock.wr
      BY DEF SockType
    <3>2. BufSize \in Nat
      BY SizesAssumption
    <3> QED BY ONLY <3>1, <3>2 DEF Lesser, RxSize
  <2> DEFINE s == NewConnection(efu_srv)
  <2>a. s \in SrvType
    <3> 0 \in 0..PartSize /\ <<>> \in Seq(Unit)
      OBVIOUS
    <3> QED BY DEF SrvType, NewConnection, States
  <2>b. s.header = <<>>
    BY DEF SrvType, NewConnection
  <2>c. s.crc_buf = efu_srv.crc_buf
    BY DEF SrvType, NewConnection
  <2>d. efu_srv' \in {s, efu_srv}
    BY <1>6 DEF PollEstablished
  <2>2. efu_srv' \in SrvType /\ Len(efu_srv'.header) <= HdrLen /\ Len(efu_srv'.crc_buf) <= CrcLen
    <3> HIDE DEF s
    <3> QED BY <2>a, <2>b, <2>c, <2>d
  <2>3. buf' \in Seq(Unit)
    BY <1>6, <2>1, PartType DEF PollEstablished, SockType
  <2>e. sock' = [sock EXCEPT !.con = FALSE, !.rd = @ + n]
    BY <1>6 DEF PollEstablished
  <2> HIDE DEF n
  <2>f. sock' \in SockType
    BY <2>1, <2>e DEF SockType
  <2>g. sock'.rd = sock.rd + n
    BY <2>e DEF SockType
  <2>h. sock'.wr = sock.wr
    BY <2>e DEF SockType
  <2>4. sock' \in SockType /\ sock'.rd <= sock'.wr
    BY <2>1, <2>f, <2>g, <2>h
  <2>5. pc' \in {"poll", "handle"}
    BY <1>6 DEF PollEstablished
  <2> QED BY <1>6, <2>2, <2>3, <2>4, <2>5 DEF PollEstablished
<1> QED BY <1>1, <1>2, <1>3, <1>4, <1>5, <1>6

\* Refusing keeps the types.
LEMMA NackType ==
  ASSUME TypeOK, NEW s \in SrvType, Len(s.header) <= HdrLen, Len(s.crc_buf) <= CrcLen,
         Nack(s), UNCHANGED world
  PROVE  TypeOK'
<1>1. efu_srv' \in SrvType
  BY DEF Nack, SrvType, States
<1>2. efu_srv'.header = s.header
  BY DEF Nack, SrvType
<1>3. efu_srv'.crc_buf = s.crc_buf
  BY DEF Nack, SrvType
<1>4. sock' \in SockType /\ sock'.rd <= sock'.wr
  BY DisconnectFields DEF Nack
<1>5. buf' \in Seq(Unit) /\ pc' = "disconnect" /\ heard' \subseteq {"HD", "OK", "ER", "CC"}
  BY DisconnectFields DEF Nack, Reply, TypeOK
<1> QED BY <1>1, <1>2, <1>3, <1>4, <1>5 DEF TypeOK, world

\* The header stage and the choice of the target keep the types.
LEMMA HeaderType ==
  ASSUME TypeOK, HeaderPartial \/ HeaderBad \/ HeaderGood \/ NoTarget \/ Target
  PROVE  TypeOK'
<1> DEFINE hw == HeaderWith(buf)
           rest == HeaderRest(buf)
<1>a. hw \in Seq(Unit) /\ Len(hw) <= HdrLen /\ rest \in Seq(Unit) /\ <<>> \in Seq(Unit)
  BY CollectType DEF TypeOK
<1> HIDE DEF hw, rest
<1>1. CASE HeaderPartial
  BY <1>1, <1>a DEF HeaderPartial, In, TypeOK, SrvType, world, PollEnds, hw
<1>2. CASE HeaderBad
  <2>1. [efu_srv EXCEPT !.header = hw] \in SrvType
    BY <1>a DEF TypeOK, SrvType
  <2>2. Len([efu_srv EXCEPT !.header = hw].header) <= HdrLen
    BY <1>a DEF TypeOK, SrvType
  <2>3. Len([efu_srv EXCEPT !.header = hw].crc_buf) <= CrcLen
    BY <1>a DEF TypeOK, SrvType
  <2> QED BY <1>2, <2>1, <2>2, <2>3, NackType DEF HeaderBad, hw
<1>3. CASE HeaderGood
  <2>1. SizeField(hw) \in Nat
    BY SizesAssumption DEF SizeField
  <2> DEFINE s == [efu_srv EXCEPT !.header = hw, !.state = "ERASING", !.expected_size = SizeField(hw)]
  <2>2. s \in SrvType
    BY <1>a, <2>1 DEF TypeOK, SrvType, States
  <2>3. s.header = hw
    BY DEF TypeOK, SrvType
  <2>4. s.crc_buf = efu_srv.crc_buf
    BY DEF TypeOK, SrvType
  <2>5. efu_srv' = s /\ buf' = rest
    BY <1>3 DEF HeaderGood, hw, rest
  <2> HIDE DEF s
  <2> QED BY <1>3, <1>a, <2>2, <2>3, <2>4, <2>5 DEF HeaderGood, TypeOK, world
<1>4. CASE NoTarget
  BY <1>4, NackType DEF NoTarget, TypeOK
<1>5. CASE Target
  BY <1>5 DEF Target, TypeOK, SrvType, world, Other, Slot, States
<1> QED BY <1>1, <1>2, <1>3, <1>4, <1>5

\* Erasing keeps the types.
LEMMA EraseType ==
  ASSUME TypeOK, EraseSome \/ EraseDone
  PROVE  TypeOK'
<1>1. ASSUME NEW k \in Int
      PROVE  [flash EXCEPT ![efu_srv.write_addr] = ErasedTo(@, k)] \in [Slot -> [1..PartSize -> Unit]]
  <2>1. CASE efu_srv.write_addr \in Slot
    BY <2>1, FlashType DEF TypeOK
  <2>2. CASE efu_srv.write_addr \notin Slot
    BY <2>2 DEF TypeOK
  <2> QED BY <2>1, <2>2
<1>2. PartSize \in Int
  BY SizesAssumption
<1>3. CASE EraseSome
  <2>1. flash' \in [Slot -> [1..PartSize -> Unit]]
    BY <1>1, <1>2, <1>3 DEF EraseSome
  <2> QED BY <1>3, <2>1 DEF EraseSome, TypeOK
<1>4. CASE EraseDone
  <2>1. flash' \in [Slot -> [1..PartSize -> Unit]]
    BY <1>1, <1>2, <1>4 DEF EraseDone
  <2> QED BY <1>4, <2>1 DEF EraseDone, TypeOK, Reply
<1> QED BY <1>3, <1>4

\* The bounds check keeps total_written inside the partition.
LEMMA WriteType ==
  ASSUME TypeOK, WriteTooLarge \/ Write \/ Dropped \/ Disconnected
  PROVE  TypeOK'
<1> PartSize \in Nat /\ CrcLen \in Nat /\ <<>> \in Seq(Unit) /\ Len(<<>>) = 0
  BY SizesAssumption
<1>1. CASE WriteTooLarge
  BY <1>1, NackType DEF WriteTooLarge, TypeOK
<1>2. CASE Write
  <2> DEFINE calc == efu_srv.crc_calc \o buf
             total == efu_srv.total_written + Len(buf)
  <2>1. calc \in Seq(Unit) /\ total \in 0..PartSize /\ efu_srv.total_written \in Nat
    <3>1. Len(buf) \in Nat /\ buf \in Seq(Unit)
      BY DEF TypeOK
    <3> QED BY <1>2, <3>1 DEF Write, TooLarge, TypeOK, SrvType
  <2>2. flash' \in [Slot -> [1..PartSize -> Unit]]
    <3>1. CASE efu_srv.write_addr \in Slot
      BY <1>2, <2>1, <3>1, FlashType DEF Write, TypeOK
    <3>2. CASE efu_srv.write_addr \notin Slot
      BY <1>2, <3>2 DEF Write, TypeOK
    <3> QED BY <3>1, <3>2
  <2> DEFINE s == [efu_srv EXCEPT !.crc_calc = calc, !.total_written = total]
  <2>3. efu_srv' \in {s, [s EXCEPT !.state = "WAIT_FOR_CRC", !.crc_buf = <<>>]}
    BY <1>2 DEF Write
  <2> HIDE DEF calc, total
  <2>a. s \in SrvType
    BY <2>1 DEF TypeOK, SrvType
  <2>b. s.header = efu_srv.header
    BY DEF TypeOK, SrvType
  <2>c. s.crc_buf = efu_srv.crc_buf
    BY DEF TypeOK, SrvType
  <2> HIDE DEF s
  <2> DEFINE w == [s EXCEPT !.state = "WAIT_FOR_CRC", !.crc_buf = <<>>]
  <2>d. w \in SrvType
    BY <2>a DEF SrvType, States
  <2>e. w.header = s.header
    BY <2>a DEF SrvType
  <2>f. w.crc_buf = <<>>
    BY <2>a DEF SrvType
  <2>g. efu_srv' \in {s, w}
    BY <2>3
  <2> HIDE DEF w
  <2>4. efu_srv' \in SrvType /\ Len(efu_srv'.header) <= HdrLen /\ Len(efu_srv'.crc_buf) <= CrcLen
    <3>1. CASE efu_srv' = s
      BY <3>1, <2>a, <2>b, <2>c DEF TypeOK
    <3>2. CASE efu_srv' = w
      BY <3>2, <2>b, <2>d, <2>e, <2>f DEF TypeOK
    <3> QED BY <2>g, <3>1, <3>2
  <2>5. heard' \subseteq {"HD", "OK", "ER", "CC"} /\ buf' = <<>> /\ pc' = "poll"
    BY <1>2 DEF Write, Reply, PollEnds, TypeOK
  <2> QED BY <1>2, <2>2, <2>4, <2>5 DEF Write, TypeOK
<1>3. CASE Dropped
  BY <1>3 DEF Dropped, TypeOK, PollEnds, world
<1>4. CASE Disconnected
  BY <1>4 DEF Disconnected, TypeOK, world
<1> QED BY <1>1, <1>2, <1>3, <1>4

\* The trailer stage keeps the types.
LEMMA CrcType ==
  ASSUME TypeOK, CrcPartial \/ CrcBad \/ CrcGood
  PROVE  TypeOK'
<1> DEFINE tw == TrailerWith(buf)
<1>a. tw \in Seq(Unit) /\ Len(tw) <= CrcLen /\ <<>> \in Seq(Unit)
  BY CollectType DEF TypeOK
<1> HIDE DEF tw
<1>1. CASE CrcPartial
  BY <1>1, <1>a DEF CrcPartial, TypeOK, SrvType, world, PollEnds, tw
<1>2. CASE CrcBad
  <2> DEFINE s == [efu_srv EXCEPT !.crc_buf = tw, !.complete = TRUE]
  <2>1. s \in SrvType /\ Len(s.header) <= HdrLen /\ Len(s.crc_buf) <= CrcLen
    BY <1>a DEF TypeOK, SrvType
  <2>2. Nack(s) /\ UNCHANGED world
    BY <1>2 DEF CrcBad, tw
  <2> HIDE DEF s
  <2> QED BY <2>1, <2>2, NackType
<1>3. CASE CrcGood
  <2> DEFINE s == [efu_srv EXCEPT !.crc_buf = tw, !.state = "DONE", !.complete = TRUE]
  <2>1. s \in SrvType
    BY <1>a DEF TypeOK, SrvType, States
  <2>2. s.header = efu_srv.header
    BY DEF TypeOK, SrvType
  <2>3. s.crc_buf = tw
    BY DEF TypeOK, SrvType
  <2>4. efu_srv' = s
    BY <1>3 DEF CrcGood, tw
  <2>5. sock' \in SockType /\ sock'.rd <= sock'.wr
    BY <1>3, DisconnectFields DEF CrcGood
  <2>6. buf' \in Seq(Unit) /\ pc' = "disconnect"
    BY <1>3, DisconnectFields DEF CrcGood
  <2> HIDE DEF s
  <2> QED BY <1>3, <1>a, <2>1, <2>2, <2>3, <2>4, <2>5, <2>6 DEF CrcGood, TypeOK, world, Reply
<1> QED BY <1>1, <1>2, <1>3

\* The boot ROM, the client and the network keep the types.
LEMMA OutsideType ==
  ASSUME TypeOK, pc = "reset" => efu_srv.write_addr \in Slot, Rom \/ Client
  PROVE  TypeOK'
<1> <<>> \in Seq(Unit) /\ Len(<<>>) = 0 /\ HdrLen \in Nat /\ CrcLen \in Nat /\ PartSize \in Nat
    /\ MaxSessions \in Nat /\ MaxCrashes \in Nat
  BY SizesAssumption, ChoicesAssumption
<1>1. ASSUME NEW s \in Slot, BootInto(s), crashes' \in 0..MaxCrashes PROVE TypeOK'
  BY <1>1 DEF BootInto, TypeOK, SrvType, SockType, ZeroSrv, Closed, States
<1>2. CASE BootUpdate
  <2>1. crashes' \in 0..MaxCrashes
    BY <1>2 DEF BootUpdate, TypeOK
  <2>2. CASE Bootable(flash[efu_srv.write_addr])
    BY <1>1, <1>2, <2>1, <2>2 DEF BootUpdate
  <2>3. CASE ~Bootable(flash[efu_srv.write_addr])
    BY <1>1, <1>2, <2>1, <2>3 DEF BootUpdate, TypeOK
  <2> QED BY <2>2, <2>3
<1>3. CASE PowerLoss
  BY <1>1, <1>3 DEF PowerLoss, TypeOK
<1>4. CASE Connect
  <2>1. Session \subseteq SessionType
    BY ChoicesAssumption DEF Session, SessionType
  <2>2. sessions' \in 0..MaxSessions
    BY <1>4 DEF Connect, TypeOK
  <2> QED BY <1>4, <2>1, <2>2 DEF Connect, TypeOK, SockType
<1>5. CASE Segment
  <2>a. SizeOf[session.img] \in Nat
    BY SizesAssumption DEF TypeOK, SessionType
  <2>1. MaySend \in Int
    BY SizesAssumption, <2>a DEF MaySend, StreamEnd, ImageEnd
  <2>b. PICK to \in sock.wr + 1 .. MaySend : sock' = [sock EXCEPT !.wr = to]
    BY <1>5 DEF Segment
  <2>c. to \in Nat /\ to > sock.wr
    BY <2>1 DEF TypeOK, SockType
  <2>d. sock' \in SockType
    BY <2>b, <2>c DEF TypeOK, SockType
  <2>e. sock'.wr = to
    BY <2>b DEF TypeOK, SockType
  <2>f. sock'.rd = sock.rd
    BY <2>b DEF TypeOK, SockType
  <2>2. sock' \in SockType /\ sock'.rd <= sock'.wr
    BY <2>c, <2>d, <2>e, <2>f DEF TypeOK, SockType
  <2> QED BY <1>5, <2>2 DEF Segment, TypeOK, world
<1>6. CASE ClientCloses
  BY <1>6 DEF ClientCloses, TypeOK, SockType, world
<1>7. CASE ConnectionLost \/ FinAnswered
  BY <1>7 DEF ConnectionLost, FinAnswered, TypeOK, SockType, world
<1>8. CASE FinAcknowledged
  BY <1>8 DEF FinAcknowledged, TypeOK, SockType, world
<1> QED BY <1>2, <1>3, <1>4, <1>5, <1>6, <1>7, <1>8 DEF Rom, Client

-----------------------------------------------------------------------------
(* The inductive invariant.                                                *)

\* From the choice of the target on, write_addr is the slot that does not run.
Targeted ==
  efu_srv.state \in {"WRITING", "WAIT_FOR_CRC", "DONE"} \/ pc \in {"erase", "reset"}
    => efu_srv.write_addr = Other(running)

\* What the place in the main loop and the socket's status say of the struct.
Stage ==
  /\ pc = "init" => sock.sr = "CLOSED"
  /\ pc = "handle" => efu_srv.state \in Receiving \union {"LISTENING"}
  /\ pc = "erase" => efu_srv.state = "WRITING"
  /\ pc = "reset" => efu_srv.state = "DONE" /\ sock.sr = "CLOSED"
  /\ sock.sr = "LISTEN" => /\ efu_srv.state = "LISTENING" /\ efu_srv.crc_calc = <<>>
                           /\ pc \in {"setup", "poll"}
  /\ sock.sr = "ESTABLISHED" => efu_srv.state \in Receiving \union {"LISTENING"}
  /\ sock.sr = "ESTABLISHED" /\ sock.con => efu_srv.crc_calc = <<>> /\ pc \in {"setup", "poll"}

\* After a last word the connection is gone, and ER excludes a commit.
LastWord ==
  /\ "ER" \in heard \/ "CC" \in heard =>
       sock.sr \notin {"ESTABLISHED", "CLOSE_WAIT"} /\ pc \notin {"handle", "erase"}
  /\ "ER" \in heard => efu_srv.state # "DONE" /\ "CC" \notin heard

RunningBoots == Bootable(flash[running])

Inv == Targeted /\ Stage /\ LastWord /\ RunningBoots
IInv == TypeOK /\ Inv

\* The other slot is another slot.
LEMMA OtherSlot == ASSUME NEW s \in Slot PROVE Other(s) \in Slot /\ Other(s) # s
  BY DEF Slot, Other

LEMMA InitInv == Init => IInv
<1> SUFFICES ASSUME Init PROVE IInv
  OBVIOUS
<1> USE SizesAssumption, ChoicesAssumption
<1>a. Factory0 \in [1..PartSize -> Unit] /\ ErasedTo(Factory0, PartSize) \in [1..PartSize -> Unit]
  <2>1. Factory0 \in [1..PartSize -> Unit]
    BY DEF Factory0, Unit
  <2> QED BY <2>1, FlashType
<1>1. TypeOK
  <2>1. <<>> \in Seq(Unit) /\ Len(<<>>) = 0
    OBVIOUS
  <2>2. efu_srv \in SrvType /\ efu_srv.header = <<>> /\ efu_srv.crc_buf = <<>>
    BY <2>1 DEF Init, ZeroSrv, SrvType, States
  <2>3. sock \in SockType /\ sock.rd = 0 /\ sock.wr = 0
    BY DEF Init, Closed, SockType
  <2>4. session \in SessionType
    BY DEF Init, SessionType
  <2>5. flash \in [Slot -> [1..PartSize -> Unit]]
    BY <1>a DEF Init, Slot
  <2> QED BY <2>1, <2>2, <2>3, <2>4, <2>5 DEF Init, TypeOK, Slot
<1>2. efu_srv.state = "IDLE" /\ sock.sr = "CLOSED"
  BY DEF Init, ZeroSrv, Closed
<1>3. Targeted /\ Stage /\ LastWord
  BY <1>2 DEF Init, Targeted, Stage, LastWord
<1>4. RunningBoots
  <2>1. flash[running] = Factory0
    BY DEF Init, Slot
  <2>2. /\ Factory0[1] = <<"img", Factory, 1>>
        /\ Factory0[SizeOf[Factory]] = <<"img", Factory, SizeOf[Factory]>>
    BY DEF Factory0
  <2> QED BY <2>1, <2>2 DEF RunningBoots, Bootable
<1> QED BY <1>1, <1>3, <1>4 DEF IInv, Inv

\* Every step keeps the types.
LEMMA StepType ==
  ASSUME IInv, [Next]_vars
  PROVE  TypeOK'
<1>1. pc = "reset" => efu_srv.write_addr \in Slot
  BY OtherSlot DEF IInv, Inv, Targeted, TypeOK
<1>2. CASE Server
  BY <1>2, PollType, HeaderType, EraseType, WriteType, CrcType DEF Server, IInv
<1>3. CASE Rom \/ Client
  BY <1>1, <1>3, OutsideType DEF IInv
<1>4. CASE UNCHANGED vars
  BY <1>4 DEF vars, TypeOK, IInv
<1> QED BY <1>2, <1>3, <1>4 DEF Next

\* A refusal ends the session, whatever was received.
LEMMA NackInv ==
  ASSUME IInv, pc = "handle", NEW s \in SrvType, Nack(s), UNCHANGED world
  PROVE  Inv'
<1>1. efu_srv'.state = "ERROR"
  BY DEF Nack, SrvType
<1>2. sock'.sr \in {"FIN_WAIT_1", "LAST_ACK", "CLOSED"} /\ pc' = "disconnect"
  BY DisconnectFields DEF Nack
<1>3. "CC" \notin heard /\ "CC" \notin heard'
  BY DEF IInv, Inv, LastWord, Nack, Reply
<1> QED BY <1>1, <1>2, <1>3 DEF IInv, Inv, Targeted, Stage, LastWord, RunningBoots, world

\* efu_server_init and the polls without a chunk keep the invariant.
LEMMA PollInv ==
  ASSUME IInv,
         Open \/ OpenFailed \/ InterruptsCleared \/ PollReboot \/ PollCloseWait \/ PollEstablished
  PROVE  Inv'
<1> USE DEF IInv, Inv, TypeOK, world
<1>1. CASE Open
  <2>1. efu_srv'.state = "LISTENING" /\ efu_srv'.crc_calc = <<>>
    BY <1>1, RestartFields DEF Open, ListenWorks, States
  <2>2. sock'.sr = "LISTEN" /\ pc' \in {"setup", "poll"}
    BY <1>1 DEF Open, ListenWorks, Opened, Closed
  <2> QED BY <1>1, <2>1, <2>2 DEF Open, MayOpen, Targeted, Stage, LastWord, RunningBoots, Receiving
<1>2. CASE OpenFailed
  <2>1. efu_srv'.state = "ERROR"
    BY <1>2, RestartFields DEF OpenFailed, ListenFails, States
  <2>2. sock'.sr = "CLOSED" /\ pc' \in {"setup", "poll"}
    BY <1>2 DEF OpenFailed, ListenFails, Opened, Closed
  <2> QED BY <1>2, <2>1, <2>2 DEF OpenFailed, Targeted, Stage, LastWord, RunningBoots
<1>3. CASE InterruptsCleared
  <2>1. sock'.sr = sock.sr
    BY <1>3 DEF InterruptsCleared, SockType
  <2>2. sock'.con = FALSE
    BY <1>3 DEF InterruptsCleared, SockType
  <2> QED BY <1>3, <2>1, <2>2 DEF InterruptsCleared, Targeted, Stage, LastWord, RunningBoots
<1>4. CASE PollReboot
  <2>1. efu_srv'.state = efu_srv.state
    BY <1>4 DEF PollReboot, SrvType
  <2>2. efu_srv'.write_addr = efu_srv.write_addr
    BY <1>4 DEF PollReboot, SrvType
  <2> QED BY <1>4, <2>1, <2>2 DEF PollReboot, RebootDue, Targeted, Stage, LastWord, RunningBoots
<1>5. CASE PollCloseWait
  <2>1. efu_srv'.state = "ERROR"
    BY <1>5 DEF PollCloseWait, SrvType
  <2>2. sock'.sr \in {"FIN_WAIT_1", "LAST_ACK", "CLOSED"} /\ pc' = "disconnect"
    BY <1>5, DisconnectFields DEF PollCloseWait
  <2> QED BY <1>5, <2>1, <2>2 DEF PollCloseWait, Targeted, Stage, LastWord, RunningBoots
<1>6. CASE PollEstablished
  <2>1. sock'.sr = "ESTABLISHED"
    BY <1>6 DEF PollEstablished, SockType
  <2>2. sock'.con = FALSE
    BY <1>6 DEF PollEstablished, SockType
  <2>3. NewConnection(efu_srv).state = "HEADER"
    BY DEF NewConnection, SrvType
  <2>4. efu_srv'.state \in Receiving \union {"LISTENING"}
    BY <1>6, <2>3 DEF PollEstablished, Stage, Receiving
  <2>5. efu_srv'.state = "HEADER" \/ efu_srv' = efu_srv
    BY <1>6, <2>3 DEF PollEstablished
  <2>6. pc' \in {"poll", "handle"}
    BY <1>6 DEF PollEstablished
  <2>7. Targeted'
    BY <1>6, <2>5, <2>6 DEF PollEstablished, Targeted
  <2>8. LastWord'
    BY <1>6 DEF PollEstablished, LastWord
  <2> QED BY <1>6, <2>1, <2>2, <2>4, <2>6, <2>7, <2>8 DEF PollEstablished, Stage, RunningBoots
<1> QED BY <1>1, <1>2, <1>3, <1>4, <1>5, <1>6

\* The header stage and the choice of the target keep the invariant.
LEMMA HeaderInv ==
  ASSUME IInv, HeaderPartial \/ HeaderBad \/ HeaderGood \/ NoTarget \/ Target
  PROVE  Inv'
<1> USE DEF In
<1>a. efu_srv \in SrvType /\ HeaderWith(buf) \in Seq(Unit)
  BY CollectType DEF IInv, TypeOK
<1>1. CASE HeaderPartial
  <2>1. efu_srv'.state = "HEADER"
    BY <1>1, <1>a DEF HeaderPartial, SrvType
  <2>2. pc' = "poll"
    BY <1>1 DEF HeaderPartial, PollEnds
  <2> QED BY <1>1, <2>1, <2>2 DEF HeaderPartial, IInv, Inv, world,
                                  Targeted, Stage, LastWord, RunningBoots, Receiving
<1>2. CASE HeaderBad
  <2>1. [efu_srv EXCEPT !.header = HeaderWith(buf)] \in SrvType
    BY <1>a DEF SrvType
  <2> QED BY <1>2, <2>1, NackInv DEF HeaderBad
<1>3. CASE HeaderGood
  <2>1. efu_srv'.state = "ERASING"
    BY <1>3, <1>a DEF HeaderGood, SrvType
  <2>2. efu_srv'.crc_calc = efu_srv.crc_calc
    BY <1>3, <1>a DEF HeaderGood, SrvType
  <2> QED BY <1>3, <2>1, <2>2 DEF HeaderGood, IInv, Inv, world,
                                  Targeted, Stage, LastWord, RunningBoots, Receiving
<1>4. CASE NoTarget
  BY <1>4, <1>a, NackInv DEF NoTarget
<1>5. CASE Target
  <2>1. efu_srv'.state = "WRITING"
    BY <1>5, <1>a DEF Target, SrvType
  <2>2. efu_srv'.write_addr = Other(running)
    BY <1>5, <1>a DEF Target, SrvType
  <2>3. pc' = "erase"
    BY <1>5 DEF Target
  <2> QED BY <1>5, <2>1, <2>2, <2>3 DEF Target, IInv, Inv, world,
                                  Targeted, Stage, LastWord, RunningBoots, Receiving
<1> QED BY <1>1, <1>2, <1>3, <1>4, <1>5

\* Erasing and programming reach only the slot that does not run.
LEMMA FlashSpared ==
  ASSUME IInv, EraseSome \/ EraseDone \/ Write
  PROVE  flash'[running] = flash[running] /\ running' = running
<1>1. efu_srv.write_addr = Other(running)
  BY DEF IInv, Inv, Targeted, Stage, EraseSome, EraseDone, Write, In
<1>2. efu_srv.write_addr # running
  BY <1>1, OtherSlot DEF IInv, TypeOK
<1> QED BY <1>2 DEF EraseSome, EraseDone, Write, IInv, TypeOK

\* Erasing keeps the invariant.
LEMMA EraseInv ==
  ASSUME IInv, EraseSome \/ EraseDone
  PROVE  Inv'
<1>1. RunningBoots'
  BY FlashSpared DEF RunningBoots, IInv, Inv
<1>2. CASE EraseSome
  BY <1>1, <1>2 DEF EraseSome, IInv, Inv, Targeted, Stage, LastWord
<1>3. CASE EraseDone
  <2>1. efu_srv.state = "WRITING" /\ "ER" \notin heard /\ "CC" \notin heard
    BY <1>3 DEF EraseDone, IInv, Inv, Stage, LastWord
  <2>2. "ER" \notin heard' /\ "CC" \notin heard'
    BY <1>3, <2>1 DEF EraseDone, Reply
  <2>3. Targeted'
    BY <1>3 DEF EraseDone, IInv, Inv, Targeted
  <2>4. Stage'
    BY <1>3, <2>1 DEF EraseDone, IInv, Inv, Stage, Receiving
  <2> QED BY <1>1, <2>2, <2>3, <2>4 DEF Inv, LastWord
<1> QED BY <1>2, <1>3

\* Programming a chunk, or dropping it, keeps the invariant.
LEMMA WriteInv ==
  ASSUME IInv, WriteTooLarge \/ Write \/ Dropped \/ Disconnected
  PROVE  Inv'
<1>a. efu_srv \in SrvType
  BY DEF IInv, TypeOK
<1>1. CASE WriteTooLarge
  BY <1>1, <1>a, NackInv DEF WriteTooLarge, In
<1>2. CASE Write
  <2>1. RunningBoots'
    BY <1>2, FlashSpared DEF RunningBoots, IInv, Inv
  <2> DEFINE s == [efu_srv EXCEPT !.crc_calc = @ \o buf, !.total_written = @ + Len(buf)]
             w == [s EXCEPT !.state = "WAIT_FOR_CRC", !.crc_buf = <<>>]
  <2>2. efu_srv' \in {s, w}
    BY <1>2 DEF Write
  <2>3. s.state = "WRITING"
    BY <1>2, <1>a DEF Write, In, SrvType
  <2>4. s.write_addr = efu_srv.write_addr
    BY <1>a DEF SrvType
  <2>5. w.state = "WAIT_FOR_CRC"
    BY <1>a DEF SrvType
  <2>6. w.write_addr = efu_srv.write_addr
    BY <1>a DEF SrvType
  <2> HIDE DEF s, w
  <2>7. /\ efu_srv'.state \in {"WRITING", "WAIT_FOR_CRC"}
        /\ efu_srv'.write_addr = efu_srv.write_addr
    BY <2>2, <2>3, <2>4, <2>5, <2>6
  <2>8. pc = "handle" /\ pc' = "poll" /\ UNCHANGED <<sock, running>> /\ efu_srv.state = "WRITING"
    BY <1>2 DEF Write, In, PollEnds
  <2>9. "ER" \notin heard' /\ "CC" \notin heard'
    BY <1>2, <2>8 DEF Write, Reply, IInv, Inv, LastWord
  <2>10. Targeted'
    BY <2>7, <2>8 DEF IInv, Inv, Targeted
  <2>11. Stage'
    BY <2>7, <2>8 DEF IInv, Inv, Stage, Receiving
  <2> QED BY <2>1, <2>9, <2>10, <2>11 DEF Inv, LastWord
<1>3. CASE Dropped
  BY <1>3 DEF Dropped, PollEnds, IInv, Inv, world, Targeted, Stage, LastWord, RunningBoots, Receiving
<1>4. CASE Disconnected
  BY <1>4 DEF Disconnected, IInv, Inv, world, Targeted, Stage, LastWord, RunningBoots
<1> QED BY <1>1, <1>2, <1>3, <1>4

\* The trailer stage keeps the invariant.
LEMMA CrcInv ==
  ASSUME IInv, CrcPartial \/ CrcBad \/ CrcGood
  PROVE  Inv'
<1> USE DEF In
<1>a. efu_srv \in SrvType /\ TrailerWith(buf) \in Seq(Unit)
  BY CollectType DEF IInv, TypeOK
<1>1. CASE CrcPartial
  <2>1. efu_srv'.state = "WAIT_FOR_CRC"
    BY <1>1, <1>a DEF CrcPartial, SrvType
  <2>2. efu_srv'.write_addr = efu_srv.write_addr
    BY <1>1, <1>a DEF CrcPartial, SrvType
  <2>3. pc' = "poll"
    BY <1>1 DEF CrcPartial, PollEnds
  <2> QED BY <1>1, <2>1, <2>2, <2>3 DEF CrcPartial, IInv, Inv, world,
                                        Targeted, Stage, LastWord, RunningBoots, Receiving
<1>2. CASE CrcBad
  <2>1. [efu_srv EXCEPT !.crc_buf = TrailerWith(buf), !.complete = TRUE] \in SrvType
    BY <1>a DEF SrvType
  <2> QED BY <1>2, <2>1, NackInv DEF CrcBad
<1>3. CASE CrcGood
  <2>1. efu_srv'.state = "DONE"
    BY <1>3, <1>a DEF CrcGood, SrvType
  <2>2. efu_srv'.write_addr = efu_srv.write_addr
    BY <1>3, <1>a DEF CrcGood, SrvType
  <2>3. pc' = "disconnect" /\ sock'.sr \in {"FIN_WAIT_1", "LAST_ACK", "CLOSED"}
    BY <1>3, DisconnectFields DEF CrcGood
  <2>4. "ER" \notin heard'
    BY <1>3 DEF CrcGood, Reply, IInv, Inv, LastWord
  <2> QED BY <1>3, <2>1, <2>2, <2>3, <2>4 DEF CrcGood, IInv, Inv, world,
                                              Targeted, Stage, LastWord, RunningBoots
<1> QED BY <1>1, <1>2, <1>3

\* The boot ROM, the client and the network keep the invariant.
LEMMA OutsideInv ==
  ASSUME IInv, Rom \/ Client
  PROVE  Inv'
<1> USE DEF IInv, Inv, TypeOK, world
<1>1. ASSUME NEW s \in Slot, Bootable(flash[s]), BootInto(s) PROVE Inv'
  <2>1. efu_srv'.state = "IDLE" /\ sock'.sr = "CLOSED" /\ pc' = "init"
    BY <1>1 DEF BootInto, ZeroSrv, Closed
  <2> QED BY <1>1, <2>1 DEF BootInto, Targeted, Stage, LastWord, RunningBoots
<1>2. CASE BootUpdate
  <2>1. efu_srv.write_addr \in Slot
    BY <1>2, OtherSlot DEF BootUpdate, Targeted
  <2>2. CASE Bootable(flash[efu_srv.write_addr])
    BY <1>1, <1>2, <2>1, <2>2 DEF BootUpdate
  <2>3. CASE ~Bootable(flash[efu_srv.write_addr])
    BY <1>1, <1>2, <2>3 DEF BootUpdate, RunningBoots
  <2> QED BY <2>2, <2>3
<1>3. CASE PowerLoss
  BY <1>1, <1>3 DEF PowerLoss
<1>4. CASE Connect
  <2>1. sock'.sr = "ESTABLISHED" /\ heard' = {}
    BY <1>4 DEF Connect
  <2> QED BY <1>4, <2>1 DEF Connect, Targeted, Stage, LastWord, RunningBoots
<1>5. CASE Segment
  <2>1. sock'.sr = "ESTABLISHED"
    BY <1>5 DEF Segment, SockType
  <2>2. sock'.con = sock.con
    BY <1>5 DEF Segment, SockType
  <2> QED BY <1>5, <2>1, <2>2 DEF Segment, Targeted, Stage, LastWord, RunningBoots
<1>6. CASE ClientCloses
  <2>1. sock'.sr = "CLOSE_WAIT"
    BY <1>6 DEF ClientCloses, SockType
  <2> QED BY <1>6, <2>1 DEF ClientCloses, Targeted, Stage, LastWord, RunningBoots
<1>7. CASE ConnectionLost \/ FinAnswered
  <2>1. sock'.sr = "CLOSED"
    BY <1>7 DEF ConnectionLost, FinAnswered, SockType
  <2> QED BY <1>7, <2>1 DEF ConnectionLost, FinAnswered, Targeted, Stage, LastWord, RunningBoots
<1>8. CASE FinAcknowledged
  <2>1. sock'.sr = "FIN_WAIT_2"
    BY <1>8 DEF FinAcknowledged, SockType
  <2> QED BY <1>8, <2>1 DEF FinAcknowledged, Targeted, Stage, LastWord, RunningBoots
<1> QED BY <1>2, <1>3, <1>4, <1>5, <1>6, <1>7, <1>8 DEF Rom, Client

\* The invariant is inductive.
LEMMA StepInv == IInv /\ [Next]_vars => IInv'
<1> SUFFICES ASSUME IInv, [Next]_vars PROVE IInv'
  OBVIOUS
<1>1. TypeOK'
  BY StepType
<1>2. CASE Server
  <2>1. Inv'
    BY <1>2, PollInv, HeaderInv, EraseInv, WriteInv, CrcInv DEF Server
  <2> QED BY <1>1, <2>1 DEF IInv
<1>3. CASE Rom \/ Client
  BY <1>1, <1>3, OutsideInv DEF IInv
<1>4. CASE UNCHANGED vars
  BY <1>1, <1>4 DEF vars, IInv, Inv, Targeted, Stage, LastWord, RunningBoots
<1> QED BY <1>2, <1>3, <1>4 DEF Next

LEMMA Invariance == Spec => []IInv
  BY InitInv, StepInv, PTL DEF Spec

-----------------------------------------------------------------------------
(* The theorems. *)

\* Every field of efu_srv keeps its range: in particular total_written never
\* passes the end of the partition and the header and trailer buffers are never
\* overrun, however TCP cuts the stream.
THEOREM TypeCorrect == Spec => []TypeOK
<1>1. IInv => TypeOK
  BY DEF IInv
<1> QED BY <1>1, Invariance, PTL

\* Whatever is sent and whenever the power fails, one slot can be booted.
THEOREM AlwaysBootable == Spec => []NeverBricked
<1>1. IInv => NeverBricked
  BY DEF IInv, Inv, TypeOK, RunningBoots, NeverBricked
<1> QED BY <1>1, Invariance, PTL

\* The server never erases or programs the slot the CPU executes from.
THEOREM RunningSlotSafe == Spec => RunningSlotUntouched
<1>1. IInv /\ [Next]_vars => [flash'[running] = flash[running]]_vars
  <2> SUFFICES ASSUME IInv, Next PROVE flash'[running] = flash[running]
    BY DEF vars
  <2>1. CASE EraseSome \/ EraseDone \/ Write
    BY <2>1, FlashSpared
  <2>2. CASE \/ Open \/ OpenFailed \/ InterruptsCleared \/ PollReboot \/ PollCloseWait
             \/ PollEstablished \/ HeaderPartial \/ HeaderBad \/ HeaderGood \/ NoTarget \/ Target
             \/ WriteTooLarge \/ CrcPartial \/ CrcBad \/ CrcGood \/ Dropped \/ Disconnected
    BY <2>2 DEF Open, OpenFailed, InterruptsCleared, PollReboot, PollCloseWait, PollEstablished,
      HeaderPartial, HeaderBad, HeaderGood, NoTarget, Target, WriteTooLarge, CrcPartial, CrcBad,
      CrcGood, Dropped, Disconnected, world
  <2>3. CASE Rom \/ Client
    BY <2>3 DEF Rom, Client, BootUpdate, PowerLoss, BootInto, Connect, Segment, ClientCloses,
      ConnectionLost, FinAcknowledged, FinAnswered, world
  <2> QED BY <2>1, <2>2, <2>3 DEF Next, Server
<1> QED BY <1>1, Invariance, PTL DEF Spec, RunningSlotUntouched

\* A client that was told ER is not followed by a reboot into what it sent.
THEOREM RefusalIsFinal == Spec => []ErMeansNoReboot
<1>1. IInv => ErMeansNoReboot
  BY DEF IInv, Inv, Stage, LastWord, ErMeansNoReboot
<1> QED BY <1>1, Invariance, PTL

\* A chunk always meets a state that handles it, or the one state a cleared CON
\* interrupt leaves behind.
THEOREM ChunksHandled == Spec => []ChunkHasHandler
<1>1. IInv => ChunkHasHandler
  BY DEF IInv, Inv, Stage, ChunkHasHandler
<1> QED BY <1>1, Invariance, PTL

\* Every connection starts with a clean checksum.
THEOREM ChecksumFresh == Spec => []FreshChecksum
<1>1. IInv => FreshChecksum
  BY DEF IInv, Inv, Stage, FreshChecksum
<1> QED BY <1>1, Invariance, PTL

-----------------------------------------------------------------------------
(* What the slots hold, when the image reaches flash in whole pages: the   *)
(* client waits for HD, TCP delivers page multiples, and recv() takes a    *)
(* whole number of pages (EFU_BUF_SIZE is a multiple of FLASH_PAGE_SIZE).  *)

WholePages == PageFramed = TRUE /\ Eager \subseteq {FALSE} /\ OnPage(BufSize)

\* Two runs of whole pages are a run of whole pages.
LEMMA PageSum ==
  ASSUME NEW a \in Nat, NEW b \in Nat, OnPage(a), OnPage(b)
  PROVE  OnPage(a + b)
<1>1. PICK j \in 0..a : a = j * Page
  BY DEF OnPage
<1>2. PICK k \in 0..b : b = k * Page
  BY DEF OnPage
<1>3. j + k \in 0..a + b /\ Page \in Nat
  BY SizesAssumption
<1>4. a + b = (j + k) * Page
  BY <1>1, <1>2, <1>3
<1> QED BY <1>3, <1>4 DEF OnPage

\* The pages before a page boundary are not the pages after it.
LEMMA PageSplit ==
  ASSUME NEW off \in Nat, OnPage(off), NEW i \in Nat, NEW o \in Nat, i < off, off <= o
  PROVE  i \div Page # o \div Page
<1>1. PICK k \in 0..off : off = k * Page
  BY DEF OnPage
<1>2. Page \in Nat \ {0} /\ k \in Nat
  BY SizesAssumption
<1>3. ASSUME NEW p \in Nat \ {0}, NEW n \in Nat, off = n * p PROVE i \div p # o \div p
  <2>1. i \div p < n
    BY <1>3
  <2>2. o \div p >= n
    BY <1>3
  <2>3. i \div p \in Int /\ o \div p \in Int
    BY <1>3
  <2> QED BY <2>1, <2>2, <2>3
<1> QED BY <1>1, <1>2, <1>3

\* Programming at a page boundary into erased flash leaves what is below it,
\* stores the data, and leaves no unit of an image above them.
LEMMA ProgramContent ==
  ASSUME NEW c \in [1..PartSize -> Unit], NEW off \in Nat, NEW data \in Seq(Unit),
         OnPage(off), off + Len(data) <= PartSize,
         \A i \in off + 1 .. PartSize : c[i] = Blank
  PROVE  LET last == off + Len(data)
             p    == Program(c, off, data)
         IN  /\ \A i \in 1..off : p[i] = c[i]
             /\ \A i \in off + 1 .. last : p[i] = data[i - off]
             /\ \A i \in last + 1 .. PartSize : p[i] \in {Junk, Blank} /\ (OnPage(last) => p[i] = Blank)
<1> DEFINE last == off + Len(data)
           p == Program(c, off, data)
           SamePage(i, o) == ((i - 1) \div Page) = ((o - 1) \div Page)
           touched == {i \in 1..PartSize : \E o \in off + 1 .. last : SamePage(i, o)}
<1>0. PartSize \in Nat /\ last \in Nat /\ Len(data) \in Nat /\ off <= last /\ last <= PartSize
  BY SizesAssumption
<1>1. ASSUME NEW i \in 1..PartSize
      PROVE  p[i] = IF i \notin touched THEN c[i]
                    ELSE IF i \in off + 1 .. last /\ c[i] = Blank THEN data[i - off] ELSE Junk
  BY <1>0 DEF Program
<1>2. ASSUME NEW i \in 1..PartSize, i <= off PROVE i \notin touched
  <2> SUFFICES ASSUME NEW o \in off + 1 .. last PROVE ~SamePage(i, o)
    OBVIOUS
  <2>1. i - 1 \in Nat /\ o - 1 \in Nat /\ i - 1 < off /\ off <= o - 1
    BY <1>0, <1>2
  <2> QED BY <2>1, PageSplit
<1>3. ASSUME NEW i \in off + 1 .. last PROVE i \in touched
  <2>1. SamePage(i, i) /\ i \in 1..PartSize
    BY <1>0
  <2> QED BY <2>1
<1>4. ASSUME NEW i \in 1..PartSize, i > last, OnPage(last) PROVE i \notin touched
  <2> SUFFICES ASSUME NEW o \in off + 1 .. last PROVE ~SamePage(i, o)
    OBVIOUS
  <2>1. i - 1 \in Nat /\ o - 1 \in Nat /\ o - 1 < last /\ last <= i - 1
    BY <1>0, <1>4
  <2> QED BY <1>0, <1>4, <2>1, PageSplit
<1> HIDE DEF p, touched
<1>5. \A i \in 1..off : p[i] = c[i]
  BY <1>0, <1>1, <1>2
<1>6. ASSUME NEW i \in off + 1 .. last PROVE p[i] = data[i - off]
  <2>1. i \in 1..PartSize /\ c[i] = Blank
    BY <1>0
  <2> QED BY <1>1, <1>3, <2>1
<1>7. ASSUME NEW i \in last + 1 .. PartSize
      PROVE  p[i] \in {Junk, Blank} /\ (OnPage(last) => p[i] = Blank)
  <2>1. i \in 1..PartSize /\ c[i] = Blank /\ i \notin off + 1 .. last /\ i > last
    BY <1>0
  <2>2. p[i] \in {Junk, Blank}
    BY <1>1, <2>1
  <2>3. OnPage(last) => p[i] = Blank
    BY <1>1, <1>4, <2>1
  <2> QED BY <2>2, <2>3
<1> QED BY <1>5, <1>6, <1>7 DEF p

\* The units of part of a stream.
LEMMA PartUnits ==
  ASSUME NEW s \in SessionType, NEW from \in Nat, NEW n \in Nat
  PROVE  \A i \in 1..n : Part(s, from, n)[i] = UnitAt(s, from + i)
  BY DEF Part

\* Two neighbouring parts of a stream make one.
LEMMA PartConcat ==
  ASSUME NEW s \in SessionType, NEW from \in Nat, NEW m \in Nat, NEW n \in Nat
  PROVE  Part(s, from, m) \o Part(s, from + m, n) = Part(s, from, m + n)
<1> DEFINE a == Part(s, from, m)
           b == Part(s, from + m, n)
           w == Part(s, from, m + n)
<1>0. from + m \in Nat /\ m + n \in Nat
  OBVIOUS
<1>1. /\ a \in Seq(Unit) /\ Len(a) = m
      /\ b \in Seq(Unit) /\ Len(b) = n
      /\ w \in Seq(Unit) /\ Len(w) = m + n
  BY <1>0, PartType
<1>2. /\ \A i \in 1..m : a[i] = UnitAt(s, from + i)
      /\ \A i \in 1..n : b[i] = UnitAt(s, from + m + i)
      /\ \A i \in 1..m + n : w[i] = UnitAt(s, from + i)
  BY <1>0, PartUnits
<1> HIDE DEF a, b, w
<1>3. a \o b \in Seq(Unit) /\ Len(a \o b) = m + n
  BY <1>1
<1>4. ASSUME NEW i \in 1..m + n PROVE (a \o b)[i] = w[i]
  <2>1. CASE i <= m
    <3>1. i \in 1..m
      BY <2>1
    <3>2. (a \o b)[i] = a[i]
      BY <1>1, <3>1
    <3> QED BY <1>2, <3>1, <3>2
  <2>2. CASE i > m
    <3>1. i - m \in 1..n /\ from + m + (i - m) = from + i
      BY <2>2
    <3>2. (a \o b)[i] = b[i - m]
      BY <1>1, <2>2
    <3>3. b[i - m] = UnitAt(s, from + m + (i - m))
      BY <1>2, <3>1
    <3>4. w[i] = UnitAt(s, from + i)
      BY <1>2
    <3> QED BY ONLY <3>1, <3>2, <3>3, <3>4
  <2>3. i <= m \/ i > m
    OBVIOUS
  <2> QED BY ONLY <2>1, <2>2, <2>3
<1> QED BY <1>1, <1>3, <1>4, SeqEqual DEF a, b, w

\* The first units of a part, and the rest of it.
LEMMA PartPrefix ==
  ASSUME NEW s \in SessionType, NEW from \in Nat, NEW n \in Nat, NEW k \in 0..n
  PROVE  SubSeq(Part(s, from, n), 1, k) = Part(s, from, k)
<1>1. /\ Part(s, from, n) \in Seq(Unit) /\ Len(Part(s, from, n)) = n
      /\ Part(s, from, k) \in Seq(Unit) /\ Len(Part(s, from, k)) = k
  BY PartType
<1> DEFINE w == SubSeq(Part(s, from, n), 1, k)
<1>2. w \in Seq(Unit) /\ Len(w) = k /\ \A i \in 1..k : w[i] = Part(s, from, n)[i]
  BY <1>1
<1>3. \A i \in 1..k : w[i] = Part(s, from, k)[i]
  BY <1>2, PartUnits
<1> HIDE DEF w
<1> QED BY <1>1, <1>2, <1>3, SeqEqual DEF w

\* Slot content c holds the first t units of the image stream s carries, and no
\* unit of any image above them; from a page boundary on it is erased.
Stores(c, s, t) ==
  \A k \in 1..PartSize :
    IF k <= t THEN c[k] = UnitAt(s, HdrLen + k)
    ELSE c[k] \in {Junk, Blank} /\ (OnPage(t) => c[k] = Blank)

\* Programming the next part of the stream at a page boundary stores it.
LEMMA StoresNext ==
  ASSUME NEW s \in SessionType, NEW c \in [1..PartSize -> Unit], NEW t \in Nat, NEW n \in Nat,
         Stores(c, s, t), OnPage(t), t + n <= PartSize
  PROVE  Stores(Program(c, t, Part(s, HdrLen + t, n)), s, t + n)
<1> DEFINE data == Part(s, HdrLen + t, n)
           p == Program(c, t, data)
<1>0. PartSize \in Nat /\ HdrLen \in Nat /\ HdrLen + t \in Nat
  BY SizesAssumption
<1>1. data \in Seq(Unit) /\ Len(data) = n
  BY <1>0, PartType
<1>2. \A i \in 1..n : data[i] = UnitAt(s, HdrLen + t + i)
  BY <1>0, PartUnits
<1>3. \A i \in t + 1 .. PartSize : c[i] = Blank
  BY <1>0 DEF Stores
<1> HIDE DEF data
<1>4. /\ \A i \in 1..t : p[i] = c[i]
      /\ \A i \in t + 1 .. t + n : p[i] = data[i - t]
      /\ \A i \in t + n + 1 .. PartSize : p[i] \in {Junk, Blank} /\ (OnPage(t + n) => p[i] = Blank)
  <2> HIDE DEF p
  <2> QED BY <1>1, <1>3, ProgramContent DEF p
<1> HIDE DEF p
<1> SUFFICES ASSUME NEW k \in 1..PartSize
             PROVE  IF k <= t + n THEN p[k] = UnitAt(s, HdrLen + k)
                    ELSE p[k] \in {Junk, Blank} /\ (OnPage(t + n) => p[k] = Blank)
  BY DEF Stores, p, data
<1>5. CASE k <= t
  <2>1. p[k] = c[k]
    BY <1>4, <1>5
  <2>2. c[k] = UnitAt(s, HdrLen + k) /\ k <= t + n
    BY <1>5 DEF Stores
  <2> QED BY ONLY <2>1, <2>2
<1>6. CASE k > t /\ k <= t + n
  <2>1. p[k] = data[k - t]
    BY <1>4, <1>6
  <2>2. k - t \in 1..n /\ HdrLen + t + (k - t) = HdrLen + k
    BY <1>0, <1>6
  <2>3. data[k - t] = UnitAt(s, HdrLen + t + (k - t))
    BY <1>2, <2>2
  <2> QED BY ONLY <1>6, <2>1, <2>2, <2>3
<1>7. CASE k > t + n
  <2>1. k \in t + n + 1 .. PartSize /\ ~(k <= t + n)
    BY <1>0, <1>7
  <2> QED BY <1>4, <2>1
<1>8. k <= t \/ (k > t /\ k <= t + n) \/ k > t + n
  OBVIOUS
<1> QED BY ONLY <1>5, <1>6, <1>7, <1>8

\* Programming nothing changes nothing.
LEMMA ProgramNothing ==
  ASSUME NEW c \in [1..PartSize -> Unit], NEW off \in Nat
  PROVE  Program(c, off, <<>>) = c
<1>1. Len(<<>>) = 0 /\ off + 1 .. off + 0 = {}
  OBVIOUS
<1> QED BY <1>1 DEF Program

\* An erased slot stores nothing yet.
LEMMA StoresErased ==
  ASSUME NEW s \in SessionType, NEW c \in [1..PartSize -> Unit]
  PROVE  Stores(ErasedTo(c, PartSize), s, 0)
<1>1. \A k \in 1..PartSize : ErasedTo(c, PartSize)[k] = Blank /\ ~(k <= 0)
  BY SizesAssumption DEF ErasedTo
<1> QED BY <1>1 DEF Stores

\* Which unit is where in a stream: a unit of an image or of a trailer tells the
\* image, and its place in the stream.
LEMMA UnitTells ==
  ASSUME NEW s \in SessionType, NEW p \in Nat, NEW i \in Image, NEW k \in Nat
  PROVE  /\ UnitAt(s, p) = <<"img", i, k>> => i = s.img /\ p = HdrLen + k /\ p <= ImageEnd(s) /\ p # s.bad
         /\ UnitAt(s, p) = <<"crc", i, k>> => i = s.img /\ p = ImageEnd(s) + k /\ p > ImageEnd(s)
         /\ p \in HdrLen + 1 .. ImageEnd(s) /\ p # s.bad => UnitAt(s, p) = <<"img", s.img, p - HdrLen>>
<1>0. /\ s.img \in Image /\ SizeOf[s.img] \in Nat /\ HdrLen \in Nat
      /\ ImageEnd(s) \in Nat /\ HdrLen <= ImageEnd(s)
  BY SizesAssumption DEF SessionType, ImageEnd
<1>1. <<"img", i, k>> # Junk /\ <<"crc", i, k>> # Junk
  BY UnsentAssumption
<1>2. CASE p = s.bad
  BY <1>1, <1>2 DEF UnitAt
<1>3. CASE p # s.bad /\ p <= HdrLen
  <2>1. UnitAt(s, p) = <<"hdr", s.img, p>>
    BY <1>3 DEF UnitAt
  <2> QED BY <1>0, <1>3, <2>1
<1>4. CASE p # s.bad /\ ~(p <= HdrLen) /\ p <= ImageEnd(s)
  <2>1. UnitAt(s, p) = <<"img", s.img, p - HdrLen>>
    BY <1>4 DEF UnitAt
  <2> QED BY <1>0, <1>4, <2>1
<1>5. CASE p # s.bad /\ ~(p <= HdrLen) /\ ~(p <= ImageEnd(s))
  <2>1. UnitAt(s, p) = <<"crc", s.img, p - ImageEnd(s)>>
    BY <1>5 DEF UnitAt
  <2> QED BY <1>0, <1>5, <2>1
<1> QED BY <1>2, <1>3, <1>4, <1>5

\* When the received trailer fits the checksum, the slot holds the whole image
\* of the client that sent it.
LEMMA CrcProves ==
  ASSUME NEW s \in SessionType, NEW c, NEW t \in 0..PartSize, Stores(c, s, t),
         CrcMatches(Part(s, HdrLen, t), Part(s, HdrLen + t, CrcLen))
  PROVE  Holds(c, s.img)
<1>0. /\ PartSize \in Nat /\ HdrLen \in Nat /\ t \in Nat /\ HdrLen + t \in Nat /\ CrcLen \in Nat \ {0}
      /\ s.img \in Image /\ SizeOf[s.img] \in Nat
  BY SizesAssumption DEF SessionType
<1>1. PICK i \in Image : Part(s, HdrLen, t) = Whole(i) /\ Part(s, HdrLen + t, CrcLen) = Trailer(i)
  BY DEF CrcMatches
<1>a. 1 \in 1..CrcLen /\ CrcLen \in Nat
  BY <1>0
<1>b. Trailer(i)[1] = <<"crc", i, 1>>
  BY <1>a DEF Trailer
<1>2. Trailer(i)[1] = <<"crc", i, 1>> /\ Part(s, HdrLen + t, CrcLen)[1] = UnitAt(s, HdrLen + t + 1)
  BY <1>0, <1>a, <1>b, PartUnits
<1>3. UnitAt(s, HdrLen + t + 1) = <<"crc", i, 1>>
  BY <1>1, <1>2
<1>4. i = s.img /\ HdrLen + t + 1 = ImageEnd(s) + 1
  BY <1>0, <1>3, UnitTells
<1>5. t = SizeOf[s.img]
  BY <1>0, <1>4 DEF ImageEnd
<1>6. ASSUME NEW k \in 1..t PROVE c[k] = <<"img", i, k>>
  <2>1. Part(s, HdrLen, t)[k] = UnitAt(s, HdrLen + k)
    BY <1>0, PartUnits
  <2>2. Whole(i)[k] = <<"img", i, k>>
    BY <1>4, <1>5 DEF Whole
  <2>3. k \in 1..PartSize /\ k <= t
    BY <1>0
  <2>4. c[k] = UnitAt(s, HdrLen + k)
    BY <2>3 DEF Stores
  <2> QED BY <1>1, <2>1, <2>2, <2>4
<1> QED BY <1>0, <1>4, <1>5, <1>6 DEF Holds

\* When what a stream left in a slot looks bootable, it is that stream's image to
\* its end, for damage stays at one place, and the ends are undamaged.
LEMMA StoresUpload ==
  ASSUME NEW s \in SessionType, NEW c, NEW t \in Nat, Stores(c, s, t), Bootable(c)
  PROVE  UploadIn(c) /\ SizeOf[s.img] > 0
<1>0. /\ PartSize \in Nat /\ HdrLen \in Nat /\ s.img \in Image /\ SizeOf[s.img] \in Nat
  BY SizesAssumption DEF SessionType
<1>1. PICK i \in Image : /\ SizeOf[i] \in 1..PartSize
                         /\ c[1] = <<"img", i, 1>>
                         /\ c[SizeOf[i]] = <<"img", i, SizeOf[i]>>
  BY DEF Bootable
<1> DEFINE m == SizeOf[i]
<1>2. m \in 1..PartSize /\ 1 \in 1..PartSize /\ c[1] = <<"img", i, 1>> /\ c[m] = <<"img", i, m>>
  BY <1>0, <1>1
<1> HIDE DEF m
<1>3. ASSUME NEW k \in 1..PartSize, NEW j \in Nat, c[k] = <<"img", i, j>>
      PROVE  k <= t /\ UnitAt(s, HdrLen + k) = <<"img", i, j>>
  <2>1. c[k] \notin {Junk, Blank}
    BY <1>3, UnsentAssumption
  <2> QED BY <1>3, <2>1 DEF Stores
<1>4. m <= t /\ UnitAt(s, HdrLen + 1) = <<"img", i, 1>> /\ UnitAt(s, HdrLen + m) = <<"img", i, m>>
  BY <1>0, <1>2, <1>3
<1>5. i = s.img /\ HdrLen + 1 # s.bad /\ HdrLen + m # s.bad
  BY <1>0, <1>2, <1>4, UnitTells
<1>6. ImageEnd(s) = HdrLen + m
  BY <1>5 DEF ImageEnd, m
<1>7. ASSUME NEW k \in 1..m PROVE c[k] = <<"img", i, k>> \/ (k \in 2..m - 1 /\ c[k] = Junk)
  <2>1. k \in 1..PartSize /\ k <= t /\ HdrLen + k \in Nat
    BY <1>0, <1>2, <1>4
  <2>2. c[k] = UnitAt(s, HdrLen + k)
    BY <2>1 DEF Stores
  <2>3. CASE HdrLen + k = s.bad
    <3>1. k # 1 /\ k # m
      BY <1>5, <2>3
    <3>2. k \in 2..m - 1
      BY <1>2, <3>1
    <3>3. c[k] = Junk
      BY <2>2, <2>3 DEF UnitAt
    <3> QED BY <3>2, <3>3
  <2>4. CASE HdrLen + k # s.bad
    <3>1. HdrLen + k \in HdrLen + 1 .. ImageEnd(s) /\ HdrLen + k - HdrLen = k
      BY <1>0, <1>2, <1>6
    <3>2. UnitAt(s, HdrLen + k) = <<"img", i, k>>
      BY <1>0, <1>5, <2>1, <2>4, <3>1, UnitTells
    <3> QED BY <2>2, <3>2
  <2> QED BY <2>3, <2>4
<1>8. UploadIn(c)
  BY <1>2, <1>7 DEF UploadIn, m
<1> QED BY <1>2, <1>5, <1>8 DEF m

-----------------------------------------------------------------------------
(* The invariant about contents: what the server has read, kept and stored *)
(* is the part of its client's stream it has counted.                      *)

\* What the client may have sent and the chunk at hand.
Within ==
  /\ session.eager = FALSE /\ session.bad \in Damaged \union {0}
  /\ sock.wr <= MaySend /\ Framed(sock.wr)
  /\ sock.sr = "ESTABLISHED" /\ sock.con => sock.rd = 0 /\ heard = {}
  /\ pc \notin {"handle", "erase"} => buf = <<>>

\* Up to the erase the client has sent no more than the header.
HeaderStage ==
  efu_srv.state \in {"HEADER", "ERASING"} =>
    /\ "HD" \notin heard /\ "OK" \notin heard
    /\ efu_srv.total_written = 0 /\ efu_srv.crc_calc = <<>>
    /\ IF efu_srv.state = "HEADER" THEN sock.rd = Len(efu_srv.header) + Len(buf)
       ELSE sock.rd = HdrLen /\ buf = <<>>

\* While writing, total_written counts the units stored and checksummed, the
\* chunk at hand follows them, and each chunk starts at a page boundary.
WriteStage ==
  LET t == efu_srv.total_written
  IN  efu_srv.state = "WRITING" =>
        /\ "OK" \notin heard
        /\ sock.rd = HdrLen + t + Len(buf)
        /\ buf = Part(session, HdrLen + t, Len(buf))
        /\ efu_srv.crc_calc = Part(session, HdrLen, t)
        /\ OnPage(t) \/ buf = <<>>
        /\ OnPage(t + Len(buf)) \/ t + Len(buf) >= SizeOf[session.img]
        /\ IF pc = "erase" THEN "HD" \notin heard /\ buf = <<>> /\ t = 0
           ELSE Stores(flash[efu_srv.write_addr], session, t)

\* While the trailer comes in, slot and checksum agree.
CrcStage ==
  LET t == efu_srv.total_written
      k == Len(efu_srv.crc_buf)
  IN  efu_srv.state = "WAIT_FOR_CRC" =>
        /\ sock.rd = HdrLen + t + k + Len(buf)
        /\ buf = Part(session, HdrLen + t + k, Len(buf))
        /\ efu_srv.crc_buf = Part(session, HdrLen + t, k)
        /\ efu_srv.crc_calc = Part(session, HdrLen, t)
        /\ Stores(flash[efu_srv.write_addr], session, t)

\* An accepted image is in the slot the board will switch to, which does not look
\* bootable when that image is empty.
Kept ==
  /\ efu_srv.state = "DONE" => /\ Holds(flash[efu_srv.write_addr], session.img)
                               /\ Bootable(flash[efu_srv.write_addr]) => SizeOf[session.img] > 0
  /\ CcMeansStored

Content == Within /\ HeaderStage /\ WriteStage /\ CrcStage /\ Kept

\* How far a client that waits for its answers may send.
LEMMA MaySendRange ==
  ASSUME session \in SessionType, session.eager = FALSE
  PROVE  /\ HdrLen \in Nat /\ ImageEnd(session) \in Nat /\ MaySend \in Nat
         /\ HdrLen <= MaySend
         /\ "HD" \notin heard /\ "OK" \notin heard => MaySend = HdrLen
         /\ "OK" \notin heard => MaySend <= ImageEnd(session)
         /\ MaySend <= StreamEnd(session) /\ StreamEnd(session) \in Nat
         /\ "HD" \in heard => ImageEnd(session) <= MaySend
         /\ "OK" \in heard => MaySend = StreamEnd(session)
<1>1. SizeOf[session.img] \in Nat /\ HdrLen \in Nat /\ CrcLen \in Nat
  BY SizesAssumption DEF SessionType
<1>2. /\ ImageEnd(session) \in Nat /\ HdrLen <= ImageEnd(session)
      /\ StreamEnd(session) \in Nat /\ ImageEnd(session) <= StreamEnd(session)
  BY <1>1 DEF ImageEnd, StreamEnd
<1>3. CASE "OK" \in heard
  BY <1>1, <1>2, <1>3 DEF MaySend
<1>4. CASE "OK" \notin heard /\ "HD" \in heard
  BY <1>1, <1>2, <1>4 DEF MaySend
<1>5. CASE "OK" \notin heard /\ "HD" \notin heard
  BY <1>1, <1>2, <1>5 DEF MaySend
<1> QED BY <1>3, <1>4, <1>5

\* An answer more lets the client send on, and takes nothing back.
LEMMA WithinHeard ==
  ASSUME session \in SessionType, session' = session, heard \subseteq heard',
         Within, sock'.wr \in {sock.wr, 0}, sock.wr \in Nat
  PROVE  (sock.wr <= MaySend /\ Framed(sock.wr))'
<1>1. MaySend \in Nat /\ MaySend' \in Nat /\ MaySend <= MaySend' /\ HdrLen \in Nat
  <2>1. SizeOf[session.img] \in Nat /\ HdrLen \in Nat /\ CrcLen \in Nat
    BY SizesAssumption DEF SessionType
  <2>2. /\ ImageEnd(session) \in Nat /\ HdrLen <= ImageEnd(session)
        /\ StreamEnd(session) \in Nat /\ ImageEnd(session) <= StreamEnd(session)
    BY <2>1 DEF ImageEnd, StreamEnd
  <2>3. MaySend = IF "OK" \in heard THEN StreamEnd(session)
                  ELSE IF "HD" \in heard THEN ImageEnd(session) ELSE HdrLen
    BY DEF MaySend, Within
  <2>4. MaySend' = IF "OK" \in heard' THEN StreamEnd(session)
                   ELSE IF "HD" \in heard' THEN ImageEnd(session) ELSE HdrLen
    BY DEF MaySend, Within
  <2>5. ("OK" \in heard => "OK" \in heard') /\ ("HD" \in heard => "HD" \in heard')
    OBVIOUS
  <2> QED BY <2>1, <2>2, <2>3, <2>4, <2>5
<1>2. (sock.wr <= MaySend)'
  BY <1>1 DEF Within
<1>3. CASE sock'.wr = sock.wr
  <2>1. Framed(sock.wr)
    BY DEF Within
  <2> QED BY <1>2, <1>3, <2>1 DEF Framed
<1>4. CASE sock'.wr = 0
  BY <1>1, <1>2, <1>4 DEF Framed
<1> QED BY <1>3, <1>4

\* Where nothing is received or stored any more, only what CC promised counts.
LEMMA QuietContent ==
  ASSUME IInv, Content, UNCHANGED <<session, flash>>,
         efu_srv'.state \in {"IDLE", "LISTENING", "ERROR"},
         sock'.wr = 0, sock'.sr # "ESTABLISHED", buf' = <<>>,
         heard \subseteq heard', "CC" \in heard' => "CC" \in heard
  PROVE  Content'
<1>1. Within'
  <2>1. session \in SessionType /\ sock.wr \in Nat
    BY DEF IInv, TypeOK, SockType
  <2>2. (sock.wr <= MaySend /\ Framed(sock.wr))'
    BY <2>1, WithinHeard DEF Content
  <2> QED BY <2>2 DEF Content, Within
<1>2. HeaderStage' /\ WriteStage' /\ CrcStage'
  BY DEF HeaderStage, WriteStage, CrcStage
<1>3. Kept'
  BY DEF Content, Kept, CcMeansStored
<1> QED BY <1>1, <1>2, <1>3 DEF Content

\* A refusal is quiet.
LEMMA NackContent ==
  ASSUME IInv, Content, NEW s \in SrvType, Nack(s), UNCHANGED world
  PROVE  Content'
<1>1. efu_srv'.state = "ERROR"
  BY DEF Nack, SrvType
<1>2. sock'.wr = 0 /\ sock'.sr # "ESTABLISHED" /\ buf' = <<>>
  BY DisconnectFields DEF Nack
<1>3. heard \subseteq heard' /\ ("CC" \in heard' => "CC" \in heard)
  BY DEF Nack, Reply
<1> QED BY <1>1, <1>2, <1>3, QuietContent DEF world

\* Steps that leave the stream, the counts and the slots alone.
LEMMA SameContent ==
  ASSUME IInv, Content, UNCHANGED <<session, flash, heard, buf>>,
         sock'.wr = sock.wr, sock'.rd = sock.rd,
         sock'.sr = "ESTABLISHED" /\ sock'.con => sock.sr = "ESTABLISHED" /\ sock.con,
         pc' = "erase" <=> pc = "erase", pc' \notin {"handle", "erase"} => buf = <<>>,
         efu_srv'.state = efu_srv.state, efu_srv'.header = efu_srv.header,
         efu_srv'.total_written = efu_srv.total_written, efu_srv'.write_addr = efu_srv.write_addr,
         efu_srv'.crc_calc = efu_srv.crc_calc, efu_srv'.crc_buf = efu_srv.crc_buf
  PROVE  Content'
<1>1. Within'
  <2>1. session \in SessionType /\ sock.wr \in Nat
    BY DEF IInv, TypeOK, SockType
  <2>2. (sock.wr <= MaySend /\ Framed(sock.wr))'
    BY <2>1, WithinHeard DEF Content
  <2> QED BY <2>2 DEF Content, Within
<1>2. HeaderStage'
  BY DEF Content, HeaderStage
<1>3. WriteStage'
  BY DEF Content, WriteStage
<1>4. CrcStage'
  BY DEF Content, CrcStage
<1>5. Kept'
  BY DEF Content, Kept, CcMeansStored
<1> QED BY <1>1, <1>2, <1>3, <1>4, <1>5 DEF Content

\* efu_server_init and the polls without a chunk.
LEMMA PollContent ==
  ASSUME IInv, Content, Open \/ OpenFailed \/ InterruptsCleared \/ PollReboot \/ PollCloseWait
  PROVE  Content'
<1> USE DEF world
<1>a. efu_srv \in SrvType /\ sock \in SockType
  BY DEF IInv, TypeOK
<1>b. Closed.wr = 0 /\ Closed.sr = "CLOSED"
  BY DEF Closed
<1>c. [Closed EXCEPT !.sr = "LISTEN"].wr = 0 /\ [Closed EXCEPT !.sr = "LISTEN"].sr = "LISTEN"
  BY DEF Closed
<1>1. CASE Open
  <2>1. efu_srv'.state = "LISTENING"
    BY <1>1, <1>a, RestartFields DEF Open, ListenWorks, States
  <2>2. buf' = <<>>
    BY <1>1 DEF Open, MayOpen, Content, Within
  <2> QED BY <1>1, <1>c, <2>1, <2>2, QuietContent DEF Open, ListenWorks
<1>2. CASE OpenFailed
  <2>1. efu_srv'.state = "ERROR"
    BY <1>2, <1>a, RestartFields DEF OpenFailed, ListenFails, States
  <2>2. buf' = <<>>
    BY <1>2 DEF OpenFailed, MayOpen, Content, Within
  <2> QED BY <1>2, <1>b, <2>1, <2>2, QuietContent DEF OpenFailed, ListenFails
<1>3. CASE InterruptsCleared
  <2>1. sock'.wr = sock.wr
    BY <1>3, <1>a DEF InterruptsCleared, SockType
  <2>2. sock'.rd = sock.rd
    BY <1>3, <1>a DEF InterruptsCleared, SockType
  <2>3. sock'.con = FALSE
    BY <1>3, <1>a DEF InterruptsCleared, SockType
  <2>4. buf = <<>>
    BY <1>3 DEF InterruptsCleared, Content, Within
  <2>5. UNCHANGED <<session, flash, heard, buf, efu_srv>> /\ pc = "setup" /\ pc' = "poll"
    BY <1>3 DEF InterruptsCleared
  <2> QED BY <2>1, <2>2, <2>3, <2>4, <2>5, SameContent
<1>4. CASE PollReboot
  <2>0. efu_srv' = [efu_srv EXCEPT !.reboot_requested = TRUE]
    BY <1>4 DEF PollReboot
  <2>1. efu_srv'.state = efu_srv.state /\ efu_srv'.header = efu_srv.header
    BY <2>0, <1>a DEF SrvType
  <2>2. efu_srv'.total_written = efu_srv.total_written /\ efu_srv'.write_addr = efu_srv.write_addr
    BY <2>0, <1>a DEF SrvType
  <2>3. efu_srv'.crc_calc = efu_srv.crc_calc /\ efu_srv'.crc_buf = efu_srv.crc_buf
    BY <2>0, <1>a DEF SrvType
  <2>4. buf = <<>>
    BY <1>4 DEF PollReboot, Content, Within
  <2>5. UNCHANGED <<session, flash, heard, buf, sock>> /\ pc = "poll" /\ pc' = "reset"
    BY <1>4 DEF PollReboot
  <2> QED BY <2>1, <2>2, <2>3, <2>4, <2>5, SameContent
<1>5. CASE PollCloseWait
  <2>1. efu_srv'.state = "ERROR"
    BY <1>5, <1>a DEF PollCloseWait, SrvType
  <2>2. sock'.wr = 0 /\ sock'.sr # "ESTABLISHED" /\ buf' = <<>>
    BY <1>5, DisconnectFields DEF PollCloseWait
  <2> QED BY <1>5, <2>1, <2>2, QuietContent DEF PollCloseWait
<1> QED BY <1>1, <1>2, <1>3, <1>4, <1>5

\* The boot ROM, the client and the network.
LEMMA OutsideContent ==
  ASSUME IInv, Content, WholePages, Rom \/ Client
  PROVE  Content'
<1> USE DEF world
<1>a. sock \in SockType /\ session \in SessionType
  BY DEF IInv, TypeOK
<1>1. ASSUME NEW s, BootInto(s) PROVE Content'
  <2>1. efu_srv'.state = "IDLE" /\ sock'.wr = 0 /\ sock'.sr = "CLOSED"
    BY <1>1 DEF BootInto, ZeroSrv, Closed
  <2> QED BY <1>1, <2>1, QuietContent DEF BootInto
<1>2. CASE Rom
  BY <1>1, <1>2 DEF Rom, BootUpdate, PowerLoss
<1>3. CASE Connect
  <2>1. efu_srv.state = "LISTENING" /\ pc \in {"setup", "poll"}
    BY <1>3 DEF Connect, IInv, Inv, Stage
  <2>2. session' \in SessionType /\ session'.eager = FALSE /\ session'.bad \in Damaged
    BY <1>3, ChoicesAssumption DEF Connect, Session, SessionType, WholePages
  <2>3. sock'.wr = 0 /\ sock'.rd = 0 /\ heard' = {}
    BY <1>3 DEF Connect
  <2>4. HdrLen \in Nat /\ MaySend' = HdrLen
    BY <2>2, <2>3, SizesAssumption DEF MaySend
  <2>5. (sock.wr <= MaySend /\ Framed(sock.wr))'
    BY <2>3, <2>4 DEF Framed
  <2>6. Within'
    BY <1>3, <2>1, <2>2, <2>3, <2>5 DEF Connect, Within, Content
  <2>7. efu_srv'.state = "LISTENING"
    BY <1>3, <2>1 DEF Connect
  <2>8. HeaderStage' /\ WriteStage' /\ CrcStage' /\ Kept'
    BY <2>3, <2>7 DEF HeaderStage, WriteStage, CrcStage, Kept, CcMeansStored
  <2> QED BY <2>6, <2>8 DEF Content
<1>4. CASE Segment
  <2>0. PICK to \in sock.wr + 1 .. MaySend : Framed(to) /\ sock' = [sock EXCEPT !.wr = to]
    BY <1>4 DEF Segment
  <2>1. sock'.wr = to
    BY <1>a, <2>0 DEF SockType
  <2>2. sock'.rd = sock.rd
    BY <1>a, <2>0 DEF SockType
  <2>3. sock'.con = sock.con
    BY <1>a, <2>0 DEF SockType
  <2>4. sock'.sr = sock.sr
    BY <1>a, <2>0 DEF SockType
  <2>5. UNCHANGED <<efu_srv, pc, buf, heard, session, flash>>
    BY <1>4 DEF Segment
  <2>6. MaySend' = MaySend
    BY <2>5 DEF MaySend, StreamEnd, ImageEnd
  <2>7. MaySend \in Nat /\ sock.wr \in Nat
    BY <1>a, MaySendRange DEF SockType, Content, Within
  <2>8. (sock.wr <= MaySend)'
    BY <2>0, <2>1, <2>6, <2>7
  <2>9. Framed(sock.wr)'
    BY <2>0, <2>1, <2>5 DEF Framed
  <2>10. Within'
    BY <2>2, <2>3, <2>4, <2>5, <2>8, <2>9 DEF Content, Within
  <2>11. HeaderStage' /\ WriteStage' /\ CrcStage' /\ Kept'
    BY <2>2, <2>5 DEF Content, HeaderStage, WriteStage, CrcStage, Kept, CcMeansStored
  <2> QED BY <2>10, <2>11 DEF Content
<1>5. CASE ClientCloses
  <2>1. sock'.sr = "CLOSE_WAIT"
    BY <1>5, <1>a DEF ClientCloses, SockType
  <2>2. sock'.wr = sock.wr
    BY <1>5, <1>a DEF ClientCloses, SockType
  <2>3. sock'.rd = sock.rd
    BY <1>5, <1>a DEF ClientCloses, SockType
  <2> QED BY <1>5, <2>1, <2>2, <2>3, SameContent DEF ClientCloses, Content, Within
<1>6. CASE ConnectionLost \/ FinAnswered
  <2>1. sock'.sr = "CLOSED"
    BY <1>6, <1>a DEF ConnectionLost, FinAnswered, SockType
  <2>2. sock'.wr = sock.wr
    BY <1>6, <1>a DEF ConnectionLost, FinAnswered, SockType
  <2>3. sock'.rd = sock.rd
    BY <1>6, <1>a DEF ConnectionLost, FinAnswered, SockType
  <2>4. UNCHANGED <<efu_srv, pc, buf, heard, session, flash>>
    BY <1>6 DEF ConnectionLost, FinAnswered
  <2> QED BY <2>1, <2>2, <2>3, <2>4, SameContent DEF Content, Within
<1>7. CASE FinAcknowledged
  <2>1. sock'.sr = "FIN_WAIT_2"
    BY <1>7, <1>a DEF FinAcknowledged, SockType
  <2>2. sock'.wr = sock.wr
    BY <1>7, <1>a DEF FinAcknowledged, SockType
  <2>3. sock'.rd = sock.rd
    BY <1>7, <1>a DEF FinAcknowledged, SockType
  <2>4. UNCHANGED <<efu_srv, pc, buf, heard, session, flash>>
    BY <1>7 DEF FinAcknowledged
  <2> QED BY <2>1, <2>2, <2>3, <2>4, SameContent DEF Content, Within
<1> QED BY <1>2, <1>3, <1>4, <1>5, <1>6, <1>7 DEF Client

\* One recv(): the chunk is the next part of the stream, and while the image
\* comes in it ends at a page boundary or at the image's end.
LEMMA RecvContent ==
  ASSUME IInv, Content, WholePages, PollEstablished
  PROVE  Content'
<1> DEFINE n == Lesser(RxSize, BufSize)
<1>a. /\ efu_srv \in SrvType /\ sock \in SockType /\ session \in SessionType
      /\ sock.rd \in Nat /\ sock.wr \in Nat /\ sock.rd <= sock.wr
  BY DEF IInv, TypeOK, SockType
<1>b. /\ n \in Nat /\ sock.rd + n <= sock.wr
      /\ n = BufSize \/ sock.rd + n = sock.wr
  BY <1>a, SizesAssumption DEF Lesser, RxSize
<1>c. buf = <<>> /\ pc = "poll" /\ sock.sr = "ESTABLISHED"
  BY DEF PollEstablished, Content, Within
<1>d. buf' = Part(session, sock.rd, n) /\ UNCHANGED <<heard, session, flash, running>>
      /\ sock' = [sock EXCEPT !.con = FALSE, !.rd = @ + n]
      /\ pc' = IF n = 0 THEN "poll" ELSE "handle"
  BY DEF PollEstablished, world
<1> HIDE DEF n
<1>e. sock'.con = FALSE
  BY <1>a, <1>d DEF SockType
<1>f. sock'.wr = sock.wr
  BY <1>a, <1>d DEF SockType
<1>g. sock'.rd = sock.rd + n
  BY <1>a, <1>d DEF SockType
<1>h. buf' \in Seq(Unit) /\ Len(buf') = n
  BY <1>a, <1>b, <1>d, PartType
<1>1. Within'
  <2>1. (sock.wr <= MaySend /\ Framed(sock.wr))'
    BY <1>a, <1>d, <1>f, WithinHeard DEF Content
  <2>2. pc' \notin {"handle", "erase"} => buf' = <<>>
    BY <1>d, <1>h, <1>b
  <2> QED BY <1>d, <1>e, <2>1, <2>2 DEF Content, Within
<1>2. Kept' /\ HeaderStage' /\ WriteStage' /\ CrcStage'
  <2>1. CASE sock.con
    <3>1. efu_srv' = NewConnection(efu_srv)
      BY <2>1 DEF PollEstablished
    <3>2. efu_srv'.state = "HEADER" /\ efu_srv'.header = <<>>
      BY <1>a, <3>1 DEF NewConnection, SrvType
    <3>3. efu_srv'.total_written = 0 /\ efu_srv'.crc_calc = efu_srv.crc_calc
      BY <1>a, <3>1 DEF NewConnection, SrvType
    <3>4. sock.rd = 0 /\ heard = {} /\ efu_srv.crc_calc = <<>>
      BY <1>c, <2>1 DEF Content, Within, IInv, Inv, Stage
    <3>5. sock'.rd = Len(efu_srv'.header) + Len(buf')
      BY <1>b, <1>g, <1>h, <3>2, <3>4
    <3>6. HeaderStage'
      BY <1>d, <3>2, <3>3, <3>4, <3>5 DEF HeaderStage
    <3> QED BY <1>d, <3>2, <3>4, <3>6 DEF WriteStage, CrcStage, Kept, CcMeansStored
  <2>2. CASE ~sock.con
    <3>1. efu_srv' = efu_srv
      BY <2>2 DEF PollEstablished
    <3>2. Kept'
      BY <1>d, <3>1 DEF Content, Kept, CcMeansStored
    <3>3. HeaderStage'
      <4>1. CASE efu_srv.state = "HEADER"
        <5>1. sock'.rd = Len(efu_srv'.header) + Len(buf')
          <6>1. sock.rd = Len(efu_srv.header) + 0 /\ Len(efu_srv.header) \in Nat
            BY <1>a, <1>c, <4>1 DEF Content, HeaderStage, SrvType
          <6> QED BY <1>b, <1>g, <1>h, <3>1, <6>1
        <5> QED BY <1>d, <3>1, <4>1, <5>1 DEF Content, HeaderStage
      <4>2. CASE efu_srv.state = "ERASING"
        <5>1. sock.rd = HdrLen /\ sock.wr <= HdrLen
          BY <1>a, <4>2, MaySendRange DEF Content, HeaderStage, Within
        <5>2. n = 0
          BY <1>a, <1>b, <5>1, SizesAssumption
        <5>3. buf' = <<>> /\ sock'.rd = sock.rd
          BY <1>a, <1>g, <1>h, <5>2
        <5> QED BY <1>d, <3>1, <4>2, <5>3 DEF Content, HeaderStage
      <4> QED BY <3>1, <4>1, <4>2 DEF HeaderStage
    <3>4. WriteStage'
      <4> SUFFICES ASSUME efu_srv.state = "WRITING" PROVE WriteStage'
        BY <3>1 DEF WriteStage
      <4> DEFINE t == efu_srv.total_written
      <4>1. /\ "OK" \notin heard /\ sock.rd = HdrLen + t
            /\ efu_srv.crc_calc = Part(session, HdrLen, t)
            /\ OnPage(t) \/ t >= SizeOf[session.img]
            /\ Stores(flash[efu_srv.write_addr], session, t)
            /\ t \in Nat /\ HdrLen \in Nat
        BY <1>a, <1>c, SizesAssumption DEF Content, WriteStage, SrvType
      <4> HIDE DEF t
      <4>2. sock.wr <= ImageEnd(session) /\ Framed(sock.wr) /\ ImageEnd(session) \in Nat
            /\ ImageEnd(session) = HdrLen + SizeOf[session.img] /\ SizeOf[session.img] \in Nat
        <5>1. SizeOf[session.img] \in Nat
          BY <1>a, SizesAssumption DEF SessionType
        <5>2. session.eager = FALSE /\ sock.wr <= MaySend /\ Framed(sock.wr)
          BY DEF Content, Within
        <5>3. MaySend \in Nat /\ MaySend <= ImageEnd(session) /\ ImageEnd(session) \in Nat
          BY <1>a, <4>1, <5>2, MaySendRange
        <5>4. sock.wr <= ImageEnd(session)
          BY <1>a, <5>2, <5>3
        <5> QED BY <5>1, <5>2, <5>3, <5>4 DEF ImageEnd
      <4>3. OnPage(t) \/ n = 0
        BY <1>a, <1>b, <4>1, <4>2
      <4>4. OnPage(t + n) \/ t + n >= SizeOf[session.img]
        <5>1. CASE n = 0
          BY <4>1, <5>1
        <5>2. CASE n # 0 /\ n = BufSize
          BY <1>b, <4>1, <4>3, <5>2, PageSum DEF WholePages
        <5>3. CASE n # 0 /\ sock.rd + n = sock.wr
          <6>1. sock.wr > HdrLen /\ sock.wr - HdrLen = t + n
            BY <1>a, <1>b, <4>1, <5>3
          <6>2. sock.wr >= ImageEnd(session) \/ OnPage(sock.wr - HdrLen)
            BY <1>a, <4>1, <4>2, <6>1 DEF Framed, WholePages
          <6>3. CASE sock.wr >= ImageEnd(session)
            BY <1>a, <1>b, <4>1, <4>2, <5>3, <6>3
          <6>4. CASE OnPage(sock.wr - HdrLen)
            BY <6>1, <6>4
          <6> QED BY <6>2, <6>3, <6>4
        <5> QED BY <1>b, <5>1, <5>2, <5>3
      <4>5. sock'.rd = HdrLen + t + Len(buf') /\ buf' = Part(session, HdrLen + t, Len(buf'))
        BY <1>d, <1>g, <1>h, <4>1
      <4>6. OnPage(t) \/ buf' = <<>>
        BY <1>h, <4>3
      <4>7. OnPage(t + Len(buf')) \/ t + Len(buf') >= SizeOf[session.img]
        BY <1>h, <4>4
      <4>8. pc' # "erase"
        BY <1>d
      <4> QED BY <1>d, <3>1, <4>1, <4>5, <4>6, <4>7, <4>8 DEF WriteStage, t
    <3>5. CrcStage'
      <4> SUFFICES ASSUME efu_srv.state = "WAIT_FOR_CRC" PROVE CrcStage'
        BY <3>1 DEF CrcStage
      <4> DEFINE t == efu_srv.total_written
                 k == Len(efu_srv.crc_buf)
      <4>1. /\ sock.rd = HdrLen + t + k
            /\ efu_srv.crc_buf = Part(session, HdrLen + t, k)
            /\ efu_srv.crc_calc = Part(session, HdrLen, t)
            /\ Stores(flash[efu_srv.write_addr], session, t)
            /\ t \in Nat /\ HdrLen \in Nat /\ k \in Nat
        BY <1>a, <1>c, SizesAssumption DEF Content, CrcStage, SrvType
      <4> HIDE DEF t, k
      <4>2. sock'.rd = HdrLen + t + k + Len(buf') /\ buf' = Part(session, HdrLen + t + k, Len(buf'))
        BY <1>d, <1>g, <1>h, <4>1
      <4> QED BY <1>d, <3>1, <4>1, <4>2 DEF CrcStage, t, k
    <3> QED BY <3>2, <3>3, <3>4, <3>5
  <2> QED BY <2>1, <2>2
<1> QED BY <1>1, <1>2 DEF Content

\* What is taken from a chunk: all of it, or what is still missing.
LEMMA LesserRange ==
  ASSUME NEW a \in Nat, NEW b \in Nat
  PROVE  Lesser(a, b) \in 0..b /\ Lesser(a, b) <= a /\ (Lesser(a, b) = a \/ Lesser(a, b) = b)
  BY DEF Lesser

\* The header stage and the choice of the target.
LEMMA HeaderContent ==
  ASSUME IInv, Content, HeaderPartial \/ HeaderBad \/ HeaderGood \/ NoTarget \/ Target
  PROVE  Content'
<1> USE DEF In, world
<1> DEFINE h == efu_srv.header
           n == Lesser(HdrLen - Len(h), Len(buf))
           hw == HeaderWith(buf)
<1>a. /\ efu_srv \in SrvType /\ sock \in SockType /\ session \in SessionType /\ buf \in Seq(Unit)
      /\ sock.rd \in Nat /\ sock.wr \in Nat /\ sock.rd <= sock.wr /\ HdrLen \in Nat
      /\ h \in Seq(Unit) /\ Len(h) \in Nat /\ Len(h) <= HdrLen /\ Len(buf) \in Nat
  BY SizesAssumption DEF IInv, TypeOK, SockType, SrvType
<1>b. /\ hw \in Seq(Unit) /\ n \in 0..Len(buf) /\ Len(hw) = Len(h) + n
      /\ HeaderRest(buf) = Drop(buf, n)
      /\ n = HdrLen - Len(h) \/ n = Len(buf)
  <2>1. n \in 0..Len(buf) /\ (n = HdrLen - Len(h) \/ n = Len(buf))
    <3>1. HdrLen - Len(h) \in Nat
      BY <1>a
    <3> QED BY <1>a, <3>1, LesserRange
  <2>2. hw = h \o SubSeq(buf, 1, n) /\ HeaderRest(buf) = Drop(buf, n)
    BY DEF HeaderWith, HeaderRest
  <2> HIDE DEF n, hw, h
  <2>3. SubSeq(buf, 1, n) \in Seq(Unit) /\ Len(SubSeq(buf, 1, n)) = n
    BY <1>a, <2>1
  <2>4. h \o SubSeq(buf, 1, n) \in Seq(Unit) /\ Len(h \o SubSeq(buf, 1, n)) = Len(h) + n
    BY <1>a, <2>3
  <2> QED BY <2>1, <2>2, <2>4
<1> HIDE DEF n, hw, h
<1>c. UNCHANGED <<sock, heard>> => ((sock.wr <= MaySend /\ Framed(sock.wr))' \/ session' # session)
  BY <1>a, WithinHeard DEF Content
<1>1. CASE HeaderPartial
  <2>1. efu_srv'.state = "HEADER" /\ efu_srv'.header = hw
    BY <1>1, <1>a DEF HeaderPartial, SrvType, hw
  <2>2. efu_srv'.total_written = efu_srv.total_written /\ efu_srv'.crc_calc = efu_srv.crc_calc
    BY <1>1, <1>a DEF HeaderPartial, SrvType
  <2>3. UNCHANGED <<sock, heard, session, flash>> /\ buf' = <<>> /\ efu_srv.state = "HEADER"
    BY <1>1 DEF HeaderPartial, PollEnds
  <2>4. Len(hw) < HdrLen
    BY <1>1 DEF HeaderPartial, hw
  <2>5. Len(hw) = Len(h) + Len(buf)
    <3>1. CASE n = HdrLen - Len(h)
      <4>1. Len(hw) = HdrLen
        BY <1>a, <1>b, <3>1
      <4> QED BY <1>a, <2>4, <4>1
    <3>2. CASE n = Len(buf)
      BY <1>b, <3>2
    <3> QED BY <1>b, <3>1, <3>2
  <2>6. sock.rd = Len(h) + Len(buf)
    BY <2>3 DEF Content, HeaderStage, h
  <2>7. HeaderStage'
    BY <1>a, <2>1, <2>2, <2>3, <2>5, <2>6 DEF Content, HeaderStage
  <2>8. Within'
    BY <1>c, <2>3 DEF Content, Within
  <2> QED BY <2>1, <2>3, <2>7, <2>8 DEF Content, WriteStage, CrcStage, Kept, CcMeansStored
<1>2. CASE HeaderBad
  <2>1. [efu_srv EXCEPT !.header = hw] \in SrvType
    BY <1>a, <1>b DEF SrvType
  <2> QED BY <1>2, <2>1, NackContent DEF HeaderBad, hw
<1>3. CASE HeaderGood
  <2>0. efu_srv' = [efu_srv EXCEPT !.header = hw, !.state = "ERASING", !.expected_size = SizeField(hw)]
    BY <1>3 DEF HeaderGood, hw
  <2>1. efu_srv'.state = "ERASING"
    BY <2>0, <1>a DEF SrvType
  <2>2. efu_srv'.total_written = efu_srv.total_written /\ efu_srv'.crc_calc = efu_srv.crc_calc
    BY <2>0, <1>a DEF SrvType
  <2>3. UNCHANGED <<sock, heard, session, flash, pc>> /\ buf' = Drop(buf, n) /\ efu_srv.state = "HEADER"
        /\ pc = "handle" /\ Len(hw) = HdrLen
    <3>1. Len(hw) = HdrLen /\ buf' = HeaderRest(buf)
      BY <1>3 DEF HeaderGood, hw
    <3>2. UNCHANGED <<sock, heard, session, flash, pc>> /\ efu_srv.state = "HEADER" /\ pc = "handle"
      BY <1>3 DEF HeaderGood
    <3> QED BY <1>b, <3>1, <3>2
  <2>4. sock.rd = Len(h) + Len(buf) /\ "HD" \notin heard /\ "OK" \notin heard
    BY <2>3 DEF Content, HeaderStage, h
  <2>5. sock.wr <= HdrLen
    BY <1>a, <2>4, MaySendRange DEF Content, Within
  <2>6. n = Len(buf) /\ sock.rd = HdrLen
    BY <1>a, <1>b, <2>3, <2>4, <2>5
  <2>7. buf' = <<>>
    BY <1>a, <2>3, <2>6 DEF Drop
  <2>8. HeaderStage'
    BY <2>1, <2>2, <2>3, <2>4, <2>6, <2>7 DEF Content, HeaderStage
  <2>9. Within'
    BY <1>c, <2>3 DEF Content, Within
  <2> QED BY <2>1, <2>3, <2>8, <2>9 DEF Content, WriteStage, CrcStage, Kept, CcMeansStored
<1>4. CASE NoTarget
  BY <1>4, <1>a, NackContent DEF NoTarget
<1>5. CASE Target
  <2>1. efu_srv'.state = "WRITING"
    BY <1>5, <1>a DEF Target, SrvType
  <2>2. efu_srv'.total_written = efu_srv.total_written /\ efu_srv'.crc_calc = efu_srv.crc_calc
    BY <1>5, <1>a DEF Target, SrvType
  <2>3. UNCHANGED <<sock, heard, session, flash, buf>> /\ efu_srv.state = "ERASING" /\ pc' = "erase"
    BY <1>5 DEF Target
  <2>4. /\ efu_srv.total_written = 0 /\ efu_srv.crc_calc = <<>> /\ buf = <<>> /\ sock.rd = HdrLen
        /\ "HD" \notin heard /\ "OK" \notin heard
    BY <2>3 DEF Content, HeaderStage
  <2>5. Part(session, HdrLen, 0) = <<>> /\ Part(session, HdrLen + 0, 0) = <<>> /\ Len(<<>>) = 0
    BY <1>a, PartType
  <2>6. OnPage(0)
    BY SizesAssumption DEF OnPage
  <2>7. sock.rd = HdrLen + 0 + 0 /\ 0 + 0 = 0
    BY <1>a, <2>4
  <2>8. WriteStage'
    BY <2>1, <2>2, <2>3, <2>4, <2>5, <2>6, <2>7 DEF WriteStage
  <2>9. Within'
    BY <1>c, <2>3 DEF Content, Within
  <2> QED BY <2>1, <2>3, <2>8, <2>9 DEF Content, HeaderStage, CrcStage, Kept, CcMeansStored
<1> QED BY <1>1, <1>2, <1>3, <1>4, <1>5

\* Erasing: the slot is empty when HD goes out.
LEMMA EraseContent ==
  ASSUME IInv, Content, EraseSome \/ EraseDone
  PROVE  Content'
<1>a. /\ session \in SessionType /\ sock.wr \in Nat /\ efu_srv.state = "WRITING" /\ pc = "erase"
      /\ "CC" \notin heard /\ flash \in [Slot -> [1..PartSize -> Unit]] /\ efu_srv.write_addr \in Slot
  BY OtherSlot DEF EraseSome, EraseDone, IInv, Inv, Stage, LastWord, Targeted, TypeOK, SockType
<1>1. CASE EraseSome
  <2>1. UNCHANGED <<efu_srv, pc, buf, sock, session, heard>>
    BY <1>1 DEF EraseSome
  <2>2. (sock.wr <= MaySend /\ Framed(sock.wr))'
    BY <1>a, <2>1, WithinHeard DEF Content
  <2>3. Within'
    BY <2>1, <2>2 DEF Content, Within
  <2>4. WriteStage'
    BY <1>a, <2>1 DEF Content, WriteStage
  <2> QED BY <1>a, <2>1, <2>3, <2>4 DEF Content, HeaderStage, CrcStage, Kept, CcMeansStored
<1>2. CASE EraseDone
  <2>1. UNCHANGED <<efu_srv, buf, sock, session>> /\ pc' = "handle"
    BY <1>2 DEF EraseDone
  <2>2. heard \subseteq heard' /\ heard' \subseteq heard \union {"HD"}
    BY <1>2 DEF EraseDone, Reply
  <2>3. (sock.wr <= MaySend /\ Framed(sock.wr))'
    BY <1>a, <2>1, <2>2, WithinHeard DEF Content
  <2>4. sock.sr = "ESTABLISHED" => sock.con # TRUE
    BY <1>a DEF IInv, Inv, Stage
  <2>5. Within'
    BY <2>1, <2>3, <2>4 DEF Content, Within
  <2>6. efu_srv.total_written = 0 /\ "OK" \notin heard'
    BY <1>a, <2>2 DEF Content, WriteStage
  <2>7. flash'[efu_srv.write_addr] = ErasedTo(flash[efu_srv.write_addr], PartSize)
    BY <1>2, <1>a DEF EraseDone
  <2>8. Stores(flash'[efu_srv.write_addr], session, 0)
    BY <1>a, <2>7, StoresErased
  <2>9. WriteStage'
    BY <1>a, <2>1, <2>6, <2>8 DEF Content, WriteStage
  <2>10. "CC" \notin heard'
    BY <1>a, <2>2
  <2> QED BY <1>a, <2>1, <2>5, <2>9, <2>10 DEF Content, HeaderStage, CrcStage, Kept, CcMeansStored
<1> QED BY <1>1, <1>2

\* What programming a chunk does to the struct.
LEMMA WriteFields ==
  ASSUME TypeOK, Write
  PROVE  /\ efu_srv'.state \in {"WRITING", "WAIT_FOR_CRC"}
         /\ efu_srv'.state = "WRITING" => heard' = heard
         /\ efu_srv'.state = "WAIT_FOR_CRC" => efu_srv'.crc_buf = <<>>
         /\ efu_srv'.write_addr = efu_srv.write_addr
         /\ efu_srv'.total_written = efu_srv.total_written + Len(buf)
         /\ efu_srv'.crc_calc = efu_srv.crc_calc \o buf
         /\ heard' = heard \/ heard' = heard \union {"OK"}
         /\ flash' = [flash EXCEPT ![efu_srv.write_addr] = Program(@, efu_srv.total_written, buf)]
         /\ buf' = <<>> /\ pc' = "poll" /\ UNCHANGED <<sock, session, running>>
         /\ efu_srv.state = "WRITING" /\ pc = "handle" /\ ~TooLarge(efu_srv, Len(buf))
<1> DEFINE t == efu_srv.total_written
           n == Len(buf)
           wa == efu_srv.write_addr
           s == [efu_srv EXCEPT !.crc_calc = @ \o buf, !.total_written = @ + n]
           w == [s EXCEPT !.state = "WAIT_FOR_CRC", !.crc_buf = <<>>]
<1>1. /\ \/ efu_srv' = s /\ heard' = heard
         \/ efu_srv' = w /\ (heard' = heard \/ heard' = heard \union {"OK"})
      /\ flash' = [flash EXCEPT ![wa] = Program(@, t, buf)]
      /\ buf' = <<>> /\ pc' = "poll" /\ UNCHANGED <<sock, session, running>>
      /\ efu_srv.state = "WRITING" /\ pc = "handle" /\ ~TooLarge(efu_srv, n)
  BY DEF Write, In, PollEnds, Reply
<1>a. efu_srv \in SrvType /\ buf \in Seq(Unit) /\ t \in Nat /\ n \in Nat /\ PartSize \in Nat
  BY SizesAssumption DEF TypeOK, SrvType
<1>s. s \in SrvType /\ s.state = "WRITING" /\ s.write_addr = wa
  <2>1. efu_srv.crc_calc \o buf \in Seq(Unit) /\ t + n \in 0..PartSize
    BY <1>a, <1>1 DEF SrvType, TooLarge
  <2>2. s \in SrvType
    BY <1>a, <2>1 DEF SrvType
  <2>3. s.state = "WRITING"
    BY <1>a, <1>1 DEF SrvType
  <2>4. s.write_addr = wa
    BY <1>a DEF SrvType
  <2> QED BY <2>2, <2>3, <2>4
<1>t. s.total_written = t + n
  BY <1>a DEF SrvType
<1>c. s.crc_calc = efu_srv.crc_calc \o buf
  BY <1>a DEF SrvType
<1> HIDE DEF s
<1>w. w.state = "WAIT_FOR_CRC" /\ w.write_addr = s.write_addr
  <2>1. w.state = "WAIT_FOR_CRC"
    BY <1>s DEF SrvType
  <2>2. w.write_addr = s.write_addr
    BY <1>s DEF SrvType
  <2> QED BY <2>1, <2>2
<1>x. w.total_written = s.total_written /\ w.crc_calc = s.crc_calc /\ w.crc_buf = <<>>
  BY <1>s DEF SrvType
<1> HIDE DEF w
<1>2. CASE efu_srv' = s /\ heard' = heard
  BY <1>1, <1>2, <1>s, <1>t, <1>c
<1>3. CASE efu_srv' = w /\ (heard' = heard \/ heard' = heard \union {"OK"})
  BY <1>1, <1>3, <1>s, <1>t, <1>c, <1>w, <1>x
<1> QED BY <1>1, <1>2, <1>3

\* Programming a chunk, or dropping it.
LEMMA WriteContent ==
  ASSUME IInv, Content, WriteTooLarge \/ Write \/ Dropped \/ Disconnected
  PROVE  Content'
<1> DEFINE t == efu_srv.total_written
           n == Len(buf)
           wa == efu_srv.write_addr
<1>a. /\ efu_srv \in SrvType /\ session \in SessionType /\ buf \in Seq(Unit) /\ sock.wr \in Nat
      /\ flash \in [Slot -> [1..PartSize -> Unit]] /\ HdrLen \in Nat /\ PartSize \in Nat
      /\ t \in Nat /\ n \in Nat /\ HdrLen + t \in Nat
  BY SizesAssumption DEF IInv, TypeOK, SockType, SrvType
<1>1. CASE WriteTooLarge
  BY <1>1, <1>a, NackContent DEF WriteTooLarge
<1>2. CASE Write
  <2>1. /\ efu_srv'.state \in {"WRITING", "WAIT_FOR_CRC"}
        /\ efu_srv'.state = "WRITING" => heard' = heard
        /\ efu_srv'.state = "WAIT_FOR_CRC" => efu_srv'.crc_buf = <<>>
        /\ efu_srv'.write_addr = wa /\ efu_srv'.total_written = t + n
        /\ efu_srv'.crc_calc = efu_srv.crc_calc \o buf
        /\ heard' = heard \/ heard' = heard \union {"OK"}
        /\ flash' = [flash EXCEPT ![wa] = Program(@, t, buf)]
        /\ buf' = <<>> /\ pc' = "poll" /\ UNCHANGED <<sock, session, running>>
        /\ efu_srv.state = "WRITING" /\ pc = "handle" /\ ~TooLarge(efu_srv, n)
    BY <1>2, WriteFields DEF IInv
  <2>2. wa \in Slot /\ "CC" \notin heard
    BY <2>1, OtherSlot DEF IInv, Inv, Targeted, LastWord, TypeOK
  <2>3. /\ "OK" \notin heard
        /\ sock.rd = HdrLen + t + n
        /\ buf = Part(session, HdrLen + t, n)
        /\ efu_srv.crc_calc = Part(session, HdrLen, t)
        /\ OnPage(t) \/ buf = <<>>
        /\ OnPage(t + n) \/ t + n >= SizeOf[session.img]
        /\ Stores(flash[wa], session, t)
    BY <2>1 DEF Content, WriteStage
  <2>5. heard \subseteq heard' /\ heard' \subseteq heard \union {"OK"}
    BY <2>1
  <2> HIDE DEF t, n, wa
  <2>6. efu_srv'.crc_calc = Part(session, HdrLen, t + n)
    <3>0. session \in SessionType /\ HdrLen \in Nat /\ t \in Nat /\ n \in Nat
      BY <1>a
    <3>1. Part(session, HdrLen, t) \o Part(session, HdrLen + t, n) = Part(session, HdrLen, t + n)
      BY ONLY <3>0, PartConcat
    <3> QED BY <2>1, <2>3, <3>1
  <2>7. Stores(flash'[wa], session, t + n)
    <3>1. flash'[wa] = Program(flash[wa], t, buf)
      BY <1>a, <2>1, <2>2
    <3>2. flash[wa] \in [1..PartSize -> Unit]
      BY <1>a, <2>2
    <3>3. CASE OnPage(t)
      <4>1. t + n <= PartSize
        BY <1>a, <2>1 DEF TooLarge, t
      <4>2. Stores(Program(flash[wa], t, Part(session, HdrLen + t, n)), session, t + n)
        BY <1>a, <2>3, <3>2, <3>3, <4>1, StoresNext
      <4> QED BY <2>3, <3>1, <4>2
    <3>4. CASE buf = <<>>
      <4>1. n = 0 /\ t + n = t
        BY <1>a, <3>4 DEF n
      <4>2. flash'[wa] = flash[wa]
        BY <1>a, <3>1, <3>2, <3>4, ProgramNothing
      <4> QED BY <2>3, <4>1, <4>2
    <3> QED BY <2>3, <3>3, <3>4
  <2>8. Within'
    <3>1. (sock.wr <= MaySend /\ Framed(sock.wr))'
      BY <1>a, <2>1, <2>5, WithinHeard DEF Content
    <3>2. sock.sr = "ESTABLISHED" => sock.con # TRUE
      BY <2>1 DEF IInv, Inv, Stage
    <3> QED BY <2>1, <3>1, <3>2 DEF Content, Within
  <2>a. Len(<<>>) = 0 /\ t + n \in Nat /\ HdrLen + (t + n) \in Nat
        /\ HdrLen + (t + n) + 0 = HdrLen + t + n /\ t + n + 0 = t + n
        /\ HdrLen + (t + n) + 0 + 0 = HdrLen + t + n
        /\ HdrLen + (t + n) = HdrLen + t + n
    BY <1>a
  <2>b. /\ Part(session, HdrLen + (t + n), 0) = <<>>
        /\ Part(session, HdrLen + (t + n) + 0, 0) = <<>>
    BY <1>a, <2>a, PartType
  <2>9. WriteStage'
    <3> SUFFICES ASSUME efu_srv'.state = "WRITING" PROVE WriteStage'
      BY DEF WriteStage
    <3>1. "OK" \notin heard' /\ pc' # "erase"
      BY <2>1, <2>3
    <3> QED BY <2>1, <2>3, <2>6, <2>7, <2>a, <2>b, <3>1 DEF WriteStage
  <2>10. CrcStage'
    <3> SUFFICES ASSUME efu_srv'.state = "WAIT_FOR_CRC" PROVE CrcStage'
      BY DEF CrcStage
    <3> QED BY <2>1, <2>3, <2>6, <2>7, <2>a, <2>b DEF CrcStage
  <2>11. HeaderStage' /\ Kept'
    BY <2>1, <2>2, <2>5 DEF HeaderStage, Kept, CcMeansStored
  <2> QED BY <2>8, <2>9, <2>10, <2>11 DEF Content
<1>3. CASE Dropped
  <2>1. UNCHANGED <<efu_srv, sock, heard, session, flash>> /\ buf' = <<>> /\ pc' = "poll"
        /\ efu_srv.state \notin Receiving
    BY <1>3 DEF Dropped, PollEnds, world
  <2>2. (sock.wr <= MaySend /\ Framed(sock.wr))'
    BY <1>a, <2>1, WithinHeard DEF Content
  <2>3. Within'
    BY <2>1, <2>2 DEF Content, Within
  <2> QED BY <2>1, <2>3 DEF Content, HeaderStage, WriteStage, CrcStage, Kept, CcMeansStored, Receiving
<1>4. CASE Disconnected
  <2>1. UNCHANGED <<efu_srv, buf, sock, heard, session, flash>> /\ pc = "disconnect" /\ pc' = "poll"
    BY <1>4 DEF Disconnected, world
  <2> QED BY <2>1, SameContent DEF Content, Within
<1> QED BY <1>1, <1>2, <1>3, <1>4

\* The trailer: CC only for a slot that holds the whole image.
LEMMA CrcContent ==
  ASSUME IInv, Content, CrcPartial \/ CrcBad \/ CrcGood
  PROVE  Content'
<1> USE DEF In, world
<1> DEFINE t == efu_srv.total_written
           k == Len(efu_srv.crc_buf)
           n == Lesser(CrcLen - k, Len(buf))
           tw == TrailerWith(buf)
<1>a. /\ efu_srv \in SrvType /\ session \in SessionType /\ buf \in Seq(Unit) /\ sock.wr \in Nat
      /\ HdrLen \in Nat /\ CrcLen \in Nat /\ t \in 0..PartSize /\ t \in Nat /\ k \in Nat /\ k <= CrcLen
      /\ Len(buf) \in Nat /\ CrcLen - k \in Nat
  BY SizesAssumption DEF IInv, TypeOK, SockType, SrvType
<1>s. efu_srv.state = "WAIT_FOR_CRC" /\ pc = "handle" /\ efu_srv.write_addr \in Slot
  BY OtherSlot DEF CrcPartial, CrcBad, CrcGood, IInv, Inv, Targeted, TypeOK
<1>b. n \in 0..Len(buf) /\ n <= CrcLen - k /\ (n = CrcLen - k \/ n = Len(buf))
  BY <1>a, LesserRange
<1>c. tw = efu_srv.crc_buf \o SubSeq(buf, 1, n)
  BY DEF TrailerWith
<1>d. /\ sock.rd = HdrLen + t + k + Len(buf)
      /\ buf = Part(session, HdrLen + t + k, Len(buf))
      /\ efu_srv.crc_buf = Part(session, HdrLen + t, k)
      /\ efu_srv.crc_calc = Part(session, HdrLen, t)
      /\ Stores(flash[efu_srv.write_addr], session, t)
  BY <1>s DEF Content, CrcStage
<1> HIDE DEF n, tw, k, t
<1>e. tw = Part(session, HdrLen + t, k + n) /\ Len(tw) = k + n /\ tw \in Seq(Unit)
  <2>1. HdrLen + t \in Nat /\ HdrLen + t + k \in Nat /\ n \in Nat /\ k + n \in Nat
    BY <1>a, <1>b
  <2>2. SubSeq(buf, 1, n) = Part(session, HdrLen + t + k, n)
    <3>1. SubSeq(Part(session, HdrLen + t + k, Len(buf)), 1, n) = Part(session, HdrLen + t + k, n)
      BY <1>a, <1>b, <2>1, PartPrefix
    <3> QED BY <1>d, <3>1
  <2>3. Part(session, HdrLen + t, k) \o Part(session, HdrLen + t + k, n) = Part(session, HdrLen + t, k + n)
    <3> DEFINE from == HdrLen + t
    <3>1. from \in Nat /\ k \in Nat /\ n \in Nat /\ session \in SessionType
      BY <1>a, <2>1
    <3> HIDE DEF from
    <3>2. Part(session, from, k) \o Part(session, from + k, n) = Part(session, from, k + n)
      BY ONLY <3>1, PartConcat
    <3> QED BY <3>2 DEF from
  <2>4. tw = Part(session, HdrLen + t, k + n)
    BY <1>c, <1>d, <2>2, <2>3
  <2> QED BY <1>a, <2>1, <2>4, PartType
<1>1. CASE CrcPartial
  <2>0. efu_srv' = [efu_srv EXCEPT !.crc_buf = tw]
    BY <1>1 DEF CrcPartial, tw
  <2>1. efu_srv'.state = "WAIT_FOR_CRC" /\ efu_srv'.crc_buf = tw
    BY <1>a, <1>s, <2>0 DEF SrvType
  <2>2. efu_srv'.total_written = t /\ efu_srv'.crc_calc = efu_srv.crc_calc
    BY <1>a, <2>0 DEF SrvType, t
  <2>3. efu_srv'.write_addr = efu_srv.write_addr
    BY <1>a, <2>0 DEF SrvType
  <2>4. UNCHANGED <<sock, heard, session, flash>> /\ buf' = <<>> /\ pc' = "poll" /\ Len(tw) < CrcLen
    BY <1>1 DEF CrcPartial, PollEnds, tw
  <2>5. n = Len(buf)
    BY <1>a, <1>b, <1>e, <2>4
  <2>6. Within'
    <3>1. (sock.wr <= MaySend /\ Framed(sock.wr))'
      BY <1>a, <2>4, WithinHeard DEF Content
    <3> QED BY <2>4, <3>1 DEF Content, Within
  <2>7. /\ Len(<<>>) = 0 /\ HdrLen + t + (k + n) \in Nat
        /\ sock.rd = HdrLen + t + (k + n) + 0
    BY <1>a, <1>b, <1>d, <2>5
  <2>8. Part(session, HdrLen + t + (k + n), 0) = <<>>
    BY <1>a, <2>7, PartType
  <2>9. CrcStage'
    BY <1>d, <1>e, <2>1, <2>2, <2>3, <2>4, <2>7, <2>8 DEF CrcStage
  <2> QED BY <1>s, <2>1, <2>4, <2>6, <2>9 DEF Content, HeaderStage, WriteStage, Kept, CcMeansStored
<1>2. CASE CrcBad
  <2>1. [efu_srv EXCEPT !.crc_buf = tw, !.complete = TRUE] \in SrvType
    BY <1>a, <1>e DEF SrvType
  <2> QED BY <1>2, <2>1, NackContent DEF CrcBad, tw
<1>3. CASE CrcGood
  <2>0. efu_srv' = [efu_srv EXCEPT !.crc_buf = tw, !.state = "DONE", !.complete = TRUE]
    BY <1>3 DEF CrcGood, tw
  <2>1. efu_srv'.state = "DONE"
    BY <1>a, <2>0 DEF SrvType
  <2>2. efu_srv'.write_addr = efu_srv.write_addr
    BY <1>a, <2>0 DEF SrvType
  <2>3. UNCHANGED <<session, flash>> /\ heard \subseteq heard'
        /\ Len(tw) = CrcLen /\ CrcMatches(efu_srv.crc_calc, tw)
    BY <1>3 DEF CrcGood, Reply, tw
  <2>4. Holds(flash[efu_srv.write_addr], session.img)
    <3>1. CrcMatches(Part(session, HdrLen, t), Part(session, HdrLen + t, CrcLen))
      BY <1>d, <1>e, <2>3
    <3> QED BY <1>a, <1>d, <3>1, CrcProves
  <2>a. Bootable(flash[efu_srv.write_addr]) => SizeOf[session.img] > 0
    BY <1>a, <1>d, StoresUpload
  <2>5. sock'.wr = 0 /\ sock'.sr # "ESTABLISHED" /\ buf' = <<>>
    BY <1>3, DisconnectFields DEF CrcGood
  <2>6. Within'
    <3>1. (sock.wr <= MaySend /\ Framed(sock.wr))'
      BY <1>a, <2>3, <2>5, WithinHeard DEF Content
    <3> QED BY <2>3, <2>5, <3>1 DEF Content, Within
  <2>7. Kept'
    BY <1>s, <2>2, <2>3, <2>4, <2>a DEF Kept, CcMeansStored
  <2> QED BY <2>1, <2>6, <2>7 DEF Content, HeaderStage, WriteStage, CrcStage
<1> QED BY <1>1, <1>2, <1>3

\* The invariant about contents is inductive.
LEMMA ContentInvariance == ASSUME WholePages PROVE Spec => [](IInv /\ Content)
<1>1. Init => Content
  <2> SUFFICES ASSUME Init PROVE Content
    OBVIOUS
  <2>1. session.eager = FALSE /\ session.bad = 0 /\ sock.wr = 0 /\ sock.sr = "CLOSED" /\ buf = <<>>
    BY DEF Init, Closed
  <2>2. session \in SessionType
    BY InitInv DEF IInv, TypeOK
  <2>3. Within
    <3>1. HdrLen \in Nat /\ MaySend \in Nat
      BY <2>1, <2>2, MaySendRange
    <3> QED BY <2>1, <3>1 DEF Within, Framed
  <2>4. efu_srv.state = "IDLE" /\ heard = {}
    BY DEF Init, ZeroSrv
  <2> QED BY <2>3, <2>4 DEF Content, HeaderStage, WriteStage, CrcStage, Kept, CcMeansStored
<1>2. IInv /\ Content /\ [Next]_vars => Content'
  <2> SUFFICES ASSUME IInv, Content, [Next]_vars PROVE Content'
    OBVIOUS
  <2>1. CASE Server
    BY <2>1, PollContent, RecvContent, HeaderContent, EraseContent, WriteContent, CrcContent DEF Server
  <2>2. CASE Rom \/ Client
    BY <2>2, OutsideContent
  <2>3. CASE UNCHANGED vars
    <3>1. UNCHANGED <<session, flash, heard, buf, sock, efu_srv, pc>>
      BY <2>3 DEF vars
    <3> QED BY <3>1, SameContent DEF Content, Within
  <2> QED BY <2>1, <2>2, <2>3 DEF Next
<1> QED BY <1>1, <1>2, InitInv, StepInv, PTL DEF Spec

\* When the image reaches flash in whole pages, a client that heard CC has its
\* whole image in a slot.
THEOREM AcceptedMeansStored == ASSUME WholePages PROVE Spec => []CcMeansStored
<1>1. IInv /\ Content => CcMeansStored
  BY DEF Content, Kept
<1> QED BY <1>1, ContentInvariance, PTL

\* Then the board also changes slots, short of a power loss, only into the whole
\* image of the client it answered CC, never into one it refused.
THEOREM SwitchesByCommit == ASSUME WholePages PROVE Spec => SwitchOnlyByCommit
<1> DEFINE OK == running' # running /\ crashes' = crashes =>
                   Holds(flash[running'], session.img) /\ "ER" \notin heard
<1>1. IInv /\ Content /\ [Next]_vars => [OK]_vars
  <2> SUFFICES ASSUME IInv, Content, Next, running' # running, crashes' = crashes
               PROVE  Holds(flash[running'], session.img) /\ "ER" \notin heard
    BY DEF vars
  <2>1. BootUpdate
    <3>1. ~Server
      BY DEF Server, Open, OpenFailed, InterruptsCleared, PollReboot, PollCloseWait, PollEstablished,
        HeaderPartial, HeaderBad, HeaderGood, NoTarget, Target, EraseSome, EraseDone, WriteTooLarge,
        Write, CrcPartial, CrcBad, CrcGood, Dropped, Disconnected, world
    <3>2. ~Client
      BY DEF Client, Connect, Segment, ClientCloses, ConnectionLost, FinAcknowledged, FinAnswered, world
    <3>3. ~PowerLoss
      BY DEF PowerLoss, IInv, TypeOK
    <3> QED BY <3>1, <3>2, <3>3 DEF Next, Rom
  <2>2. pc = "reset" /\ running' = efu_srv.write_addr
    BY <2>1 DEF BootUpdate, BootInto
  <2>3. efu_srv.state = "DONE"
    BY <2>2 DEF IInv, Inv, Stage
  <2> QED BY <2>2, <2>3 DEF Content, Kept, IInv, Inv, LastWord
<1> QED BY <1>1, ContentInvariance, PTL DEF Spec, SwitchOnlyByCommit

-----------------------------------------------------------------------------
(* A slot that looks bootable to the boot ROM holds an image that was sent *)
(* to its end; what an erase or a broken transfer leaves behind looks      *)
(* bootable to no one.  And until the power fails for the first time the   *)
(* board changes slots only after the CRC, so that what runs is whole.     *)

BootableIsUpload == \A s \in Slot : Bootable(flash[s]) => UploadIn(flash[s])
WholeTillPowerLoss == crashes = 0 => RunsWholeImage

\* The image the board comes with is whole.
LEMMA FactoryIsWhole == WholeIn(Factory0) /\ UploadIn(Factory0)
<1>1. SizeOf[Factory] \in 1..PartSize /\ Factory \in Image /\ PartSize \in Nat
  BY SizesAssumption
<1>2. \A k \in 1..SizeOf[Factory] : Factory0[k] = <<"img", Factory, k>>
  BY <1>1 DEF Factory0
<1> QED BY <1>1, <1>2 DEF WholeIn, Holds, UploadIn

\* A slot whose first unit is erased is not bootable.
LEMMA BlankNotBootable == ASSUME NEW c, c[1] = Blank PROVE ~Bootable(c)
  BY UnsentAssumption DEF Bootable

\* The steps that leave both slots alone.
FlashQuiet ==
  \/ Open \/ OpenFailed \/ InterruptsCleared \/ PollReboot \/ PollCloseWait \/ PollEstablished
  \/ HeaderPartial \/ HeaderBad \/ HeaderGood \/ NoTarget \/ Target
  \/ WriteTooLarge \/ CrcPartial \/ CrcBad \/ CrcGood \/ Dropped \/ Disconnected \/ Client

LEMMA NextSplit ==
  ASSUME [Next]_vars
  PROVE  \/ EraseSome \/ EraseDone \/ Write
         \/ UNCHANGED <<flash, running, crashes>>
         \/ BootUpdate \/ PowerLoss
<1>1. ASSUME FlashQuiet PROVE UNCHANGED <<flash, running, crashes>>
  BY <1>1 DEF FlashQuiet, Open, OpenFailed, InterruptsCleared, PollReboot, PollCloseWait,
    PollEstablished, HeaderPartial, HeaderBad, HeaderGood, NoTarget, Target, WriteTooLarge,
    CrcPartial, CrcBad, CrcGood, Dropped, Disconnected, Client, Connect, Segment, ClientCloses,
    ConnectionLost, FinAcknowledged, FinAnswered, world
<1>2. UNCHANGED vars => UNCHANGED <<flash, running, crashes>>
  BY DEF vars
<1> QED BY <1>1, <1>2 DEF Next, Server, Rom, FlashQuiet

\* Erasing and programming change the content of the slot written to, and
\* nothing else of what the boot ROM goes by.
LEMMA FlashWritten ==
  ASSUME IInv, EraseSome \/ EraseDone \/ Write
  PROVE  LET wa == efu_srv.write_addr
         IN  /\ wa \in Slot /\ wa # running /\ flash \in [Slot -> [1..PartSize -> Unit]]
             /\ flash' = [flash EXCEPT ![wa] = flash'[wa]]
             /\ UNCHANGED <<running, crashes>>
<1> DEFINE wa == efu_srv.write_addr
<1>1. wa \in Slot /\ wa # running /\ flash \in [Slot -> [1..PartSize -> Unit]]
  BY OtherSlot DEF EraseSome, EraseDone, Write, In, IInv, Inv, Stage, Targeted, TypeOK
<1>2. PICK x : flash' = [flash EXCEPT ![wa] = x]
  BY DEF EraseSome, EraseDone, Write
<1>3. UNCHANGED <<running, crashes>>
  BY DEF EraseSome, EraseDone, Write
<1> HIDE DEF wa
<1>4. flash'[wa] = x
  BY <1>1, <1>2
<1> QED BY <1>1, <1>2, <1>3, <1>4 DEF wa

\* The board commits to a whole image only.
LEMMA CommitIsWhole ==
  ASSUME IInv, Content, BootUpdate
  PROVE  LET wa == efu_srv.write_addr
         IN  /\ wa \in Slot /\ UNCHANGED <<flash, crashes>>
             /\ \/ running' = running
                \/ running' = wa /\ WholeIn(flash[wa])
<1>1. pc = "reset" /\ efu_srv.write_addr \in Slot
  BY OtherSlot DEF BootUpdate, IInv, Inv, Targeted, TypeOK
<1>2. efu_srv.state = "DONE" /\ session.img \in Image
  BY <1>1 DEF IInv, Inv, Stage, TypeOK, SessionType
<1>3. Bootable(flash[efu_srv.write_addr]) => WholeIn(flash[efu_srv.write_addr])
  BY <1>2 DEF Content, Kept, WholeIn
<1> QED BY <1>1, <1>3 DEF BootUpdate, BootInto

LEMMA UploadStep ==
  ASSUME IInv, Content, Content', IInv', BootableIsUpload, [Next]_vars
  PROVE  BootableIsUpload'
<1> DEFINE wa == efu_srv.write_addr
<1>1. CASE EraseSome \/ EraseDone \/ Write
  <2>1. /\ wa \in Slot /\ flash \in [Slot -> [1..PartSize -> Unit]]
        /\ flash' = [flash EXCEPT ![wa] = flash'[wa]]
    BY <1>1, FlashWritten
  <2>2. Bootable(flash'[wa]) => UploadIn(flash'[wa])
    <3>1. CASE EraseSome
      <4>1. PICK k \in 1..PartSize - 1 : flash'[wa] = ErasedTo(flash[wa], k)
        BY <2>1, <3>1 DEF EraseSome
      <4>2. 1 \in 1..PartSize /\ 1 <= k
        BY <4>1, SizesAssumption
      <4>3. flash'[wa][1] = Blank
        BY <4>1, <4>2 DEF ErasedTo
      <4> QED BY <4>3, BlankNotBootable
    <3>2. CASE EraseDone \/ Write
      <4>1. efu_srv'.write_addr = wa /\ efu_srv'.state \in {"WRITING", "WAIT_FOR_CRC"} /\ pc' # "erase"
        <5>1. CASE EraseDone
          BY <5>1 DEF EraseDone, IInv, Inv, Stage
        <5>2. CASE Write
          BY <5>2, WriteFields DEF IInv
        <5> QED BY <3>2, <5>1, <5>2
      <4>2. Stores(flash'[wa], session', efu_srv'.total_written)
        BY <4>1 DEF Content, WriteStage, CrcStage
      <4>3. session' \in SessionType /\ efu_srv'.total_written \in Nat
        BY DEF IInv, TypeOK, SrvType
      <4> QED BY <4>2, <4>3, StoresUpload
    <3> QED BY <1>1, <3>1, <3>2
  <2>3. ASSUME NEW s \in Slot PROVE Bootable(flash'[s]) => UploadIn(flash'[s])
    <3>1. CASE s = wa
      BY <2>2, <3>1
    <3>2. CASE s # wa
      <4>1. flash'[s] = flash[s]
        BY <2>1, <3>2
      <4> QED BY <4>1 DEF BootableIsUpload
    <3> QED BY <3>1, <3>2
  <2> QED BY <2>3 DEF BootableIsUpload
<1>2. CASE flash' = flash
  BY <1>2 DEF BootableIsUpload
<1>3. BootUpdate \/ PowerLoss => flash' = flash
  BY DEF BootUpdate, PowerLoss, BootInto
<1> QED BY <1>1, <1>2, <1>3, NextSplit

LEMMA WholeStep ==
  ASSUME IInv, Content, WholeTillPowerLoss, [Next]_vars
  PROVE  WholeTillPowerLoss'
<1>1. CASE EraseSome \/ EraseDone \/ Write
  BY <1>1, FlashSpared, FlashWritten DEF WholeTillPowerLoss, RunsWholeImage
<1>2. CASE UNCHANGED <<flash, running, crashes>>
  BY <1>2 DEF WholeTillPowerLoss, RunsWholeImage
<1>3. CASE BootUpdate
  BY <1>3, CommitIsWhole DEF WholeTillPowerLoss, RunsWholeImage
<1>4. CASE PowerLoss
  <2>1. crashes' # 0
    BY <1>4 DEF PowerLoss, IInv, TypeOK
  <2> QED BY <2>1 DEF WholeTillPowerLoss
<1> QED BY <1>1, <1>2, <1>3, <1>4, NextSplit

LEMMA UploadInvariance ==
  ASSUME WholePages
  PROVE  Spec => [](IInv /\ Content /\ BootableIsUpload /\ WholeTillPowerLoss)
<1>1. Init => BootableIsUpload /\ WholeTillPowerLoss
  <2> SUFFICES ASSUME Init PROVE BootableIsUpload /\ WholeTillPowerLoss
    OBVIOUS
  <2>1. flash["A"] = Factory0 /\ flash["B"] = ErasedTo(Factory0, PartSize) /\ running = "A"
    BY DEF Init, Slot
  <2>2. ~Bootable(flash["B"])
    <3>1. 1 \in 1..PartSize
      BY SizesAssumption
    <3>2. flash["B"][1] = Blank
      BY <2>1, <3>1 DEF ErasedTo
    <3> QED BY <3>2, BlankNotBootable
  <2> QED BY <2>1, <2>2, FactoryIsWhole DEF BootableIsUpload, WholeTillPowerLoss, RunsWholeImage, Slot
<1>2. IInv /\ Content /\ BootableIsUpload /\ WholeTillPowerLoss /\ [Next]_vars /\ (IInv /\ Content)'
        => (BootableIsUpload /\ WholeTillPowerLoss)'
  BY UploadStep, WholeStep
<1> QED BY <1>1, <1>2, ContentInvariance, PTL DEF Spec

\* Wherever a stream is damaged and whenever the power fails, what runs is one
\* image that was sent to its end, damaged between its ends at worst; and it is
\* whole as long as no power failure let the boot ROM choose the slot.
THEOREM AlwaysOneImage == ASSUME WholePages PROVE Spec => []RunsOneImage
<1>1. IInv /\ BootableIsUpload /\ WholeTillPowerLoss => RunsOneImage
  BY DEF IInv, Inv, TypeOK, RunningBoots, BootableIsUpload, WholeTillPowerLoss, RunsOneImage
<1> QED BY <1>1, UploadInvariance, PTL

\* HeldBy tells whole images, what only looks bootable, and the rest apart.
LEMMA HeldByContent ==
  ASSUME NEW c
  PROVE  /\ HeldBy(c) \in Ota!Content
         /\ WholeIn(c) => HeldBy(c) \in Image
         /\ Bootable(c) => HeldBy(c) # Blank
<1>1. CASE WholeIn(c)
  <2>1. HeldBy(c) = CHOOSE i \in Image : SizeOf[i] > 0 /\ Holds(c, i)
    BY <1>1 DEF HeldBy
  <2>2. HeldBy(c) \in Image
    BY <1>1, <2>1 DEF WholeIn
  <2> QED BY <2>2, SizesAssumption DEF Ota!Content
<1>2. CASE ~WholeIn(c)
  BY <1>2, SizesAssumption DEF HeldBy, Ota!Content
<1> QED BY <1>1, <1>2

\* The server implements the fail-safe update of OtaUpdate, for streams damaged
\* anywhere: erasing, programming and broken transfers are rewrites of the slot
\* that does not run, a commit changes over to a whole image, and only a
\* power-up may choose a slot that merely looks bootable.
THEOREM ImplementsOtaUpdate == ASSUME WholePages PROVE Spec => FailSafeUpdate
<1> DEFINE held == [s \in Slot |-> HeldBy(flash[s])]
<1>1. Init => Ota!Init
  <2> SUFFICES ASSUME Init PROVE Ota!Init
    OBVIOUS
  <2>1. running \in Slot /\ flash[running] = Factory0 /\ crashes = 0
    BY DEF Init, Slot
  <2>2. held \in [Slot -> Ota!Content] /\ held[running] \in Image
    BY <2>1, FactoryIsWhole, HeldByContent
  <2> QED BY <2>1, <2>2 DEF Ota!Init
<1>2. ASSUME IInv, Content, [Next]_vars PROVE [Ota!Next]_(Ota!otaVars)
  <2>1. CASE EraseSome \/ EraseDone \/ Write
    <3> DEFINE wa == efu_srv.write_addr
    <3>1. /\ wa \in Slot /\ wa # running /\ flash \in [Slot -> [1..PartSize -> Unit]]
          /\ flash' = [flash EXCEPT ![wa] = flash'[wa]]
          /\ UNCHANGED <<running, crashes>>
      BY <1>2, <2>1, FlashWritten
    <3> HIDE DEF wa
    <3>2. held' = [held EXCEPT ![wa] = HeldBy(flash'[wa])]
      BY <3>1
    <3>3. Ota!Rewrite(wa)
      BY <3>1, <3>2, HeldByContent DEF Ota!Rewrite
    <3> QED BY <3>1, <3>3 DEF Ota!Next
  <2>2. CASE UNCHANGED <<flash, running, crashes>>
    BY <2>2 DEF Ota!otaVars
  <2>3. CASE BootUpdate
    <3> DEFINE wa == efu_srv.write_addr
    <3>1. /\ wa \in Slot /\ UNCHANGED <<flash, crashes>>
          /\ running' = running \/ (running' = wa /\ WholeIn(flash[wa]))
      BY <1>2, <2>3, CommitIsWhole
    <3> HIDE DEF wa
    <3>2. CASE running' = running
      BY <3>1, <3>2 DEF Ota!otaVars
    <3>3. CASE running' = wa /\ WholeIn(flash[wa])
      <4>1. held[wa] \in Image
        BY <3>1, <3>3, HeldByContent
      <4>2. Ota!ChangeOver(wa)
        BY <3>1, <3>3, <4>1 DEF Ota!ChangeOver
      <4> QED BY <3>1, <4>2 DEF Ota!Next
    <3> QED BY <3>1, <3>2, <3>3
  <2>4. CASE PowerLoss
    <3>1. PICK s \in Slot : Bootable(flash[s]) /\ running' = s /\ flash' = flash
      BY <2>4 DEF PowerLoss, BootInto
    <3>2. held[s] # Blank /\ crashes' = crashes + 1
      BY <2>4, <3>1, HeldByContent DEF PowerLoss
    <3>3. Ota!PowerUp(s)
      BY <3>1, <3>2 DEF Ota!PowerUp
    <3> QED BY <3>3 DEF Ota!Next
  <2> QED BY <1>2, <2>1, <2>2, <2>3, <2>4, NextSplit
<1>3. IInv /\ Content /\ [Next]_vars => [Ota!Next]_(Ota!otaVars)
  BY <1>2
<1> QED BY <1>1, <1>3, ContentInvariance, PTL DEF Spec, FailSafeUpdate, Ota!Spec
===============================================================================
