------------------------------ MODULE DbgClient ------------------------------
(***************************************************************************)
(* The UDP debug server (common/network/dbg_api.c).  Whoever wrote to it   *)
(* last gets a copy of every sensor frame, until DBG_CLIENT_TIMEOUT_MS     *)
(* have passed since; there is no other way to leave.  dbg_server_poll     *)
(* reads one datagram per pass of the main loop, at most                   *)
(* dbg_buf_size - 1 bytes of it.                                           *)
(*                                                                         *)
(* The chip's buffer is a stream of headers and data.  recvfrom of the     *)
(* W6100 expects a header wherever the last call stopped, so what is left  *)
(* of a longer datagram is taken for headers from then on.                 *)
(***************************************************************************)
EXTENDS Integers, Sequences

CONSTANTS
  Client,       \* hosts that may write to the debug port
  Nobody,       \* no address
  Garbage,      \* an address read from what was no header
  timeout,      \* DBG_CLIENT_TIMEOUT_MS, in reporting periods of the sensor
  MaxQueued     \* bound on the datagrams in the chip's buffer

VARIABLES
  rx,         \* datagrams in the chip's buffer, as long as their headers are found:
              \* from whom, and too long for one read?
  synced,     \* the next byte to read is the first of a header
  client,     \* dbg_client_ip, dbg_client_port
  valid,      \* dbg_client_valid
  seen,       \* periods since dbg_client_last_seen
  last, since \* who wrote last, and how many periods ago

dbgVars == <<rx, synced, client, valid, seen, last, since>>

DbgInit ==
  /\ rx = <<>> /\ synced = TRUE
  /\ client = Nobody /\ valid = FALSE /\ seen = 0
  /\ last = Nobody /\ since = 0

\* How long beyond the timeout makes no difference.
Older(n) == IF n > timeout THEN n ELSE n + 1

\* Slip: a client that is served is not replaced.
Registered_First(c) ==
  IF valid THEN UNCHANGED <<client, valid, seen>>
  ELSE client' = c /\ valid' = TRUE /\ seen' = 0

Registered(c) == client' = c /\ valid' = TRUE /\ seen' = 0

\* dbg_server_poll takes the next datagram.
PollDatagram ==
  /\ synced /\ rx # <<>>
  /\ synced' = ~Head(rx).long
  /\ rx' = IF synced' THEN Tail(rx) ELSE <<>>
  /\ Registered(Head(rx).from)
  /\ UNCHANGED <<last, since>>

\* It takes what is left of one for a header, an address, a length and data.
PollRest ==
  /\ ~synced
  /\ \E c \in Client \union {Garbage} : Registered(c)
  /\ UNCHANGED <<rx, synced, last, since>>

\* Slip: a client once registered is served for good.
TimedOut_Never == FALSE
TimedOut == seen > timeout

\* To whom a frame goes.
Served == IF valid THEN client ELSE Nobody

\* dbg_send_sensor_data: dbg_check_timeout, then the frame goes to Served'.
SendSensorData ==
  /\ valid' = (valid /\ ~TimedOut)
  /\ UNCHANGED <<rx, synced, client, seen, last, since>>

\* A datagram arrives.
Write(c, long) ==
  /\ Len(rx) < MaxQueued
  /\ rx' = IF synced THEN Append(rx, [from |-> c, long |-> long]) ELSE rx
  /\ last' = c /\ since' = 0
  /\ UNCHANGED <<synced, client, valid, seen>>

\* A period passes; the main loop reads what has arrived in far less.
Period ==
  /\ rx = <<>>
  /\ seen' = Older(seen) /\ since' = Older(since)
  /\ UNCHANGED <<rx, synced, client, valid, last>>

DbgNext ==
  \/ PollDatagram \/ PollRest \/ SendSensorData \/ Period
  \/ \E c \in Client, long \in BOOLEAN : Write(c, long)

DbgSpec == DbgInit /\ [][DbgNext]_dbgVars

DbgType ==
  /\ rx \in Seq([from: Client, long: BOOLEAN]) /\ Len(rx) <= MaxQueued
  /\ synced \in BOOLEAN /\ valid \in BOOLEAN
  /\ client \in Client \union {Nobody, Garbage}
  /\ last \in Client \union {Nobody}
  /\ seen \in 0 .. timeout + 1 /\ since \in 0 .. timeout + 1
=============================================================================
