----------------------------- MODULE RadarFeed ------------------------------
(***************************************************************************)
(* What one radar frame does (rd03d_api_poll of kitchen_pwm/rd03d_api.c):  *)
(* a copy of it goes to the debug client, if there is one, and it updates  *)
(* the tracks.  Between frames the main loop reads the debug port.         *)
(***************************************************************************)
EXTENDS Rd03dTracks, Sequences

CONSTANTS Client, Nobody, Garbage, timeout, MaxQueued

VARIABLES rx, synced, client, valid, seen, last, since

Dbg == INSTANCE DbgClient

feedVars == <<vars, Dbg!dbgVars>>

ASSUME FeedAssumption ==
  /\ Nobody \notin Client /\ Garbage \notin Client /\ Garbage # Nobody
  /\ timeout \in Nat /\ MaxQueued \in Nat

FeedInit == Init /\ Dbg!DbgInit

\* rd03d_api_poll: the copy is sent before the tracks are updated.
FeedFrame(d) == Dbg!SendSensorData /\ Frame(d)

\* A period without a frame: the timeout of the debug client is not looked at.
FeedQuiet == Dbg!Period /\ Quiet

PollDebug == (Dbg!PollDatagram \/ Dbg!PollRest) /\ UNCHANGED vars

HostWrites(c, long) == Dbg!Write(c, long) /\ UNCHANGED vars

FeedNext ==
  \/ FeedQuiet \/ PollDebug
  \/ \E d \in Scene : FeedFrame(d)
  \/ \E c \in Client, long \in BOOLEAN : HostWrites(c, long)

FeedSpec == FeedInit /\ [][FeedNext]_feedVars

\* The main loop polls the port, faster than hosts write to it in the long run,
\* and the sensor keeps reporting.
FeedFair ==
  /\ FeedSpec
  /\ []<>(rx = <<>>)
  /\ SF_feedVars(FeedQuiet)
  /\ WF_feedVars(PollDebug)
  /\ WF_feedVars(\E d \in Scene : FeedFrame(d))

-----------------------------------------------------------------------------
(* Properties. *)

FeedTypeOK == TypeOK /\ Dbg!DbgType

\* While every datagram fits into the buffer, and those that came are read, a
\* frame goes to the host that wrote last, for as long as the timeout says from
\* that datagram on and whoever was served before it; to nobody else, ever.
FeedsLastWriter ==
  [][gap > 0 /\ gap' = 0 /\ synced /\ rx = <<>> =>
       Dbg!Served' = IF since <= timeout THEN last ELSE Nobody]_feedVars

\* Hosts that went silent are forgotten, although only a frame looks at the
\* timeout.
SilentIsForgotten == <>[](synced /\ since > timeout) => <>[]~valid
=============================================================================
