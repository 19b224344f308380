------------------------------- MODULE TcpCli -------------------------------
(***************************************************************************)
(* The command line service (common/network/network.c, tcp_cli_service):   *)
(* one TCP socket of the W6100, polled by the main loop, with one client   *)
(* at a time.  What a line says is up to Telnet; here a line is counted.   *)
(*                                                                         *)
(* The service reads the status, then the number of waiting bytes, then    *)
(* acts on it: the client and the network move in between.  disconnect()   *)
(* holds the main loop until the peer has answered the FIN or the chip has *)
(* given up on it.                                                         *)
(***************************************************************************)
EXTENDS Naturals

CONSTANTS
  CliTimeout,  \* cli_timeout_ms, in ticks of the clock
  BufLines,    \* whole lines that fit cli_buf_size - 1 bytes
  MaxLines     \* bound on the lines a client has waiting

VARIABLES
  pc,      \* where the main loop is
  sock,    \* status and CON interrupt of the socket
  rx,      \* lines received and not read
  idle,    \* ticks since last_rx_time
  client,  \* does it wait for the prompt before each line? is it waiting?
  silent   \* history: ticks since the client connected or sent a line

cli == <<pc, sock, rx, idle, client, silent>>
device == <<pc, idle>>

NoSock == [sr |-> "CLOSED", con |-> FALSE]
Nobody == [patient |-> FALSE, waits |-> FALSE]

\* last_rx_time is 0 at power-up: long ago.
CliInit ==
  /\ pc = "cli" /\ sock = NoSock /\ rx = 0
  /\ idle = CliTimeout /\ client = Nobody /\ silent = CliTimeout

CliReset ==
  /\ pc' = "cli" /\ sock' = NoSock /\ rx' = 0
  /\ idle' = CliTimeout /\ client' = Nobody /\ silent' = CliTimeout

Status(sr) == sock' = [sock EXCEPT !.sr = sr]
Established == sock.sr = "ESTABLISHED"

-----------------------------------------------------------------------------
(* tcp_cli_service. *)

\* case SOCK_CLOSED: socket() refuses to open TCP without an address.
OpenCli(address) ==
  /\ pc = "cli" /\ sock.sr = "CLOSED" /\ pc' = "pwm"
  /\ IF address THEN sock' = [sr |-> "INIT", con |-> FALSE] /\ rx' = 0
                 ELSE UNCHANGED <<sock, rx>>
  /\ UNCHANGED <<idle, client, silent>>

\* case SOCK_INIT: listen() closes the socket again if the chip has left
\* SOCK_LISTEN when the status is read.
Listen ==
  /\ pc = "cli" /\ sock.sr = "INIT" /\ pc' = "pwm"
  /\ Status("LISTEN")
  /\ UNCHANGED <<rx, idle, client, silent>>

ListenMissed ==
  /\ pc = "cli" /\ sock.sr = "INIT" /\ pc' = "pwm"
  /\ sock' = NoSock
  /\ UNCHANGED <<rx, idle, client, silent>>

NoBusiness ==
  /\ pc = "cli" /\ sock.sr = "LISTEN" /\ pc' = "pwm"
  /\ UNCHANGED <<sock, rx, idle, client, silent>>

\* DISCON: the socket waits for the answer to its FIN.  (FIN_WAIT_1, before the
\* acknowledgement, and FIN_WAIT_2, after it, are both SOCK_FIN_WAIT to the code.)
SendFin ==
  sock' = [sock EXCEPT !.sr = IF @ = "ESTABLISHED" THEN "FIN_WAIT_1"
                              ELSE IF @ = "CLOSE_WAIT" THEN "LAST_ACK" ELSE @]

\* case SOCK_CLOSE_WAIT: what the client sent before its FIN is not read.
CloseWait ==
  /\ pc = "cli" /\ sock.sr = "CLOSE_WAIT" /\ pc' = "disconnect"
  /\ SendFin
  /\ UNCHANGED <<rx, idle, client, silent>>

\* Slip: cli_send, without the prompt.
Prompted_Not(c) == c
Prompted(c) == [c EXCEPT !.waits = FALSE]

\* Slip: the timer keeps running from the session before.
IdleAtConnect_Kept == idle
IdleAtConnect == 0

\* case SOCK_ESTABLISHED: a new connection restarts the timer and is greeted.
Greet ==
  /\ pc = "cli" /\ Established /\ pc' = "data"
  /\ IF sock.con
     THEN /\ idle' = IdleAtConnect
          /\ client' = Prompted(client)
     ELSE UNCHANGED <<idle, client>>
  /\ sock' = [sock EXCEPT !.con = FALSE]
  /\ UNCHANGED <<rx, silent>>

\* recv() takes as much as the buffer holds; the first line is the command, the
\* others are lost.  One that was cut stays behind, to be read as another line.
ReceiveLine ==
  /\ pc = "data" /\ rx > 0 /\ sock.sr \in {"ESTABLISHED", "CLOSE_WAIT"}
  /\ rx' = IF rx > BufLines THEN rx - BufLines ELSE 0
  /\ idle' = 0 /\ pc' = "command"
  /\ UNCHANGED <<sock, client, silent>>

\* recv() closes a socket that has been lost since the status was read.
ReceiveFails ==
  /\ pc = "data" /\ rx > 0 /\ sock.sr = "CLOSED" /\ pc' = "pwm"
  /\ sock' = NoSock /\ rx' = 0
  /\ UNCHANGED <<idle, client, silent>>

\* Slip: nobody is ever sent away.
TimedOut_Never == FALSE
TimedOut == idle >= CliTimeout

NothingSent ==
  /\ pc = "data" /\ rx = 0
  /\ pc' = IF TimedOut THEN "evict" ELSE "pwm"
  /\ UNCHANGED <<sock, rx, idle, client, silent>>

\* "timeout", then disconnect(), whatever has come since the bytes were counted.
Evict ==
  /\ pc = "evict" /\ pc' = "disconnect"
  /\ SendFin
  /\ UNCHANGED <<rx, idle, client, silent>>

\* The end of disconnect().
Disconnected ==
  /\ pc = "disconnect" /\ sock.sr = "CLOSED" /\ pc' = "pwm"
  /\ rx' = 0
  /\ UNCHANGED <<sock, idle, client, silent>>

\* The end of a command: cli_flush sends the reply and the prompt.
Replied ==
  /\ pc = "command" /\ pc' = "pwm"
  /\ client' = Prompted(client)
  /\ UNCHANGED <<sock, rx, idle, silent>>

\* A command that sends neither reply nor prompt: the client has to go on without.
Unanswered ==
  /\ pc = "command" /\ pc' = "pwm"
  /\ client' = [client EXCEPT !.patient = FALSE]
  /\ UNCHANGED <<sock, rx, idle, silent>>

\* The exit command.
Exit ==
  /\ pc = "command" /\ pc' = "disconnect"
  /\ SendFin
  /\ UNCHANGED <<rx, idle, client, silent>>

\* pwm_api_poll has run: the next pass.
NextPass == pc = "pwm" /\ pc' = "cli" /\ UNCHANGED <<sock, rx, idle, client, silent>>

-----------------------------------------------------------------------------
(* The client, the network and the clock. *)

Connect ==
  /\ sock.sr = "LISTEN"
  /\ sock' = [sr |-> "ESTABLISHED", con |-> TRUE]
  /\ rx' = 0 /\ silent' = 0
  /\ \E p \in BOOLEAN : client' = [patient |-> p, waits |-> TRUE]
  /\ UNCHANGED device

SendLine ==
  /\ Established /\ rx < MaxLines
  /\ client.patient => ~client.waits
  /\ rx' = rx + 1 /\ silent' = 0
  /\ client' = [client EXCEPT !.waits = TRUE]
  /\ UNCHANGED <<pc, sock, idle>>

ClientCloses ==
  /\ Established /\ Status("CLOSE_WAIT")
  /\ UNCHANGED <<pc, rx, idle, client, silent>>

\* A reset, or the chip's retransmissions ran out.
ConnectionLost ==
  /\ sock.sr \in {"ESTABLISHED", "CLOSE_WAIT"} /\ Status("CLOSED")
  /\ UNCHANGED <<pc, rx, idle, client, silent>>

FinAcknowledged ==
  /\ sock.sr = "FIN_WAIT_1" /\ Status("FIN_WAIT_2")
  /\ UNCHANGED <<pc, rx, idle, client, silent>>

\* The peer has closed as well, or Sn_IR_TIMEOUT says that it does not answer.
FinAnswered ==
  /\ sock.sr \in {"FIN_WAIT_1", "FIN_WAIT_2", "LAST_ACK"} /\ Status("CLOSED")
  /\ UNCHANGED <<pc, rx, idle, client, silent>>

Later(t) == IF t < CliTimeout THEN t + 1 ELSE t

Tick ==
  /\ idle < CliTimeout \/ silent < CliTimeout
  /\ idle' = Later(idle) /\ silent' = Later(silent)
  /\ UNCHANGED <<pc, sock, rx, client>>

-----------------------------------------------------------------------------

Service(address) ==
  \/ OpenCli(address) \/ Listen \/ ListenMissed \/ NoBusiness \/ CloseWait
  \/ Greet \/ ReceiveLine \/ ReceiveFails \/ NothingSent \/ Evict \/ Disconnected
World == Connect \/ SendLine \/ ClientCloses \/ ConnectionLost \/ FinAcknowledged \/ FinAnswered \/ Tick

CliNext ==
  \/ \E address \in BOOLEAN : Service(address)
  \/ Replied \/ Unanswered \/ Exit \/ NextPass \/ World \/ CliReset

CliSpec == CliInit /\ [][CliNext]_cli

CliType ==
  /\ pc \in {"cli", "data", "evict", "disconnect", "command", "pwm"}
  /\ sock \in [sr: {"CLOSED", "INIT", "LISTEN", "ESTABLISHED", "CLOSE_WAIT",
                    "FIN_WAIT_1", "FIN_WAIT_2", "LAST_ACK"}, con: BOOLEAN]
  /\ rx \in 0..MaxLines
  /\ idle \in 0..CliTimeout /\ silent \in 0..CliTimeout
  /\ client \in [patient: BOOLEAN, waits: BOOLEAN]
=============================================================================
