------------------------------- MODULE Telnet -------------------------------
(***************************************************************************)
(* The kitchen board seen from its telnet port (kitchen_pwm/telnet.c,      *)
(* main.c): the command line service (TcpCli) hands a line to              *)
(* handle_command, which edits and saves the configuration (FlashConfig)   *)
(* or sets the light (PwmLight); after the services the main loop polls    *)
(* the light.  The address the board came up with decides whether the      *)
(* service can open its socket at all.                                     *)
(***************************************************************************)
EXTENDS FlashConfig

CONSTANTS
  ZeroIp,                         \* 0.0.0.0
  CliTimeout, BufLines, MaxLines,
  Level, NoLevel, Gamma, Freq, Reachable

ASSUME TelnetAssumption ==
  /\ "ip" \in Field
  /\ {CliTimeout, BufLines, MaxLines} \subseteq Nat \ {0}
  /\ Level \subseteq Nat /\ 0 \in Level /\ NoLevel \notin Level
  /\ Gamma \in [Level -> Nat] /\ Gamma[0] = 0
  /\ Reachable \subseteq Freq

VARIABLES
  pc, sock, rx, idle, client, silent,                 \* TcpCli
  s_target, s_current, last_target, duty, blanked     \* PwmLight

Cli   == INSTANCE TcpCli
Light == INSTANCE PwmLight

cli   == <<pc, sock, rx, idle, client, silent>>
light == <<s_target, s_current, last_target, duty, blanked>>
telnet_vars == <<vars, cli, light>>

TelnetInit == Init /\ Cli!CliInit /\ Light!LightInit

\* wizchip_custom_init takes the address from the current configuration.
HasAddress == gen_cfg[0].net["ip"] # ZeroIp

Running == at = "loop"
Handling == pc = "command" /\ Running

-----------------------------------------------------------------------------
(* main: initialisation, then the loop. *)

Start == ConfigInit /\ UNCHANGED <<cli, light>>

CliService == Running /\ Cli!Service(HasAddress) /\ UNCHANGED <<vars, light>>

PollLight == Running /\ Light!LightPoll /\ Cli!NextPass /\ UNCHANGED vars

-----------------------------------------------------------------------------
(* handle_command. *)

\* config ip, sn, gw, dns, clean and default: a reply, and an edit of the copy.
Edit ==
  /\ \/ \E f \in Field, a \in Addr : SetField(f, a)
     \/ ConfigRecovery \/ ConfigDefault
  /\ Handling /\ Cli!Replied /\ UNCHANGED light

\* config save, which erases and programs the sector before it replies.
Save == ConfigSave /\ Handling /\ UNCHANGED <<cli, light>>
SaveErases == EraseSector /\ UNCHANGED <<cli, light>>
SaveProgramsAndReplies == ProgramSector /\ Cli!Replied /\ UNCHANGED light

Led == Handling /\ (\E w \in Level : Light!LedSet(w)) /\ Cli!Replied /\ UNCHANGED vars
FreqCommand == Handling /\ (\E f \in Freq : Light!Reconfigure(f)) /\ Cli!Replied /\ UNCHANGED vars

\* help, info, show, ..., and lines that are no command.
Other == Handling /\ Cli!Replied /\ UNCHANGED <<vars, light>>
\* `vl53 spi` and `vl53 raw`: without VL53_SPI their branches are empty.
NoReply == Handling /\ Cli!Unanswered /\ UNCHANGED <<vars, light>>
ExitCommand == Handling /\ Cli!Exit /\ UNCHANGED <<vars, light>>

-----------------------------------------------------------------------------

World == at # "off" /\ Cli!World /\ UNCHANGED <<vars, light>>

PowerFails == PowerLoss /\ Cli!CliReset /\ Light!LightReset

Loop ==
  \/ CliService \/ PollLight
  \/ Edit \/ Save \/ SaveErases \/ SaveProgramsAndReplies
  \/ Led \/ FreqCommand \/ Other \/ NoReply \/ ExitCommand

TelnetNext == Start \/ Loop \/ World \/ PowerFails

TelnetSpec == TelnetInit /\ [][TelnetNext]_telnet_vars

\* The main loop runs; time passes; not every listen() is missed; the chip waits
\* for an acknowledgement only so long.  Of the peer nothing is assumed, not even
\* that it closes once it has acknowledged the board's FIN.
TelnetFair ==
  /\ TelnetSpec
  /\ WF_telnet_vars(Loop)
  /\ SF_telnet_vars(Running /\ Cli!Listen /\ UNCHANGED <<vars, light>>)
  /\ WF_telnet_vars(at # "off" /\ Cli!Tick /\ UNCHANGED <<vars, light>>)
  /\ WF_telnet_vars(/\ at # "off" /\ sock.sr \in {"FIN_WAIT_1", "LAST_ACK"}
                    /\ Cli!FinAcknowledged \/ Cli!FinAnswered
                    /\ UNCHANGED <<vars, light>>)

-----------------------------------------------------------------------------
(* Properties.  Those of FlashConfig hold of the board as a whole. *)

\* Every variable has its type, and while the sector is written the main loop
\* is nowhere but in the command that saves.
TelnetTypeOK ==
  /\ TypeOK /\ Cli!CliType /\ Light!LightType
  /\ at \in {"erase", "program"} => pc = "command"

\* The service decides to send a client away only if that client has neither
\* connected nor sent a line for the whole timeout, whatever an earlier session
\* left in last_rx_time and however late the main loop is.
EvictsOnlyIdle ==
  [][pc' = "evict" /\ pc # "evict" /\ sock.sr = "ESTABLISHED" => silent = CliTimeout]_telnet_vars

\* A client that waits for the prompt before it sends a line never waits in vain
\* while its connection stands: a greeting or a line of it is still to be served,
\* unless it sent one of the two commands that have no prompt.
PatientIsHeard ==
  client.patient /\ client.waits /\ sock.sr = "ESTABLISHED" =>
    sock.con \/ rx > 0 \/ pc = "command"

\* disconnect() waits for a peer that has acknowledged the FIN and does not close:
\* nothing in the loop of socket.c ends that, and the whole board waits with it.
HeldByPeer == pc = "disconnect" /\ sock.sr = "FIN_WAIT_2"

\* Short of that the port is never held by a client that has gone or that says
\* nothing: the board listens again, unless it came up with the address 0.0.0.0,
\* which `config ip` takes, or the client speaks up.
Unreachable == at = "off" \/ gen_cfg[0].net["ip"] = ZeroIp
PortIsFreed ==
  \/ <>[]HeldByPeer
  \/ (sock.sr = "ESTABLISHED" => silent = CliTimeout) ~>
       (sock.sr = "LISTEN" \/ Unreachable \/ (sock.sr = "ESTABLISHED" /\ silent = 0))

\* After each pass of the main loop the slice drives what `pwm status` reports as
\* current, unless `freq` has initialised the channels since it was written.
LightIsCurrent ==
  Running /\ pc = "cli" => blanked \/ duty = Gamma[s_current]
=============================================================================
