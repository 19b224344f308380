---------------------------- MODULE Telnet_proofs ----------------------------
(***************************************************************************)
(* Proofs about the kitchen board as its telnet port shows it, for any     *)
(* timeout, buffer, configuration and light.  A step of the board is a     *)
(* step of each of its parts, or leaves the part alone; so what was proved *)
(* of the configuration by itself holds of the board.                      *)
(***************************************************************************)
EXTENDS Telnet, FlashConfig_proofs

\* Cli!Service with an address known, or with none.
LEMMA ServiceIsCli ==
  ASSUME NEW address \in BOOLEAN, Cli!Service(address)
  PROVE  Cli!CliNext
BY DEF Cli!CliNext

LEMMA LoopStep ==
  ASSUME Loop
  PROVE  /\ [Next]_vars
         /\ Cli!CliNext \/ UNCHANGED cli
         /\ Light!LightNext \/ UNCHANGED light
<1>1. CASE CliService
  <2>1. HasAddress \in BOOLEAN
    BY DEF HasAddress
  <2> QED BY <1>1, <2>1, ServiceIsCli DEF CliService
<1>2. CASE PollLight
  BY <1>2 DEF PollLight, Light!LightNext, Cli!CliNext
<1>3. CASE Edit
  BY <1>3 DEF Edit, Next, Cli!CliNext
<1>4. CASE Save
  BY <1>4 DEF Save, Next
<1>5. CASE SaveErases
  BY <1>5 DEF SaveErases, Next
<1>6. CASE SaveProgramsAndReplies
  BY <1>6 DEF SaveProgramsAndReplies, Next, Cli!CliNext
<1>7. CASE Led
  BY <1>7 DEF Led, Light!LightNext, Cli!CliNext
<1>8. CASE FreqCommand
  BY <1>8 DEF FreqCommand, Light!LightNext, Cli!CliNext
<1>9. CASE Other \/ NoReply \/ ExitCommand
  BY <1>9 DEF Other, NoReply, ExitCommand, Cli!CliNext
<1> QED BY <1>1, <1>2, <1>3, <1>4, <1>5, <1>6, <1>7, <1>8, <1>9 DEF Loop

\* Every step of the board, seen from each of its parts.
LEMMA PartsStep ==
  ASSUME [TelnetNext]_telnet_vars
  PROVE  /\ [Next]_vars
         /\ [Cli!CliNext]_cli
         /\ [Light!LightNext]_light
<1>1. CASE Start
  BY <1>1 DEF Start, Next
<1>2. CASE Loop
  BY <1>2, LoopStep
<1>3. CASE World
  BY <1>3 DEF World, Cli!CliNext
<1>4. CASE PowerFails
  BY <1>4 DEF PowerFails, Next, Cli!CliNext, Light!LightNext
<1>5. CASE UNCHANGED telnet_vars
  BY <1>5 DEF telnet_vars
<1> QED BY <1>1, <1>2, <1>3, <1>4, <1>5 DEF TelnetNext

\* The board implements each of its parts: none of them takes a step that the
\* part by itself could not take.
THEOREM PartsImplemented == TelnetSpec => Spec /\ Cli!CliSpec /\ Light!LightSpec
<1>1. TelnetInit => Init /\ Cli!CliInit /\ Light!LightInit
  BY DEF TelnetInit
<1>2. [TelnetNext]_telnet_vars =>
        [Next]_vars /\ [Cli!CliNext]_Cli!cli /\ [Light!LightNext]_Light!light
  BY PartsStep DEF cli, light, Cli!cli, Light!light
<1> QED BY <1>1, <1>2, PTL DEF TelnetSpec, Spec, Cli!CliSpec, Light!LightSpec

\* No session, light command or power failure gives up the board's own MAC.
THEOREM BoardMacStaysUnique == TelnetSpec => []UniqueMac
BY PartsImplemented, MacStaysUnique, PTL

\* Where the flash can be read, sessions that edit, save and leave implement the
\* abstract store: what a session saved is what later starts run.
THEOREM SessionsKeepConfiguration ==
  ASSUME Readable = {TRUE}
  PROVE  TelnetSpec => KeepsConfiguration
BY PartsImplemented, ConfigurationKept, PTL

-----------------------------------------------------------------------------
(* Types. *)

LEMMA CliTypeInit == Cli!CliInit => Cli!CliType
BY TelnetAssumption DEF Cli!CliInit, Cli!CliType, Cli!NoSock, Cli!Nobody

Statuses == {"CLOSED", "INIT", "LISTEN", "ESTABLISHED", "CLOSE_WAIT",
             "FIN_WAIT_1", "FIN_WAIT_2", "LAST_ACK"}
Sockets == [sr: Statuses, con: BOOLEAN]
Clients == [patient: BOOLEAN, waits: BOOLEAN]

LEMMA CliBounds == CliTimeout \in Nat \ {0} /\ MaxLines \in Nat \ {0}
BY TelnetAssumption

LEMMA NoSockIsSocket == Cli!NoSock \in Sockets
BY DEF Cli!NoSock, Sockets, Statuses

LEMMA SetStatus ==
  ASSUME NEW s \in Sockets, NEW sr \in Statuses
  PROVE  [s EXCEPT !.sr = sr] \in Sockets
BY DEF Sockets

LEMMA SetWaits ==
  ASSUME NEW c \in Clients, NEW b \in BOOLEAN
  PROVE  [c EXCEPT !.waits = b] \in Clients
BY DEF Clients

\* DISCON leads to one of the statuses.
LEMMA FinKeepsSocket ==
  ASSUME sock \in Sockets, Cli!SendFin
  PROVE  sock' \in Sockets
<1> DEFINE s == IF sock.sr = "ESTABLISHED" THEN "FIN_WAIT_1"
                ELSE IF sock.sr = "CLOSE_WAIT" THEN "LAST_ACK" ELSE sock.sr
<1>1. s \in Statuses
  BY DEF Sockets, Statuses
<1>2. sock' = [sock EXCEPT !.sr = s]
  BY DEF Cli!SendFin
<1> HIDE DEF s
<1> QED BY <1>1, <1>2, SetStatus

CliParts ==
  /\ pc \in {"cli", "data", "evict", "disconnect", "command", "pwm"}
  /\ sock \in Sockets /\ client \in Clients
  /\ rx \in 0..MaxLines /\ idle \in 0..CliTimeout /\ silent \in 0..CliTimeout

LEMMA CliTypeParts == (Cli!CliType <=> CliParts) /\ (Cli!CliType' <=> CliParts')
BY DEF CliParts, Cli!CliType, Sockets, Statuses, Clients

LEMMA ServiceKeepsType ==
  ASSUME Cli!CliType, NEW address \in BOOLEAN, Cli!Service(address)
  PROVE  Cli!CliType'
<1> USE TelnetAssumption, CliTypeParts DEF CliParts
<1>1. CASE Cli!OpenCli(address)
  <2>1. [sr |-> "INIT", con |-> FALSE] \in Sockets
    BY DEF Sockets, Statuses
  <2>2. /\ pc' = "pwm" /\ UNCHANGED <<idle, client, silent>>
        /\ \/ sock' = [sr |-> "INIT", con |-> FALSE] /\ rx' = 0
           \/ UNCHANGED <<sock, rx>>
    BY ONLY <1>1, Zenon DEF Cli!OpenCli
  <2>3. sock \in Sockets /\ rx \in 0..MaxLines
    OBVIOUS
  <2>4. sock' \in Sockets
    BY ONLY <2>1, <2>2, <2>3, Zenon
  <2>5. rx' \in 0..MaxLines
    BY ONLY <2>2, <2>3, CliBounds
  <2> QED BY ONLY <2>2, <2>4, <2>5, CliTypeParts, Cli!CliType DEF CliParts
<1>2. CASE Cli!Listen
  <2>1. sock' \in Sockets
    BY <1>2, SetStatus DEF Cli!Listen, Cli!Status, Statuses
  <2> QED BY <1>2, <2>1 DEF Cli!Listen
<1>3. CASE Cli!ListenMissed \/ Cli!NoBusiness
  BY <1>3, NoSockIsSocket DEF Cli!ListenMissed, Cli!NoBusiness
<1>4. CASE Cli!CloseWait
  BY <1>4, FinKeepsSocket DEF Cli!CloseWait
<1>5. CASE Cli!Greet
  <2>1. sock' \in Sockets
    <3>1. sock' = [sock EXCEPT !.con = FALSE]
      BY ONLY <1>5 DEF Cli!Greet
    <3>2. sock \in Sockets
      OBVIOUS
    <3> QED BY ONLY <3>1, <3>2 DEF Sockets
  <2>2. client' \in Clients /\ idle' \in 0..CliTimeout
    <3>1. \/ idle' = 0 /\ client' = [client EXCEPT !.waits = FALSE]
          \/ UNCHANGED <<idle, client>>
      BY ONLY <1>5, Zenon DEF Cli!Greet, Cli!IdleAtConnect, Cli!Prompted
    <3>2. client \in Clients /\ idle \in 0..CliTimeout
      OBVIOUS
    <3>3. client' \in Clients
      BY ONLY <3>1, <3>2, SetWaits
    <3>4. idle' \in 0..CliTimeout
      BY ONLY <3>1, <3>2, CliBounds
    <3> QED BY <3>3, <3>4
  <2> QED BY <1>5, <2>1, <2>2 DEF Cli!Greet
<1>6. CASE Cli!ReceiveLine
  <2>1. rx' \in 0..MaxLines
    BY <1>6 DEF Cli!ReceiveLine
  <2> QED BY <1>6, <2>1 DEF Cli!ReceiveLine
<1>7. CASE Cli!ReceiveFails
  BY <1>7, NoSockIsSocket DEF Cli!ReceiveFails
<1>8. CASE Cli!NothingSent
  BY <1>8 DEF Cli!NothingSent
<1>9. CASE Cli!Evict
  BY <1>9, FinKeepsSocket DEF Cli!Evict
<1>10. CASE Cli!Disconnected
  BY <1>10 DEF Cli!Disconnected
<1> QED BY <1>1, <1>2, <1>3, <1>4, <1>5, <1>6, <1>7, <1>8, <1>9, <1>10 DEF Cli!Service

LEMMA WorldKeepsType ==
  ASSUME Cli!CliType, Cli!World
  PROVE  Cli!CliType'
<1> USE TelnetAssumption, CliTypeParts DEF CliParts
<1>1. CASE Cli!Connect
  BY <1>1 DEF Cli!Connect, Cli!device, Sockets, Statuses, Clients
<1>2. CASE Cli!SendLine
  <2>1. client' \in Clients
    BY <1>2, SetWaits DEF Cli!SendLine
  <2>2. rx' = rx + 1 /\ rx < MaxLines /\ silent' = 0 /\ UNCHANGED <<pc, sock, idle>>
    BY <1>2 DEF Cli!SendLine
  <2> QED BY <2>1, <2>2
<1>3. CASE Cli!ClientCloses \/ Cli!ConnectionLost \/ Cli!FinAcknowledged \/ Cli!FinAnswered
  <2>1. sock' \in Sockets /\ UNCHANGED <<pc, rx, idle, client, silent>>
    BY <1>3 DEF Cli!ClientCloses, Cli!ConnectionLost, Cli!FinAcknowledged,
                Cli!FinAnswered, Cli!Status, Sockets, Statuses
  <2> QED BY <2>1
<1>4. CASE Cli!Tick
  BY <1>4 DEF Cli!Tick, Cli!Later
<1> QED BY <1>1, <1>2, <1>3, <1>4 DEF Cli!World

LEMMA CliTypeNext == Cli!CliType /\ [Cli!CliNext]_cli => Cli!CliType'
<1> SUFFICES ASSUME Cli!CliType, [Cli!CliNext]_cli PROVE Cli!CliType'
  OBVIOUS
<1> USE TelnetAssumption, CliTypeParts DEF CliParts
<1>1. CASE \E address \in BOOLEAN : Cli!Service(address)
  BY <1>1, ServiceKeepsType
<1>2. CASE Cli!World
  BY <1>2, WorldKeepsType
<1>3. CASE Cli!Replied
  BY <1>3, SetWaits DEF Cli!Replied, Cli!Prompted
<1>4. CASE Cli!Unanswered
  BY <1>4 DEF Cli!Unanswered, Clients
<1>5. CASE Cli!NextPass
  BY <1>5 DEF Cli!NextPass
<1>6. CASE Cli!Exit
  BY <1>6, FinKeepsSocket DEF Cli!Exit
<1>7. CASE Cli!CliReset
  BY <1>7 DEF Cli!CliReset, Cli!NoSock, Cli!Nobody, Sockets, Statuses, Clients
<1>8. CASE UNCHANGED cli
  BY <1>8 DEF cli
<1> QED BY <1>1, <1>2, <1>3, <1>4, <1>5, <1>6, <1>7, <1>8 DEF Cli!CliNext

LEMMA LightTypeInit == Light!LightInit => Light!LightType
BY TelnetAssumption DEF Light!LightInit, Light!LightType

LEMMA LightTypeNext == Light!LightType /\ [Light!LightNext]_light => Light!LightType'
<1> USE TelnetAssumption DEF Light!LightType
<1> SUFFICES ASSUME Light!LightType, [Light!LightNext]_light PROVE Light!LightType'
  OBVIOUS
<1>1. ASSUME NEW w \in Level, Light!LedSet(w) PROVE Light!LightType'
  BY <1>1 DEF Light!LedSet
<1>2. ASSUME NEW f \in Freq, Light!Reconfigure(f) PROVE Light!LightType'
  BY <1>2 DEF Light!Reconfigure
<1>3. CASE Light!LightPoll
  BY <1>3 DEF Light!LightPoll
<1>4. CASE Light!LightReset
  BY <1>4 DEF Light!LightReset
<1>5. CASE UNCHANGED light
  BY <1>5 DEF light
<1> QED BY <1>1, <1>2, <1>3, <1>4, <1>5 DEF Light!LightNext

\* The sector is only written inside the command that saves: what else the board
\* does keeps the main loop there, or keeps the sector out of it.
SavesInCommand == at \in {"erase", "program"} => pc = "command"

LEMMA SavesInCommandNext ==
  ASSUME SavesInCommand, [TelnetNext]_telnet_vars
  PROVE  SavesInCommand'
<1> USE DEF SavesInCommand
<1>1. CASE Start
  BY <1>1 DEF Start, ConfigInit
<1>2. CASE Loop
  <2>2. CASE Save
    BY <2>2 DEF Save, Handling, cli
  <2>3. CASE SaveErases
    BY <2>3 DEF SaveErases, EraseSector, cli
  <2>4. CASE SaveProgramsAndReplies
    BY <2>4 DEF SaveProgramsAndReplies, ProgramSector
  <2>5. CASE CliService \/ PollLight \/ Led \/ FreqCommand \/ Other \/ NoReply \/ ExitCommand
    BY <2>5 DEF CliService, PollLight, Led, FreqCommand, Other, NoReply, ExitCommand,
                Handling, Running, vars
  <2>6. CASE Edit
    BY <2>6 DEF Edit, SetField, ConfigRecovery, ConfigDefault, Change
  <2> QED BY <1>2, <2>2, <2>3, <2>4, <2>5, <2>6 DEF Loop
<1>3. CASE World
  BY <1>3 DEF World, Cli!World, Cli!Connect, Cli!SendLine, Cli!ClientCloses,
              Cli!ConnectionLost, Cli!FinAcknowledged, Cli!FinAnswered, Cli!Tick, Cli!device, vars
<1>4. CASE PowerFails
  BY <1>4 DEF PowerFails, PowerLoss
<1>5. CASE UNCHANGED telnet_vars
  BY <1>5 DEF telnet_vars, vars, cli
<1> QED BY <1>1, <1>2, <1>3, <1>4, <1>5 DEF TelnetNext

\* Type correctness of the whole board, and no write of the sector outside the
\* command that saves.
THEOREM TelnetTypeCorrect == TelnetSpec => []TelnetTypeOK
<1>1. TelnetInit => SavesInCommand
  BY DEF TelnetInit, Init, SavesInCommand
<1>2. TelnetSpec => []SavesInCommand
  BY <1>1, SavesInCommandNext, PTL DEF TelnetSpec
<1>3. Cli!CliSpec => []Cli!CliType
  <2>1. Cli!CliType /\ [Cli!CliNext]_Cli!cli => Cli!CliType'
    BY CliTypeNext DEF cli, Cli!cli
  <2> QED BY CliTypeInit, <2>1, PTL DEF Cli!CliSpec
<1>4. Light!LightSpec => []Light!LightType
  <2>1. Light!LightType /\ [Light!LightNext]_Light!light => Light!LightType'
    BY LightTypeNext DEF light, Light!light
  <2> QED BY LightTypeInit, <2>1, PTL DEF Light!LightSpec
<1>5. TypeOK /\ Cli!CliType /\ Light!LightType /\ SavesInCommand => TelnetTypeOK
  BY DEF TelnetTypeOK, SavesInCommand
<1> QED BY <1>2, <1>3, <1>4, <1>5, PartsImplemented, ConfigTypeCorrect, PTL

-----------------------------------------------------------------------------
(* The timeout of the client. *)

\* Past the greeting the CON interrupt is clear; and of a greeted client that
\* has nothing waiting, no line is younger than last_rx_time.
Greeted == pc = "data" => ~sock.con /\ sock.sr \in {"ESTABLISHED", "CLOSE_WAIT", "CLOSED"}
TimerIsYoung == Cli!Established /\ rx = 0 /\ ~sock.con => idle <= silent

TimeoutInv == Greeted /\ TimerIsYoung

LEMMA ServiceKeepsTimeout ==
  ASSUME CliParts, TimeoutInv, NEW address \in BOOLEAN, Cli!Service(address)
  PROVE  TimeoutInv'
<1> USE DEF TimeoutInv, Greeted, TimerIsYoung, Cli!Established
<1>1. CASE Cli!OpenCli(address)
  <2>1. pc' = "pwm" /\ (sock'.sr = "INIT" \/ (sock' = sock /\ sock.sr = "CLOSED"))
    BY ONLY <1>1 DEF Cli!OpenCli
  <2> QED BY <2>1
<1>2. CASE Cli!Listen
  <2>1. pc' = "pwm" /\ sock'.sr = "LISTEN"
    BY <1>2 DEF Cli!Listen, Cli!Status, CliParts, Sockets
  <2> QED BY <2>1
<1>3. CASE Cli!ListenMissed
  BY <1>3 DEF Cli!ListenMissed, Cli!NoSock
<1>4. CASE Cli!NoBusiness
  BY <1>4 DEF Cli!NoBusiness
<1>5. CASE Cli!CloseWait
  <2>1. pc' = "disconnect" /\ sock'.sr = "LAST_ACK"
    BY <1>5 DEF Cli!CloseWait, Cli!SendFin, CliParts, Sockets
  <2> QED BY <2>1
<1>6. CASE Cli!Greet
  <2>1. sock' = [sock EXCEPT !.con = FALSE] /\ sock.sr = "ESTABLISHED" /\ UNCHANGED <<rx, silent>>
    BY <1>6 DEF Cli!Greet
  <2>2. sock \in [sr: Statuses, con: BOOLEAN]
    BY DEF CliParts, Sockets
  <2>3. sock'.con = FALSE /\ sock'.sr = "ESTABLISHED"
    BY ONLY <2>1, <2>2
  <2>4. sock.con \/ ~sock.con
    OBVIOUS
  <2>5. CASE sock.con
    <3>1. idle' = 0
      BY <1>6, <2>5 DEF Cli!Greet, Cli!IdleAtConnect
    <3> QED BY <2>1, <2>3, <3>1 DEF CliParts
  <2>6. CASE ~sock.con
    <3>1. idle' = idle
      BY <1>6, <2>6 DEF Cli!Greet
    <3> QED BY <2>1, <2>3, <2>6, <3>1
  <2> QED BY <2>4, <2>5, <2>6
<1>7. CASE Cli!ReceiveLine
  BY <1>7 DEF Cli!ReceiveLine, CliParts
<1>8. CASE Cli!ReceiveFails
  BY <1>8 DEF Cli!ReceiveFails, Cli!NoSock
<1>9. CASE Cli!NothingSent
  BY <1>9 DEF Cli!NothingSent
<1>10. CASE Cli!Evict
  <2>1. pc' = "disconnect" /\ sock'.sr # "ESTABLISHED"
    BY <1>10 DEF Cli!Evict, Cli!SendFin, CliParts, Sockets
  <2> QED BY <2>1
<1>11. CASE Cli!Disconnected
  BY <1>11 DEF Cli!Disconnected
<1> QED BY <1>1, <1>2, <1>3, <1>4, <1>5, <1>6, <1>7, <1>8, <1>9, <1>10, <1>11 DEF Cli!Service

LEMMA WorldKeepsTimeout ==
  ASSUME CliParts, TimeoutInv, Cli!World
  PROVE  TimeoutInv'
<1> USE DEF TimeoutInv, Greeted, TimerIsYoung, Cli!Established
<1>1. CASE Cli!Connect
  <2>1. sock'.con = TRUE /\ pc' = pc /\ sock.sr = "LISTEN"
    BY <1>1 DEF Cli!Connect, Cli!device
  <2> QED BY <2>1
<1>2. CASE Cli!SendLine
  BY <1>2 DEF Cli!SendLine, CliParts
<1>3. CASE Cli!ClientCloses \/ Cli!ConnectionLost \/ Cli!FinAnswered
  <2>1. sock'.sr \in {"CLOSE_WAIT", "CLOSED"} /\ sock'.con = sock.con /\ pc' = pc
    BY <1>3 DEF Cli!ClientCloses, Cli!ConnectionLost, Cli!FinAnswered, Cli!Status, CliParts, Sockets
  <2> QED BY <2>1
<1>4. CASE Cli!Tick
  <2>1. idle' = Cli!Later(idle) /\ silent' = Cli!Later(silent) /\ UNCHANGED <<pc, sock, rx>>
    BY <1>4 DEF Cli!Tick
  <2>2. idle <= silent => Cli!Later(idle) <= Cli!Later(silent)
    BY CliBounds DEF CliParts, Cli!Later
  <2> QED BY <2>1, <2>2
<1>5. CASE Cli!FinAcknowledged
  <2>1. sock.sr = "FIN_WAIT_1" /\ sock'.sr = "FIN_WAIT_2" /\ pc' = pc
    BY <1>5 DEF Cli!FinAcknowledged, Cli!Status, CliParts, Sockets
  <2> QED BY <2>1
<1> QED BY <1>1, <1>2, <1>3, <1>4, <1>5 DEF Cli!World

LEMMA TimeoutNext ==
  ASSUME CliParts, TimeoutInv, [Cli!CliNext]_cli
  PROVE  TimeoutInv'
<1>1. CASE \E address \in BOOLEAN : Cli!Service(address)
  BY <1>1, ServiceKeepsTimeout
<1>2. CASE Cli!World
  BY <1>2, WorldKeepsTimeout
<1> USE DEF TimeoutInv, Greeted, TimerIsYoung, Cli!Established
<1>3. CASE Cli!Replied \/ Cli!Unanswered \/ Cli!NextPass
  BY <1>3 DEF Cli!Replied, Cli!Unanswered, Cli!NextPass
<1>4. CASE Cli!Exit
  <2>1. pc' = "disconnect" /\ sock'.sr # "ESTABLISHED"
    BY <1>4 DEF Cli!Exit, Cli!SendFin, CliParts, Sockets
  <2> QED BY <2>1
<1>5. CASE Cli!CliReset
  BY <1>5 DEF Cli!CliReset, Cli!NoSock
<1>6. CASE UNCHANGED cli
  BY <1>6 DEF cli
<1> QED BY <1>1, <1>2, <1>3, <1>4, <1>5, <1>6 DEF Cli!CliNext

\* Where the loop decides to send the client away.
LEMMA EvictionStep ==
  ASSUME CliParts, TimeoutInv, [Cli!CliNext]_cli,
         pc' = "evict", pc # "evict", sock.sr = "ESTABLISHED"
  PROVE  silent = CliTimeout
<1>1. ASSUME NEW address \in BOOLEAN, Cli!Service(address) PROVE Cli!NothingSent
  BY <1>1 DEF Cli!Service, Cli!OpenCli, Cli!Listen, Cli!ListenMissed, Cli!NoBusiness,
              Cli!CloseWait, Cli!Greet, Cli!ReceiveLine, Cli!ReceiveFails, Cli!Evict,
              Cli!Disconnected
<1>2. ~Cli!World
  BY DEF Cli!World, Cli!Connect, Cli!SendLine, Cli!ClientCloses, Cli!ConnectionLost,
         Cli!FinAcknowledged, Cli!FinAnswered, Cli!Tick, Cli!device
<1>3. Cli!NothingSent
  BY <1>1, <1>2 DEF Cli!CliNext, Cli!Replied, Cli!Unanswered, Cli!Exit, Cli!NextPass,
                    Cli!CliReset, cli
<1>4. pc = "data" /\ rx = 0 /\ idle >= CliTimeout
  BY <1>3 DEF Cli!NothingSent, Cli!TimedOut
<1>5. idle <= silent
  BY <1>4 DEF TimeoutInv, Greeted, TimerIsYoung, Cli!Established
<1> QED BY <1>4, <1>5, CliBounds DEF CliParts

\* For every timeout: only a client that has been silent for all of it is sent
\* away, however late the main loop reads the clock.
THEOREM OnlyIdleEvicted == TelnetSpec => EvictsOnlyIdle
<1>1. Cli!CliInit => TimeoutInv
  BY DEF Cli!CliInit, Cli!NoSock, TimeoutInv, Greeted, TimerIsYoung, Cli!Established
<1>2. Cli!CliType => CliParts
  BY CliTypeParts
<1>3. CliParts /\ TimeoutInv /\ [Cli!CliNext]_Cli!cli => TimeoutInv'
  BY TimeoutNext DEF cli, Cli!cli
<1>4. TelnetTypeOK => Cli!CliType
  BY DEF TelnetTypeOK
<1>5. TelnetSpec => []CliParts
  BY <1>2, <1>4, TelnetTypeCorrect, PTL
<1>6. TelnetSpec => []TimeoutInv
  BY <1>1, <1>3, <1>5, PartsImplemented, PTL DEF Cli!CliSpec
<1>7. CliParts /\ TimeoutInv /\ [TelnetNext]_telnet_vars =>
        [pc' = "evict" /\ pc # "evict" /\ sock.sr = "ESTABLISHED" => silent = CliTimeout]_telnet_vars
  BY PartsStep, EvictionStep
<1> QED BY <1>5, <1>6, <1>7, PTL DEF TelnetSpec, EvictsOnlyIdle

-----------------------------------------------------------------------------
(* The prompt. *)

LEMMA ServiceHears ==
  ASSUME CliParts, PatientIsHeard, NEW address \in BOOLEAN, Cli!Service(address)
  PROVE  PatientIsHeard'
<1> USE DEF PatientIsHeard
<1>1. CASE Cli!OpenCli(address)
  <2>1. sock'.sr = "INIT" \/ (sock' = sock /\ sock.sr = "CLOSED")
    BY ONLY <1>1 DEF Cli!OpenCli
  <2> QED BY <2>1
<1>2. CASE Cli!Listen \/ Cli!CloseWait \/ Cli!Evict
  <2>1. sock'.sr # "ESTABLISHED"
    BY <1>2 DEF Cli!Listen, Cli!CloseWait, Cli!Evict, Cli!Status, Cli!SendFin, CliParts, Sockets
  <2> QED BY <2>1
<1>3. CASE Cli!ListenMissed \/ Cli!NoBusiness \/ Cli!ReceiveFails \/ Cli!Disconnected
  BY <1>3 DEF Cli!ListenMissed, Cli!NoBusiness, Cli!ReceiveFails, Cli!Disconnected, Cli!NoSock
<1>4. CASE Cli!Greet
  <2>1. pc = "cli" /\ rx' = rx
    BY <1>4 DEF Cli!Greet
  <2>2. CASE sock.con
    <3>1. client'.waits = FALSE
      BY <1>4, <2>2 DEF Cli!Greet, Cli!Prompted, CliParts, Clients
    <3> QED BY <3>1
  <2>3. CASE ~sock.con
    <3>1. client' = client /\ sock.sr = "ESTABLISHED"
      BY <1>4, <2>3 DEF Cli!Greet, Cli!Established
    <3> QED BY <2>1, <2>3, <3>1
  <2> QED BY <2>2, <2>3
<1>5. CASE Cli!ReceiveLine
  BY <1>5 DEF Cli!ReceiveLine
<1>6. CASE Cli!NothingSent
  BY <1>6 DEF Cli!NothingSent
<1> QED BY <1>1, <1>2, <1>3, <1>4, <1>5, <1>6 DEF Cli!Service

LEMMA WorldHears ==
  ASSUME CliParts, PatientIsHeard, Cli!World
  PROVE  PatientIsHeard'
<1> USE DEF PatientIsHeard
<1>1. CASE Cli!Connect
  <2>1. sock'.con = TRUE
    BY <1>1 DEF Cli!Connect
  <2> QED BY <2>1
<1>2. CASE Cli!SendLine
  BY <1>2 DEF Cli!SendLine, CliParts
<1>3. CASE Cli!ClientCloses \/ Cli!ConnectionLost \/ Cli!FinAcknowledged \/ Cli!FinAnswered
  <2>1. sock'.sr # "ESTABLISHED"
    BY <1>3 DEF Cli!ClientCloses, Cli!ConnectionLost, Cli!FinAcknowledged,
                Cli!FinAnswered, Cli!Status,
                CliParts, Sockets
  <2> QED BY <2>1
<1>4. CASE Cli!Tick
  BY <1>4 DEF Cli!Tick
<1> QED BY <1>1, <1>2, <1>3, <1>4 DEF Cli!World

LEMMA HeardNext ==
  ASSUME CliParts, PatientIsHeard, [Cli!CliNext]_cli
  PROVE  PatientIsHeard'
<1>1. CASE \E address \in BOOLEAN : Cli!Service(address)
  BY <1>1, ServiceHears
<1>2. CASE Cli!World
  BY <1>2, WorldHears
<1> USE DEF PatientIsHeard
<1>3. CASE Cli!Replied
  <2>1. client'.waits = FALSE
    BY <1>3 DEF Cli!Replied, Cli!Prompted, CliParts, Clients
  <2> QED BY <2>1
<1>4. CASE Cli!Unanswered
  <2>1. client'.patient = FALSE
    BY <1>4 DEF Cli!Unanswered, CliParts, Clients
  <2> QED BY <2>1
<1>5. CASE Cli!NextPass
  BY <1>5 DEF Cli!NextPass
<1>6. CASE Cli!Exit
  <2>1. sock'.sr # "ESTABLISHED"
    BY <1>6 DEF Cli!Exit, Cli!SendFin, CliParts, Sockets
  <2> QED BY <2>1
<1>7. CASE Cli!CliReset
  BY <1>7 DEF Cli!CliReset, Cli!NoSock
<1>8. CASE UNCHANGED cli
  BY <1>8 DEF cli
<1> QED BY <1>1, <1>2, <1>3, <1>4, <1>5, <1>6, <1>7, <1>8 DEF Cli!CliNext

\* For every buffer and timeout: a client that waits for the prompt gets one.
THEOREM PatientHeard == TelnetSpec => []PatientIsHeard
<1>1. Cli!CliInit => PatientIsHeard
  BY DEF Cli!CliInit, Cli!NoSock, PatientIsHeard
<1>2. CliParts /\ PatientIsHeard /\ [Cli!CliNext]_Cli!cli => PatientIsHeard'
  BY HeardNext DEF cli, Cli!cli
<1>3. TelnetTypeOK => CliParts
  BY CliTypeParts DEF TelnetTypeOK
<1> QED BY <1>1, <1>2, <1>3, TelnetTypeCorrect, PartsImplemented, PTL DEF Cli!CliSpec

-----------------------------------------------------------------------------
(* The light. *)

\* last_target is what the slice drives, unless freq has cleared it since; and
\* when the main loop comes to the command line, it has caught up with the level
\* asked for.
WrittenIsDriven == last_target # NoLevel => blanked \/ duty = Gamma[last_target]
CaughtUp ==
  pc = "cli" =>
    /\ s_current = s_target
    /\ \/ last_target = s_target
       \/ last_target = NoLevel /\ s_current = 0 /\ duty = Gamma[0]

LightInv == Light!LightType /\ WrittenIsDriven /\ CaughtUp

\* A step that leaves the light alone comes to the command line from there only.
LEMMA AtCliStays ==
  ASSUME [TelnetNext]_telnet_vars, UNCHANGED light, pc' = "cli", pc # "cli"
  PROVE  PollLight \/ PowerFails
<1>1. ASSUME NEW address, Cli!Service(address) PROVE FALSE
  BY <1>1 DEF Cli!Service, Cli!OpenCli, Cli!Listen, Cli!ListenMissed, Cli!NoBusiness,
              Cli!CloseWait, Cli!Greet, Cli!ReceiveLine, Cli!ReceiveFails, Cli!NothingSent,
              Cli!Evict, Cli!Disconnected
<1>2. ~Cli!World
  BY DEF Cli!World, Cli!Connect, Cli!SendLine, Cli!ClientCloses, Cli!ConnectionLost,
         Cli!FinAcknowledged, Cli!FinAnswered, Cli!Tick, Cli!device
<1>3. ~Cli!Replied /\ ~Cli!Unanswered /\ ~Cli!Exit /\ ~UNCHANGED cli
  BY DEF Cli!Replied, Cli!Unanswered, Cli!Exit, cli
<1> QED BY <1>1, <1>2, <1>3 DEF TelnetNext, Start, Loop, World, CliService, Edit, Save,
             SaveErases, SaveProgramsAndReplies, Led, FreqCommand, Other, NoReply,
             ExitCommand, telnet_vars

LEMMA LightNextInv ==
  ASSUME LightInv, [TelnetNext]_telnet_vars
  PROVE  WrittenIsDriven' /\ CaughtUp'
<1> USE TelnetAssumption DEF LightInv, WrittenIsDriven, CaughtUp, Light!LightType
<1>1. CASE PollLight
  BY <1>1 DEF PollLight, Light!LightPoll, Light!Changed
<1>2. CASE PowerFails
  BY <1>2 DEF PowerFails, Light!LightReset
<1>3. CASE Led
  BY <1>3 DEF Led, Light!LedSet, Cli!Replied
<1>4. CASE FreqCommand
  <2>1. PICK f \in Freq : Light!Reconfigure(f)
    BY <1>4 DEF FreqCommand
  <2>2. pc' = "pwm"
    BY <1>4 DEF FreqCommand, Cli!Replied
  <2> QED BY <2>1, <2>2 DEF Light!Reconfigure
<1>5. CASE UNCHANGED light
  <2>1. WrittenIsDriven'
    BY <1>5 DEF light
  <2>2. pc = "cli" => CaughtUp'
    BY <1>5 DEF light
  <2>3. pc # "cli" => CaughtUp'
    BY <1>5, <1>1, <1>2, AtCliStays
  <2> QED BY <2>1, <2>2, <2>3
<1>6. PollLight \/ PowerFails \/ Led \/ FreqCommand \/ UNCHANGED light
  BY DEF TelnetNext, Start, Loop, World, CliService, Edit, Save, SaveErases,
         SaveProgramsAndReplies, Other, NoReply, ExitCommand, telnet_vars
<1> QED BY <1>1, <1>2, <1>3, <1>4, <1>5, <1>6

\* For any levels and frequencies: after each pass what `pwm status` reports as
\* current is what the slice drives, unless `freq` has cleared it since.
THEOREM LightShowsCurrent == TelnetSpec => []LightIsCurrent
<1>1. TelnetInit => WrittenIsDriven /\ CaughtUp
  BY DEF TelnetInit, Light!LightInit, WrittenIsDriven, CaughtUp
<1>2. TelnetTypeOK => Light!LightType
  BY DEF TelnetTypeOK
<1>3. Light!LightType /\ WrittenIsDriven /\ CaughtUp /\ [TelnetNext]_telnet_vars =>
        WrittenIsDriven' /\ CaughtUp'
  BY LightNextInv DEF LightInv
<1>4. Light!LightType /\ WrittenIsDriven /\ CaughtUp => LightIsCurrent
  BY TelnetAssumption DEF Light!LightType, WrittenIsDriven, CaughtUp, LightIsCurrent
<1> QED BY <1>1, <1>2, <1>3, <1>4, TelnetTypeCorrect, PTL DEF TelnetSpec
=============================================================================
