----------------------------- MODULE FlashConfig -----------------------------
(***************************************************************************)
(* The configuration of a board (common/flash/flash_cfg.c): three copies   *)
(* in RAM, one in a flash sector under a CRC, and the telnet commands that *)
(* edit and save it.  Power may fail at any time, in the middle of erasing *)
(* and programming the sector too; firmware with another default network   *)
(* may start after it.                                                     *)
(*                                                                         *)
(* The CRC tells a whole configuration from everything else (no            *)
(* collisions), so a sector is a configuration, Blank or Torn.             *)
(***************************************************************************)
EXTENDS Naturals

CONSTANTS
  Field,        \* ip, sn, gw, dns
  Addr,         \* values of a field
  Defaults,     \* the default networks of the firmware that may run
  OwnMac,       \* the MAC made of pico_get_unique_board_id()
  CommonMac,    \* NETINFO_MAC, the same on every board
  Zero,         \* what memset leaves
  Blank, Torn,
  Readable      \* does rom_flash_op succeed? a subset of BOOLEAN

Net == [Field -> Addr]
Config == [net: Net, mac: {OwnMac, CommonMac}]

ASSUME ConfigAssumption ==
  /\ Defaults \subseteq Net /\ Defaults # {}
  /\ Zero \notin Config /\ Blank \notin Config /\ Torn \notin Config
  /\ OwnMac # CommonMac
  /\ Readable \subseteq BOOLEAN /\ Readable # {}

VARIABLES
  default_config,
  gen_cfg,     \* 0: current, 1: being changed, 2: loaded from flash
  flash,       \* the configuration sector
  at           \* "off", "loop", or the step of config_save

vars == <<default_config, gen_cfg, flash, at>>

NoPower == [i \in 0..2 |-> Zero]

Init ==
  /\ default_config \in [net: Defaults, mac: {CommonMac}]
  /\ gen_cfg = NoPower /\ flash = Blank
  /\ at = "off"

-----------------------------------------------------------------------------
(* Start. *)

\* Slip: a CRC mismatch is only reported.
CrcGood_AnyBytes(c) == c # Blank
CrcGood(c) == c \in Config

\* Slip: the board keeps the MAC of the source.
Unique_Not(c) == c
Unique(c) == [c EXCEPT !.mac = OwnMac]

\* config_init: what config_load finds in flash, else the default.
ConfigInit ==
  /\ at = "off" /\ at' = "loop"
  /\ \E d \in Defaults, readable \in Readable :
       LET default == [net |-> d, mac |-> CommonMac]
           start   == IF readable /\ CrcGood(flash) THEN flash ELSE Unique(default)
       IN /\ default_config' = default
          /\ gen_cfg' = [gen_cfg EXCEPT ![0] = start, ![1] = start, ![2] = Zero]
  /\ UNCHANGED flash

-----------------------------------------------------------------------------
(* Commands. *)

Change(c) ==
  /\ at = "loop"
  /\ gen_cfg' = [gen_cfg EXCEPT ![1] = c]
  /\ UNCHANGED <<default_config, flash, at>>

\* config ip, sn, gw, dns.
SetField(f, a) == Change([gen_cfg[1] EXCEPT !.net[f] = a])

\* config clean.
ConfigRecovery == Change(gen_cfg[0])

\* config default: builds the default in the copy being changed, then copies
\* the current configuration over it; telnet answers "Factory default
\* configuration restored" all the same.
ConfigDefault ==
  LET built == [gen_cfg EXCEPT ![1] = Unique(default_config)]
  IN Change(built[0])

\* config_save takes a copy and its CRC, then erases and programs the sector.
ConfigSave ==
  /\ at = "loop" /\ at' = "erase"
  /\ UNCHANGED <<default_config, gen_cfg, flash>>

\* Slip: what is saved is the current configuration.
Saved_Current == gen_cfg[0]
Saved == gen_cfg[1]

EraseSector ==
  /\ at = "erase" /\ at' = "program"
  /\ flash' = Blank
  /\ UNCHANGED <<default_config, gen_cfg>>

ProgramSector ==
  /\ at = "program" /\ at' = "loop"
  /\ flash' = Saved
  /\ UNCHANGED <<default_config, gen_cfg>>

-----------------------------------------------------------------------------

\* What an erase or a program that was cut off may leave.
Remains ==
  IF at = "erase" THEN {flash, Torn, Blank}
  ELSE IF at = "program" THEN {Blank, Torn, Saved}
  ELSE {flash}

\* Power fails, or the board restarts.
PowerLoss ==
  /\ at # "off" /\ at' = "off"
  /\ flash' \in Remains
  /\ gen_cfg' = NoPower
  /\ UNCHANGED default_config

Next ==
  \/ ConfigInit
  \/ \E f \in Field, a \in Addr : SetField(f, a)
  \/ ConfigRecovery \/ ConfigDefault
  \/ ConfigSave \/ EraseSector \/ ProgramSector
  \/ PowerLoss

Spec == Init /\ [][Next]_vars

-----------------------------------------------------------------------------
(* Properties. *)

TypeOK ==
  /\ default_config \in [net: Defaults, mac: {CommonMac}]
  /\ gen_cfg \in [0..2 -> Config \union {Zero}]
  /\ flash \in Config \union {Blank, Torn}
  /\ at \in {"off", "loop", "erase", "program"}
  /\ at # "off" => gen_cfg[0] \in Config /\ gen_cfg[1] \in Config

\* No two boards share a MAC on the wire: whatever was edited, saved, lost and
\* restored, a configuration that runs or may be saved carries the board's own.
UniqueMac ==
  at # "off" => gen_cfg[0].mac = OwnMac /\ gen_cfg[1].mac = OwnMac

\* A save that ended is what every later start runs, until the next save; only
\* a power loss in the middle of a save loses what was stored, and then the
\* board starts with the old, the new or the default configuration.
Valid(c) == IF CrcGood(c) THEN c ELSE Zero
Store == INSTANCE ConfigStore WITH
           None <- Zero, running <- gen_cfg[0], pending <- gen_cfg[1],
           stored <- IF at = "program" THEN Saved ELSE Valid(flash),
           saving <- at \in {"erase", "program"}
KeepsConfiguration == Store!Spec
=============================================================================
