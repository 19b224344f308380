------------------------------ MODULE OtaUpdate ------------------------------
(***************************************************************************)
(* What the EFU update promises, without sockets, chunks or flash pages:   *)
(* the board runs from one slot, only the other slot is ever rewritten,    *)
(* and of its own accord the board changes over only to a slot that holds  *)
(* a whole image.  A power-up is the boot ROM's choice: any slot that      *)
(* looks bootable will do, a Suspect one included.                         *)
(***************************************************************************)
EXTENDS Naturals

CONSTANTS
  Slot, Image,
  Suspect,   \* content that looks bootable but is no whole image
  None       \* content that cannot be booted

VARIABLES
  running,   \* the slot the board runs from
  held,      \* held[s]: the whole image in slot s, Suspect or None
  powerUps   \* how often the power has failed and come back

otaVars == <<running, held, powerUps>>

Content == Image \union {Suspect, None}

Init ==
  /\ running \in Slot
  /\ held \in [Slot -> Content]
  /\ held[running] \in Image
  /\ powerUps = 0

\* Some progress of an update: the other slot's content changes, to anything.
Rewrite(s) ==
  /\ s # running
  /\ \E c \in Content : held' = [held EXCEPT ![s] = c]
  /\ UNCHANGED <<running, powerUps>>

\* The commit of an update.
ChangeOver(s) ==
  /\ held[s] \in Image
  /\ running' = s
  /\ UNCHANGED <<held, powerUps>>

PowerUp(s) ==
  /\ held[s] # None
  /\ running' = s
  /\ powerUps' = powerUps + 1
  /\ UNCHANGED held

Next == \E s \in Slot : Rewrite(s) \/ ChangeOver(s) \/ PowerUp(s)

Spec == Init /\ [][Next]_otaVars
=============================================================================
