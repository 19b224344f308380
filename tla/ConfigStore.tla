----------------------------- MODULE ConfigStore -----------------------------
(***************************************************************************)
(* What the configuration of a board promises, without copies, checksums   *)
(* and flash sectors: settings are edited on the side, take effect at a    *)
(* start, and a save that was not interrupted outlives every power loss.   *)
(***************************************************************************)
CONSTANTS Config,   \* configurations of this board
          None      \* no configuration

VARIABLES
  running,  \* the configuration in use, None without power
  pending,  \* the one that commands edit
  stored,   \* the one the next start will find, or None
  saving

storeVars == <<running, pending, stored, saving>>

Init == running = None /\ pending = None /\ stored = None /\ ~saving

\* Without a stored configuration a start falls back to some default.
PowerUp ==
  /\ running = None
  /\ \E c \in Config :
       /\ stored # None => c = stored
       /\ running' = c /\ pending' = c
  /\ UNCHANGED <<stored, saving>>

Edit ==
  /\ running # None /\ ~saving
  /\ pending' \in Config
  /\ UNCHANGED <<running, stored, saving>>

BeginSave == /\ running # None /\ ~saving /\ saving'
             /\ UNCHANGED <<running, pending, stored>>

Store == saving /\ stored' = pending /\ UNCHANGED <<running, pending, saving>>

EndSave == /\ saving /\ stored = pending /\ ~saving'
           /\ UNCHANGED <<running, pending, stored>>

\* Only a save that was under way puts the stored configuration at risk.
PowerLoss ==
  /\ running' = None /\ pending' = None /\ ~saving'
  /\ stored' \in {stored} \union IF saving THEN {pending, None} ELSE {}

Next == PowerUp \/ Edit \/ BeginSave \/ Store \/ EndSave \/ PowerLoss

Spec == Init /\ [][Next]_storeVars
=============================================================================
