--------------------------- MODULE MC_Rd03dTracks ---------------------------
(* One target that stays, or two that come, go and swap slots. *)
EXTENDS Rd03dTracks

MCPos == {10, 30}
MCOne == {<<30, Empty, Empty>>}
MCComeAndGo == {<<10, 30, Empty>>, <<30, 10, Empty>>, <<30, Empty, Empty>>,
                <<Empty, Empty, Empty>>}
=============================================================================
