---------------------------- MODULE MC_RadarFeed ----------------------------
(* Two targets that come, go and swap slots; two debug hosts. *)
EXTENDS RadarFeed

MCPos == {10, 30}
MCComeAndGo == {<<10, 30, Empty>>, <<30, 10, Empty>>, <<30, Empty, Empty>>,
                <<Empty, Empty, Empty>>}
=============================================================================
