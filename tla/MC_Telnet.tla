------------------------------ MODULE MC_Telnet ------------------------------
(* One field with 0.0.0.0 among its values, two levels, one frequency on each  *)
(* side of the divider's range.                                                *)
EXTENDS Telnet

MCField == {"ip"}
MCAddr == {0, 10, 20}
MCDefaults == {[f \in MCField |-> 10]}
MCLevel == {0, 1}
MCGamma == [w \in MCLevel |-> 3 * w]
MCFreq == {50, 1000}
MCReachable == {1000}
=============================================================================
