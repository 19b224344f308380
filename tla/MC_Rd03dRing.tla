---------------------------- MODULE MC_Rd03dRing ----------------------------
EXTENDS Rd03dRing

\* Payloads that hold half a header and a tail, or a header.
MCPayloads == {<<"d", "h1", "t">>, <<"h1", "h2", "d">>}
=============================================================================
