--------------------------- MODULE MC_StairsFrame ---------------------------
EXTENDS StairsFrame

\* Two frames that differ from each other and from darkness.
MCFrames == {1, 2}
=============================================================================
