---------------------------- MODULE MC_TreeStrip ----------------------------
EXTENDS TreeStrip

\* Two frames; a pattern may draw darkness too.
MCFrames == {0, 1}
=============================================================================
