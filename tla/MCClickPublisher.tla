--------------------------- MODULE MCClickPublisher ---------------------------
\* Instances of ClickPublisher for TLC.
EXTENDS ClickPublisher

CONSTANTS k1, k2

MCClicks == {k1, k2}
=============================================================================
