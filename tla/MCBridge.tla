------------------------------ MODULE MCBridge ------------------------------
\* Values of Bridge's constants for TLC.
EXTENDS Bridge
CONSTANTS b1, b2
Two == {b1, b2}
One == {b1}
=============================================================================
