----------------------------- MODULE MCSession -----------------------------
\* Values of Session's constants for TLC.
EXTENDS Session

ADMIN_SP   == 1
LOCKING_SP == 2
MCSPs      == {ADMIN_SP, LOCKING_SP}
MCPids     == {11, 12}
MCNumbers  == {1, 2}
=============================================================================
