---------------------------- MODULE QuicStartMC ----------------------------
EXTENDS QuicStart

CONSTANTS h1  \* the host the sets of pins name

MCNabory == {{}, {h1}}
=============================================================================
