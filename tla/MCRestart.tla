----------------------------- MODULE MCRestart -----------------------------
\* Small instances of Restart for TLC.
EXTENDS Restart
=============================================================================
