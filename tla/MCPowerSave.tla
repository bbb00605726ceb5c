---------------------------- MODULE MCPowerSave ----------------------------
\* Small instances of PowerSave for TLC.
EXTENDS PowerSave
=============================================================================
