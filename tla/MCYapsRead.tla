----------------------------- MODULE MCYapsRead -----------------------------
\* Small instances of YapsRead for TLC.
EXTENDS YapsRead
=============================================================================
