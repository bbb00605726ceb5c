----------------------------- MODULE MCYapsWrite ----------------------------
\* Small instances of YapsWrite for TLC.
EXTENDS YapsWrite
=============================================================================
