------------------------------ MODULE MCHwScan ------------------------------
EXTENDS HwScan
=============================================================================
