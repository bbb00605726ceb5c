----------------------------- MODULE MCSkbQueue -----------------------------
(****************************************************************************)
(* Small instances of SkbQueue for TLC.  Packet 1 is the one sent without a *)
(* report.                                                                  *)
(****************************************************************************)
EXTENDS SkbQueue

MCNoReport == {1}
=============================================================================
