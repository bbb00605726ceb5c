------------------------------ MODULE MCCommand ------------------------------
(***************************************************************************)
(* Small instances of Command for TLC.  The second command is a long one.  *)
(***************************************************************************)
EXTENDS Command

MCLongCmds == {2}
=============================================================================
