---------------------------- MODULE MCTaskDaemon ----------------------------
(***************************************************************************)
(* A scope that starts a turn or a command by call, or a turn by message.  *)
(***************************************************************************)
EXTENDS TaskDaemon

MCBodies == {{"t", "steer"}, {"k"}, {"m"}}
=============================================================================
