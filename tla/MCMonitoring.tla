---------------------------- MODULE MCMonitoring ----------------------------
(***************************************************************************)
(* A small instance of Monitoring.  Of the commands that name a group      *)
(* those for the second one are given, and settings are only switched off, *)
(* for the selected group.                                                 *)
(***************************************************************************)
EXTENDS Monitoring, TLC

MCGiven == {c \in Commands : c.id \in {NoGroup, 2} /\ (c.op = "off" => c.id = NoGroup) /\ c.op # "on"}
=============================================================================
