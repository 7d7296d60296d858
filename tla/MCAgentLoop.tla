---------------------------- MODULE MCAgentLoop -----------------------------
(***************************************************************************)
(* Instances of AgentLoop for TLC.  A tool stands for one of the ways the  *)
(* gate tells tools apart: "edit" needs an exception, and is not           *)
(* destructive, so that a person can make one for it; "goal" is run by the *)
(* loop itself.                                                            *)
(***************************************************************************)
EXTENDS AgentLoop

FewTools   == {"edit", "goal"}
OneTool    == {"edit"}
MCRegistered == Tools \cap {"read", "edit", "rm"}
MCGoalTools  == Tools \cap {"goal"}
MCContained  == Tools \cap {"read"}
MCSafe       == Tools \cap {"read", "edit"}
=============================================================================
