----------------------------- MODULE MCAgentTools -----------------------------
(* The agent tools and a console manage invitations, a portal accepts them, and   *)
(* the console's scheduler is the worker.                                         *)
EXTENDS AgentTools

CONSTANTS agent, console, portal

AllInstances == {agent, console, portal}
AgentAndConsole == {agent, console}
OnlyPortal == {portal}
OnlyConsole == {console}
================================================================================
