------------------------------ MODULE AgentTools ------------------------------
(***************************************************************************)
(* The agent tools plugin: three tools over the public capability.  The    *)
(* tool decodes its arguments, calls the service with the context it was   *)
(* given, so that the service sees this plugin as the caller, and turns    *)
(* the service's answer into one of the tool provider's.                   *)
(***************************************************************************)
EXTENDS Authorization

CONSTANT Tools            \* the instance of this plugin

ASSUME ToolsAssumption == Tools \in Instances

VARIABLES
    tool,                 \* the name in the request of the agent, "none" before it
    result                \* the answer of the tool, or "none"

toolVars == <<tool, result>>
allVars == <<vars, tool, result>>
--------------------------------------------------------------------------------
Names == {"organization_invitation_get", "organization_invitation_list",
          "organization_invitation_revoke", "another_tool"}

\* Mutant: get runs the operation that shows a token.
GetResends(name) ==
    CASE name = "organization_invitation_get" -> "resend"
      [] name = "organization_invitation_list" -> "list_invitations"
      [] name = "organization_invitation_revoke" -> "revoke"

OperationOf(name) ==
    CASE name = "organization_invitation_get" -> "get_invitation"
      [] name = "organization_invitation_list" -> "list_invitations"
      [] name = "organization_invitation_revoke" -> "revoke"

\* Mutant: an unauthenticated actor is told that nothing was found.
UnauthenticatedFindsNothing(error) ==
    CASE error = "invalid_request" -> "invalid_arguments"
      [] error \in {"invitation_not_found", "organization_not_found", "unauthenticated"} -> "not_found"
      [] error = "forbidden" -> "permission_denied"
      [] OTHER -> "execution_failed"

\* The rest carry the code of the domain error.
ToolError(error) ==
    CASE error = "invalid_request" -> "invalid_arguments"
      [] error \in {"invitation_not_found", "organization_not_found"} -> "not_found"
      [] error \in {"forbidden", "unauthenticated"} -> "permission_denied"
      [] OTHER -> "execution_failed"

\* An unknown name, or arguments that do not decode, start no call; otherwise the
\* call has the actor of the agent's context and what the arguments say.
Execute(name, decodes) ==
    /\ tool = "none" /\ call.at = "idle"
    /\ tool' = name
    /\ \/ /\ name = "another_tool"
          /\ result' = "not_found"
          /\ UNCHANGED vars
       \/ /\ name # "another_tool" /\ ~decodes
          /\ result' = "invalid_arguments"
          /\ UNCHANGED vars
       \/ /\ name # "another_tool" /\ decodes
          /\ \E in \in Input : /\ in.op = OperationOf(name) /\ in.caller = Tools
                              /\ Begin(in)
          /\ UNCHANGED result

Answer ==
    /\ tool # "none" /\ answer # "none" /\ result = "none"
    /\ result' = IF answer \in {"ok", "runtime_failure"} THEN answer ELSE ToolError(answer)
    /\ UNCHANGED <<vars, tool>>

\* The one call that is followed may as well be somebody else's.
CalledDirectly ==
    /\ tool = "none" /\ call.at = "idle"
    /\ \E in \in Input : in.caller # Tools /\ Begin(in)
    /\ UNCHANGED toolVars

ToolInit == Init /\ tool = "none" /\ result = "none"

ToolNext ==
    \/ \E name \in Names, decodes \in BOOLEAN : Execute(name, decodes)
    \/ CalledDirectly
    \/ Answer
    \/ (CallStep \/ ChangeFacts) /\ UNCHANGED toolVars

ToolSpec == ToolInit /\ [][ToolNext]_allVars
--------------------------------------------------------------------------------
(* Properties *)

\* Through the tools an agent reaches no operation that shows or takes a token, and an
\* agent learns of an invitation, by success or by a domain error, only for an actor
\* that was a member with the permission, and only if this plugin's instance is on the
\* list of management callers.
AgentsLearnWhatTheActorMay ==
    result \in {"ok", "execution_failed"} \/ (result = "not_found" /\ tool # "another_tool") =>
        /\ call.input.op \notin {"invite", "resend", "accept"}
        /\ Tools \in ManagementCallers
        /\ call.input.subject = "user"
        /\ {"member", "permission"} \subseteq held

\* A refusal of the service reaches the agent as one, and nothing else does.
RefusalsSurviveTranslation ==
    result # "none" =>
        (result = "permission_denied" <=> answer \in {"forbidden", "unauthenticated"})
================================================================================
