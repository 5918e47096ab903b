----------------------------- MODULE Authorization -----------------------------
(***************************************************************************)
(* What stands between a request and the storage: the caller list, the     *)
(* actor assertion, membership, permission, the arguments and, for invite  *)
(* and resend, the directory.  Each provider is asked in an await of its   *)
(* own while administrators change the facts.  One call is followed: calls *)
(* share no state on this path.                                            *)
(***************************************************************************)
EXTENDS Naturals, FiniteSets

CONSTANTS
    Instances,            \* plugin instances that may call
    ManagementCallers, AcceptanceCallers, WorkerCallers,   \* the lists of the configuration
    NULL                  \* no input yet

ASSUME CallersAssumption ==
    ManagementCallers \cup AcceptanceCallers \cup WorkerCallers \subseteq Instances

VARIABLES
    member,               \* whether the actor is an active member
    granted,              \* the permissions the actor has in the organization
    organization,         \* "active", "inactive" or "missing", as the directory has it
    call,                 \* the call: its input, where it is, what it read
    held, lacked,         \* facts that were true, false, at some moment since it began
    answer                \* its answer, or "none"

facts == <<member, granted, organization>>
vars == <<member, granted, organization, call, held, lacked, answer>>
--------------------------------------------------------------------------------
(* The operations *)

Management == {"invite", "get_invitation", "list_invitations", "resend", "revoke"}
Worker == {"expire_due", "dispatch_due"}
Operations == Management \cup Worker \cup {"accept"}
Permissions == {"read", "manage", "expire", "dispatch"}

AllowedCallers(op) ==
    CASE op \in Management -> ManagementCallers
      [] op \in Worker -> WorkerCallers
      [] op = "accept" -> AcceptanceCallers

ActorKinds(op) == IF op \in Worker THEN {"user", "service_account"} ELSE {"user"}

\* Mutant: resend asks for the permission to read.
ReadToResend(op) ==
    CASE op \in {"get_invitation", "list_invitations", "resend"} -> "read"
      [] op \in {"invite", "revoke"} -> "manage"
      [] op = "expire_due" -> "expire"
      [] op = "dispatch_due" -> "dispatch"

Permission(op) ==
    CASE op \in {"get_invitation", "list_invitations"} -> "read"
      [] op \in {"invite", "resend", "revoke"} -> "manage"
      [] op = "expire_due" -> "expire"
      [] op = "dispatch_due" -> "dispatch"

\* Mutant: resend does not ask the directory.
OnlyInviteAsks == {"invite"}

AskTheDirectory == {"invite", "resend"}

\* The failures the storage functions return.
StorageFailures(op) ==
    CASE op = "invite" -> {"idempotency_conflict", "invitation_exists"}
      [] op = "get_invitation" -> {"invitation_not_found"}
      [] op = "list_invitations" -> {}
      [] op \in {"resend", "revoke"} ->
            {"idempotency_conflict", "invitation_not_found", "revision_conflict",
             "invalid_transition", "acceptance_in_progress"}
      [] op = "accept" ->
            {"idempotency_conflict", "invitation_not_found", "revision_conflict",
             "invalid_transition", "acceptance_in_progress", "invitation_expired",
             "token_invalid"}
      [] op \in Worker -> {"idempotency_conflict"}

\* The error a failure becomes: management has no error for a running acceptance.
FromStorage(op, failure) ==
    IF op \in Management /\ failure = "acceptance_in_progress"
    THEN "invalid_transition"
    ELSE failure

Served(op) == {"ok"} \cup {FromStorage(op, f) : f \in StorageFailures(op)}
Stages == {"idle", "caller", "membership", "permission", "arguments", "directory",
           "storage", "answered"}
--------------------------------------------------------------------------------
(* The call *)

\* subject: the kind of actor an assertion that verifies is of, or "none"; id and
\* arguments: whether the organization_id and the rest of the request are valid.
Input == [op : Operations, caller : Instances,
          subject : {"user", "service_account", "none"},
          id : BOOLEAN, arguments : BOOLEAN]

Calls == [input : Input \cup {NULL}, at : Stages, isMember : BOOLEAN]

\* The permission the authorization table of the plugin card asks for.
Listed(op) ==
    CASE op \in {"get_invitation", "list_invitations"} -> "read"
      [] op \in {"invite", "resend", "revoke"} -> "manage"
      [] op = "expire_due" -> "expire"
      [] op = "dispatch_due" -> "dispatch"

\* What is true, now, of the facts the operation depends on.
Holding(op) ==
    (IF member THEN {"member"} ELSE {})
    \cup (IF op # "accept" /\ Listed(op) \in granted THEN {"permission"} ELSE {})
    \cup (IF organization = "active" THEN {"organization"} ELSE {})

Facts == {"member", "permission", "organization"}

Goto(stage) ==
    /\ call' = [call EXCEPT !.at = stage]
    /\ UNCHANGED <<facts, held, lacked, answer>>

Reply(a) ==
    /\ answer' = a
    /\ call' = [call EXCEPT !.at = "answered"]
    /\ UNCHANGED <<facts, held, lacked>>

Begin(in) ==
    /\ call.at = "idle"
    /\ call' = [input |-> in, at |-> "caller", isMember |-> FALSE]
    /\ held' = Holding(in.op)
    /\ lacked' = Facts \ Holding(in.op)
    /\ answer' = "none"
    /\ UNCHANGED facts

\* allowed_caller, the assertion, and the organization_id of the request, before
\* any provider is asked; accept asks none.
CheckCaller ==
    LET in == call.input IN
    /\ call.at = "caller"
    /\ \/ /\ in.caller \notin AllowedCallers(in.op)
          /\ Reply("forbidden")
       \/ /\ in.caller \in AllowedCallers(in.op)
          /\ in.subject \notin ActorKinds(in.op)
          /\ Reply("unauthenticated")
       \/ /\ in.caller \in AllowedCallers(in.op)
          /\ in.subject \in ActorKinds(in.op)
          /\ in.op # "accept" /\ ~in.id
          /\ Reply("invalid_request")
       \/ /\ in.caller \in AllowedCallers(in.op)
          /\ in.subject \in ActorKinds(in.op)
          /\ in.op = "accept" \/ in.id
          /\ Goto(IF in.op = "accept" THEN "arguments" ELSE "membership")

\* A provider that fails or rejects the question fails the call.
ProviderFails ==
    /\ call.at \in {"membership", "permission", "directory"}
    /\ Reply("runtime_failure")

AskMembership ==
    /\ call.at = "membership"
    /\ call' = [call EXCEPT !.at = "permission", !.isMember = member]
    /\ UNCHANGED <<facts, held, lacked, answer>>

\* The permission is asked of members and others alike, then both answers decide.
AskPermission ==
    /\ call.at = "permission"
    /\ IF call.isMember /\ Permission(call.input.op) \in granted
       THEN Goto("arguments")
       ELSE Reply("forbidden")

CheckArguments ==
    /\ call.at = "arguments"
    /\ IF ~call.input.arguments
       THEN Reply("invalid_request")
       ELSE Goto(IF call.input.op \in AskTheDirectory THEN "directory" ELSE "storage")

\* Mutant: an organization that is not active is forbidden ground.
InactiveIsForbidden ==
    /\ call.at = "directory"
    /\ \/ organization = "active" /\ Goto("storage")
       \/ organization = "inactive" /\ Reply("forbidden")
       \/ organization = "missing" /\ Reply("organization_not_found")

\* The directory's other rejections are reported as forbidden.
AskDirectory ==
    /\ call.at = "directory"
    /\ \/ organization = "active" /\ Goto("storage")
       \/ organization = "inactive" /\ Reply("organization_inactive")
       \/ organization = "missing" /\ Reply("organization_not_found")

DirectoryRejects ==
    /\ call.at = "directory"
    /\ answer' = "forbidden"
    /\ call' = [call EXCEPT !.at = "answered"]
    /\ lacked' = lacked \cup {"directory"}
    /\ UNCHANGED <<facts, held>>

\* The transaction, or the lookups before it, or a database that fails.
Store ==
    /\ call.at = "storage"
    /\ \E a \in Served(call.input.op) \cup {"runtime_failure"} : Reply(a)

CallStep ==
    \/ CheckCaller
    \/ ProviderFails
    \/ AskMembership
    \/ AskPermission
    \/ CheckArguments
    \/ AskDirectory
    \/ DirectoryRejects
    \/ Store
--------------------------------------------------------------------------------
(* Administrators change the facts at any moment *)

Note ==
    IF call.at \in {"idle", "answered"}
    THEN UNCHANGED <<held, lacked>>
    ELSE /\ held' = held \cup Holding(call.input.op)'
         /\ lacked' = lacked \cup (Facts \ Holding(call.input.op)')

ChangeMembership ==
    /\ member' = ~member
    /\ UNCHANGED <<granted, organization, call, answer>>
    /\ Note

ChangePermission(p) ==
    /\ granted' = IF p \in granted THEN granted \ {p} ELSE granted \cup {p}
    /\ UNCHANGED <<member, organization, call, answer>>
    /\ Note

ChangeOrganization(o) ==
    /\ o # organization
    /\ organization' = o
    /\ UNCHANGED <<member, granted, call, answer>>
    /\ Note

ChangeFacts ==
    \/ ChangeMembership
    \/ \E p \in Permissions : ChangePermission(p)
    \/ \E o \in {"active", "inactive", "missing"} : ChangeOrganization(o)
--------------------------------------------------------------------------------
Init ==
    /\ member \in BOOLEAN
    /\ granted \in SUBSET Permissions
    /\ organization \in {"active", "inactive", "missing"}
    /\ call = [input |-> NULL, at |-> "idle", isMember |-> FALSE]
    /\ held = {}
    /\ lacked = {}
    /\ answer = "none"

Next == (\E in \in Input : Begin(in)) \/ CallStep \/ ChangeFacts

Spec == Init /\ [][Next]_vars
--------------------------------------------------------------------------------
(* Properties *)

Refusals == {"forbidden", "unauthenticated", "runtime_failure"}
Answers == Refusals \cup {"ok", "invalid_request", "organization_inactive",
    "organization_not_found", "idempotency_conflict", "invitation_exists",
    "invitation_not_found", "revision_conflict", "invalid_transition",
    "acceptance_in_progress", "invitation_expired", "token_invalid"}

\* The type invariant.
TypeOK ==
    /\ member \in BOOLEAN
    /\ granted \subseteq Permissions
    /\ organization \in {"active", "inactive", "missing"}
    /\ call \in Calls /\ (call.at # "idle" => call.input \in Input)
    /\ held \subseteq Facts /\ lacked \subseteq Facts \cup {"directory"}
    /\ answer \in Answers \cup {"none"}
    /\ (answer # "none") <=> (call.at = "answered")

\* Who may call, and as whom, by the same table.
ListedCallers(op) ==
    IF op = "accept" THEN AcceptanceCallers
    ELSE IF op \in {"expire_due", "dispatch_due"} THEN WorkerCallers ELSE ManagementCallers

Kinds(op) ==
    IF op \in {"expire_due", "dispatch_due"} THEN {"user", "service_account"} ELSE {"user"}

\* An answer that says anything of the organization or its invitations, be it success
\* or an error, was given to a listed caller acting for an actor of the right kind
\* who, for every operation but accept, was a member at some moment of the call and
\* had the permission at some moment of it.
RevealingAnswersAreAuthorized ==
    answer \in Answers \ Refusals /\ (call.input.id \/ call.input.op = "accept") =>
        /\ call.input.caller \in ListedCallers(call.input.op)
        /\ call.input.subject \in Kinds(call.input.op)
        /\ call.input.op # "accept" => {"member", "permission"} \subseteq held

\* An invitation is created or sent again only if the organization was active at a
\* moment of the call: no other answer of the storage comes from an invite or resend.
InvitesAreForActiveOrganizations ==
    /\ call.at = "answered" /\ call.input.op \in {"invite", "resend"}
    /\ answer \in Served(call.input.op)
    => "organization" \in held

\* Nobody is refused who was entitled throughout: forbidden means an unlisted caller,
\* a fact that was missing at some moment of the call, or the directory's rejection.
RefusalIsJustified ==
    answer = "forbidden" =>
        \/ call.input.caller \notin ListedCallers(call.input.op)
        \/ lacked \cap {"member", "permission", "directory"} # {}
================================================================================
