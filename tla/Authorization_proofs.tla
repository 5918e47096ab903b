-------------------------- MODULE Authorization_proofs --------------------------
(***************************************************************************)
(* The gate holds for any caller lists, actor and change of the facts.  An *)
(* answer is judged when it is given, from what the call read earlier: the *)
(* inductive invariant says, stage by stage, what has been established.    *)
(* The agent tools add an invariant of their own to it: what a tool was    *)
(* asked, what it called and what it made of the answer.                   *)
(***************************************************************************)
EXTENDS AgentTools, TLAPS

\* The stages between the caller check and the answer.
Admitted == {"membership", "permission", "arguments", "directory", "storage"}

\* The checks made on entry stay made.
EntryInv ==
    call.at \in Admitted =>
        /\ call.input.caller \in ListedCallers(call.input.op)
        /\ call.input.subject \in Kinds(call.input.op)
        /\ call.input.op = "accept" \/ call.input.id

\* What each stage knows of the facts.
StageInv ==
    /\ call.at \in {"membership", "permission"} => call.input.op # "accept"
    /\ call.at = "permission" => "member" \in (IF call.isMember THEN held ELSE lacked)
    /\ call.at \in {"arguments", "directory", "storage"} /\ call.input.op # "accept" =>
          {"member", "permission"} \subseteq held
    /\ call.at = "directory" => call.input.op \in {"invite", "resend"}
    /\ call.at = "storage" /\ call.input.op \in {"invite", "resend"} =>
          "organization" \in held

\* While a call runs, the facts of the moment are in its history.
HistoryInv ==
    call.at \notin {"idle", "answered"} =>
        /\ Holding(call.input.op) \subseteq held
        /\ Facts \ Holding(call.input.op) \subseteq lacked

AnswerInv ==
    /\ RevealingAnswersAreAuthorized
    /\ InvitesAreForActiveOrganizations
    /\ RefusalIsJustified

GateInv == TypeOK /\ EntryInv /\ StageInv /\ HistoryInv /\ AnswerInv
--------------------------------------------------------------------------------
(* The code's tables are those of the plugin card. *)

LEMMA TablesAgree ==
    ASSUME NEW op \in Operations
    PROVE  /\ AllowedCallers(op) = ListedCallers(op)
           /\ ActorKinds(op) = Kinds(op)
           /\ op # "accept" => Permission(op) = Listed(op)
    BY DEF Operations, Management, Worker, AllowedCallers, ListedCallers, ActorKinds, Kinds,
           Permission, Listed

LEMMA ServedAnswers ==
    ASSUME NEW op \in Operations
    PROVE  /\ Served(op) \subseteq Answers \ {"forbidden", "unauthenticated",
                 "runtime_failure", "invalid_request", "organization_inactive",
                 "organization_not_found"}
    BY DEF Operations, Management, Worker, Served, StorageFailures, FromStorage, Answers, Refusals

LEMMA HoldingFacts == ASSUME NEW op PROVE Holding(op) \subseteq Facts
    BY DEF Holding, Facts
--------------------------------------------------------------------------------
(* Preservation *)

LEMMA InitGate == Init => GateInv
    BY DEF Init, GateInv, TypeOK, EntryInv, StageInv, HistoryInv, AnswerInv, Calls, Stages,
           Admitted, Answers, Refusals, RevealingAnswersAreAuthorized,
           InvitesAreForActiveOrganizations, RefusalIsJustified

LEMMA BeginKeeps == ASSUME GateInv, NEW in \in Input, Begin(in) PROVE GateInv'
    <1>1. call'.at = "caller" /\ call'.input = in /\ call' \in Calls
        BY DEF Begin, Calls, Stages
    <1>2. TypeOK'
        BY <1>1, HoldingFacts DEF GateInv, TypeOK, Begin, facts, Facts
    <1>3. EntryInv' /\ StageInv'
        BY <1>1 DEF EntryInv, StageInv, Admitted
    <1>4. Holding(in.op)' = Holding(in.op)
        BY DEF Begin, facts, Holding
    <1>5. HistoryInv'
        BY <1>1, <1>4 DEF HistoryInv, Begin
    <1>6. AnswerInv'
        BY <1>1 DEF AnswerInv, Begin, RevealingAnswersAreAuthorized,
           InvitesAreForActiveOrganizations, RefusalIsJustified, Answers, Refusals
    <1> QED BY <1>2, <1>3, <1>5, <1>6 DEF GateInv

\* The history of a running call covers the facts of the next moment too.
LEMMA HistoryKept ==
    ASSUME GateInv, UNCHANGED facts, call'.input = call.input, call.at # "idle",
           held \subseteq held', lacked \subseteq lacked', call.at # "answered"
    PROVE  HistoryInv'
    <1>1. Holding(call.input.op)' = Holding(call.input.op)
        BY DEF Holding, facts
    <1> QED BY <1>1 DEF GateInv, HistoryInv

LEMMA GotoKeeps ==
    ASSUME GateInv, call.at \notin {"idle", "answered"}, NEW stage \in Stages, Goto(stage),
           stage \notin {"idle", "answered"}
    PROVE  TypeOK' /\ HistoryInv' /\ AnswerInv'
    <1>1. call'.at = stage /\ call'.input = call.input /\ call' \in Calls
        BY DEF Goto, GateInv, TypeOK, Calls
    <1>2. TypeOK'
        BY <1>1 DEF Goto, GateInv, TypeOK, facts
    <1>3. HistoryInv'
        BY <1>1, HistoryKept DEF Goto
    <1>4. answer' = "none"
        BY DEF Goto, GateInv, TypeOK
    <1>5. AnswerInv'
        BY <1>1, <1>4 DEF AnswerInv, RevealingAnswersAreAuthorized, Answers, Refusals,
           InvitesAreForActiveOrganizations, RefusalIsJustified
    <1> QED BY <1>2, <1>3, <1>5

\* An answer that keeps the three properties keeps the invariant.
LEMMA ReplyKeeps ==
    ASSUME GateInv, call.at \notin {"idle", "answered"}, NEW a \in Answers, Reply(a), AnswerInv'
    PROVE  GateInv'
    <1>1. call'.at = "answered" /\ call'.input = call.input /\ call' \in Calls
        BY DEF Reply, GateInv, TypeOK, Calls, Stages
    <1>2. a # "none"
        BY DEF Answers, Refusals
    <1>3. TypeOK'
        BY <1>1, <1>2 DEF Reply, GateInv, TypeOK, facts
    <1>4. EntryInv' /\ StageInv' /\ HistoryInv'
        BY <1>1 DEF EntryInv, StageInv, HistoryInv, Admitted
    <1> QED BY <1>3, <1>4 DEF GateInv

LEMMA InputTyped == ASSUME TypeOK, call.at # "idle" PROVE call.input.op \in Operations
    BY DEF TypeOK, Input

LEMMA CheckCallerKeeps == ASSUME GateInv, CheckCaller PROVE GateInv'
    <1> USE DEF GateInv
    <1> DEFINE in == call.input
    <1>0. in.op \in Operations /\ call.at = "caller"
        BY InputTyped DEF CheckCaller
    <1>1. CASE in.caller \notin AllowedCallers(in.op) /\ Reply("forbidden")
        <2>1. AnswerInv'
            BY <1>0, <1>1, TablesAgree DEF Reply, AnswerInv, RevealingAnswersAreAuthorized,
               Refusals, InvitesAreForActiveOrganizations, RefusalIsJustified, Served,
               StorageFailures, FromStorage, ListedCallers
        <2> QED BY <2>1, <1>0, <1>1, ReplyKeeps DEF Answers, Refusals
    <1>2. CASE Reply("unauthenticated")
        <2>1. AnswerInv'
            BY <1>0, <1>2, ServedAnswers DEF Reply, AnswerInv, RevealingAnswersAreAuthorized,
               Refusals, InvitesAreForActiveOrganizations, RefusalIsJustified
        <2> QED BY <2>1, <1>0, <1>2, ReplyKeeps DEF Answers, Refusals
    <1>3. CASE in.op # "accept" /\ ~in.id /\ Reply("invalid_request")
        <2>1. AnswerInv'
            BY <1>0, <1>3, ServedAnswers DEF Reply, AnswerInv, RevealingAnswersAreAuthorized,
               InvitesAreForActiveOrganizations, RefusalIsJustified
        <2> QED BY <2>1, <1>0, <1>3, ReplyKeeps DEF Answers
    <1>4. CASE /\ in.caller \in AllowedCallers(in.op)
               /\ in.subject \in ActorKinds(in.op)
               /\ in.op = "accept" \/ in.id
               /\ Goto(IF in.op = "accept" THEN "arguments" ELSE "membership")
        <2> DEFINE stage == IF in.op = "accept" THEN "arguments" ELSE "membership"
        <2>1. stage \in Stages \ {"idle", "answered"}
            BY DEF Stages
        <2>2. TypeOK' /\ HistoryInv' /\ AnswerInv'
            BY <1>0, <1>4, <2>1, GotoKeeps
        <2>3. call'.at = stage /\ call'.input = in
            BY <1>4 DEF Goto, TypeOK, Calls
        <2>4. EntryInv'
            BY <1>0, <1>4, <2>3, TablesAgree DEF EntryInv, ListedCallers
        <2>5. StageInv'
            BY <2>3 DEF StageInv
        <2> QED BY <2>2, <2>4, <2>5
    <1> QED BY <1>1, <1>2, <1>3, <1>4 DEF CheckCaller

LEMMA ProviderFailsKeeps == ASSUME GateInv, ProviderFails PROVE GateInv'
    <1>1. call.at \notin {"idle", "answered"} /\ call.input.op \in Operations
        BY InputTyped DEF ProviderFails, GateInv
    <1>2. AnswerInv'
        BY <1>1, ServedAnswers DEF ProviderFails, Reply, AnswerInv, RevealingAnswersAreAuthorized,
           Refusals, InvitesAreForActiveOrganizations, RefusalIsJustified
    <1> QED BY <1>1, <1>2, ReplyKeeps DEF ProviderFails, Answers, Refusals

LEMMA AskMembershipKeeps == ASSUME GateInv, AskMembership PROVE GateInv'
    <1> USE DEF GateInv
    <1>1. /\ call'.at = "permission" /\ call'.input = call.input
          /\ call'.isMember = member /\ call' \in Calls
        BY DEF AskMembership, TypeOK, Calls, Stages
    <1>2. TypeOK'
        BY <1>1 DEF AskMembership, TypeOK, facts
    <1>3. EntryInv'
        BY <1>1 DEF AskMembership, EntryInv, Admitted, ListedCallers
    <1>4. "member" \in Holding(call.input.op) <=> member
        BY DEF Holding
    <1>5. "member" \in (IF call'.isMember THEN held' ELSE lacked')
        BY <1>1, <1>4 DEF AskMembership, HistoryInv, Facts
    <1>6. StageInv'
        BY <1>1, <1>5 DEF AskMembership, StageInv
    <1>7. HistoryInv'
        BY <1>1, HistoryKept DEF AskMembership
    <1>8. AnswerInv'
        BY <1>1 DEF AskMembership, TypeOK, AnswerInv, RevealingAnswersAreAuthorized, Answers,
           Refusals, InvitesAreForActiveOrganizations, RefusalIsJustified
    <1> QED BY <1>2, <1>3, <1>6, <1>7, <1>8

LEMMA AskPermissionKeeps == ASSUME GateInv, AskPermission PROVE GateInv'
    <1> USE DEF GateInv
    <1> DEFINE op == call.input.op
    <1>0. call.at = "permission" /\ op \in Operations /\ op # "accept"
        BY InputTyped DEF AskPermission, StageInv
    <1>1. "permission" \in Holding(op) <=> Permission(op) \in granted
        BY <1>0, TablesAgree DEF Holding
    <1>2. CASE call.isMember /\ Permission(op) \in granted
        <2>1. Goto("arguments")
            BY <1>2 DEF AskPermission
        <2>2. TypeOK' /\ HistoryInv' /\ AnswerInv'
            BY <1>0, <2>1, GotoKeeps DEF Stages
        <2>3. call'.at = "arguments" /\ call'.input = call.input
            BY <2>1 DEF Goto, TypeOK, Calls
        <2>4. {"member", "permission"} \subseteq held'
            BY <1>0, <1>1, <1>2, <2>1 DEF StageInv, HistoryInv, Goto
        <2>5. EntryInv'
            BY <1>0, <2>3 DEF EntryInv, Admitted, ListedCallers
        <2>6. StageInv'
            BY <2>3, <2>4 DEF StageInv
        <2> QED BY <2>2, <2>5, <2>6
    <1>3. CASE ~(call.isMember /\ Permission(op) \in granted)
        <2>1. Reply("forbidden")
            BY <1>3 DEF AskPermission
        <2>2. lacked \cap {"member", "permission"} # {}
            BY <1>0, <1>1, <1>3 DEF StageInv, HistoryInv, Facts
        <2>3. AnswerInv'
            BY <1>0, <2>1, <2>2, ServedAnswers DEF Reply, AnswerInv,
               RevealingAnswersAreAuthorized, Refusals, InvitesAreForActiveOrganizations,
               RefusalIsJustified
        <2> QED BY <1>0, <2>1, <2>3, ReplyKeeps DEF Answers, Refusals
    <1> QED BY <1>2, <1>3

LEMMA CheckArgumentsKeeps == ASSUME GateInv, CheckArguments PROVE GateInv'
    <1> USE DEF GateInv
    <1> DEFINE op == call.input.op
               stage == IF op \in AskTheDirectory THEN "directory" ELSE "storage"
    <1>0. call.at = "arguments" /\ op \in Operations
        BY InputTyped DEF CheckArguments
    <1>1. CASE Reply("invalid_request")
        <2>1. AnswerInv'
            BY <1>0, <1>1, ServedAnswers DEF Reply, AnswerInv, RevealingAnswersAreAuthorized,
               InvitesAreForActiveOrganizations, RefusalIsJustified, EntryInv, StageInv, Admitted,
               ListedCallers
        <2> QED BY <1>0, <1>1, <2>1, ReplyKeeps DEF Answers
    <1>2. CASE Goto(stage)
        <2>1. stage \in Stages \ {"idle", "answered"}
            BY DEF Stages
        <2>2. TypeOK' /\ HistoryInv' /\ AnswerInv'
            BY <1>0, <1>2, <2>1, GotoKeeps
        <2>3. call'.at = stage /\ call'.input = call.input /\ held' = held
            BY <1>2 DEF Goto, TypeOK, Calls
        <2>4. EntryInv'
            BY <1>0, <2>3 DEF EntryInv, Admitted, ListedCallers
        <2>5. StageInv'
            BY <1>0, <2>3 DEF StageInv, AskTheDirectory
        <2> QED BY <2>2, <2>4, <2>5
    <1> QED BY <1>1, <1>2 DEF CheckArguments

LEMMA AskDirectoryKeeps == ASSUME GateInv, AskDirectory PROVE GateInv'
    <1> USE DEF GateInv
    <1> DEFINE op == call.input.op
    <1>0. call.at = "directory" /\ op \in Operations /\ op \in {"invite", "resend"}
        BY InputTyped DEF AskDirectory, StageInv
    <1>1. CASE organization = "active" /\ Goto("storage")
        <2>1. TypeOK' /\ HistoryInv' /\ AnswerInv'
            BY <1>0, <1>1, GotoKeeps DEF Stages
        <2>2. call'.at = "storage" /\ call'.input = call.input /\ held' = held
            BY <1>1 DEF Goto, TypeOK, Calls
        <2>3. "organization" \in held
            BY <1>0, <1>1 DEF HistoryInv, Holding
        <2>4. EntryInv'
            BY <1>0, <2>2 DEF EntryInv, Admitted, ListedCallers
        <2>5. StageInv'
            BY <1>0, <2>2, <2>3 DEF StageInv
        <2> QED BY <2>1, <2>4, <2>5
    <1>2. ASSUME NEW a \in {"organization_inactive", "organization_not_found"}, Reply(a)
          PROVE GateInv'
        <2>1. AnswerInv'
            BY <1>0, <1>2, ServedAnswers DEF Reply, AnswerInv, RevealingAnswersAreAuthorized,
               InvitesAreForActiveOrganizations, RefusalIsJustified, EntryInv, StageInv, Admitted,
               ListedCallers
        <2> QED BY <1>0, <1>2, <2>1, ReplyKeeps DEF Answers
    <1> QED BY <1>1, <1>2 DEF AskDirectory

LEMMA DirectoryRejectsKeeps == ASSUME GateInv, DirectoryRejects PROVE GateInv'
    <1> USE DEF GateInv
    <1>0. call.at = "directory" /\ call.input.op \in Operations
        BY InputTyped DEF DirectoryRejects
    <1>1. call'.at = "answered" /\ call'.input = call.input /\ call' \in Calls
        BY DEF DirectoryRejects, TypeOK, Calls, Stages
    <1>2. TypeOK'
        BY <1>0, <1>1 DEF DirectoryRejects, TypeOK, facts, Answers, Refusals
    <1>3. EntryInv' /\ StageInv' /\ HistoryInv'
        BY <1>1 DEF EntryInv, StageInv, HistoryInv, Admitted
    <1>4. AnswerInv'
        BY <1>0, <1>1, ServedAnswers DEF DirectoryRejects, AnswerInv,
           RevealingAnswersAreAuthorized, Refusals, InvitesAreForActiveOrganizations,
           RefusalIsJustified
    <1> QED BY <1>2, <1>3, <1>4

LEMMA StoreKeeps == ASSUME GateInv, Store PROVE GateInv'
    <1> USE DEF GateInv
    <1>0. call.at = "storage" /\ call.input.op \in Operations
        BY InputTyped DEF Store
    <1>1. PICK a \in Served(call.input.op) \cup {"runtime_failure"} : Reply(a)
        BY DEF Store
    <1>2. a \in Answers /\ a # "forbidden"
        BY <1>0, <1>1, ServedAnswers DEF Answers, Refusals
    <1>3. call'.input = call.input /\ held' = held /\ answer' = a
        BY <1>1 DEF Reply, TypeOK, Calls
    <1>4. AnswerInv'
        BY <1>0, <1>2, <1>3 DEF AnswerInv, RevealingAnswersAreAuthorized,
           InvitesAreForActiveOrganizations, RefusalIsJustified, EntryInv, StageInv, Admitted,
           ListedCallers
    <1> QED BY <1>0, <1>1, <1>2, <1>4, ReplyKeeps

LEMMA ChangeFactsKeeps == ASSUME GateInv, ChangeFacts PROVE GateInv'
    <1> USE DEF GateInv
    <1>1. UNCHANGED <<call, answer>> /\ Note
        BY DEF ChangeFacts, ChangeMembership, ChangePermission, ChangeOrganization
    <1>2. /\ member' \in BOOLEAN /\ granted' \subseteq Permissions
          /\ organization' \in {"active", "inactive", "missing"}
        BY DEF ChangeFacts, ChangeMembership, ChangePermission, ChangeOrganization, TypeOK
    <1>3. held \subseteq held' /\ lacked \subseteq lacked'
        BY <1>1 DEF Note
    <1>4. held' \subseteq Facts /\ lacked' \subseteq Facts \cup {"directory"}
        <2>1. Holding(call.input.op)' \subseteq Facts
            BY DEF Holding, Facts
        <2> QED BY <2>1, <1>1 DEF Note, TypeOK
    <1>5. TypeOK'
        BY <1>1, <1>2, <1>4 DEF TypeOK
    <1>6. EntryInv' /\ StageInv'
        BY <1>1, <1>3 DEF EntryInv, StageInv, ListedCallers
    <1>7. HistoryInv'
        BY <1>1 DEF HistoryInv, Note
    <1>8. AnswerInv'
        BY <1>1, <1>3 DEF AnswerInv, RevealingAnswersAreAuthorized,
           InvitesAreForActiveOrganizations, RefusalIsJustified, ListedCallers
    <1> QED BY <1>5, <1>6, <1>7, <1>8

LEMMA NextKeeps == ASSUME GateInv, [Next]_vars PROVE GateInv'
    <1>1. CASE \E in \in Input : Begin(in)
        BY <1>1, BeginKeeps
    <1>2. CASE CallStep
        BY <1>2, CheckCallerKeeps, ProviderFailsKeeps, AskMembershipKeeps, AskPermissionKeeps,
           CheckArgumentsKeeps, AskDirectoryKeeps, DirectoryRejectsKeeps, StoreKeeps DEF CallStep
    <1>3. CASE ChangeFacts
        BY <1>3, ChangeFactsKeeps
    <1>4. CASE UNCHANGED vars
        BY <1>4 DEF vars, GateInv, TypeOK, EntryInv, StageInv, HistoryInv, AnswerInv, Holding,
           RevealingAnswersAreAuthorized, InvitesAreForActiveOrganizations, RefusalIsJustified,
           ListedCallers
    <1> QED BY <1>1, <1>2, <1>3, <1>4 DEF Next
--------------------------------------------------------------------------------
(* Theorems *)

\* The call, its history and its answer stay of their types, and it has an answer
\* exactly when it is over.
THEOREM TypeCorrect == Spec => []TypeOK
    <1>1. GateInv => TypeOK BY DEF GateInv
    <1> QED BY <1>1, InitGate, NextKeeps, PTL DEF Spec

\* However the facts change between the awaits, an answer that reveals anything was
\* given to a listed caller for an actor found to be a member with the permission.
THEOREM AnswersAreAuthorized == Spec => []RevealingAnswersAreAuthorized
    <1>1. GateInv => RevealingAnswersAreAuthorized BY DEF GateInv, AnswerInv
    <1> QED BY <1>1, InitGate, NextKeeps, PTL DEF Spec

\* No invitation is created or sent again for an organization that the directory did
\* not show active during the call.
THEOREM InvitingNeedsAnActiveOrganization == Spec => []InvitesAreForActiveOrganizations
    <1>1. GateInv => InvitesAreForActiveOrganizations BY DEF GateInv, AnswerInv
    <1> QED BY <1>1, InitGate, NextKeeps, PTL DEF Spec

\* Forbidden is said only to an unlisted caller, for a fact that was missing at some
\* moment, or on the directory's word.
THEOREM RefusalsAreJustified == Spec => []RefusalIsJustified
    <1>1. GateInv => RefusalIsJustified BY DEF GateInv, AnswerInv
    <1> QED BY <1>1, InitGate, NextKeeps, PTL DEF Spec
--------------------------------------------------------------------------------
(* The agent tools *)

Known == {"organization_invitation_get", "organization_invitation_list",
          "organization_invitation_revoke"}

\* A valid organization_id is behind every answer that reveals anything.
IdInv ==
    answer \in Answers \ (Refusals \cup {"invalid_request"}) =>
        call.input.op = "accept" \/ call.input.id

\* A tool makes at most one call, of its own operation and as this plugin.
OwnCall ==
    tool # "none" /\ call.at # "idle" =>
        /\ tool \in Known
        /\ call.input.op = OperationOf(tool)
        /\ call.input.caller = Tools

\* The result is a tool's, about a request that started no call or about the answer
\* of its call.
ResultInv ==
    result # "none" =>
        /\ tool # "none"
        /\ \/ /\ call.at = "idle"
              /\ result = "invalid_arguments"
                    \/ (result = "not_found" /\ tool = "another_tool")
           \/ /\ call.at = "answered"
              /\ result = IF answer \in {"ok", "runtime_failure"} THEN answer
                          ELSE ToolError(answer)

ToolInv == GateInv /\ IdInv /\ OwnCall /\ ResultInv

\* What the tools make of the service's answers.
LEMMA ToolErrors ==
    ASSUME NEW a \in Answers
    PROVE  /\ ToolError(a) = "permission_denied" <=> a \in {"forbidden", "unauthenticated"}
           /\ ToolError(a) = "invalid_arguments" <=> a = "invalid_request"
           /\ ToolError(a) \in {"invalid_arguments", "not_found", "permission_denied",
                               "execution_failed"}
    BY DEF ToolError

\* The tools reach three operations of the management.
LEMMA ToolOperations ==
    ASSUME NEW name \in Known
    PROVE  OperationOf(name) \in {"get_invitation", "list_invitations", "revoke"}
    BY DEF Known, OperationOf

\* The tools do to the service what any caller may do.
LEMMA ToolsCall == ASSUME [ToolNext]_allVars PROVE [Next]_vars
    <1>1. ASSUME NEW name, NEW decodes, Execute(name, decodes) PROVE [Next]_vars
        BY <1>1 DEF Execute, Next
    <1>2. ASSUME CalledDirectly \/ Answer PROVE [Next]_vars
        BY <1>2 DEF CalledDirectly, Answer, Next
    <1> QED BY <1>1, <1>2 DEF ToolNext, allVars, Next

\* Nothing is asked of a tool at first.
LEMMA InitTools == ToolInit => ToolInv
    BY InitGate DEF ToolInit, Init, ToolInv, IdInv, OwnCall, ResultInv, Answers, Refusals

\* A step of the call keeps its input, and answers for a valid id once the id was checked.
LEMMA CallStepKeeps ==
    ASSUME GateInv, IdInv, CallStep
    PROVE  /\ call'.input = call.input /\ call.at \notin {"idle", "answered"}
           /\ call'.at # "idle"
           /\ IdInv'
    <1> USE DEF GateInv
    <1>1. call.at \in Stages /\ call \in Calls
        BY DEF TypeOK, Calls
    <1>2. call'.input = call.input /\ call.at \notin {"idle", "answered"}
        BY <1>1 DEF CallStep, CheckCaller, ProviderFails, AskMembership, AskPermission,
           CheckArguments, AskDirectory, DirectoryRejects, Store, Goto, Reply, Calls
    <1>3. call'.at # "idle"
        BY <1>1 DEF CallStep, CheckCaller, ProviderFails, AskMembership, AskPermission,
           CheckArguments, AskDirectory, DirectoryRejects, Store, Goto, Reply, Calls
    <1>4. \/ answer' \in {"none", "invalid_request"} \cup Refusals
          \/ call.at \in Admitted
        BY <1>2 DEF CallStep, CheckCaller, ProviderFails, AskMembership, AskPermission,
           CheckArguments, AskDirectory, DirectoryRejects, Store, Goto, Reply, Admitted,
           TypeOK, Refusals
    <1>5. IdInv'
        BY <1>2, <1>4 DEF IdInv, EntryInv, Answers, Refusals
    <1> QED BY <1>2, <1>3, <1>5

LEMMA ToolsKeep == ASSUME ToolInv, [ToolNext]_allVars PROVE ToolInv'
    <1> USE DEF ToolInv
    <1>0. GateInv'
        BY ToolsCall, NextKeeps
    <1>1. ASSUME NEW name \in Names, NEW decodes \in BOOLEAN, Execute(name, decodes)
          PROVE  IdInv' /\ OwnCall' /\ ResultInv'
        <2>1. result = "none" /\ answer = "none" /\ call.at = "idle" /\ tool' = name
            BY <1>1 DEF Execute, GateInv, TypeOK, ResultInv
        <2>2. CASE name = "another_tool" \/ ~decodes
            BY <1>1, <2>1, <2>2 DEF Execute, vars, facts, IdInv, OwnCall, ResultInv, Answers,
               Refusals, Names
        <2>3. CASE name # "another_tool" /\ decodes
            <3>1. PICK in \in Input : /\ in.op = OperationOf(name) /\ in.caller = Tools
                                      /\ Begin(in)
                BY <1>1, <2>3 DEF Execute
            <3>2. result' = "none" /\ answer' = "none" /\ call'.input = in
                BY <1>1, <2>1, <2>3, <3>1 DEF Execute, Begin
            <3>3. name \in Known
                BY <2>3 DEF Names, Known
            <3> QED BY <2>1, <3>1, <3>2, <3>3 DEF IdInv, OwnCall, ResultInv, Answers, Refusals
        <2> QED BY <2>2, <2>3
    <1>2. ASSUME CalledDirectly PROVE IdInv' /\ OwnCall' /\ ResultInv'
        BY <1>2 DEF CalledDirectly, toolVars, Begin, IdInv, OwnCall, ResultInv, Answers, Refusals
    <1>3. ASSUME Answer PROVE IdInv' /\ OwnCall' /\ ResultInv'
        BY <1>3 DEF Answer, vars, facts, GateInv, TypeOK, IdInv, OwnCall, ResultInv
    <1>4. ASSUME CallStep, UNCHANGED toolVars PROVE IdInv' /\ OwnCall' /\ ResultInv'
        BY <1>4, CallStepKeeps DEF toolVars, OwnCall, ResultInv
    <1>5. ASSUME ChangeFacts, UNCHANGED toolVars PROVE IdInv' /\ OwnCall' /\ ResultInv'
        BY <1>5 DEF ChangeFacts, ChangeMembership, ChangePermission, ChangeOrganization,
           toolVars, IdInv, OwnCall, ResultInv
    <1>6. ASSUME UNCHANGED allVars PROVE IdInv' /\ OwnCall' /\ ResultInv'
        BY <1>6 DEF allVars, vars, facts, IdInv, OwnCall, ResultInv
    <1> QED BY <1>0, <1>1, <1>2, <1>3, <1>4, <1>5, <1>6 DEF ToolNext

\* What an agent learns, and what it is refused, follows from what its call was told.
LEMMA ToolAnswers ==
    ASSUME ToolInv
    PROVE  AgentsLearnWhatTheActorMay /\ RefusalsSurviveTranslation
    <1> USE DEF ToolInv
    <1>1. CASE result = "none" \/ call.at = "idle"
        BY <1>1 DEF ResultInv, AgentsLearnWhatTheActorMay, RefusalsSurviveTranslation, GateInv,
           TypeOK
    <1>2. CASE result # "none" /\ call.at # "idle"
        <2>1. /\ tool \in Known /\ call.input.op = OperationOf(tool)
              /\ call.input.caller = Tools /\ answer \in Answers
              /\ result = IF answer \in {"ok", "runtime_failure"} THEN answer
                          ELSE ToolError(answer)
            BY <1>2 DEF OwnCall, ResultInv, GateInv, TypeOK
        <2>2. call.input.op \in {"get_invitation", "list_invitations", "revoke"}
            BY <2>1, ToolOperations
        <2>3. RefusalsSurviveTranslation
            BY <2>1, ToolErrors DEF RefusalsSurviveTranslation
        <2>4. ASSUME answer \in Answers \ (Refusals \cup {"invalid_request"})
              PROVE  /\ Tools \in ManagementCallers /\ call.input.subject = "user"
                     /\ {"member", "permission"} \subseteq held
            BY <2>1, <2>2, <2>4 DEF IdInv, GateInv, AnswerInv, RevealingAnswersAreAuthorized,
               ListedCallers, Kinds
        <2>5. result \in {"ok", "execution_failed", "not_found"} =>
                    answer \in Answers \ (Refusals \cup {"invalid_request"})
            BY <2>1, ToolErrors DEF Refusals
        <2> QED BY <2>2, <2>3, <2>4, <2>5 DEF AgentsLearnWhatTheActorMay
    <1> QED BY <1>1, <1>2

\* Through the tools an agent learns of invitations only what an actor with membership
\* and permission may, by three operations none of which shows or takes a token.
THEOREM AgentsLearnAuthorized == ToolSpec => []AgentsLearnWhatTheActorMay
    <1>1. ToolInv => AgentsLearnWhatTheActorMay BY ToolAnswers
    <1> QED BY <1>1, InitTools, ToolsKeep, PTL DEF ToolSpec

\* permission_denied is what the agent hears exactly when the service refused.
THEOREM RefusalsReachTheAgent == ToolSpec => []RefusalsSurviveTranslation
    <1>1. ToolInv => RefusalsSurviveTranslation BY ToolAnswers
    <1> QED BY <1>1, InitTools, ToolsKeep, PTL DEF ToolSpec

\* What holds of any caller's calls holds of the tools' too.
THEOREM ToolsAreCallers ==
    ToolSpec => [](/\ RevealingAnswersAreAuthorized
                   /\ InvitesAreForActiveOrganizations
                   /\ RefusalIsJustified)
    <1>1. ToolInv => /\ RevealingAnswersAreAuthorized
                     /\ InvitesAreForActiveOrganizations
                     /\ RefusalIsJustified
        BY DEF ToolInv, GateInv, AnswerInv
    <1> QED BY <1>1, InitTools, ToolsKeep, PTL DEF ToolSpec
================================================================================
