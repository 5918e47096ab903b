--------------------------- MODULE InvitationService ---------------------------
(***************************************************************************)
(* The handlers of lib.rs over the tables: calls of the public service     *)
(* (invite, resend, revoke, accept), runs of the worker service            *)
(* (expire_due, dispatch_due) and the command executor they share, against *)
(* the membership and notification services.                               *)
(*                                                                         *)
(* A step is one database transaction, one read outside a transaction, or  *)
(* one remote answer; between two of them anything else may happen.  Calls *)
(* are validated and authorized before their first step here.  A call may  *)
(* stop between two steps: it returned an error, or its process died.      *)
(***************************************************************************)
EXTENDS InvitationStore

CONSTANTS
    Clients,              \* concurrent calls of the public service
    Workers,              \* concurrent dispatch_due calls
    RefusalIsFinal        \* the membership service refuses a command for good

ASSUME ServiceAssumption ==
    /\ Executors = Clients \cup Workers
    /\ Clients \cap Workers = {}
    /\ RefusalIsFinal \in BOOLEAN

VARIABLES
    call,                 \* what a public call has read before its transaction
    task,                 \* the command an executor is carrying out
    batch,                \* leased commands a dispatch_due has not reached yet
    members,              \* membership service: subject admitted for a command
    refused,              \* membership service: commands it has refused
    links,                \* notification service: invitation links it queued
    observed              \* notification service: lifecycles it was told

runtime == <<call, task, batch>>
providers == <<members, refused, links, observed>>
vars == <<tables, runtime, providers>>

RequestsOf(op) == {request \in Requests : request.op = op}

NoCall == [pc |-> "idle", request |-> NULL, seen |-> 0]
Call == {NoCall}
          \cup [pc: {"resend"}, request: RequestsOf("resend"), seen: Nat]
          \cup [pc: {"lookup", "begin"}, request: RequestsOf("accept"), seen: Nat]

\* revision and token are the invitation's as command_matches_invitation read it.
Answers == {"none", "ok", "refused", "unknown", "unavailable"}
NoTask == [pc |-> "idle", key |-> NULL, revision |-> 0, token |-> 0,
           answer |-> "none"]
Task == {NoTask} \cup [pc: {"call", "settle"}, key: CommandKeys, revision: Nat,
                       token: Nat, answer: Answers]

Link == [id: Ids, generation: Nat, revision: Nat]
Observation == [id: Ids, lifecycle: Lifecycles]

RuntimeOK ==
    /\ call \in [Clients -> Call]
    /\ task \in [Executors -> Task]
    /\ batch \in [Executors -> SUBSET CommandKeys]

ProvidersOK ==
    /\ members \in [Ids -> Subjects \cup {NULL}]
    /\ refused \subseteq Ids
    /\ links \subseteq Link
    /\ observed \subseteq Observation

\* Every row satisfies the CHECK constraints of its column, and no call or
\* executor holds a request or a command it could not have been given.
TypeOK == TablesOK /\ RuntimeOK /\ ProvidersOK

Init ==
    /\ TablesInit
    /\ call = [c \in Clients |-> NoCall]
    /\ task = [e \in Executors |-> NoTask]
    /\ batch = [e \in Executors |-> {}]
    /\ members = [id \in Ids |-> NULL]
    /\ refused = {}
    /\ links = {}
    /\ observed = {}
-------------------------------------------------------------------------------
(* The public service *)

Idle(c) == call[c].pc = "idle" /\ task[c].pc = "idle"

Invite(c, request) ==
    /\ Idle(c)
    /\ request.op = "invite"
    /\ \E id \in Ids : CreateInvitation(request, id)
    /\ UNCHANGED <<runtime, providers>>

\* resend reads the generation it will derive the new token for, outside the
\* transaction that rotates it.
ResendRead(c, request) ==
    /\ Idle(c)
    /\ request.op = "resend"
    /\ invitations[request.id].state # "none"
    /\ call' = [call EXCEPT ![c] = [pc |-> "resend", request |-> request,
                                    seen |-> invitations[request.id].generation]]
    /\ UNCHANGED <<tables, task, batch, providers>>

ResendCommit(c) ==
    /\ call[c].pc = "resend"
    /\ ResendInvitation(call[c].request, call[c].seen + 1)
    /\ call' = [call EXCEPT ![c] = NoCall]
    /\ UNCHANGED <<task, batch, providers>>

Revoke(c, request) ==
    /\ Idle(c)
    /\ request.op = "revoke"
    /\ RevokeInvitation(request)
    /\ UNCHANGED <<runtime, providers>>

\* accept: lookup_accept_replay finds no row for the key.
AcceptLookup(c, request) ==
    /\ Idle(c)
    /\ request.op = "accept"
    /\ NewKey(request)
    /\ call' = [call EXCEPT ![c] = [pc |-> "lookup", request |-> request,
                                    seen |-> 0]]
    /\ UNCHANGED <<tables, task, batch, providers>>

\* accept: the token is verified against the row as read outside a transaction.
AcceptRead(c) ==
    LET request == call[c].request
        row == invitations[request.id]
    IN  /\ call[c].pc = "lookup"
        /\ row.state = "pending"
        /\ row.token = request.token
        /\ call' = [call EXCEPT ![c].pc = "begin", ![c].seen = row.generation]
        /\ UNCHANGED <<tables, task, batch, providers>>

AcceptBegin(c) ==
    LET request == call[c].request IN
    /\ call[c].pc = "begin"
    /\ BeginAccept(request, call[c].seen, c)
    /\ call' = [call EXCEPT ![c] = NoCall]
    /\ task' = [task EXCEPT ![c] = [pc |-> "call", key |-> MemberKey(request.id),
                                    revision |-> 0, token |-> 0,
                                    answer |-> "none"]]
    /\ UNCHANGED <<batch, providers>>

AcceptExpires(c) ==
    /\ call[c].pc = "begin"
    /\ BeginAcceptExpires(call[c].request)
    /\ call' = [call EXCEPT ![c] = NoCall]
    /\ UNCHANGED <<task, batch, providers>>

\* Any early return of a call that has only read: a rejection, a replay of the
\* key, a storage error or the end of its process.
CallReturns(c) ==
    /\ call[c].pc # "idle"
    /\ call' = [call EXCEPT ![c] = NoCall]
    /\ UNCHANGED <<tables, task, batch, providers>>
-------------------------------------------------------------------------------
(* The worker service *)

ExpireDueSweep(S) ==
    /\ ExpireDue(S)
    /\ UNCHANGED <<runtime, providers>>

\* dispatch_due leases a batch.
Claim(w, S) ==
    /\ task[w].pc = "idle"
    /\ batch[w] = {}
    /\ ClaimDueCommands(S, w)
    /\ batch' = [batch EXCEPT ![w] = S]
    /\ UNCHANGED <<call, task, providers>>

\* execute_command: the command still matches its invitation.
Execute(w, k) ==
    /\ task[w].pc = "idle"
    /\ k \in batch[w]
    /\ CommandMatches(k)
    /\ batch' = [batch EXCEPT ![w] = @ \ {k}]
    /\ task' = [task EXCEPT ![w] = [pc |-> "call", key |-> k, answer |-> "none",
                                    revision |-> invitations[k.id].revision,
                                    token |-> invitations[k.id].token]]
    /\ UNCHANGED <<tables, call, providers>>

\* execute_command: the command no longer matches.  The read and the update are
\* two statements, but a command that stopped matching never matches again.
Discard(w, k) ==
    /\ task[w].pc = "idle"
    /\ k \in batch[w]
    /\ ~CommandMatches(k)
    /\ SupersedeCommand(k, w)
    /\ batch' = [batch EXCEPT ![w] = @ \ {k}]
    /\ UNCHANGED <<call, task, providers>>

\* The same, after the lease was lost: the error aborts the whole batch.
DiscardAborts(w, k) ==
    /\ task[w].pc = "idle"
    /\ k \in batch[w]
    /\ ~CommandMatches(k)
    /\ ~Holds(k, w)
    /\ batch' = [batch EXCEPT ![w] = {}]
    /\ UNCHANGED <<tables, call, task, providers>>
-------------------------------------------------------------------------------
(* Remote calls.  Each one carries the command key as its idempotency key. *)

Calls(e, kind) == task[e].pc = "call" /\ task[e].key.kind = kind

Answer(e, answer) ==
    /\ task' = [task EXCEPT ![e].pc = "settle", ![e].answer = answer]
    /\ UNCHANGED <<tables, call, batch>>

\* A provider that carried out the request may still fail to answer.
Carried == {"ok", "unavailable"}

\* add_member replays the membership it already created for the command.
MembershipAdmits(e, answer) ==
    LET id == task[e].key.id IN
    /\ Calls(e, "add_member")
    /\ RefusalIsFinal => id \notin refused
    /\ members' = [members EXCEPT ![id] = commands[task[e].key].subject]
    /\ Answer(e, answer)
    /\ UNCHANGED <<refused, links, observed>>

\* Every domain error of add_member, the unknown ones included, is permanent.
MembershipRefuses(e) ==
    LET id == task[e].key.id IN
    /\ Calls(e, "add_member")
    /\ members[id] = NULL
    /\ refused' = refused \cup {id}
    /\ Answer(e, "refused")
    /\ UNCHANGED <<members, links, observed>>

\* The link carries the token of the command's generation, which the stored
\* verifier must accept, and the revision read by Execute.
NotificationQueues(e, answer) ==
    LET k == task[e].key IN
    /\ Calls(e, "notify_invitation")
    /\ task[e].token = k.generation
    /\ links' = links \cup {[id |-> k.id, generation |-> k.generation,
                             revision |-> task[e].revision]}
    /\ Answer(e, answer)
    /\ UNCHANGED <<members, refused, observed>>

LifecycleIsObserved(e, answer) ==
    LET k == task[e].key IN
    /\ Calls(e, "notify_lifecycle")
    /\ observed' = observed \cup {[id |-> k.id, lifecycle |-> k.lifecycle]}
    /\ Answer(e, answer)
    /\ UNCHANGED <<members, refused, links>>

\* A permanent domain error of the directory or the notification service, or a
\* token that does not match the stored verifier.
NotificationRefused(e) ==
    /\ Calls(e, "notify_invitation") \/ Calls(e, "notify_lifecycle")
    /\ Answer(e, "refused")
    /\ UNCHANGED providers

AnswersUnknown(e) ==
    /\ Calls(e, "notify_invitation") \/ Calls(e, "notify_lifecycle")
    /\ Answer(e, "unknown")
    /\ UNCHANGED providers

Unavailable(e) ==
    /\ task[e].pc = "call"
    /\ Answer(e, "unavailable")
    /\ UNCHANGED providers
-------------------------------------------------------------------------------
(* Settling the command with the answer *)

Settles(e, k, answer) ==
    /\ task[e].pc = "settle"
    /\ task[e].key = k
    /\ task[e].answer = answer

EndTask(e) ==
    /\ task' = [task EXCEPT ![e] = NoTask]
    /\ UNCHANGED <<call, batch, providers>>

Accepts(e, k) ==
    /\ Settles(e, k, "ok")
    /\ k.kind = "add_member"
    /\ CompleteAccept(k.id, e)
    /\ EndTask(e)

\* complete_accept on a command another executor completed returns its receipt.
AcceptReplays(e, k) ==
    /\ Settles(e, k, "ok")
    /\ k.kind = "add_member"
    /\ commands[k].state = "completed"
    /\ UNCHANGED tables
    /\ EndTask(e)

Delivers(e, k) ==
    /\ Settles(e, k, "ok")
    /\ k.kind = "notify_invitation"
    /\ CompleteNotification(k, e)
    /\ EndTask(e)

Announces(e, k) ==
    /\ Settles(e, k, "ok")
    /\ k.kind = "notify_lifecycle"
    /\ CompleteLifecycle(k, e)
    /\ EndTask(e)

FailCommand(k, e) ==
    \/ FailNotification(k, e)
    \/ FailLifecycle(k, e)
    \/ k.kind = "add_member" /\ FailAcceptance(k.id, e)

Exhausted(k) == commands[k].attempts >= MaxCommandAttempts

\* retry_or_fail_command applies to unknown answers only.
Fails(e, k) ==
    /\ Settles(e, k, "refused") \/ (Settles(e, k, "unknown") /\ Exhausted(k))
    /\ FailCommand(k, e)
    /\ EndTask(e)

Retries(e, k) ==
    /\ Settles(e, k, "unavailable") \/ (Settles(e, k, "unknown") /\ ~Exhausted(k))
    /\ RetryCommand(k, e)
    /\ EndTask(e)

Completes(e, k) == Settles(e, k, "ok") /\ k.kind = "add_member"

\* The fence is lost, or complete_accept finds its invitation changed: the error
\* ends the call, or the whole batch of a dispatch_due.
Aborts(e, k) ==
    /\ task[e].pc = "settle"
    /\ task[e].key = k
    /\ ~(Holds(k, e) /\ (Completes(e, k) => MemberMatches(k.id)))
    /\ ~(Completes(e, k) /\ commands[k].state = "completed")
    /\ task' = [task EXCEPT ![e] = NoTask]
    /\ batch' = [batch EXCEPT ![e] = {}]
    /\ UNCHANGED <<tables, call, providers>>

\* The process of an executor ends, leaving its leases to lapse.
Crash(e) ==
    /\ task[e].pc # "idle" \/ batch[e] # {}
    /\ task' = [task EXCEPT ![e] = NoTask]
    /\ batch' = [batch EXCEPT ![e] = {}]
    /\ UNCHANGED <<tables, call, providers>>
-------------------------------------------------------------------------------
TokenDue(id) == TokenComesDue(id) /\ UNCHANGED <<runtime, providers>>
CommandDue(k) == CommandComesDue(k) /\ UNCHANGED <<runtime, providers>>

ClientStep(c) ==
    \/ \E request \in Requests : \/ Invite(c, request)
                                 \/ ResendRead(c, request)
                                 \/ Revoke(c, request)
                                 \/ AcceptLookup(c, request)
    \/ ResendCommit(c)
    \/ AcceptRead(c)
    \/ AcceptBegin(c)
    \/ AcceptExpires(c)
    \/ CallReturns(c)

\* The steps of an executor that is running and reached.
CommandStep(e) ==
    \/ \E answer \in Carried : \/ MembershipAdmits(e, answer)
                               \/ NotificationQueues(e, answer)
                               \/ LifecycleIsObserved(e, answer)
    \/ MembershipRefuses(e)
    \/ NotificationRefused(e)
    \/ AnswersUnknown(e)
    \/ Unavailable(e)
    \/ \E k \in CommandKeys : \/ Accepts(e, k)
                              \/ AcceptReplays(e, k)
                              \/ Delivers(e, k)
                              \/ Announces(e, k)
                              \/ Fails(e, k)
                              \/ Retries(e, k)
                              \/ Aborts(e, k)

WorkerStep(w) ==
    \/ \E S \in SUBSET DueCommands : Claim(w, S)
    \/ \E k \in batch[w] : \/ Execute(w, k)
                           \/ Discard(w, k)
                           \/ DiscardAborts(w, k)

Next ==
    \/ \E c \in Clients : ClientStep(c)
    \/ \E e \in Executors : CommandStep(e) \/ Crash(e)
    \/ \E w \in Workers : WorkerStep(w)
    \/ \E S \in SUBSET DueInvitations : ExpireDueSweep(S)
    \/ \E id \in Ids : TokenDue(id)
    \/ \E k \in CommandKeys : CommandDue(k)

Spec == Init /\ [][Next]_vars
-------------------------------------------------------------------------------
(* Safety *)

\* The membership command of an invitation and the invitation tell the same
\* story: there is a command exactly when a subject consumed the token, it is
\* live exactly while the acceptance is undecided, completed exactly when the
\* invitation is accepted and failed exactly when the acceptance was refused.
\* The InvalidStoredData branches of complete_accept and accepted_record are
\* unreachable because of it.
MembershipMirrorsInvitation ==
    \A id \in Ids :
        LET row == invitations[id]
            command == commands[MemberKey(id)]
        IN  /\ command.subject = row.subject
            /\ command.state # "superseded"
            /\ command.state = "absent" <=> row.subject = NULL
            /\ command.state \in Live <=>
                    row.subject # NULL /\ row.state = "pending"
            /\ command.state = "completed" <=> row.state = "accepted"
            /\ command.state = "failed" <=>
                    row.subject # NULL /\ row.state = "expired"

\* Nobody is a member through an invitation that ends any other way than
\* accepted by that subject, and an accepted invitation made its subject a
\* member, whatever is lost, retried or overtaken between the membership service
\* and complete_accept or fail_command.
AdmissionMatchesInvitation ==
    \A id \in Ids :
        /\ invitations[id].state = "accepted" =>
                members[id] # NULL /\ members[id] = invitations[id].subject
        /\ members[id] # NULL /\ RefusalIsFinal =>
                /\ invitations[id].state \in {"pending", "accepted"}
                /\ members[id] = invitations[id].subject

\* An accept key answers "in progress" only while the command that will complete
\* or release it is live, and every live membership command has exactly one such
\* key: that of the subject that consumed the token.
StartedKeyHasLiveCommand ==
    /\ \A key \in Keys : mutations[key].status = "started" =>
            /\ mutations[key].command = MemberKey(mutations[key].id)
            /\ commands[mutations[key].command].state \in Live
            /\ mutations[key].request.actor =
                    invitations[mutations[key].id].subject
    /\ \A id \in Ids : commands[MemberKey(id)].state \in Live =>
            \E key \in Keys : \A other \in Keys :
                Started(other, MemberKey(id)) <=> other = key

\* While a token can still be used, delivery_state is the fate of the
\* notification that carries it: pending while its command is live, queued or
\* failed as the command ended.
DeliveryIsHonest ==
    \A id \in Ids :
        LET row == invitations[id]
            command == commands[NotifyKey(id, row.generation)]
        IN  row.state = "pending" /\ row.subject = NULL =>
                /\ row.delivery = "pending" <=> command.state \in Live
                /\ row.delivery = "queued" <=> command.state = "completed"
                /\ row.delivery = "failed" <=> command.state = "failed"

\* A notification that is still live belongs to the current generation of an
\* invitation that was neither revoked nor expired: resend, revoke and expiry
\* supersede the others, leased or not.  Acceptance leaves it to the worker.
OnlyCurrentNotificationIsLive ==
    \A id \in Ids, g \in 1..MaxGeneration :
        commands[NotifyKey(id, g)].state \in Live =>
            /\ invitations[id].state \in {"pending", "accepted"}
            /\ invitations[id].generation = g

\* The link of the latest delivered generation works as long as the invitation
\* is open: the revision in its URL is the one accept will expect and the stored
\* verifier accepts its token.
LinkStaysUsable ==
    \A link \in links :
        LET row == invitations[link.id] IN
        /\ row.state = "pending"
        /\ row.subject = NULL
        /\ row.generation = link.generation
        => row.revision = link.revision /\ row.token = link.generation

\* An invitation that ended has a lifecycle command for the way it ended and for
\* no other, and the notification service is told nothing else.
LifecycleIsAnnounced ==
    /\ \A id \in Ids, l \in Lifecycles :
            commands[LifecycleKey(id, l)].state # "absent" <=>
                invitations[id].state = l
    /\ \A o \in observed : invitations[o.id].state = o.lifecycle

\* A completed key stands for one effect, and every effect a caller asked for
\* was done under one key: no retry, crash or race makes a key act twice.
Effect(row) ==
    [id |-> row.id, revision |-> row.revision,
     kind |-> CASE row.request.op = "invite" -> "created"
                [] row.request.op = "resend" -> "resent"
                [] row.request.op = "revoke" -> "revoked"
                [] row.request.op = "accept" -> "accepted"]

CompletedKeys == {key \in Keys : mutations[key].status = "completed"}

KeysActOnce ==
    /\ \A key \in CompletedKeys : Effect(mutations[key]) \in activity
    /\ \A row \in activity :
            row.kind \in {"created", "resent", "revoked", "accepted"} =>
                \E key \in CompletedKeys : \A other \in CompletedKeys :
                    Effect(mutations[other]) = row <=> other = key

\* The activity log explains every revision of every invitation once.
AuditTrailIsComplete ==
    \A id \in Ids :
        /\ \A row \in activity :
                row.id = id => row.revision \in 1..invitations[id].revision
        /\ \A r \in 1..invitations[id].revision :
                \E row \in activity : \A other \in activity :
                    (other.id = id /\ other.revision = r) <=> other = row

\* README.md: "Resend rotates the token generation and invalidates every older
\* token."
OlderTokensAreInvalid ==
    \A id \in Ids :
        invitations[id].token # 0 =>
            invitations[id].token = invitations[id].generation

\* docs/plugin-card.md: "A committed invitation can exist while its notification
\* is pending or failed; the worker result exposes that outcome and the
\* invitation exposes `delivery_state`."  A delivery shown as pending is pending.
PendingDeliveryIsPending ==
    \A id \in Ids :
        invitations[id].state # "none" /\ invitations[id].delivery = "pending" =>
            commands[NotifyKey(id, invitations[id].generation)].state \in Live
-------------------------------------------------------------------------------
(* What a step may never do *)

\* An invitation that ended never changes again, whoever still holds a read, a
\* lease or an answer from before.
TerminalRowsAreFrozen ==
    [][\A id \in Ids : invitations[id].state \in Lifecycles =>
            invitations'[id] = invitations[id]]_vars

\* A settled command is never revived or settled differently, whatever a holder
\* of an older lease does with its late answer.
SettledCommandsStaySettled ==
    [][\A k \in CommandKeys : commands[k].state \in Settled =>
            commands'[k] = commands[k]]_vars

\* A token is consumed only by a call that presented the token that was valid at
\* that moment, however long ago the call read the invitation.
AcceptanceUsesCurrentToken ==
    [][\A id \in Ids :
            invitations[id].subject = NULL /\ invitations'[id].subject # NULL =>
                \E c \in Clients :
                    /\ call[c].request # NULL
                    /\ call[c].request.op = "accept"
                    /\ call[c].request.id = id
                    /\ call[c].request.token = invitations[id].token
                    /\ call[c].request.actor = invitations'[id].subject]_vars
-------------------------------------------------------------------------------
(* Liveness *)

\* What the code cannot prevent: a provider that does not answer, a process that
\* ends, a lease that lapses while its holder is still at work.
Fault ==
    \/ \E e \in Executors : Crash(e)
    \/ \E e \in Executors : task[e].answer # "unavailable"
                                /\ task'[e].answer = "unavailable"
    \/ \E k \in CommandKeys, e \in Executors :
            /\ Holds(k, e)
            /\ k = task[e].key \/ k \in batch[e]
            /\ CommandDue(k)

\* dispatch_due is called again and again, a call that started goes on, time
\* passes, and faults are not for ever.
Fairness ==
    /\ \A w \in Workers : WF_vars(WorkerStep(w))
    /\ \A e \in Executors : WF_vars(CommandStep(e))
    /\ \A k \in CommandKeys : WF_vars(CommandDue(k))
    /\ <>[][~Fault]_vars

FairSpec == Spec /\ Fairness

\* A caller that is told "in progress" eventually gets an answer for its key.
StartedKeyIsSettled ==
    \A key \in Keys :
        mutations[key].status = "started" ~> mutations[key].status # "started"

\* The notification service hears, or refuses to hear, how an invitation ended.
EndIsAnnounced ==
    \A id \in Ids, l \in Lifecycles :
        invitations[id].state = l ~> commands[LifecycleKey(id, l)].state \in Settled
================================================================================
