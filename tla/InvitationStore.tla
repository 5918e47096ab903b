---------------------------- MODULE InvitationStore ----------------------------
(***************************************************************************)
(* The PostgreSQL tables of the organization invitation plugin and the     *)
(* transactions of storage.rs over them.  One committed transaction is one *)
(* atomic step: every transaction that writes an invitation first locks    *)
(* its row FOR UPDATE, and every transaction that writes a command either  *)
(* holds that row lock or is fenced by the command's lease token.  A       *)
(* transaction that returns a domain failure or a StorageError rolls back  *)
(* and is not a step.                                                      *)
(*                                                                         *)
(* There is one organization.  Timestamps appear only as "is it due":      *)
(* `due' of an invitation is token_expires_at <= now, `due' of a pending   *)
(* command is available_at <= now and `due' of a leased command is         *)
(* lease_until < now.                                                      *)
(***************************************************************************)
EXTENDS Naturals, FiniteSets

CONSTANTS
    MaxInvitations,       \* bound on the invitations ever created
    MaxGeneration,        \* bound on the token generations of an invitation
    MaxCommandAttempts,   \* config.max_command_attempts
    BatchLimit,           \* the limit of one dispatch_due request
    Emails,               \* normalized recipient addresses
    Subjects,             \* authenticated subjects that may accept
    Keys,                 \* (caller_instance, idempotency_key) pairs
    Executors,            \* whoever may hold the lease of a command
    Requests,             \* the validated, authorized requests callers may issue
    NULL                  \* SQL NULL

Ids == 1..MaxInvitations              \* INV-1, INV-2, ... of the organization
Operations == {"invite", "resend", "revoke", "accept"}

\* An idempotency key comes with a request; `request_hash' covers all of it.
\* Fields an operation does not have hold NULL, 0 or the first identifier.
RequestRecord == [op: Operations, key: Keys, email: Emails \cup {NULL}, id: Ids,
                  revision: Nat, actor: Subjects \cup {NULL}, token: Nat]

ASSUME StoreAssumption ==
    /\ MaxInvitations \in Nat \ {0}
    /\ MaxGeneration \in Nat \ {0}
    /\ MaxCommandAttempts \in Nat \ {0}
    /\ BatchLimit \in Nat \ {0}
    /\ NULL \notin Emails \cup Subjects \cup Executors \cup Requests
    /\ Requests \subseteq RequestRecord
    /\ \A r \in Requests : /\ r.op = "accept" => r.actor # NULL /\ r.token # 0
                           /\ r.op = "invite" => r.email # NULL

VARIABLES
    invitations,          \* organization_invitations
    commands,             \* organization_invitation_commands, by command_key
    mutations,            \* organization_invitation_mutations, by key
    activity              \* organization_invitation_activity

tables == <<invitations, commands, mutations, activity>>
-------------------------------------------------------------------------------
(* Rows *)

Lifecycles == {"accepted", "revoked", "expired"}
States == {"none", "pending"} \cup Lifecycles
DeliveryStates == {"pending", "queued", "failed", "superseded"}

\* token_hash is 0 for NULL, and otherwise the generation whose derived token
\* the stored verifier accepts.
Invitation == [state: States, email: Emails \cup {NULL},
               subject: Subjects \cup {NULL}, token: Nat, generation: Nat,
               revision: Nat, due: BOOLEAN, delivery: DeliveryStates]

NoInvitation == [state |-> "none", email |-> NULL, subject |-> NULL, token |-> 0,
                 generation |-> 0, revision |-> 0, due |-> FALSE,
                 delivery |-> "pending"]

\* The strings notify:{id}:{generation}, membership:{id} and lifecycle:{id}:{l}.
NotifyKey(id, g) == [kind |-> "notify_invitation", id |-> id, generation |-> g,
                     lifecycle |-> "none"]
MemberKey(id) == [kind |-> "add_member", id |-> id, generation |-> 0,
                  lifecycle |-> "none"]
LifecycleKey(id, l) == [kind |-> "notify_lifecycle", id |-> id, generation |-> 0,
                        lifecycle |-> l]

CommandKeys == {NotifyKey(id, g) : id \in Ids, g \in 1..MaxGeneration}
                 \cup {MemberKey(id) : id \in Ids}
                 \cup {LifecycleKey(id, l) : id \in Ids, l \in Lifecycles}

\* attempts is only ever compared with max_command_attempts, so it saturates
\* there.  A lease token is fresh for every claim and is known to the claimant
\* alone, which holds at most one lease of a command at a time: the claimant
\* stands for the token.
Live == {"pending", "in_flight"}
Settled == {"completed", "failed", "superseded"}
Command == [state: {"absent"} \cup Live \cup Settled,
            attempts: 0..MaxCommandAttempts, lease: Executors \cup {NULL},
            due: BOOLEAN, subject: Subjects \cup {NULL}]

NoCommand == [state |-> "absent", attempts |-> 0, lease |-> NULL, due |-> FALSE,
              subject |-> NULL]

\* id is invitation_id, command is side_effect_command_id, and the response
\* column is kept as the revision of the invitation it shows.
Mutation == [status: {"vacant", "started", "completed"},
             request: Requests \cup {NULL}, id: Ids \cup {0},
             command: CommandKeys \cup {NULL}, revision: Nat]

Vacant == [status |-> "vacant", request |-> NULL, id |-> 0, command |-> NULL,
           revision |-> 0]

ActivityKinds == {"created", "resent", "revoked", "expired", "accepted",
                  "acceptance_started", "acceptance_failed"}
Activity == [id: Ids, kind: ActivityKinds, revision: Nat]

TablesOK ==
    /\ invitations \in [Ids -> Invitation]
    /\ commands \in [CommandKeys -> Command]
    /\ mutations \in [Keys -> Mutation]
    /\ activity \subseteq Activity

TablesInit ==
    /\ invitations = [id \in Ids |-> NoInvitation]
    /\ commands = [k \in CommandKeys |-> NoCommand]
    /\ mutations = [key \in Keys |-> Vacant]
    /\ activity = {}
-------------------------------------------------------------------------------
(* Statements shared by the transactions *)

\* Mutant: only a key in progress is recognized, so a completed one acts again.
NewKeyUnlessInProgress(request) == mutations[request.key].status # "started"

\* begin_mutation inserts the key; a key that is taken replays, conflicts or is
\* still in progress, and the transaction then changes nothing.
NewKey(request) == mutations[request.key].status = "vacant"

Complete(request, id, row) ==
    mutations' = [mutations EXCEPT ![request.key] =
        [status |-> "completed", request |-> request, id |-> id,
         command |-> NULL, revision |-> row.revision]]

\* insert_command: ON CONFLICT(command_key) DO NOTHING, available at once.
Inserted(table, k, subject) ==
    IF table[k].state # "absent" THEN table
    ELSE [table EXCEPT ![k] = [state |-> "pending", attempts |-> 0,
                               lease |-> NULL, due |-> TRUE, subject |-> subject]]

\* lease_token=NULL,lease_until=NULL: a settled or rescheduled row has no lease,
\* and is not due.
Unleased(row, state) ==
    [row EXCEPT !.state = state, !.lease = NULL, !.due = FALSE]

\* Mutant: a notification some worker has leased is left alone.
SupersededUnlessLeased(S) ==
    [k \in CommandKeys |->
        IF /\ k.kind = "notify_invitation"
           /\ k.id \in S
           /\ commands[k].state = "pending"
        THEN Unleased(commands[k], "superseded")
        ELSE commands[k]]

\* The UPDATE that supersedes the live notifications of the invitations S.
Superseded(S) ==
    [k \in CommandKeys |->
        IF /\ k.kind = "notify_invitation"
           /\ k.id \in S
           /\ commands[k].state \in Live
        THEN Unleased(commands[k], "superseded")
        ELSE commands[k]]

\* The attempt and the lease that a claim writes.
Leased(row, e) ==
    [row EXCEPT !.state = "in_flight", !.lease = e, !.due = FALSE,
                !.attempts = IF @ < MaxCommandAttempts THEN @ + 1 ELSE @]

\* The fence of finish_command_row and retry_command: state = 'in_flight' AND
\* lease_token = the caller's.
Holds(k, e) == commands[k].state = "in_flight" /\ commands[k].lease = e

Finished(k, outcome) == [commands EXCEPT ![k] = Unleased(@, outcome)]

\* Mutant: the end of an invitation does not count as a revision.
ClosedSameRevision(row, state) == [row EXCEPT !.state = state, !.token = 0]

\* delivery_state=CASE WHEN delivery_state='pending' THEN 'superseded' ...
Closed(row, state) ==
    [row EXCEPT !.state = state, !.token = 0, !.revision = @ + 1,
                !.delivery = IF @ = "pending" THEN "superseded" ELSE @]

Record(id, kind, row) == [id |-> id, kind |-> kind, revision |-> row.revision]
Log(id, kind, row) == activity' = activity \cup {Record(id, kind, row)}

\* Mutants: the check that no acceptance is in progress, or that the invitation
\* is pending, is missing.
OpenEvenAccepting(id, revision) ==
    invitations[id].revision = revision /\ invitations[id].state = "pending"
OpenInAnyState(id, revision) ==
    invitations[id].revision = revision /\ invitations[id].subject = NULL

\* The checks resend, revoke and begin_accept make under the row lock.
Open(id, revision) ==
    /\ invitations[id].revision = revision
    /\ invitations[id].state = "pending"
    /\ invitations[id].subject = NULL
-------------------------------------------------------------------------------
(* Management transactions *)

NextNumber(id) == \A j \in Ids : invitations[j].state = "none" <=> j >= id

NewInvitation(email) ==
    [state |-> "pending", email |-> email, subject |-> NULL, token |-> 1,
     generation |-> 1, revision |-> 1, due |-> FALSE, delivery |-> "pending"]

CreateInvitation(request, id) ==
    LET row == NewInvitation(request.email) IN
    /\ NewKey(request)
    /\ NextNumber(id)
    /\ ~ \E j \in Ids : /\ invitations[j].email = request.email
                        /\ invitations[j].state = "pending"
    /\ invitations' = [invitations EXCEPT ![id] = row]
    /\ commands' = Inserted(commands, NotifyKey(id, 1), NULL)
    /\ Log(id, "created", row)
    /\ Complete(request, id, row)

\* Mutant: the delivery state of the previous generation is kept.
RotatedKeepingDelivery(row, derived) ==
    [row EXCEPT !.token = derived, !.generation = @ + 1, !.revision = @ + 1,
                !.due = FALSE]

\* The new verifier was derived by the handler, before the transaction, for the
\* generation after the one it had read; the generation stored is the locked
\* row's plus one.
Rotated(row, derived) ==
    [row EXCEPT !.token = derived, !.generation = @ + 1, !.revision = @ + 1,
                !.due = FALSE, !.delivery = "pending"]

ResendInvitation(request, derived) ==
    LET id == request.id
        row == Rotated(invitations[id], derived)
    IN  /\ NewKey(request)
        /\ Open(id, request.revision)
        /\ invitations[id].generation < MaxGeneration
        /\ invitations' = [invitations EXCEPT ![id] = row]
        /\ commands' = Inserted(Superseded({id}), NotifyKey(id, row.generation),
                                NULL)
        /\ Log(id, "resent", row)
        /\ Complete(request, id, row)

RevokeInvitation(request) ==
    LET id == request.id
        row == Closed(invitations[id], "revoked")
    IN  /\ NewKey(request)
        /\ Open(id, request.revision)
        /\ invitations' = [invitations EXCEPT ![id] = row]
        /\ commands' = Inserted(Superseded({id}), LifecycleKey(id, "revoked"),
                                NULL)
        /\ Log(id, "revoked", row)
        /\ Complete(request, id, row)

\* Mutant: the expiry is not announced.
ExpireLockedSilently(id, table) ==
    /\ invitations' = [invitations EXCEPT ![id] = Closed(@, "expired")]
    /\ commands' = table

\* expire_locked_invitation on one row; begin_accept, expire_due and
\* fail_command each log it themselves.
ExpireLocked(id, table) ==
    /\ invitations' = [invitations EXCEPT ![id] = Closed(@, "expired")]
    /\ commands' = Inserted(table, LifecycleKey(id, "expired"), NULL)
-------------------------------------------------------------------------------
(* Acceptance transactions *)

Consumed(row, subject) ==
    [row EXCEPT !.subject = subject, !.token = 0, !.revision = @ + 1]

\* Mutant: a verifier is present, but not the one the caller's token was verified
\* against.
TokenPresent(id, generation, token) == invitations[id].token # 0

\* The row still has the generation and the verifier the handler read.
TokenMatches(id, generation, token) ==
    /\ invitations[id].generation = generation
    /\ invitations[id].token = token

\* begin_accept, the branch that consumes the token, inserts the membership
\* command already leased to the accepting call, and leaves the key started.
BeginAccept(request, generation, e) ==
    LET id == request.id
        k == MemberKey(id)
        row == Consumed(invitations[id], request.actor)
        inserted == Inserted(commands, k, request.actor)
    IN  /\ NewKey(request)
        /\ Open(id, request.revision)
        /\ ~invitations[id].due
        /\ TokenMatches(id, generation, request.token)
        /\ invitations' = [invitations EXCEPT ![id] = row]
        /\ commands' = [inserted EXCEPT ![k] = Leased(@, e)]
        /\ Log(id, "acceptance_started", row)
        /\ mutations' = [mutations EXCEPT ![request.key] =
                [status |-> "started", request |-> request, id |-> id,
                 command |-> k, revision |-> 0]]

\* begin_accept, the branch that finds the token past its deadline: the key it
\* inserted is deleted again and the expiry is committed.
BeginAcceptExpires(request) ==
    LET id == request.id IN
    /\ NewKey(request)
    /\ Open(id, request.revision)
    /\ invitations[id].due
    /\ ExpireLocked(id, Superseded({id}))
    /\ Log(id, "expired", Closed(invitations[id], "expired"))
    /\ UNCHANGED mutations

\* What complete_accept, fail_command and command_matches_invitation require of
\* the invitation of a membership command.
MemberMatches(id) ==
    /\ invitations[id].state = "pending"
    /\ invitations[id].subject = commands[MemberKey(id)].subject

AcceptedRow(row) == [row EXCEPT !.state = "accepted", !.revision = @ + 1]

\* The keys whose side_effect_command_id is k and whose status is 'started'.
Started(key, k) == mutations[key].status = "started" /\ mutations[key].command = k

CompleteAccept(id, e) ==
    LET k == MemberKey(id)
        row == AcceptedRow(invitations[id])
    IN  /\ Holds(k, e)
        /\ MemberMatches(id)
        /\ invitations' = [invitations EXCEPT ![id] = row]
        /\ commands' = Inserted(Finished(k, "completed"),
                                LifecycleKey(id, "accepted"), NULL)
        /\ Log(id, "accepted", row)
        /\ mutations' = [key \in Keys |->
                IF Started(key, k)
                THEN [mutations[key] EXCEPT !.status = "completed",
                                            !.revision = row.revision]
                ELSE mutations[key]]
-------------------------------------------------------------------------------
(* Worker transactions *)

\* Mutant: invitations with an acceptance in progress expire too.
DueEvenAccepting == {id \in Ids : /\ invitations[id].state = "pending"
                                  /\ invitations[id].due}

DueInvitations == {id \in Ids : /\ invitations[id].state = "pending"
                                /\ invitations[id].subject = NULL
                                /\ invitations[id].due}

\* expire_due takes the first rows it can lock without waiting (SKIP LOCKED), up
\* to its limit: any set of due invitations.
ExpireDue(S) ==
    /\ S # {} /\ S \subseteq DueInvitations
    /\ invitations' = [id \in Ids |-> IF id \in S
                                      THEN Closed(invitations[id], "expired")
                                      ELSE invitations[id]]
    /\ commands' = [k \in CommandKeys |->
            IF k.id \in S /\ k = LifecycleKey(k.id, "expired")
            THEN Inserted(commands, k, NULL)[k]
            ELSE Superseded(S)[k]]
    /\ activity' = activity \cup
            {Record(id, "expired", Closed(invitations[id], "expired")) : id \in S}
    /\ UNCHANGED mutations

\* Mutants: a lapsed lease is not due; a command out of attempts is not due.
DueUnlessLeased == {k \in CommandKeys : commands[k].state = "pending"
                                            /\ commands[k].due}
DueWithAttemptsLeft == {k \in CommandKeys : /\ commands[k].state \in Live
                                            /\ commands[k].due
                                            /\ commands[k].attempts < MaxCommandAttempts}

\* available_at <= now for a pending command, lease_until < now for a leased one.
DueCommands == {k \in CommandKeys : commands[k].state \in Live /\ commands[k].due}

ClaimDueCommands(S, e) ==
    /\ S # {} /\ S \subseteq DueCommands /\ Cardinality(S) <= BatchLimit
    /\ commands' = [k \in CommandKeys |-> IF k \in S THEN Leased(commands[k], e)
                                          ELSE commands[k]]
    /\ UNCHANGED <<invitations, mutations, activity>>

\* command_matches_invitation.
CommandMatches(k) ==
    \/ /\ k.kind = "notify_invitation"
       /\ invitations[k.id].state = "pending"
       /\ invitations[k.id].token # 0
       /\ invitations[k.id].generation = k.generation
    \/ /\ k.kind = "notify_lifecycle"
       /\ invitations[k.id].state = k.lifecycle
    \/ /\ k.kind = "add_member"
       /\ MemberMatches(k.id)

\* Mutants: the update of the delivery state counts as a revision, or writes a
\* state the schema does not allow.
DeliveryAsRevision(k, outcome) ==
    [invitations EXCEPT ![k.id].delivery = outcome, ![k.id].revision = @ + 1]
DeliverySent(k, outcome) == [invitations EXCEPT ![k.id].delivery = "sent"]

\* UPDATE ... SET delivery_state WHERE state='pending' AND token_generation=...
Delivery(k, outcome) ==
    IF /\ invitations[k.id].state = "pending"
       /\ invitations[k.id].generation = k.generation
    THEN [invitations EXCEPT ![k.id].delivery = outcome]
    ELSE invitations

CompleteNotification(k, e) ==
    /\ Holds(k, e)
    /\ commands' = Finished(k, "completed")
    /\ invitations' = Delivery(k, "queued")
    /\ UNCHANGED <<mutations, activity>>

CompleteLifecycle(k, e) ==
    /\ Holds(k, e)
    /\ commands' = Finished(k, "completed")
    /\ UNCHANGED <<invitations, mutations, activity>>

\* Mutant: retry_command without its fence.
RetryUnfenced(k, e) ==
    /\ commands' = [commands EXCEPT ![k] = Unleased(@, "pending")]
    /\ UNCHANGED <<invitations, mutations, activity>>

RetryCommand(k, e) ==
    /\ Holds(k, e)
    /\ commands' = [commands EXCEPT ![k] = Unleased(@, "pending")]
    /\ UNCHANGED <<invitations, mutations, activity>>

SupersedeCommand(k, e) ==
    /\ Holds(k, e)
    /\ commands' = Finished(k, "superseded")
    /\ UNCHANGED <<invitations, mutations, activity>>

\* fail_command of a notification that cannot be delivered.
FailNotification(k, e) ==
    /\ k.kind = "notify_invitation"
    /\ Holds(k, e)
    /\ commands' = Finished(k, "failed")
    /\ invitations' = Delivery(k, "failed")
    /\ UNCHANGED <<mutations, activity>>

FailLifecycle(k, e) ==
    /\ k.kind = "notify_lifecycle"
    /\ Holds(k, e)
    /\ commands' = Finished(k, "failed")
    /\ UNCHANGED <<invitations, mutations, activity>>

\* Mutant: the accept key stays bound to the failed command.
ReleasedNever(k) == mutations

\* The DELETE of the accept key bound to the failed command.
Released(k) ==
    [key \in Keys |-> IF Started(key, k) THEN Vacant ELSE mutations[key]]

\* fail_command of a membership command: the invitation expires and the accept
\* key becomes free again.
FailAcceptance(id, e) ==
    LET k == MemberKey(id) IN
    /\ Holds(k, e)
    /\ IF MemberMatches(id)
       THEN /\ ExpireLocked(id, [Superseded({id}) EXCEPT
                                    ![k] = Finished(k, "failed")[k]])
            /\ Log(id, "acceptance_failed", Closed(invitations[id], "expired"))
            /\ mutations' = Released(k)
       ELSE /\ commands' = Finished(k, "failed")
            /\ UNCHANGED <<invitations, mutations, activity>>
-------------------------------------------------------------------------------
(* The clock *)

TokenComesDue(id) ==
    /\ invitations[id].state = "pending"
    /\ ~invitations[id].due
    /\ invitations' = [invitations EXCEPT ![id].due = TRUE]
    /\ UNCHANGED <<commands, mutations, activity>>

CommandComesDue(k) ==
    /\ commands[k].state \in Live
    /\ ~commands[k].due
    /\ commands' = [commands EXCEPT ![k].due = TRUE]
    /\ UNCHANGED <<invitations, mutations, activity>>
================================================================================
