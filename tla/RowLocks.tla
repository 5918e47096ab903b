------------------------------- MODULE RowLocks --------------------------------
(***************************************************************************)
(* The inside of the transactions of storage.rs: which rows each of them   *)
(* locks, in which order, and what it writes when it commits.              *)
(* InvitationStore takes a transaction for one step; here a statement is a *)
(* step, a statement that meets a lock waits, and PostgreSQL aborts one    *)
(* transaction of a cycle of waiting ones.                                 *)
(*                                                                         *)
(* Data is reduced to what decides about locks: the state and generation   *)
(* of an invitation, its live notification, and the idempotency keys.      *)
(* Leases are left out: an executor whose lease is lost is one that finds  *)
(* its command settled, or rolls back (LeaseLost).                         *)
(***************************************************************************)
EXTENDS Naturals, FiniteSets

CONSTANTS
    Txns,                 \* transactions in progress, one per connection
    Keys,                 \* (caller_instance, idempotency_key) pairs
    Invitations,          \* invitation_id, chosen at random by invite
    Addresses,            \* normalized recipient addresses
    MaxGeneration,        \* where token_generation overflows
    SweepLimit,           \* limit of an expire_due request
    NULL

ASSUME LocksAssumption ==
    /\ MaxGeneration \in Nat \ {0}
    /\ SweepLimit \in Nat \ {0}
    /\ NULL \notin Keys \cup Invitations \cup Addresses

VARIABLES
    invitation,           \* committed rows of organization_invitations
    note,                 \* generation of the live notify_invitation command, or 0
    mutation,             \* committed rows of organization_invitation_mutations
    next,                 \* next_number of the organization's sequence row
    due,                  \* invitations whose token_expires_at has passed
    tx,                   \* what each transaction knows, and its next statement
    held                  \* the locks each transaction holds

data == <<invitation, note, mutation, next>>
vars == <<invitation, note, mutation, next, due, tx, held>>
--------------------------------------------------------------------------------
(* Rows, locks and statements *)

KeyRow(k) == <<"key", k>>
AddressRow(a) == <<"address", a>>          \* the advisory lock of an address
SequenceRow == <<"sequence", 0>>
InvitationRow(i) == <<"invitation", i>>
NoteRow(i) == <<"note", i>>                \* its live notify_invitation command
MemberRow(i) == <<"member", i>>            \* its add_member command

Rows == {KeyRow(k) : k \in Keys} \cup {AddressRow(a) : a \in Addresses}
          \cup {SequenceRow}
          \cup UNION {{InvitationRow(i), NoteRow(i), MemberRow(i)} : i \in Invitations}

\* "lock" is FOR UPDATE or the advisory lock, "write" an INSERT, UPDATE or DELETE
\* of the row, "refer" the FOR KEY SHARE of a foreign key; "probe" is only
\* requested: INSERT ... ON CONFLICT DO NOTHING waits for whoever writes the key.
Modes == {"probe", "refer", "write", "lock"}
Lock(row, mode) == [row |-> row, mode |-> mode]
Locks == [row : Rows, mode : Modes]

Conflict(wanted, taken) ==
    \/ wanted = "lock"
    \/ wanted = "write" /\ taken \in {"write", "lock"}
    \/ wanted = "refer" /\ taken = "lock"
    \/ wanted = "probe" /\ taken = "write"

Invited == {"open", "accepting", "accepted", "revoked", "expired"}
Absent == [state |-> "none", generation |-> 0, number |-> 0, address |-> NULL]
InvitationRecord ==
    {Absent} \cup [state : Invited, generation : 1..MaxGeneration,
                   number : Nat \ {0}, address : Addresses]

\* status of an idempotency key, and the acceptance it is bound to
Free == [status |-> "vacant", id |-> NULL]
MutationRecord ==
    {Free} \cup [status : {"started", "completed"}, id : Invitations \cup {NULL}]

Keyed == {"invite", "resend", "revoke", "accept", "sweep"}
Executing == {"complete", "refuse", "deliver", "retry", "claim"}
\* The statement to execute next.  "sweep" and "claim" are FOR UPDATE SKIP
\* LOCKED, "stop" ends a transaction that changes nothing.
Statements == {"reserve", "replay", "address", "number", "member", "invitation",
               "sweep", "note", "bound", "claim", "commit", "stop", "idle"}

Unused == [op |-> "none", key |-> NULL, id |-> NULL, address |-> NULL, at |-> "idle",
           todo |-> {}, late |-> {}, number |-> 0,
           seen |-> [i \in Invitations |-> Absent]]

\* expires_at judged by CURRENT_TIMESTAMP, the start of the transaction: a row
\* that was given a new deadline since is not late.
Late == {<<i, invitation[i].generation>> : i \in due}
\* Mutant: the deadline is judged by what was read before the row was locked.
WasLate(x, row) == \E g \in 1..MaxGeneration : <<x.id, g>> \in x.late

IsLate(x, row) == <<x.id, row.generation>> \in x.late
--------------------------------------------------------------------------------
(* Waiting *)

\* The lock the next statement of t needs, if it can wait for one.
Wanted(t) ==
    CASE tx[t].at = "reserve" -> {Lock(KeyRow(tx[t].key), "probe")}
      [] tx[t].at = "replay" -> {Lock(KeyRow(tx[t].key), "lock")}
      [] tx[t].at = "address" -> {Lock(AddressRow(tx[t].address), "lock")}
      [] tx[t].at = "number" -> {Lock(SequenceRow, "write")}
      [] tx[t].at = "member" -> {Lock(MemberRow(tx[t].id), "lock")}
      [] tx[t].at = "invitation" ->
            {Lock(InvitationRow(tx[t].id),
                  IF tx[t].op = "deliver" THEN "write" ELSE "lock")}
      [] tx[t].at = "note" -> {Lock(NoteRow(tx[t].id), "write")}
      [] tx[t].at = "bound" -> {Lock(KeyRow(tx[t].key), "write")}
      [] OTHER -> {}

Blocks(u, row, mode) == \E l \in held[u] : l.row = row /\ Conflict(mode, l.mode)
WaitsFor(t, u) == t # u /\ \E l \in Wanted(t) : Blocks(u, l.row, l.mode)
Granted(t) == \A u \in Txns : ~WaitsFor(t, u)
Available(t, row) == \A u \in Txns \ {t} : ~Blocks(u, row, "lock")

\* A set of transactions of which each waits for one and is waited for by one.
Cycle(C) == \A t \in C : /\ \E u \in C : WaitsFor(t, u)
                         /\ \E u \in C : WaitsFor(u, t)
--------------------------------------------------------------------------------
(* Statements.  Each takes the lock it asked for and sets what comes next. *)

Take(t, rows, mode) ==
    held' = [held EXCEPT ![t] = @ \cup {Lock(row, mode) : row \in rows}]

Goto(t, statement) == tx' = [tx EXCEPT ![t].at = statement]

\* Mutant: the resource is bound by the INSERT, whose foreign key refers to it.
ReservedWithResource(t) ==
    IF tx[t].op \in {"resend", "revoke"} THEN {Lock(InvitationRow(tx[t].id), "refer")}
    ELSE {}

\* Locks a reservation takes besides its own row: none, because resend, revoke
\* and accept bind the resource only once they hold the invitation.
ReservedWith(t) == {}

AfterReserve(t) ==
    CASE tx[t].op = "invite" -> "address"
      [] tx[t].op = "sweep" -> "sweep"
      [] OTHER -> "invitation"

\* begin_mutation: INSERT ... ON CONFLICT DO NOTHING.
Reserve(t) ==
    /\ tx[t].at = "reserve"
    /\ Granted(t)
    /\ IF mutation[tx[t].key].status = "vacant"
       THEN /\ \A l \in ReservedWith(t) :
                  \A u \in Txns \ {t} : ~Blocks(u, l.row, l.mode)
            /\ held' = [held EXCEPT ![t] = @ \cup {Lock(KeyRow(tx[t].key), "write")}
                                              \cup ReservedWith(t)]
            /\ Goto(t, AfterReserve(t))
       ELSE Goto(t, "replay") /\ UNCHANGED held
    /\ UNCHANGED <<data, due>>

\* SELECT ... FOR UPDATE of a key that exists; it replays, conflicts or is in
\* progress.  The row may be gone: the rejection of an acceptance deletes it.
Replay(t) ==
    /\ tx[t].at = "replay"
    /\ Granted(t)
    /\ Take(t, IF mutation[tx[t].key].status = "vacant" THEN {}
               ELSE {KeyRow(tx[t].key)}, "lock")
    /\ Goto(t, "stop")
    /\ UNCHANGED <<data, due>>

TakenAddress(a) ==
    \E i \in Invitations : invitation[i].address = a
                             /\ invitation[i].state \in {"open", "accepting"}

\* Mutant: creations of one address do not exclude each other.
LockAddressAway(t) ==
    /\ tx[t].at = "address"
    /\ Goto(t, IF TakenAddress(tx[t].address) THEN "stop" ELSE "number")
    /\ UNCHANGED <<data, due, held>>

\* pg_advisory_xact_lock, then the check for a pending invitation.
LockAddress(t) ==
    /\ tx[t].at = "address"
    /\ Granted(t)
    /\ Take(t, {AddressRow(tx[t].address)}, "lock")
    /\ Goto(t, IF TakenAddress(tx[t].address) THEN "stop" ELSE "number")
    /\ UNCHANGED <<data, due>>

\* The upsert of the sequence row.
AllocateNumber(t) ==
    /\ tx[t].at = "number"
    /\ Granted(t)
    /\ Take(t, {SequenceRow}, "write")
    /\ tx' = [tx EXCEPT ![t].number = next, ![t].at = "commit"]
    /\ UNCHANGED <<data, due>>

\* complete_accept and fail_command of a membership command lock it first; it is
\* live exactly while the acceptance is undecided.  A completed one is replayed
\* from the invitation, under its lock.
LockMember(t) ==
    /\ tx[t].at = "member"
    /\ Granted(t)
    /\ Take(t, {MemberRow(tx[t].id)}, "lock")
    /\ LET state == invitation[tx[t].id].state
       IN Goto(t, IF state = "accepting" \/ (state = "accepted" /\ tx[t].op = "complete")
                  THEN "invitation" ELSE "stop")
    /\ UNCHANGED <<data, due>>

\* Mutant: an overflowing token_generation is not refused.
AdmitsOverflow(t, row) ==
    row.state = (IF tx[t].op \in {"resend", "revoke", "accept"} THEN "open" ELSE "accepting")

\* The row locked by SELECT ... FOR UPDATE decides.
Admits(t, row) ==
    CASE tx[t].op = "resend" -> row.state = "open" /\ row.generation < MaxGeneration
      [] tx[t].op \in {"revoke", "accept"} -> row.state = "open"
      [] OTHER -> row.state = "accepting"

\* UPDATE or DELETE of the key WHERE side_effect_command_id is the command: the
\* key the acceptance was started under.
BoundKeys(i) == {k \in Keys : mutation[k] = [status |-> "started", id |-> i]}

BindKey(x) ==
    IF BoundKeys(x.id) = {} THEN {[x EXCEPT !.at = "commit"]}
    ELSE {[x EXCEPT !.key = k, !.at = "bound"] : k \in BoundKeys(x.id)}

\* What follows once the row is locked.  The revision, the token and the subject,
\* which are left out, may still turn a public call away.
AfterInvitation(t, row) ==
    LET x == [tx[t] EXCEPT !.seen[tx[t].id] = row]
    IN (IF Admits(t, row) /\ x.op \notin Keyed THEN {} ELSE {[x EXCEPT !.at = "stop"]})
       \cup CASE ~Admits(t, row) -> {}
              [] Admits(t, row) /\ x.op = "complete" -> BindKey(x)
              [] Admits(t, row) /\ x.op = "accept" /\ ~IsLate(x, row) ->
                    {[x EXCEPT !.at = "commit"]}
              [] OTHER -> {[x EXCEPT !.at = "note"]}

\* Mutant: the row is read without a lock.
ReadInvitation(t) ==
    /\ tx[t].at = "invitation"
    /\ tx[t].op # "deliver"
    /\ \E x \in AfterInvitation(t, invitation[tx[t].id]) : tx' = [tx EXCEPT ![t] = x]
    /\ UNCHANGED <<data, due, held>>

LockInvitation(t) ==
    /\ tx[t].at = "invitation"
    /\ tx[t].op # "deliver"
    /\ Granted(t)
    /\ Take(t, {InvitationRow(tx[t].id)}, "lock")
    /\ \E x \in AfterInvitation(t, invitation[tx[t].id]) : tx' = [tx EXCEPT ![t] = x]
    /\ UNCHANGED <<data, due>>

\* expire_due locks what is late and what nobody else has locked.
Sweepable(t) ==
    {i \in Invitations : /\ invitation[i].state = "open"
                         /\ <<i, invitation[i].generation>> \in tx[t].late
                         /\ Available(t, InvitationRow(i))}

\* One row after another is expired; todo are those whose turn is still to come.
NextInvitation(x) ==
    IF x.todo = {} THEN {[x EXCEPT !.at = "commit"]}
    ELSE {[x EXCEPT !.id = i, !.todo = @ \ {i}, !.at = "note"] : i \in x.todo}

Sweep(t) ==
    /\ tx[t].at = "sweep"
    /\ \E S \in SUBSET Sweepable(t) :
          /\ Cardinality(S) <= SweepLimit
          /\ \/ S = Sweepable(t)
             \/ Cardinality(S) = SweepLimit
          /\ Take(t, {InvitationRow(i) : i \in S}, "lock")
          /\ \E x \in NextInvitation([tx[t] EXCEPT !.todo = S,
                         !.seen = [i \in Invitations |->
                                      IF i \in S THEN invitation[i] ELSE Absent]]) :
                tx' = [tx EXCEPT ![t] = x]
    /\ UNCHANGED <<data, due>>

\* UPDATE of the live notification: by whoever supersedes it, or by the executor
\* that settles it, which then updates the invitation.
WriteNote(t) ==
    /\ tx[t].at = "note"
    /\ Granted(t)
    /\ Take(t, IF note[tx[t].id] = 0 THEN {} ELSE {NoteRow(tx[t].id)}, "write")
    /\ \E x \in CASE tx[t].op = "deliver" ->
                        {[tx[t] EXCEPT !.at = IF note[tx[t].id] = 0 THEN "stop"
                                              ELSE "invitation"]}
                  [] tx[t].op = "retry" ->
                        {[tx[t] EXCEPT !.at = IF note[tx[t].id] = 0 THEN "stop"
                                              ELSE "commit"]}
                  [] tx[t].op = "refuse" -> BindKey(tx[t])
                  [] tx[t].op = "sweep" -> NextInvitation(tx[t])
                  [] OTHER -> {[tx[t] EXCEPT !.at = "commit"]} :
          tx' = [tx EXCEPT ![t] = x]
    /\ UNCHANGED <<data, due>>

\* The UPDATE of complete_notification_command or fail_command touches the row
\* only while it is pending at the generation of the command.
RecordDelivery(t) ==
    /\ tx[t].at = "invitation"
    /\ tx[t].op = "deliver"
    /\ Granted(t)
    /\ LET row == invitation[tx[t].id]
       IN Take(t, IF row.state \in {"open", "accepting"} /\ row.generation = note[tx[t].id]
                  THEN {InvitationRow(tx[t].id)} ELSE {}, "write")
    /\ Goto(t, "commit")
    /\ UNCHANGED <<data, due>>

WriteBoundKey(t) ==
    /\ tx[t].at = "bound"
    /\ Granted(t)
    /\ Take(t, {KeyRow(tx[t].key)}, "write")
    /\ Goto(t, "commit")
    /\ UNCHANGED <<data, due>>

\* claim_due_commands skips locked rows and so never waits.
Claim(t) ==
    /\ tx[t].at = "claim"
    /\ \E S \in SUBSET {i \in Invitations : note[i] # 0 /\ Available(t, NoteRow(i))},
          T \in SUBSET {i \in Invitations : /\ invitation[i].state = "accepting"
                                            /\ Available(t, MemberRow(i))} :
          Take(t, {NoteRow(i) : i \in S} \cup {MemberRow(i) : i \in T}, "lock")
    /\ Goto(t, "commit")
    /\ UNCHANGED <<data, due>>
--------------------------------------------------------------------------------
(* The end of a transaction *)

\* The rows a transaction writes, from what it read under its locks.
Written(t) ==
    CASE tx[t].op = "invite" -> {tx[t].id}
      [] tx[t].op \in {"deliver", "retry", "claim"} -> {}
      [] OTHER -> {i \in Invitations : tx[t].seen[i] # Absent}

NewRow(t, i) ==
    LET row == tx[t].seen[i]
    IN CASE tx[t].op = "invite" ->
              [state |-> "open", generation |-> 1, number |-> tx[t].number,
               address |-> tx[t].address]
         [] tx[t].op = "resend" -> [row EXCEPT !.generation = @ + 1]
         [] tx[t].op = "revoke" -> [row EXCEPT !.state = "revoked"]
         [] tx[t].op = "accept" /\ ~IsLate(tx[t], row) -> [row EXCEPT !.state = "accepting"]
         [] tx[t].op = "complete" -> [row EXCEPT !.state = "accepted"]
         [] OTHER -> [row EXCEPT !.state = "expired"]

\* The live notification of a written row: of the new generation, left to a
\* worker that will find it void, or superseded.
NewNote(t, i) ==
    CASE tx[t].op \in {"invite", "resend"} -> NewRow(t, i).generation
      [] NewRow(t, i).state \in {"accepting", "accepted"} -> note[i]
      [] OTHER -> 0

\* Mutant: a refused acceptance keeps its key.
NewKeyKept(t) ==
    IF tx[t].op = "accept" THEN
        IF NewRow(t, tx[t].id).state = "accepting"
        THEN [status |-> "started", id |-> tx[t].id]
        ELSE Free
    ELSE IF tx[t].op = "refuse" THEN mutation[tx[t].key]
    ELSE [status |-> "completed", id |-> tx[t].id]

\* The key of an acceptance stays started until the membership service answered,
\* and is deleted when the acceptance fails or the token has expired.
NewKey(t) ==
    IF tx[t].op = "accept" /\ NewRow(t, tx[t].id).state = "accepting"
    THEN [status |-> "started", id |-> tx[t].id]
    ELSE IF tx[t].op \in {"accept", "refuse"} THEN Free
    ELSE [status |-> "completed", id |-> IF tx[t].op = "sweep" THEN NULL ELSE tx[t].id]

End(t) ==
    /\ tx' = [tx EXCEPT ![t] = Unused]
    /\ held' = [held EXCEPT ![t] = {}]

Commit(t) ==
    /\ tx[t].at = "commit"
    /\ invitation' = [i \in Invitations |->
                         IF i \in Written(t) THEN NewRow(t, i) ELSE invitation[i]]
    /\ \/ note' = [i \in Invitations |->
                      IF i \in Written(t) THEN NewNote(t, i)
                      ELSE IF tx[t].op = "deliver" /\ i = tx[t].id THEN 0 ELSE note[i]]
       \/ \* supersede_command: the notification no longer matches its invitation
          /\ tx[t].op = "retry"
          /\ invitation[tx[t].id].state # "open"
          /\ note' = [note EXCEPT ![tx[t].id] = 0]
    /\ mutation' = [k \in Keys |-> IF k = tx[t].key THEN NewKey(t) ELSE mutation[k]]
    /\ next' = IF tx[t].op = "invite" THEN tx[t].number + 1 ELSE next
    /\ due' = IF tx[t].op = "resend" THEN due \ {tx[t].id} ELSE due
    /\ End(t)

\* A replay, a domain failure or an error rolls back or commits nothing.
Stop(t) == tx[t].at = "stop" /\ End(t) /\ UNCHANGED <<data, due>>

\* The update of a command is fenced by a lease another executor has taken over.
LeaseLost(t) ==
    /\ tx[t].op \in {"complete", "refuse", "deliver", "retry"}
    /\ tx[t].at \in {"invitation", "commit"}
    /\ held[t] \subseteq {Lock(NoteRow(tx[t].id), "write"), Lock(MemberRow(tx[t].id), "lock")}
    /\ End(t)
    /\ UNCHANGED <<data, due>>

\* PostgreSQL finds a cycle and rolls back one of its transactions.
DeadlockAbort(t) ==
    /\ \E C \in SUBSET Txns : t \in C /\ Cycle(C)
    /\ End(t)
    /\ UNCHANGED <<data, due>>
--------------------------------------------------------------------------------
(* Who begins a transaction *)

Begin(t, x) == tx[t] = Unused /\ tx' = [tx EXCEPT ![t] = x] /\ UNCHANGED <<data, due, held>>

\* A caller names a key and a resource; invite draws a fresh identifier.  Only accept
\* and a sweep judge deadlines.
BeginKeyed(t) ==
    \E op \in Keyed, k \in Keys, i \in Invitations, a \in Addresses :
        /\ op = "invite" => /\ invitation[i] = Absent
                            /\ \A u \in Txns : tx[u].op = "invite" => tx[u].id # i
        /\ Begin(t, [Unused EXCEPT !.op = op, !.key = k,
                        !.id = IF op = "sweep" THEN NULL ELSE i,
                        !.address = IF op = "invite" THEN a ELSE NULL,
                        !.at = "reserve",
                        !.late = {l \in Late : op = "sweep" \/ (op = "accept" /\ l[1] = i)}])

\* An executor settles a command it once claimed.
BeginExecuting(t) ==
    \/ \E op \in {"complete", "refuse"}, i \in Invitations :
          /\ invitation[i].state \in {"accepting", "accepted"}
          /\ Begin(t, [Unused EXCEPT !.op = op, !.id = i, !.at = "member"])
    \/ \E op \in {"deliver", "retry"}, i \in Invitations :
          /\ note[i] # 0
          /\ Begin(t, [Unused EXCEPT !.op = op, !.id = i, !.at = "note"])
    \/ Begin(t, [Unused EXCEPT !.op = "claim", !.at = "claim"])

TokenComesDue(i) ==
    /\ invitation[i].state = "open"
    /\ i \notin due
    /\ due' = due \cup {i}
    /\ UNCHANGED <<data, tx, held>>

Init ==
    /\ invitation = [i \in Invitations |-> Absent]
    /\ note = [i \in Invitations |-> 0]
    /\ mutation = [k \in Keys |-> Free]
    /\ next = 1
    /\ due = {}
    /\ tx = [t \in Txns |-> Unused]
    /\ held = [t \in Txns |-> {}]

Statement(t) ==
    \/ Reserve(t)
    \/ Replay(t)
    \/ LockAddress(t)
    \/ AllocateNumber(t)
    \/ LockMember(t)
    \/ LockInvitation(t)
    \/ Sweep(t)
    \/ WriteNote(t)
    \/ RecordDelivery(t)
    \/ WriteBoundKey(t)
    \/ Claim(t)

Step(t) == Statement(t) \/ Commit(t) \/ Stop(t)

Next ==
    \/ \E t \in Txns : \/ BeginKeyed(t)
                       \/ BeginExecuting(t)
                       \/ Step(t)
                       \/ LeaseLost(t)
                       \/ DeadlockAbort(t)
    \/ \E i \in Invitations : TokenComesDue(i)

Spec == Init /\ [][Next]_vars

--------------------------------------------------------------------------------
(* Properties *)

TxRecord ==
    [op : Keyed \cup Executing \cup {"none"}, key : Keys \cup {NULL},
     id : Invitations \cup {NULL}, address : Addresses \cup {NULL},
     at : Statements, todo : SUBSET Invitations,
     late : SUBSET (Invitations \X (1..MaxGeneration)), number : Nat,
     seen : [Invitations -> InvitationRecord]]

\* The type invariant.
TypeOK ==
    /\ invitation \in [Invitations -> InvitationRecord]
    /\ note \in [Invitations -> 0..MaxGeneration]
    /\ mutation \in [Keys -> MutationRecord]
    /\ next \in Nat \ {0}
    /\ due \subseteq Invitations
    /\ tx \in [Txns -> TxRecord]
    /\ held \in [Txns -> SUBSET Locks]

\* complete_notification_command and fail_command of a notification lock the
\* command before the invitation, everybody else the invitation before its
\* notification.  No cycle of waiting transactions is without one of them: calls
\* of the public service, sweeps and decided acceptances never deadlock among
\* themselves, which is what resend, revoke and begin_accept defer their foreign
\* keys for.
OnlyDeliveriesDeadlock ==
    \A C \in SUBSET {t \in Txns : tx[t].op # "deliver"} : C # {} => ~Cycle(C)

\* What a transaction read under its locks is the committed row until it ends, so
\* its guard holds and its update loses nothing when it commits.
ReadsStayCurrent ==
    \A t \in Txns, i \in Invitations :
        tx[t].seen[i] # Absent => invitation[i] = tx[t].seen[i]

\* The unique indexes refuse nothing.  Under the advisory lock a creation that found
\* no pending invitation of its address still finds none when it commits; and the
\* numbers of an organization are handed out once each and without gaps, however
\* creations overlap and roll back.
UniqueIndexesRefuseNothing ==
    LET created == {i \in Invitations : invitation[i] # Absent} IN
    /\ \A t \in Txns : tx[t].op = "invite" /\ tx[t].at \in {"number", "commit"}
                           => ~TakenAddress(tx[t].address)
    /\ {invitation[i].number : i \in created} = 1..(next - 1)
    /\ \A i, j \in created : invitation[i].number = invitation[j].number => i = j

\* Deadlines are judged by the clock at the start of the transaction, which may
\* have waited since: nothing expires whose deadline a resend has moved meanwhile.
OnlyDueExpires ==
    [][\A i \in Invitations :
          invitation[i].state = "open" /\ invitation'[i].state = "expired" => i \in due]_vars

\* A key that is not answered yet belongs to one acceptance in progress, and each
\* acceptance in progress to one key, whatever the order in which repeated
\* accepts, sweeps and executors lock, wait and roll back.
StartedKeysAreBound ==
    \A i \in Invitations :
        IF invitation[i].state = "accepting"
        THEN \E k \in Keys : BoundKeys(i) = {k}
        ELSE BoundKeys(i) = {}

Transactions == INSTANCE AtomicTransactions

\* Why InvitationStore may take a transaction for one step: however transactions
\* overlap, wait, lose their leases and roll back, each that commits finds the tables
\* as its operation must, and changes them as if nobody else were there.
CommitsAreAtomic == Transactions!Spec
================================================================================
