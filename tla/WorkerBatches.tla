----------------------------- MODULE WorkerBatches -----------------------------
(***************************************************************************)
(* The two worker operations as their callers see them: expire_due and     *)
(* dispatch_due, the idempotency key each batch is called with, the answer *)
(* with its has_more, and a caller that goes on until has_more is false.   *)
(*                                                                         *)
(* expire_due is one transaction; dispatch_due commits a reservation of    *)
(* its key, claims in a second transaction, executes one command after     *)
(* another and records its answer in a last one.  Rows are reduced to      *)
(* whether they are due; what a command does is in InvitationService.      *)
(***************************************************************************)
EXTENDS Naturals, FiniteSets

CONSTANTS
    Calls,                \* worker calls in progress
    Keys,                 \* idempotency keys
    Commands,             \* rows of organization_invitation_commands
    Memberships,          \* those that are add_member commands
    Invitations,          \* rows of organization_invitations
    Limit,                \* the limit of every request
    NULL

ASSUME BatchesAssumption ==
    /\ Limit \in Nat \ {0}
    /\ Memberships \subseteq Commands
    /\ Commands \cap Invitations = {}     \* rows of two tables
    /\ NULL \notin Keys \cup Calls

VARIABLES
    invitation,           \* "open", "late" past its deadline, or "ended": not pending
                          \* or accepted, whatever becomes of the acceptance
    command,              \* state, lease and whether the row is due
    busy,                 \* rows locked by transactions of public calls
    reservation,          \* rows of organization_invitation_mutations
    call,                 \* what a worker call has done so far
    loop                  \* what its caller is waiting for

vars == <<invitation, command, busy, reservation, call, loop>>
--------------------------------------------------------------------------------
(* Rows *)

Rows == Commands \cup Invitations
Operations == {"dispatch_due", "expire_due"}

\* lease is the lease token: a call holds one lease of a command at a time.
\* due is available_at <= now, or lease_until < now of a leased command.
Command == [state : {"pending", "in_flight", "completed", "failed", "superseded"},
            lease : Calls \cup {NULL}, due : BOOLEAN]
Unsettled(c) == command[c].state \in {"pending", "in_flight"}
DueCommands == {c \in Commands : Unsettled(c) /\ command[c].due}
LateInvitations == {i \in Invitations : invitation[i] = "late"}
DueRows(op) == IF op = "dispatch_due" THEN DueCommands ELSE LateInvitations

\* An answer keeps the rows it counts; the response column holds their numbers.
Answer == [op : Operations, items : SUBSET Rows, completed : SUBSET Rows,
           retried : SUBSET Rows, failed : SUBSET Rows, has_more : BOOLEAN]
NoAnswer(op) == [op |-> op, items |-> {}, completed |-> {}, retried |-> {},
                 failed |-> {}, has_more |-> FALSE]

\* batches counts, as history, the batches ever begun for the key, up to two.
Reservation == [status : {"vacant", "started", "completed"},
                answer : Answer \cup {NULL}, batches : 0..2]
Vacant == [status |-> "vacant", answer |-> NULL, batches |-> 0]

ASSUME NoAnswerIsNull == NULL \notin Answer

\* The stage, the commands still to execute or the rows due to a sweep, and the
\* answer that is being counted.
CallRecord == [at : {"idle", "claim", "execute", "count", "record", "more", "commit"},
               key : Keys \cup {NULL}, todo : SUBSET Rows, answer : Answer]
Idle == [at |-> "idle", key |-> NULL, todo |-> {}, answer |-> NoAnswer("dispatch_due")]

\* A caller's loop: the rows due when it began that are due still, the keys that
\* were taken by then, and whether it was told that nothing is left.
Loop == [op : Operations, owed : SUBSET Rows, old : SUBSET Keys, drained : BOOLEAN]

\* FOR UPDATE SKIP LOCKED takes the first rows up to the limit that nobody holds.
Sweeping(w) == call[w].at \in {"more", "commit"}
LockedRows == busy \cup UNION {call[w].answer.items : w \in {v \in Calls : Sweeping(v)}}

\* Mutant: a sweep reads the rows it expires without locking them.
BatchUnlocked(rows) == {S \in SUBSET rows :
                           \/ Cardinality(S) = Limit
                           \/ S = rows /\ Cardinality(S) <= Limit}

Batch(rows) == {S \in SUBSET (rows \ LockedRows) :
                   \/ Cardinality(S) = Limit
                   \/ S = rows \ LockedRows /\ Cardinality(S) <= Limit}
--------------------------------------------------------------------------------
(* Callers *)

\* Every step that makes a row no longer due pays what callers are owed.
Pay == loop' = [w \in Calls |-> [loop[w] EXCEPT !.owed =
                   {r \in @ : \/ r \in Commands /\ command'[r].due
                                   /\ command'[r].state \in {"pending", "in_flight"}
                              \/ r \in Invitations /\ invitation'[r] = "late"}]]

StartLoop(w, op) ==
    /\ call[w] = Idle
    /\ loop' = [loop EXCEPT ![w] =
           [op |-> op, owed |-> DueRows(op),
            old |-> {k \in Keys : reservation[k] # Vacant \/ \E v \in Calls : call[v].key = k},
            drained |-> FALSE]]
    /\ UNCHANGED <<invitation, command, busy, reservation, call>>

\* The caller gets an answer for the key; it stops when nothing is left, if the
\* key was not used before it began.
Answered(w, key, answer) ==
    loop' = [v \in Calls |->
                IF v = w THEN [loop[v] EXCEPT !.drained = ~answer.has_more /\ key \notin loop[v].old]
                ELSE loop[v]]
--------------------------------------------------------------------------------
(* The key of a batch *)

\* A key whose row another transaction has inserted and not yet committed.
Undecided(key) == \E v \in Calls : call[v].key = key /\ Sweeping(v)

\* Mutant: a batch in progress is taken for a new one.
NewUnlessCompleted(key) == reservation[key].status # "completed" /\ ~Undecided(key)

New(key) == reservation[key].status = "vacant" /\ ~Undecided(key)

\* A key that is completed gives the stored answer; one of another operation or
\* in progress is an idempotency conflict, which changes nothing.
Replay(w, key) ==
    /\ call[w] = Idle
    /\ ~Undecided(key)
    /\ reservation[key].status = "completed"
    /\ reservation[key].answer.op = loop[w].op
    /\ Answered(w, key, reservation[key].answer)
    /\ UNCHANGED <<invitation, command, busy, reservation, call>>

\* Mutant: the status is written before the answer is known.
BegunCompleted(key, status) == [reservation[key] EXCEPT !.status = "completed",
                                   !.batches = IF @ < 2 THEN @ + 1 ELSE @]

\* The reservation with one more batch begun for it.
Begun(key, status) == [reservation[key] EXCEPT !.status = status,
                          !.batches = IF @ < 2 THEN @ + 1 ELSE @]
--------------------------------------------------------------------------------
(* dispatch_due *)

\* begin_dispatch_batch commits the reservation before anything is claimed.
BeginDispatch(w, key) ==
    /\ call[w] = Idle
    /\ loop[w].op = "dispatch_due"
    /\ New(key)
    /\ reservation' = [reservation EXCEPT ![key] = Begun(key, "started")]
    /\ call' = [call EXCEPT ![w] = [Idle EXCEPT !.at = "claim", !.key = key]]
    /\ UNCHANGED <<invitation, command, busy, loop>>

ClaimDueCommands(w) ==
    /\ call[w].at = "claim"
    /\ \E S \in Batch(DueCommands) :
          /\ command' = [c \in Commands |->
                IF c \in S THEN [state |-> "in_flight", lease |-> w, due |-> FALSE]
                ELSE command[c]]
          /\ call' = [call EXCEPT ![w].at = "execute", ![w].todo = S,
                                  ![w].answer.items = S]
    /\ UNCHANGED <<invitation, busy, reservation>>
    /\ Pay

Holds(w, c) == command[c].state = "in_flight" /\ command[c].lease = w

\* One command of the batch.  It is settled or retried under its lease and counted;
\* a membership command that another executor completed counts as completed.
Execute(w, c) ==
    /\ call[w].at = "execute"
    /\ c \in call[w].todo
    /\ c \notin busy
    /\ \E row \in {[state |-> s, lease |-> NULL, due |-> FALSE] :
                      s \in {"pending", "completed", "failed", "superseded"}} :
          LET counts == [call[w].answer EXCEPT
                  !.completed = IF row.state \in {"completed", "superseded"}
                                THEN @ \cup {c} ELSE @,
                  !.retried = IF row.state = "pending" THEN @ \cup {c} ELSE @,
                  !.failed = IF row.state = "failed" THEN @ \cup {c} ELSE @]
          IN /\ \/ Holds(w, c) /\ command' = [command EXCEPT ![c] = row]
                \/ /\ c \in Memberships
                   /\ command[c].state = "completed"
                   /\ row.state = "completed"
                   /\ UNCHANGED command
             /\ call' = [call EXCEPT ![w].todo = @ \ {c}, ![w].answer = counts]
    /\ UNCHANGED <<invitation, busy, reservation>>
    /\ Pay

\* Mutant: rows that are locked are not counted, as if the query skipped them too.
HasMoreUnlocked(w, due) == due \ LockedRows # {}

\* EXISTS over committed rows: a row that somebody has locked still counts.
HasMore(w, due) == due # {}

CountDueCommands(w) ==
    /\ call[w].at = "execute"
    /\ call[w].todo = {}
    /\ call' = [call EXCEPT ![w].at = "record",
                            ![w].answer.has_more = HasMore(w, DueCommands)]
    /\ UNCHANGED <<invitation, command, busy, reservation, loop>>

CompleteDispatch(w) ==
    /\ call[w].at = "record"
    /\ reservation[call[w].key].status = "started"
    /\ reservation' = [reservation EXCEPT ![call[w].key].status = "completed",
                                          ![call[w].key].answer = call[w].answer]
    /\ call' = [call EXCEPT ![w] = Idle]
    /\ Answered(w, call[w].key, call[w].answer)
    /\ UNCHANGED <<invitation, command, busy>>
--------------------------------------------------------------------------------
(* expire_due *)

\* The key is inserted and the rows are locked; nothing is committed yet.  The
\* deadlines are those passed when the transaction began.
BeginSweep(w, key) ==
    /\ call[w] = Idle
    /\ loop[w].op = "expire_due"
    /\ New(key)
    /\ \E S \in Batch(LateInvitations) :
          call' = [call EXCEPT ![w] = [at |-> "more", key |-> key, todo |-> LateInvitations,
                       answer |-> [NoAnswer("expire_due") EXCEPT !.items = S]]]
    /\ UNCHANGED <<invitation, command, busy, reservation, loop>>

\* The transaction sees its own rows expired and everybody else's as committed.
CountLateInvitations(w) ==
    /\ call[w].at = "more"
    /\ call' = [call EXCEPT ![w].at = "commit",
           ![w].answer.has_more =
               HasMore(w, (LateInvitations \cap call[w].todo) \ call[w].answer.items)]
    /\ UNCHANGED <<invitation, command, busy, reservation, loop>>

Expired(w) == [i \in Invitations |-> IF i \in call[w].answer.items THEN "ended"
                                     ELSE invitation[i]]

CommitSweep(w) ==
    /\ call[w].at = "commit"
    /\ invitation' = Expired(w)
    /\ reservation' = [reservation EXCEPT ![call[w].key] =
           [Begun(call[w].key, "completed") EXCEPT !.answer = call[w].answer]]
    /\ call' = [call EXCEPT ![w] = Idle]
    /\ UNCHANGED <<command, busy>>
    /\ loop' = [v \in Calls |-> [loop[v] EXCEPT
           !.owed = @ \ call[w].answer.items,
           !.drained = IF v = w THEN ~call[w].answer.has_more /\ call[w].key \notin loop[v].old
                       ELSE @]]
--------------------------------------------------------------------------------
(* Everybody else *)

\* A StorageError, a lost lease or the end of the process: a sweep rolls back, a
\* dispatch leaves its reservation started and its leases to lapse.
EndsEarly(w) ==
    /\ call[w] # Idle
    /\ call' = [call EXCEPT ![w] = Idle]
    /\ UNCHANGED <<invitation, command, busy, reservation, loop>>

\* A transaction of a public call locks a row, and ends it or rolls back.
LockRow(r) ==
    /\ r \notin LockedRows
    /\ busy' = busy \cup {r}
    /\ UNCHANGED <<invitation, command, reservation, call, loop>>

ReleaseRow(r) ==
    /\ r \in busy
    /\ busy' = busy \ {r}
    /\ \/ UNCHANGED <<invitation, command>>
       \/ /\ r \in Invitations
          /\ invitation' = [invitation EXCEPT ![r] = "ended"]
          /\ UNCHANGED command
       \/ /\ r \in Commands \ Memberships
          /\ Unsettled(r)
          /\ command' = [command EXCEPT ![r] =
                 [state |-> "superseded", lease |-> NULL, due |-> FALSE]]
          /\ UNCHANGED invitation
    /\ UNCHANGED <<reservation, call>>
    /\ Pay

\* A resend asks for no deadline to be ahead still.  The one it sets is: the row is
\* not late any more, for the sweeps in progress either.
ResendRow(r) ==
    /\ r \in busy \cap Invitations
    /\ invitation[r] # "ended"
    /\ busy' = busy \ {r}
    /\ invitation' = [invitation EXCEPT ![r] = "open"]
    /\ call' = [w \in Calls |-> [call[w] EXCEPT !.todo = @ \ {r}]]
    /\ UNCHANGED <<command, reservation>>
    /\ Pay

ComesDue(r) ==
    /\ \/ /\ r \in Invitations
          /\ invitation[r] = "open"
          /\ invitation' = [invitation EXCEPT ![r] = "late"]
          /\ UNCHANGED command
       \/ /\ r \in Commands
          /\ Unsettled(r)
          /\ ~command[r].due
          /\ command' = [command EXCEPT ![r].due = TRUE]
          /\ UNCHANGED invitation
    /\ UNCHANGED <<busy, reservation, call, loop>>

Init ==
    /\ invitation = [i \in Invitations |-> "open"]
    /\ command = [c \in Commands |-> [state |-> "pending", lease |-> NULL, due |-> TRUE]]
    /\ busy = {}
    /\ reservation = [k \in Keys |-> Vacant]
    /\ call = [w \in Calls |-> Idle]
    /\ loop \in [Calls -> {[op |-> op, owed |-> {}, old |-> {}, drained |-> FALSE] :
                              op \in Operations}]

CallStep(w) ==
    \/ \E op \in Operations : StartLoop(w, op)
    \/ \E k \in Keys : Replay(w, k) \/ BeginDispatch(w, k) \/ BeginSweep(w, k)
    \/ ClaimDueCommands(w)
    \/ \E c \in Commands : Execute(w, c)
    \/ CountDueCommands(w)
    \/ CompleteDispatch(w)
    \/ CountLateInvitations(w)
    \/ CommitSweep(w)
    \/ EndsEarly(w)

Next ==
    \/ \E w \in Calls : CallStep(w)
    \/ \E r \in Rows : LockRow(r) \/ ReleaseRow(r) \/ ResendRow(r) \/ ComesDue(r)

Spec == Init /\ [][Next]_vars
--------------------------------------------------------------------------------
(* Properties *)

\* The type invariant.
TypeOK ==
    /\ invitation \in [Invitations -> {"open", "late", "ended"}]
    /\ command \in [Commands -> Command]
    /\ busy \subseteq Rows
    /\ \A k \in Keys : /\ reservation[k].status \in {"vacant", "started", "completed"}
                       /\ reservation[k].batches \in 0..2
                       /\ (reservation[k].answer = NULL) = (reservation[k].status # "completed")
    /\ \A w \in Calls : call[w].key \in Keys \cup {NULL} /\ call[w].todo \subseteq Rows
    /\ \A w \in Calls : loop[w].owed \subseteq Rows /\ loop[w].old \subseteq Keys

\* However often a call is repeated, at the same time, after it was answered or
\* after it ended early, its key begins one batch and no more.
KeyBeginsOneBatch == \A k \in Keys : reservation[k].batches <= 1

\* A caller that goes on under new keys until has_more is false has left nothing
\* behind: each row that was due when it began was claimed, swept, ended or given
\* a new deadline by somebody since, and is not one that others merely had locked.
DrainedMeansTaken == \A w \in Calls : loop[w].drained => loop[w].owed = {}

\* A command is counted as completed or failed by the one batch that settled it,
\* though leases lapse and batches overlap; only a membership command may be
\* counted again, by an executor that finds its acceptance already completed.  An
\* invitation is expired by one sweep and listed in its answer only.
RowsAreCountedOnce ==
    LET Completed == {k \in Keys : reservation[k].status = "completed"}
        Sweeps == {k \in Completed : reservation[k].answer.op = "expire_due"}
    IN  /\ \A c \in Commands \ Memberships :
               Cardinality({k \in Completed : c \in reservation[k].answer.completed
                                                   \cup reservation[k].answer.failed}) <= 1
        /\ \A k \in Sweeps, i \in Invitations :
               i \in reservation[k].answer.items =>
                   /\ invitation[i] = "ended"
                   /\ \A j \in Sweeps \ {k} : i \notin reservation[j].answer.items
================================================================================
