# Verification of the organization invitation plugin

TLA+ modules, TLC runs and TLAPS proofs about the PostgreSQL provider of
organization invitations (`src/crates/lenso-organization-invitation-postgres-plugin`) and the
agent tools in front of it. Short paths below (`lib.rs`, `storage.rs`, `token.rs`)
are files of that crate.

## 1. The system

A manager of an organization **invites** an address. The plugin stores the
invitation with a verifier of a derived token and, in the same transaction, a
*command* to notify the address. A worker **dispatches** due commands. The
recipient **accepts** with the token: the token is consumed in one transaction,
then the membership service is called, then the outcome is recorded in another.
A manager may **resend** (a new token generation) or **revoke**; a worker
**expires** what is past its deadline. However an invitation ends, a command
tells the notification service.

### Components

| Component | State | Operations | Correct when |
| --- | --- | --- | --- |
| Storage transactions, `storage.rs` | five tables: invitations, commands, mutations (idempotency keys), activity, sequences | create, resend, revoke, begin / complete accept, expire due, claim, complete, retry, fail, supersede | the tables agree with one another at every commit; what a transaction read under its locks is still so when it commits |
| Schema, `migrations/001_*.sql` | column constraints, uniqueness | | no transaction can be refused by a constraint |
| Public service, `lib.rs` | what a call has read | invite, resend, revoke, accept, get, list | a stale read never decides; a repeated request acts once |
| Worker service, `lib.rs` | a batch of leased commands, its key and counts | expire_due, dispatch_due | every due row is eventually handled, none twice with effect; a caller told that nothing is left has nothing left |
| Command executor, `lib.rs` | one command and the answer of a remote call | execute_command, execute_acceptance_command | answers that are late, lost or contradictory settle a command at most once |
| Token derivation, `token.rs` | none | derive, hash, verify | only the current token is accepted, and the one handed out is the current one |
| Membership and notification services | external | add_member, create invitation, observe lifecycle | idempotent by command key |
| Retry backoff, `lib.rs` 1883-1915 | the attempts of a command | delay of the next attempt, giving up | delay bounded, growing; given up neither early nor never |
| Authorization, `lib.rs` 899-1097 | none | caller list, actor assertion, membership, permission, directory | nothing is told or written before every fact is checked; who is entitled is not refused |
| Pagination, `storage.rs` 353 | the cursor in the hands of a client | keyset page of invitations | no row twice; no row skipped that was there from the start to the end |
| Activation, configuration | prepared secrets and pool | activate, deactivate | no hash of unsound secrets; nothing written after deactivation |
| Email and request text, `lib.rs` 746-846 | none | normalize, validate | one form per mailbox, one lock key per form |
| Agent tools plugin | none | three tools mapped to public calls | an agent learns what its actor may, and a refusal stays one |
| Capability crates | generated wire types | | |

### How they interact

* A public call reads, then runs one transaction. `resend` and `accept` read the
  invitation **outside** the transaction (`lib.rs` 424 and 1274) and use what they
  read inside it.
* `accept` executes the membership command itself, under a lease that its own
  transaction took. When the lease lapses, any `dispatch_due` may take the
  command over while the call is still waiting for the membership service.
* `dispatch_due` leases a batch and executes its commands one by one. A
  `StorageError`, for instance a lost lease, ends the batch; the commands not
  reached wait for their leases to lapse.
* `expire_due` reserves its key, sweeps and answers in one transaction;
  `dispatch_due` commits its reservation before it claims and its answer after the
  last command, so that a call that ends early leaves a started key behind
  (`docs/postgresql-operations.md` 36 tells the operator to go on under a new key).
* Transactions meet at row locks: at the idempotency key, the advisory lock of an
  address, the sequence row, the invitation and its commands, in that order, except
  that an executor that settles a command locks the command before the invitation.
* The public service and the worker ask membership, access control and, to invite
  or resend, the directory; the agent tools ask the public service.
* Every remote call carries the command key as its idempotency key, so two
  executors of one command are one request to the provider.

### What is hard here

Interleavings of calls and executors around one invitation; reads made before a
transaction; leases that lapse at any moment; answers that come after the command
was taken over; a process that ends between the remote call and the commit; a
provider that did the work and did not answer; a caller that repeats a request
that is done, in progress, or was rolled back; transactions that wait for one
another, and judge deadlines by the clock of their own start; facts of other
services that change between two questions; a listing read while rows come and go;
secrets that are rotated one at a time under running processes. `PROJECT.json` lists each hazard at
its line with the properties that cover it.

## 2. The modules

| Module | Models |
| --- | --- |
| `InvitationStore` | the tables and every transaction of `storage.rs` that writes them; one committed transaction is one action |
| `InvitationService` | the handlers of `lib.rs`: calls, batches, the executor and its remote calls; the properties |
| `InvitationLifecycle` | what is promised of an invitation: the state table of `docs/plugin-card.md`, without tables, keys, leases or retries |
| `AtomicTransactions` | what the transactions come to, each as one step: the invitations, live notifications and keys it changes, and what it must find |
| `InvitationRefinement` | the refinement mappings from the service to the life cycle and to the atomic transactions |
| `RowLocks` | the inside of those transactions: statement by statement, the locks they take and wait for, PostgreSQL's deadlock detection, the sequence of identifiers, the advisory lock |
| `WorkerBatches` | the keys, claims, counts and answers of `expire_due` and `dispatch_due`, and callers that repeat them until nothing is left |
| `RetryBackoff` | one command over its attempts: claim, crash, outage, unknown answer, delay, giving up |
| `KeysetPages` | a client reading pages of `list_invitations` while the table changes |
| `Authorization` | one call of any operation, the checks in their order, and the facts that change meanwhile |
| `AgentTools` | the agent tools over `Authorization`, which it EXTENDS |
| `Activation` | processes that resolve, use and drop the token secrets while those are rotated; `token.rs` symbolically |
| `RequestText` | `normalize_email`, opaque identifiers and the lock key of an address, on every short text |
| `MCService`, `MCRowLocks`, `MCBatches`, `MCAgentTools`, `MCActivation` | the sets of the TLC runs |
| `MCParts` | `RetryBackoff`, `KeysetPages` and `RequestText` in one run, one of them moving in each behaviour: they share no state |
| `InvitationService_proofs`, `InvitationInvariants_proofs`, `InvitationRefinement_proofs` | theorems about the service: types, transactions and action properties; invariants; the refinement |
| `RowLocks_proofs`, `WorkerBatches_proofs`, `Authorization_proofs`, `Activation_proofs`, `Parts_proofs` | theorems about those modules; the last one is about `RetryBackoff`, `KeysetPages` and `RequestText` |

`InvitationService` EXTENDS `InvitationStore`; `InvitationRefinement` EXTENDS the
service and instantiates `InvitationLifecycle` and `AtomicTransactions`; the proof
modules of the service extend one another in the order of the table. The modules from
`RowLocks` on look at one question each, with just the data it needs, where the service
would be far too large: they share the code, not the variables. `RowLocks` and the
service meet in `AtomicTransactions`: the one executes its transactions statement by statement, under
locks, and is shown to implement it (`CommitsAreAtomic`); the other takes each for one
step between awaits, and is shown to implement it too (`ImplementsTransactions`). That
is what entitles `InvitationStore` to take a transaction for one step: what it does to
invitations, live notifications and keys is what the statements come to, and the
statements come to nothing else.

The operators marked "Mutant" are plausible mistakes in a definition. Nothing
uses them; each one put in the place of its definition breaks the property that
`PROJECT.json` pairs it with, which is how we know that the property can fail.

### State

* `invitations[id]`, `commands[key]`, `mutations[key]`, `activity` are the rows of
  the four tables. A command is named by its `command_key`: `NotifyKey(id, g)`,
  `MemberKey(id)`, `LifecycleKey(id, l)` are the three formats of the key.
* `call[c]` is what a public call has read so far, `task[e]` the command an
  executor carries out and the answer it got, `batch[w]` what `dispatch_due` has
  leased and not reached.
* `members`, `refused`, `links`, `observed` are what the providers did.
* `RowLocks`: `tx[t]` is what a connection has read and its next statement,
  `held[t]` its locks; the tables hold committed rows only.
* `WorkerBatches`: `reservation[key]` is the row of a batch, `call[w]` the call in
  progress, `loop[w]` what its caller was owed when it began to ask.
* `Authorization`: `held` and `lacked` remember which facts were true, and which
  were false, at some moment of the call.
* `Activation`: `prepared[p]` is the field of that name, `call[p].snapshot` the clone
  a call took, `call[p].life` whether the plugin has been activated anew since, `given`
  one of the tokens that left the plugin.

### Abstractions

* **One step is one transaction.** Every transaction that writes an invitation
  locks its row first, and every one that writes a command holds that lock or is
  fenced by the command's lease. A transaction that returns a domain failure or
  an error rolls back, so it is no step; the handler's return after it is
  `CallReturns`, `Aborts` or `Crash`.
* **Tokens.** `token` in a row is the generation whose derived token the stored
  verifier accepts, 0 when there is none. HMAC and Argon2 are taken as exact.
* **Time.** A row only knows whether it is `due`. Deadlines pass at any moment,
  including at once, so every length of lease, delay and lifetime is covered.
  `InvitationStore` judges a deadline when a transaction commits where the code judges
  by its start: that a transaction which has waited decides no differently is what
  `RowLocks` shows (`OnlyDueExpires`).
* **Leases.** A lease token is a fresh UUID per claim. An executor never holds two
  leases of one command at a time (it claims only when it has no batch and no
  command left), so the executor stands for the token.
* **Attempts** are only compared with `max_command_attempts` and saturate there.
* **Requests** are valid and authorized: an invite has an address, an accept an actor
  and a token (`StoreAssumption`). A `request_hash` is the request: the same
  key with another request is a conflict, which changes nothing.
* **One organization.** No transaction touches rows of two.
* **Locks.** `RowLocks` has four lock modes: `write`, `lock` (FOR UPDATE and the
  advisory lock), `refer` (the FOR KEY SHARE of a foreign key) and `probe` (an INSERT
  that meets an uncommitted key). Revisions, tokens and subjects are left out; they
  may turn any public call away after it locked the invitation.
* **Deadlines in `RowLocks`** are judged by the start of the transaction: it keeps
  the pairs of invitation and generation that were late then.
* **Worker answers** keep the rows they count; the column holds their numbers. Which
  due rows a batch takes is left open, as the order by `available_at` decides
  nothing but fairness. Of a public call only what it does to a due row is there: it
  ends it, supersedes it, or gives a late invitation a new deadline.
* **Text** is a sequence over eight characters: one letter in lower and upper case,
  the punctuation the rules name, a blank, and the separator of the lock key, which
  stands for every control character. The limits of length are scaled down.
* **Secrets** are symbols, long or short. An operator may set either of them to any
  value at any time, so an activation may resolve any pair. The platform activates a
  plugin that is new, has stopped or has failed to be activated, and not one that is
  active: `activate` itself would replace what it prepared.
* **Discarding** a command that no longer matches its invitation is one step
  although the read and the update are two statements: a command that does not
  match never matches again, and the update is fenced.
* `NotificationRefused` stands for every permanent failure of a notification: an
  inactive or unknown organization, a token that does not match the verifier, a
  conflict or a domain error of the notification service.
* The membership service replays the membership it created for a command
  (`docs/plugin-card.md`: recovery "by the provider's idempotent replay").
  `RefusalIsFinal` states the corresponding thing of refusals: once it refused a
  command it does not later admit it. The code relies on it and cannot enforce
  it: where it fails, `AdmissionMatchesInvitation` does. It is a constant, TRUE in
  every run; the proofs assume it only where they say so: in the part of
  `AdmissionMatchesInvitation` that names it, and in the refinement.

## 3. The properties

Each definition carries its statement; `PROJECT.json` pairs each with the hazards
it is about and with a mutant that breaks it.

**The service** (`InvitationService`)

* `MembershipMirrorsInvitation`: the membership command and the invitation tell
  the same story; the `InvalidStoredData` branches of `complete_accept` and
  `accepted_record` are unreachable.
* `AdmissionMatchesInvitation`: nobody is a member through an invitation that
  ended otherwise, and an accepted invitation made its subject a member.
* `StartedKeyHasLiveCommand`: a key that answers "in progress" has a live command
  that will settle it, and every live membership command has one such key.
* `DeliveryIsHonest`, `OnlyCurrentNotificationIsLive`, `LinkStaysUsable`: delivery
  state, live notifications and queued links follow the generation.
* `LifecycleIsAnnounced`: exactly one lifecycle command per ended invitation, for
  the way it ended, whichever of the four paths ended it.
* `KeysActOnce`: a completed key is one effect and an effect is one key.
* `AuditTrailIsComplete`: each revision has one activity row.
* `TerminalRowsAreFrozen`, `SettledCommandsStaySettled`,
  `AcceptanceUsesCurrentToken`: what no step may do.
* `StartedKeyIsSettled`, `EndIsAnnounced`: what happens in the end.
* `ImplementsTransactions`: whatever the handlers and executors read before their
  awaits, they change the tables only by atomic transactions, each of which finds
  what it must: no second answer under a key, no delivery, expiry or refusal of a
  row in another state, no rotation that leaves the older notification live.
* `ImplementsLifecycle`, `ImplementsFairLifecycle`: the refinement. The second one
  says that an acceptance that consumed the token is decided and that decision
  concluded, by the fairness of `InvitationLifecycle`.

**Transactions** (`RowLocks`)

* `CommitsAreAtomic`: however transactions overlap, wait, are aborted or lose their
  leases, each commit is one transaction of `AtomicTransactions` on the committed
  tables, and no other statement changes them. What a transaction read under its
  locks is then what it finds when it commits (`ReadsStayCurrent`), and a deadline
  judged by the clock at the start of a transaction is never one that a resend
  has moved while the transaction waited (`OnlyDueExpires`): both are proved on the
  way, and no run of their own repeats them.
* `OnlyDeliveriesDeadlock`: every cycle of waiting transactions has the outcome of a
  notification in it: `complete_notification_command` and `fail_command` lock the
  command first. PostgreSQL aborts one, the batch ends with an error, and the
  lease lapses. No public call can be in a cycle with other public calls, sweeps
  or acceptances alone.
* `UniqueIndexesRefuseNothing`: the advisory lock and the sequence row do what the
  two unique indexes would otherwise have to refuse.
* `StartedKeysAreBound`: the keys that are "in progress" and the acceptances that
  are undecided are paired one to one.

**Worker batches** (`WorkerBatches`)

* `KeyBeginsOneBatch`: a repeated, concurrent or abandoned key begins one batch.
* `DrainedMeansTaken`: a caller that went on until `has_more=false` left nothing that
  was due when it began, `SKIP LOCKED` notwithstanding.
* `RowsAreCountedOnce`: a settled notification is in the counts of one answer, an
  expired invitation in the list of one answer. A membership command may be
  counted twice, as `complete_accept` succeeds for a command that somebody else
  completed.

**Who may learn what** (`Authorization`, `AgentTools`)

* `RevealingAnswersAreAuthorized`, `InvitesAreForActiveOrganizations`,
  `RefusalIsJustified`: no revealing answer and no write without each fact having
  been true at *some* moment of the call, and no refusal without one having been
  false at some moment. The facts are asked for one after the other and nothing
  pins them, so an actor may be served who never had all of them at one moment,
  and authority may be withdrawn between the check and the commit. Stronger
  statements are false.
* `AgentsLearnWhatTheActorMay`, `RefusalsSurviveTranslation`: the same through the
  agent tools, whatever else calls the service meanwhile, and what their four
  errors say.

**Secrets** (`Activation`)

* `LinksGivenOutAreGood`: a token for the generation the row is at is the one the
  row's hash was made from. Of a mail that holds without a condition, as the worker
  verifies what it sends. Of a response it holds but in two cases. The plugin was
  stopped and activated anew between the commit and `token_response`, which derives
  with the secrets of the new activation. Or the hash is of an older generation than
  the row: a resend named a revision that another resend produced only after the
  first had read the row, which is the case of `pipelined_resends`.
* `StoppedMeansSilent`: after `deactivate` has returned, and until another activation
  has succeeded, nothing is committed and no token shown, but for a mail that was in
  hand. A token whose invitation was committed between the two is lost to
  its caller, as the docs of `resend` allow for (it can be sent again).

**Parts that stand alone**

* `PatienceIsExact`, `DelaysGrowToADay` (`RetryBackoff`): giving up is neither early
  nor late; delays lie between the base and a day and never shrink.
* `NothingIsListedTwice`, `StayersAreListed` (`KeysetPages`).
* `AddressesAreTheGrammar`, `LocksAreOfMailboxes` (`RequestText`): `normalize_email`
  against a grammar of addresses, as words that can be joined by dots, and one lock key for
  each mailbox.

## 4. The runs

Deadlock is not checked: every instance comes to rest, when an invitation has ended
and its commands are settled, a call is answered, a listing read.

| Run | Instance | Why these bounds |
| --- | --- | --- |
| `acceptance` | 1 invitation, 2 clients, 1 worker, 2 attempts, batch of 2 | two accepts and a revoke in flight, with a worker to take over either: three executors of one command, one late, one current, one still to come |
| `rotation` | 1 invitation, 3 generations, 2 clients, 1 worker | three generations are the fewest in which a stale resend leaves a token of an older generation valid; the first token is presented for the revision it was made for and for the next, by two subjects, while resends and a revoke are in flight |
| `reinvite` | 2 invitations of one address, 1 client, 1 worker | the address can be invited again, under the first key and under another |
| `liveness` | 1 invitation, 1 client, 1 worker, 2 attempts | one retry before attempts run out; the call and the worker take over from one another |
| `lock_order` | 2 transactions of any kind, 3 keys, 2 invitations, 2 addresses | conflicts of data are between two transactions; both may create, for one address or for two, a third key has been used before, and a sweep may find two invitations |
| `lock_cycles` | 3 transactions, 2 keys, 1 invitation | a cycle through key, invitation and command has three members |
| `batches` | 2 calls, 2 keys, a notification, a membership command, an invitation, 1 row to a batch | a batch that ends early, is repeated under its key and overlaps with another; `has_more` is true whenever two rows are due |
| `agent_tools` | every operation, three callers | one call: calls share nothing on this path |
| `activation` | 2 processes, 2 secrets and a short one, 3 generations | one plugin serves with old secrets what the other stored with new ones, or was activated anew since; a token two generations old. One of the links given out is remembered, whichever: what holds of it holds of all |
| `parts` | bases 1, 21, 22, 30, 3600 s, 1, 8, 20 attempts; 4 rows, pages of 1 or 2; texts of up to 6 characters | the bounds of `validate` and the places where the cap of a day begins; a row of each page created, committed late or ended; the shortest texts with a dot on either side of the `@`, a hyphen, two labels, and a local part, a label or a domain too long (texts too long for an address are left to the theorem) |
| `pipelined_resends`, `stranded_delivery` | as `rotation` and `liveness`, without fairness | the two disagreements below |

A client may issue each request of its run any number of times, so repeated keys,
stale revisions and requests for invitations that do not exist yet are included.
Where a run has several clients, workers, transactions, keys or processes they are
declared symmetric, as nothing distinguishes them; `liveness` uses no symmetry, with
which TLC cannot check liveness.

**Bounds, by name.** `MaxInvitations`, `MaxGeneration` bound what is created and
rotated (guards of `CreateInvitation`, `ResendInvitation` and their counterparts);
`MaxCommandAttempts` and `BatchLimit` are parameters of the code. With one attempt a
command can still be claimed any number of times: claims are not bounded in the
code, and the counter saturates in the model. `SweepLimit` and `Limit` are the
limits of a request. `AttemptsBound` ends the claims of `RetryBackoff` past the
twenty attempts a configuration may ask for; `MaxTime`, `MaxLimit` bound the clock
and the page of `KeysetPages`; `MaxText` the text, and `MaxLocal`, `MaxLabel`,
`MaxDomain`, `MaxAddress` (3, 2, 3 and 6) stand for 64, 63, 255 and 320. `MaxI64` is scaled down to what TLC's
integers hold in `parts`; the theorems about the delay are for every value of it
that a day fits in.

**Fairness** is assumed in `liveness` only. `dispatch_due` is to be called until
`has_more=false` (`src/README.md` 62) and an executor that runs goes on: weak
fairness of each worker, of each executor and of the clock. Nothing can be promised
while providers never answer, processes keep ending and leases keep lapsing under
their holders: the three faults happen finitely often. Claims of an arbitrary batch
are enough because commands in the bounded instance are finite. Calls of the
public service are never forced.

**Two disagreements.**

1. `pipelined_resends`: `resend` derives the new token for the generation it read
   before the transaction plus one; the transaction stores the verifier under the
   *locked* row's generation plus one. A second resend that read before the first
   committed and names the revision the first produces stores generation 3 with
   the verifier of generation 2. The token of generation 2 remains valid; the token
   returned for generation 3 is derived anew and not accepted; the notification of
   generation 3 fails with `token_derivation_mismatch`.
   `src/README.md` 25: "Resend rotates the token generation and invalidates every
   older token." The properties of `rotation` hold nevertheless: links that were
   queued work, and a token is consumed only while its verifier is stored.
2. `stranded_delivery`: consuming the token while the notification is not sent
   leaves `delivery_state` at `pending`; the worker supersedes the notification and
   never touches the invitation. `src/docs/plugin-card.md` 150 presents
   `delivery_state` as the exposed outcome of the notification.

## 5. The proofs

For every value of the constants that the modules' assumptions allow: any number of
invitations, clients, workers, keys, generations, rows, callers, processes, secrets.

| Theorem | Module | States |
| --- | --- | --- |
| `StepsAreTransactions` | `InvitationService_proofs` | a step leaves the tables alone, is the clock, or is one transaction with arguments of the right type |
| `TypeCorrect` | `InvitationService_proofs` | `Spec => []TypeOK` |
| `MembershipMirrors` | `InvitationService_proofs` | `Spec => []MembershipMirrorsInvitation` |
| `SettledStaySettled`, `TerminalStayFrozen`, `AcceptancePresentsToken` | `InvitationService_proofs` | the three action properties of the service |
| `InvitationSteps` | `InvitationInvariants_proofs` | what a transaction does to one invitation, its commands and its log |
| `DeliveryHonest`, `OnlyCurrentIsLive`, `LinksStayUsable`, `LifecycleAnnounced`, `AuditTrailComplete`, `AdmissionMatches`, `StartedKeysHaveCommands`, `KeysActExactlyOnce` | `InvitationInvariants_proofs` | the other invariants of the service |
| `ServiceImplementsLifecycle` | `InvitationRefinement_proofs` | `RefusalIsFinal` implies `Spec => ImplementsLifecycle` |
| `ServiceImplementsTransactions` | `InvitationRefinement_proofs` | `Spec => ImplementsTransactions` |
| `TransactionsAreAtomic` | `RowLocks_proofs` | `Spec => CommitsAreAtomic` |
| `ReadsCurrent` | `RowLocks_proofs` | `Spec => []ReadsStayCurrent`: what a transaction read is committed until it ends |
| `IndexesRefuseNothing`, `StartedKeysBound`, `OnlyDeliveries`, `TypeCorrect` | `RowLocks_proofs` | the other invariants of `RowLocks`, the absence of other deadlocks included |
| `DueExpires` | `RowLocks_proofs` | `Spec => OnlyDueExpires`: only what was late, and has not been moved since, is expired |
| `OneBatch`, `DrainedTaken`, `CountedOnce`, `TypeCorrect` | `WorkerBatches_proofs` | the four invariants of `WorkerBatches` |
| `DelayIsExact`, `DelayGrows` | `Parts_proofs` | shift, saturation and cap are the base, doubled by each attempt up to the thirteenth, at most a day (a base of 21 seconds or less never reaches it); it grows |
| `GivenUpExactly`, `RetriesSlowDown`, `BackoffTypeCorrect` | `Parts_proofs` | `PatienceIsExact`, `DelaysGrowToADay`, the types |
| `PagesAreDisjoint`, `ListingIsComplete`, `PagesTypeCorrect` | `Parts_proofs` | `NothingIsListedTwice`, `StayersAreListed`, the types |
| `AddressesOfTheGrammar` | `Parts_proofs` | `AddressesAreTheGrammar`, for texts of every length, any number of words and labels, and every limit |
| `LocksOfMailboxes` | `Parts_proofs` | `LocksAreOfMailboxes`, for texts of every length and every limit of an address |
| `AnswersAreAuthorized`, `InvitingNeedsAnActiveOrganization`, `RefusalsAreJustified`, `TypeCorrect` | `Authorization_proofs` | the three properties of `Authorization`, the types |
| `AgentsLearnAuthorized`, `RefusalsReachTheAgent`, `ToolsAreCallers` | `Authorization_proofs` | the two properties of `AgentTools`, and those of `Authorization` for calls through the tools |
| `GivenLinksVerify`, `StoppedStaysSilent`, `HashesHaveSoundPairs`, `TypeCorrect` | `Activation_proofs` | `LinksGivenOutAreGood`, `StoppedMeansSilent`, `HashesAreOfSoundPairs`, the types |

* `TypeOK` of the service is inductive. The proof has a lemma per transaction about
  the tables, and a lemma per group of handlers about calls and executors.
* `StepsAreTransactions` reduces the other proofs to the transactions: they need
  not look at handlers again.
* `MembershipMirrorsInvitation` is inductive together with `TypeOK` once it says
  that a membership command is never superseded: without it a superseded
  command of an open acceptance could be left behind by a step from an unreachable
  state. `MirrorStep` splits on the transaction; a row and its command that keep
  state and subject keep the mirror (`SameMirror`), and one lemma per transaction
  treats the row it changes.
* `SettledStaySettled` needs the mirror for one transaction: `begin_accept` leases
  the membership command it inserts, and would revive a settled one if an
  invitation without a subject could already have a command.
* `AcceptancePresentsToken` follows from the type invariant and the two checks of
  `begin_accept` under the row lock.
* `InvitationSteps` says once, for all other invariants, what a transaction may do to
  one invitation: nothing but the clock, leases and retries, or create, rotate,
  close, consume, accept, or settle one command. Each comes with what was true
  before it, that an executor held an answer of the right kind included.
  On these steps five invariants are inductive, each with the mirror:
  * `AllAnnounced`: notifications beyond the row's generation do not exist, live ones
    are of its generation, the delivery state of an open row is the fate of its
    notification, and a lifecycle command exists exactly for the way the row
    ended. The first is what makes the insertion of a resend effective: without it
    the command of the new generation could be there already.
  * `ToldTheTruth`: what a worker read of an invitation, and what was queued with it,
    is of an older generation or still true while the row is open.
  * `AllLogged`: the revisions of a log are 1 to that of the row, once each.
  * `AdmissionsFit`: whoever carries a membership command, or has it in its batch, does
    so for an invitation with a subject; "ok" was answered only after the
    admission and "refused" only after the refusal; members are subjects; and if
    refusals are final, no admitted subject's invitation can be failed.
  * `KeysFit`: a started key names an undecided acceptance by its subject, and each
    such acceptance has one; completed keys and the log agree.
* `ServiceImplementsLifecycle` shows that a transaction writes the row of one
  invitation or is a sweep (`OneAtATime`), that what it does to that row is one step
  of its life (`LifeSteps`), and that a provider decides or announces one
  invitation (`ProvidersImplement`). `AdmissionsFit` is what forbids an acceptance to
  conclude otherwise than decided, and `RefusalIsFinal` what makes a decision one.
* `RowLocks`: the invariant is that of one transaction with its locks (`TxOK`), of no
  two holding the same row (`Exclusive`), and of the tables. `Explained` says of each
  lock held which statements lie behind its holder, `Holding` which locks the next
  statement rests on; between them they give every row one writer. `Current` says
  that what a transaction knows is what is committed: a commit of another would need
  the lock that `Holding` gives to this one. The pairs of invitation and generation
  that were late at the start stay late or are of an older generation (`LateOK`),
  which is why a resend that commits meanwhile is never expired. `Commit` is proved
  table by table, for any sweep over any rows. A definition had to change:
  `NewKey` was a CASE whose guards overlapped, of which TLA+ does not say
  which arm it takes; it is IF/ELSE now, as the code tries its cases in order.
* `TransactionsAreAtomic` rests on that invariant: a statement that does not commit
  leaves the committed tables alone, and a commit is, by what the transaction is, one
  of the abstract steps. `AtCommit` turns what was read into what the abstract step
  must find, `OneWritten` says that calls and outcomes write one row, and
  `CommitExpires`, by the late pairs, that what is expired is due at the commit.
* `ServiceImplementsTransactions` needs neither the handlers, which
  `StepsAreTransactions` has dealt with, nor `RefusalIsFinal`. There is one lemma per
  transaction (`InviteIsAtomic`, `ResendIsAtomic`, `SweepIsAtomic`, ...), over the one row it
  writes and its notifications: `AllAnnounced` says that the notification that may
  still be sent is of the row's generation and that the one of the next generation is
  not there yet, so that silencing the one and inserting the other is one
  replacement; `KeysFit` that the keys an outcome settles are those of this
  acceptance. What is settled,
  claimed or retried without such a change is a stutter (`QuietIsUnread`).
* `OnlyDeliveriesDeadlock` is no induction: in a cycle without deliveries nobody waits
  at the last statement, since nobody in the cycle is past it; hence nobody at the one
  before, and so on to the first (`NoCycle`). This holds for any number of members.
* `WorkerBatches`: a key that has a reservation or a sweep in progress has one owner
  and has begun once (`KeysOK`); a notification that is counted anywhere is settled,
  and only one that is not settled is counted anew (`CountsOK`); what a sweep locked
  is late and nobody else's (`SweepsOK`). `DrainedMeansTaken` needs a promise about
  answers on their way (`LoopsOK`): a call begun since the loop began that has
  found nothing left, or is about to, leaves the loop owed at most what that call is
  about to expire.
* `RetryBackoff`: the table of shifts is strictly increasing, which gives both the
  exactness and the growth of the delay; giving up needs that each claim adds one
  attempt and each unknown answer consumes one.
* `KeysetPages`: what has been listed sorts before the cursor and what remains after
  it. A row committed late may land before the cursor: it is not listed, and it
  is not among those that stayed.
* `RequestText`: no invariant but that what is typed is a text. Two texts that differ
  in the case of their letters are blank at the same places, so they are trimmed
  alike, split at the same `@` and into the same pieces, and each check says the same
  of both; the separator stands right after an identifier that cannot hold it, so it
  is the first of its text. Trimming chooses a least and a greatest place, which exist
  because the order of the naturals is well founded.
* `AddressesOfTheGrammar` needs no induction over the words, because the grammar says that
  a text *can be cut* at some of its dots into words. If it can, a place that is not
  a cut lies in a gap between two neighbouring cuts (`GapAround`), so that it is in a
  word and is no dot: all dots are cuts, and none is at an end or next to another
  (`JoinedWords`). Conversely the gaps between all dots are the pieces the code
  checks (`CutAtDots`). No word holds an `@`, so that of an address is its first.
* `Authorization`: the stage of a call says which questions it has behind it, and
  each of those has put its fact into `held` or `lacked`. The agent tools take no
  step that another caller could not take (`ToolsCall`), so the invariant holds of
  them too; `ToolInv` adds which call a tool made and what it made of the answer.
* `Activation`: a call whose snapshot is of the current activation keeps the pair that
  `token_response` takes up again (`CallsKeepTheirPair`); what it read of the row is the
  row or an older generation (`CallsAreInOrder`, `ReadsAreOfTheRow`); and the hash of a row
  is of its generation or an older one, so that a hash of the row's own generation
  has never been replaced (`HashIsSound`, `GivenIsGood`). `IInv` collects these with the
  types. Both exceptions of `LinksGivenOutAreGood` are necessary: TLC refutes it without
  either.

## 6. What is only model-checked, what is not modelled

Every invariant and every action property that a run checks is also proved, but the two
claims of the docs that `pipelined_resends` and `stranded_delivery` refute. Only checked
by TLC: `StartedKeyIsSettled`, `EndIsAnnounced` and `ImplementsFairLifecycle`, as
liveness under fairness is out of the prover's reach.

Not modelled:

* the checks of a configuration, secret references included, and `setup` and
  `upgrade`: comparisons of constants, and the platform's migration tool;
* `valid_text`, `valid_token_input`, `valid_invitation_ref`: they admit or refuse,
  and nothing else depends on how;
* the encoding of cursors, rows and wire types: written and read by the same
  libraries; generated code;
* cryptography, which is taken as exact;
* the choice of the rows of a batch by `available_at`, which no property but
  fairness between commands could tell apart;
* build and release scripts.

## 7. Plan

1. *Done:* every module of section 2, its runs, and the theorems of section 5.
2. *Done:* `RowLocks` and `InvitationStore` through their common abstract specification.
3. Revisions, tokens and subjects in `RowLocks` and `AtomicTransactions`: they may turn a
   public call away after it locked the invitation, and are left out there because
   a refused call commits nothing.
