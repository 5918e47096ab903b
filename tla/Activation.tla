------------------------------ MODULE Activation ------------------------------
(***************************************************************************)
(* The token secrets over the life of the plugin: processes resolve them,  *)
(* serve with the pair they resolved, stop and are activated again, while  *)
(* the secrets change in the provider.  The tokens are those of one        *)
(* invitation, as token.rs makes, hashes and verifies them: HMAC and       *)
(* Argon2id are taken to be free of collisions.                            *)
(***************************************************************************)
EXTENDS Naturals

CONSTANTS
    Processes,            \* instances of the plugin over one schema
    Values,               \* secrets of at least 32 bytes
    Short,                \* a secret that is shorter
    MaxGeneration,        \* bound on resends
    NULL

VARIABLES
    phase,                \* of each process
    prepared,             \* the pair a process serves with, or NULL
    row,                  \* the invitation: token_generation and token_hash, or NULL
    call,                 \* the call a process is in: operation, place, snapshot, reads
    given                 \* one of the links returned or mailed, whichever, or NULL

vars == <<phase, prepared, row, call, given>>
node == <<phase, prepared>>
--------------------------------------------------------------------------------
(* token.rs *)

Generations == 1..MaxGeneration
Secrets == Values \cup {Short}
Tokens == [key : Values, generation : Generations]
Hashes == [token : Tokens, pepper : Values]

DeriveToken(pair, generation) == [key |-> pair.derivation, generation |-> generation]
HashToken(pair, token) == [token |-> token, pepper |-> pair.pepper]

VerifyToken(pair, token, hash) == HashToken(pair, token) = hash

Pairs == [pepper : Values, derivation : Values]
Rows == [generation : Generations, hash : Hashes]

\* A snapshot is of the current activation of its plugin or of one that has ended.
Lives == {"current", "ended"}

\* A token somebody holds: by what it was given out, and whether the activation the call
\* hashed in was still the current one.
Links == [by : {"response", "mail"}, token : Tokens, life : Lives]

ASSUME SecretsAssumption ==
    /\ Short \notin Values
    /\ NULL \notin Pairs \cup Rows \cup Hashes \cup Links
    /\ MaxGeneration \in Nat \ {0}

Idle == [op |-> NULL, at |-> "idle", snapshot |-> NULL, life |-> "current",
         generation |-> 0, hash |-> NULL]
--------------------------------------------------------------------------------
(* Activation *)

Sound(pair) ==
    /\ pair.pepper \in Values /\ pair.derivation \in Values
    /\ pair.pepper # pair.derivation

\* The platform activates what is not active: a plugin that is new, has stopped or has
\* failed to be.  activate itself asks for nothing of the kind.
Activate(p) ==
    /\ phase[p] = "off"
    /\ phase' = [phase EXCEPT ![p] = "activating"]
    /\ UNCHANGED <<prepared, row, call, given>>

\* The secrets are resolved one after the other, and the operator rotates either at any
\* moment: whatever the order, the pair that is judged is any.  A call that has outlived
\* a deactivation keeps the pair and the closed pool it has clones of.
Prepare(p, pair) ==
    /\ phase[p] = "activating"
    /\ Sound(pair)
    /\ phase' = [phase EXCEPT ![p] = "active"]
    /\ prepared' = [prepared EXCEPT ![p] = pair]
    /\ call' = [call EXCEPT ![p].life = IF call[p].snapshot = NULL THEN "current" ELSE "ended"]
    /\ UNCHANGED <<row, given>>

\* A secret that is rejected, unavailable or unsound, or a schema that is not ready:
\* nothing is kept of it.
ActivationFails(p) ==
    /\ phase[p] = "activating"
    /\ phase' = [phase EXCEPT ![p] = "off"]
    /\ UNCHANGED <<prepared, row, call, given>>

\* The pair is taken; calls in flight keep their clones.  The pool gives out no more
\* connections.
Deactivate(p) ==
    /\ phase[p] = "active"
    /\ phase' = [phase EXCEPT ![p] = "closing"]
    /\ prepared' = [prepared EXCEPT ![p] = NULL]
    /\ UNCHANGED <<row, call, given>>

\* Mutant: deactivate does not wait.
CloseAtOnce(p) ==
    /\ phase[p] = "closing"
    /\ phase' = [phase EXCEPT ![p] = "off"]
    /\ UNCHANGED <<prepared, row, call, given>>

\* pool().close() has waited for the connections in use.
PoolClosed(p) ==
    /\ phase[p] = "closing" /\ call[p].at # "writing"
    /\ phase' = [phase EXCEPT ![p] = "off"]
    /\ UNCHANGED <<prepared, row, call, given>>

\* The process ends, by itself or not, and another takes its place.
Restart(p) ==
    /\ phase' = [phase EXCEPT ![p] = "off"]
    /\ prepared' = [prepared EXCEPT ![p] = NULL]
    /\ call' = [call EXCEPT ![p] = Idle]
    /\ UNCHANGED <<row, given>>
--------------------------------------------------------------------------------
(* Calls *)

PoolOpen(p) == phase[p] = "active" /\ call[p].life = "current"

Move(p, c) ==
    /\ call' = [call EXCEPT ![p] = c]
    /\ UNCHANGED node

\* The awaits before prepared() are behind the call.
Begin(p, op) ==
    /\ call[p].at = "idle" /\ phase[p] \in {"active", "closing"}
    /\ op = "invite" \/ row # NULL
    /\ Move(p, [Idle EXCEPT !.op = op, !.at = "begun"])
    /\ UNCHANGED <<row, given>>

\* An error, of the code, of the database or of a provider, ends any call.
Fails(p) ==
    /\ call[p].at # "idle"
    /\ Move(p, Idle)
    /\ UNCHANGED <<row, given>>

\* prepared(): a call after deactivate fails, any other has a clone of the pair.
TakeSnapshot(p) ==
    /\ call[p].at = "begun"
    /\ prepared[p] # NULL
    /\ Move(p, [call[p] EXCEPT !.at = IF call[p].op = "invite" THEN "store" ELSE "read",
                               !.snapshot = prepared[p],
                               !.generation = IF call[p].op = "invite" THEN 1 ELSE 0])
    /\ UNCHANGED <<row, given>>

\* resend reads the row and hashes the token of the generation after it.
ReadForResend(p) ==
    /\ call[p].at = "read" /\ call[p].op = "resend" /\ PoolOpen(p)
    /\ Move(p, [call[p] EXCEPT !.at = "store", !.generation = row.generation + 1])
    /\ UNCHANGED <<row, given>>

\* The row is read before a notification.
ReadForMail(p) ==
    /\ call[p].at = "read" /\ call[p].op = "deliver" /\ PoolOpen(p)
    /\ Move(p, [call[p] EXCEPT !.at = "mail", !.generation = row.generation, !.hash = row.hash])
    /\ UNCHANGED <<row, given>>

\* The transaction of create_invitation or resend_invitation takes a connection,
\* which is all it needs of this process until it commits.
BeginTransaction(p) ==
    /\ call[p].at = "store" /\ PoolOpen(p)
    /\ Move(p, [call[p] EXCEPT !.at = "writing"])
    /\ UNCHANGED <<row, given>>

Hashed(c) == HashToken(c.snapshot, DeriveToken(c.snapshot, c.generation))

StoreInvite(p) ==
    /\ call[p].op = "invite" /\ call[p].at = "writing"
    /\ row = NULL
    /\ row' = [generation |-> 1, hash |-> Hashed(call[p])]
    /\ Move(p, [call[p] EXCEPT !.at = "respond", !.generation = 1])
    /\ UNCHANGED given

\* The hash is the one made before the transaction.  The row is compared with the
\* revision, here a generation, that the client named, and counted up: a client may name
\* any, the one it has read or one it expects to be produced.
StoreResend(p, expected) ==
    /\ call[p].op = "resend" /\ call[p].at = "writing"
    /\ row.generation = expected /\ row.generation < MaxGeneration
    /\ row' = [generation |-> row.generation + 1, hash |-> Hashed(call[p])]
    /\ Move(p, [call[p] EXCEPT !.at = "respond", !.generation = row.generation + 1])
    /\ UNCHANGED given

\* A link is given out.  What holds of the one that is remembered holds of all.
Give(link) == given' \in {given, link}

\* token_response takes a snapshot of its own: a token whose invitation is committed
\* is lost if the plugin was deactivated since.
Respond(p) ==
    /\ call[p].at = "respond"
    /\ prepared[p] # NULL
    /\ Give([by |-> "response", life |-> call[p].life,
             token |-> DeriveToken(prepared[p], call[p].generation)])
    /\ Move(p, Idle)
    /\ UNCHANGED row

\* Mutant: the token is mailed whether it verifies or not.
MailAnyToken(p) ==
    LET token == DeriveToken(call[p].snapshot, call[p].generation) IN
    /\ call[p].at = "mail"
    /\ Give([by |-> "mail", life |-> call[p].life, token |-> token])
    /\ Move(p, Idle)
    /\ UNCHANGED row

\* The directory was asked since the row was read; the token must verify.
Mail(p) ==
    LET token == DeriveToken(call[p].snapshot, call[p].generation) IN
    /\ call[p].at = "mail"
    /\ VerifyToken(call[p].snapshot, token, call[p].hash)
    /\ Give([by |-> "mail", life |-> call[p].life, token |-> token])
    /\ Move(p, Idle)
    /\ UNCHANGED row

CallStep(p) ==
    \/ \E op \in {"invite", "resend", "deliver"} : Begin(p, op)
    \/ Fails(p)
    \/ TakeSnapshot(p)
    \/ ReadForResend(p)
    \/ ReadForMail(p)
    \/ BeginTransaction(p)
    \/ StoreInvite(p)
    \/ \E expected \in Generations : StoreResend(p, expected)
    \/ Respond(p)
    \/ Mail(p)
--------------------------------------------------------------------------------
Init ==
    /\ phase = [p \in Processes |-> "off"]
    /\ prepared = [p \in Processes |-> NULL]
    /\ row = NULL
    /\ call = [p \in Processes |-> Idle]
    /\ given = NULL

NodeStep(p) ==
    \/ Activate(p)
    \/ \E pair \in [pepper : Secrets, derivation : Secrets] : Prepare(p, pair)
    \/ ActivationFails(p)
    \/ Deactivate(p)
    \/ PoolClosed(p)
    \/ Restart(p)

Next == \E p \in Processes : NodeStep(p) \/ CallStep(p)

Spec == Init /\ [][Next]_vars
--------------------------------------------------------------------------------
(* Properties *)

Calls == [op : {"invite", "resend", "deliver", NULL},
          at : {"idle", "begun", "read", "store", "writing", "respond", "mail"},
          snapshot : Pairs \cup {NULL},
          life : Lives,
          generation : 0..(MaxGeneration + 1),
          hash : Hashes \cup {NULL}]

\* The type invariant: what each variable is, and that exactly a process that is active
\* has a pair to serve with.
TypeOK ==
    /\ phase \in [Processes -> {"off", "activating", "active", "closing"}]
    /\ prepared \in [Processes -> Pairs \cup {NULL}]
    /\ \A p \in Processes : prepared[p] # NULL <=> phase[p] = "active"
    /\ row \in Rows \cup {NULL}
    /\ call \in [Processes -> Calls]
    /\ given \in Links \cup {NULL}

\* A link for the generation the row is at opens the invitation wherever the pepper of
\* the hash is served: its token is the one the row's hash was made from, whatever was
\* rotated, restarted or shut down meanwhile and whichever process served.  Of a mail
\* that is so without a condition.  Of a response it is so unless its plugin was
\* activated anew since the call took the pair it hashed with, or the hash is of an
\* older generation than the row: the client of a resend named a revision that another
\* resend had yet to produce when this one read the row (lib.rs:424-439 hashes for what
\* was read, storage.rs:430 compares with what is locked).
LinksGivenOutAreGood ==
    /\ given # NULL
    /\ given.token.generation = row.generation
    /\ given.by = "mail" \/ (row.hash.token.generation = row.generation /\ given.life = "current")
    => given.token = row.hash.token

\* A secret torn between two rotations, or short, never makes a hash: the pair behind
\* a stored hash is long and distinct.
HashesAreOfSoundPairs ==
    row # NULL =>
        /\ {row.hash.pepper, row.hash.token.key} \subseteq Values
        /\ row.hash.pepper # row.hash.token.key

\* Once deactivate has returned, and until another activation has succeeded, the process
\* commits nothing and shows no token, though a call begun before may still mail one it
\* had in hand.
StoppedMeansSilent ==
    [][\A p \in Processes :
          phase[p] \notin {"active", "closing"} /\ call'[p] # call[p] =>
              /\ UNCHANGED row
              /\ given' # given => call[p].op = "deliver"]_vars
================================================================================
