-------------------------- MODULE InvitationRefinement -------------------------
(* The tables and the membership service, read as an InvitationLifecycle, and  *)
(* the tables as the atomic transactions that RowLocks implements as well.     *)
EXTENDS InvitationService

PhaseOf(id) ==
    IF invitations[id].state # "pending" THEN invitations[id].state
    ELSE IF invitations[id].subject # NULL THEN "accepting"
    ELSE "open"

DecisionOf(id) ==
    IF members[id] # NULL THEN "admitted"
    ELSE IF id \in refused THEN "refused"
    ELSE "none"

Lifecycle == INSTANCE InvitationLifecycle WITH
    Invitations <- Ids,
    Accepters <- Subjects,
    Nobody <- NULL,
    phase <- [id \in Ids |-> PhaseOf(id)],
    generation <- [id \in Ids |-> invitations[id].generation],
    holder <- [id \in Ids |-> invitations[id].subject],
    decision <- [id \in Ids |-> DecisionOf(id)],
    announced <- {<<o.id, o.lifecycle>> : o \in observed}

\* Every step of the handlers, the worker and the executors is a step of the
\* invitation's life the plugin card promises, or no step of it at all.
ImplementsLifecycle == Lifecycle!Spec

\* With the fairness of the service, acceptances are also decided and concluded.
ImplementsFairLifecycle == Lifecycle!FairSpec
--------------------------------------------------------------------------------

\* The row of INV-id, without what only the handlers look at.
RowOf(id) ==
    IF invitations[id].state = "none"
    THEN [state |-> "none", generation |-> 0, number |-> 0, address |-> NULL]
    ELSE [state |-> PhaseOf(id), generation |-> invitations[id].generation,
          number |-> id, address |-> invitations[id].email]

\* The generation whose notification may still be sent, or 0.
NoteOf(id) ==
    IF \E g \in 1..MaxGeneration : /\ g = invitations[id].generation
                                   /\ commands[NotifyKey(id, g)].state \in Live
    THEN invitations[id].generation
    ELSE 0

KeyOf(key) ==
    IF mutations[key].status = "vacant" THEN [status |-> "vacant", id |-> NULL]
    ELSE [status |-> mutations[key].status, id |-> mutations[key].id]

rows == [id \in Ids |-> RowOf(id)]
notes == [id \in Ids |-> NoteOf(id)]
keys == [key \in Keys |-> KeyOf(key)]
nextNumber == CHOOSE n \in 1..(MaxInvitations + 1) : NextNumber(n)
late == {id \in Ids : invitations[id].state # "none" /\ invitations[id].due}

Transactions == INSTANCE AtomicTransactions WITH
    Invitations <- Ids,
    Addresses <- Emails,
    invitation <- rows,
    note <- notes,
    mutation <- keys,
    next <- nextNumber,
    due <- late

\* The handlers and executors, whatever they read before their awaits, change the
\* tables only by the transactions that RowLocks is shown to execute.
ImplementsTransactions == Transactions!Spec
================================================================================
