--------------------------- MODULE AtomicTransactions --------------------------
(***************************************************************************)
(* What the transactions of storage.rs come to, each as one step: which    *)
(* invitations, live notifications and idempotency keys it changes, and    *)
(* what of the tables it must find.  RowLocks, where a transaction locks   *)
(* and reads row after row, and the handlers of InvitationService, where   *)
(* it is a single step between awaits, are both shown to implement it.     *)
(***************************************************************************)
EXTENDS Naturals

CONSTANTS
    Invitations,
    Addresses,            \* normalized recipient addresses
    Keys,                 \* (caller_instance, idempotency_key) pairs
    MaxGeneration,        \* where token_generation overflows
    NULL

VARIABLES
    invitation,           \* organization_invitations
    note,                 \* generation of the live notify_invitation command, or 0
    mutation,             \* organization_invitation_mutations
    next,                 \* next_number of the organization's sequence row
    due                   \* invitations whose token_expires_at has passed

vars == <<invitation, note, mutation, next, due>>

Absent == [state |-> "none", generation |-> 0, number |-> 0, address |-> NULL]
Created(number, a) ==
    [state |-> "open", generation |-> 1, number |-> number, address |-> a]

\* status of an idempotency key, and the invitation it is bound to
Free == [status |-> "vacant", id |-> NULL]
Bound(status, i) == [status |-> status, id |-> i]

Init ==
    /\ invitation = [i \in Invitations |-> Absent]
    /\ note = [i \in Invitations |-> 0]
    /\ mutation = [k \in Keys |-> Free]
    /\ next = 1
    /\ due = {}
--------------------------------------------------------------------------------
(* Parts of a transaction *)

\* begin_mutation found the key free; the response is stored with it.
Answer(k, entry) == mutation[k] = Free /\ mutation' = [mutation EXCEPT ![k] = entry]

\* The keys whose side effect is the acceptance of i.
Rebind(i, entry) ==
    mutation' = [k \in Keys |-> IF mutation[k] = Bound("started", i) THEN entry
                                ELSE mutation[k]]

Enters(i, from, to) ==
    /\ invitation[i].state = from
    /\ invitation' = [invitation EXCEPT ![i].state = to]

Silence(i) == note' = [note EXCEPT ![i] = 0]

Pending(a) == \E i \in Invitations : /\ invitation[i].address = a
                                     /\ invitation[i].state \in {"open", "accepting"}
--------------------------------------------------------------------------------
(* The public service *)

Invite(k, i, a) ==
    /\ invitation[i] = Absent
    /\ ~Pending(a)
    /\ invitation' = [invitation EXCEPT ![i] = Created(next, a)]
    /\ note' = [note EXCEPT ![i] = 1]
    /\ next' = next + 1
    /\ UNCHANGED due
    /\ Answer(k, Bound("completed", i))

\* The superseded notification is replaced by the one of the new generation.
Resend(k, i) ==
    /\ invitation[i].state = "open"
    /\ invitation[i].generation < MaxGeneration
    /\ invitation' = [invitation EXCEPT ![i].generation = @ + 1]
    /\ note' = [note EXCEPT ![i] = invitation[i].generation + 1]
    /\ due' = due \ {i}
    /\ UNCHANGED next
    /\ Answer(k, Bound("completed", i))

Revoke(k, i) ==
    /\ Enters(i, "open", "revoked")
    /\ Silence(i)
    /\ UNCHANGED <<next, due>>
    /\ Answer(k, Bound("completed", i))

\* The token is consumed; the key waits for the membership service.
Accept(k, i) ==
    /\ Enters(i, "open", "accepting")
    /\ UNCHANGED <<note, next, due>>
    /\ Answer(k, Bound("started", i))

\* Nothing expires that is not due when the transaction takes effect.
ExpireAll(S) ==
    /\ \A i \in S : i \in due /\ invitation[i].state = "open"
    /\ invitation' = [i \in Invitations |->
                         IF i \in S THEN [invitation[i] EXCEPT !.state = "expired"]
                         ELSE invitation[i]]
    /\ note' = [i \in Invitations |-> IF i \in S THEN 0 ELSE note[i]]
    /\ UNCHANGED <<next, due>>

\* An acceptance that comes late gives its key back.
AcceptLate(i) == ExpireAll({i}) /\ UNCHANGED mutation
--------------------------------------------------------------------------------
(* The worker and the executors *)

\* A sweep of expire_due, under a key of the worker's caller or without one.
Sweep(S) ==
    /\ ExpireAll(S)
    /\ \/ UNCHANGED mutation
       \/ \E k \in Keys : Answer(k, Bound("completed", NULL))

Complete(i) ==
    /\ Enters(i, "accepting", "accepted")
    /\ Rebind(i, Bound("completed", i))
    /\ UNCHANGED <<note, next, due>>

Refuse(i) ==
    /\ Enters(i, "accepting", "expired")
    /\ Rebind(i, Free)
    /\ Silence(i)
    /\ UNCHANGED <<next, due>>

\* Delivered, given up, or found void.
Settle(i) ==
    /\ note[i] # 0
    /\ Silence(i)
    /\ UNCHANGED <<invitation, mutation, next, due>>

TokenComesDue(i) ==
    /\ invitation[i].state \in {"open", "accepting"}
    /\ i \notin due
    /\ due' = due \cup {i}
    /\ UNCHANGED <<invitation, note, mutation, next>>

Next ==
    \/ \E S \in SUBSET Invitations : Sweep(S)
    \/ \E i \in Invitations : \/ \E k \in Keys : \/ \E a \in Addresses : Invite(k, i, a)
                                                 \/ Resend(k, i)
                                                 \/ Revoke(k, i)
                                                 \/ Accept(k, i)
                              \/ AcceptLate(i)
                              \/ Complete(i)
                              \/ Refuse(i)
                              \/ Settle(i)
                              \/ TokenComesDue(i)

Spec == Init /\ [][Next]_vars
================================================================================
