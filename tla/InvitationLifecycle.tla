-------------------------- MODULE InvitationLifecycle --------------------------
(***************************************************************************)
(* What the plugin promises of an invitation, without tables, keys, leases *)
(* or retries: the state table of docs/plugin-card.md.  An open invitation *)
(* is rotated, revoked or expires; one that a subject starts to accept is  *)
(* decided by the membership service, once, and ends as it was decided;    *)
(* how an invitation ended is announced, and nothing else is.              *)
(***************************************************************************)
EXTENDS Naturals

CONSTANTS
    Invitations,
    Accepters,     \* subjects
    Nobody         \* no subject

VARIABLES
    phase,         \* where each invitation stands: "none", "open", "accepting"
                   \* or one of Ends
    generation,    \* how many tokens it has had
    holder,        \* the subject that consumed its token
    decision,      \* what the membership service decided about the holder:
                   \* "none", "admitted" or "refused"
    announced      \* the ends the notification service has been told

vars == <<phase, generation, holder, decision, announced>>

Ends == {"accepted", "revoked", "expired"}

Init ==
    /\ phase = [i \in Invitations |-> "none"]
    /\ generation = [i \in Invitations |-> 0]
    /\ holder = [i \in Invitations |-> Nobody]
    /\ decision = [i \in Invitations |-> "none"]
    /\ announced = {}

Moves(i, from, to) == phase[i] = from /\ phase' = [phase EXCEPT ![i] = to]

Create(i) ==
    /\ Moves(i, "none", "open")
    /\ generation' = [generation EXCEPT ![i] = 1]
    /\ UNCHANGED <<holder, decision, announced>>

Rotate(i) ==
    /\ phase[i] = "open"
    /\ generation' = [generation EXCEPT ![i] = @ + 1]
    /\ UNCHANGED <<phase, holder, decision, announced>>

Revoke(i) ==
    /\ Moves(i, "open", "revoked")
    /\ UNCHANGED <<generation, holder, decision, announced>>

\* One sweep may expire several invitations.
Expire(S) ==
    /\ \A i \in S : phase[i] = "open"
    /\ phase' = [i \in Invitations |-> IF i \in S THEN "expired" ELSE phase[i]]
    /\ UNCHANGED <<generation, holder, decision, announced>>

StartAcceptance(i, subject) ==
    /\ Moves(i, "open", "accepting")
    /\ holder' = [holder EXCEPT ![i] = subject]
    /\ UNCHANGED <<generation, decision, announced>>

Decide(i, verdict) ==
    /\ phase[i] = "accepting"
    /\ decision[i] = "none"
    /\ decision' = [decision EXCEPT ![i] = verdict]
    /\ UNCHANGED <<phase, generation, holder, announced>>

Conclude(i) ==
    /\ \/ decision[i] = "admitted" /\ Moves(i, "accepting", "accepted")
       \/ decision[i] = "refused" /\ Moves(i, "accepting", "expired")
    /\ UNCHANGED <<generation, holder, decision, announced>>

Announce(i) ==
    /\ phase[i] \in Ends
    /\ announced' = announced \cup {<<i, phase[i]>>}
    /\ UNCHANGED <<phase, generation, holder, decision>>

Next ==
    \/ \E i \in Invitations : \/ Create(i)
                              \/ Rotate(i)
                              \/ Revoke(i)
                              \/ \E subject \in Accepters :
                                    StartAcceptance(i, subject)
                              \/ \E verdict \in {"admitted", "refused"} :
                                    Decide(i, verdict)
                              \/ Conclude(i)
                              \/ Announce(i)
    \/ \E S \in SUBSET Invitations : Expire(S)

Spec == Init /\ [][Next]_vars

\* An acceptance is decided and concluded.
FairSpec ==
    /\ Spec
    /\ \A i \in Invitations :
            /\ WF_vars(\E verdict \in {"admitted", "refused"} : Decide(i, verdict))
            /\ WF_vars(Conclude(i))
================================================================================
