------------------------------- MODULE MCService -------------------------------
(* Small instances of InvitationService.  Each run picks one set of requests,  *)
(* the clients that may issue them, any number of times, and the workers.      *)
EXTENDS InvitationRefinement, TLC

CONSTANTS c1, c2, w1, ana, bob, mail, post, k1, k2, k3, k4, k5

Invited(key) == [op |-> "invite", key |-> key, email |-> mail, id |-> 1,
                 revision |-> 0, actor |-> NULL, token |-> 0]
Resent(key, id, revision) ==
    [Invited(key) EXCEPT !.op = "resend", !.id = id, !.email = NULL,
                         !.revision = revision]
Revoked(key, id, revision) == [Resent(key, id, revision) EXCEPT !.op = "revoke"]
Accepted(key, id, revision, actor, token) ==
    [Resent(key, id, revision) EXCEPT !.op = "accept", !.actor = actor,
                                      !.token = token]

\* Two subjects race to accept an invitation that a manager revokes, before or
\* while it is accepted.
AcceptanceRequests ==
    {Invited(k1), Accepted(k2, 1, 1, ana, 1), Accepted(k3, 1, 1, bob, 1),
     Revoked(k4, 1, 1), Revoked(k4, 1, 2)}

\* Resends, the second one naming the revision the first will produce, a revoke in
\* between, and accepts with the first token, under its own revision and under that of
\* the second.
RotationRequests ==
    {Invited(k1), Resent(k2, 1, 1), Resent(k3, 1, 2), Revoked(k4, 1, 2),
     Accepted(k4, 1, 1, ana, 1), Accepted(k4, 1, 2, bob, 1)}

\* One life of an invitation, for the runs about progress.
DispatchRequests == {Invited(k1), Accepted(k2, 1, 1, ana, 1)}

\* The same address invited again once its invitation ended, under the key of the
\* first invitation and under another one.
ReinviteRequests ==
    {Invited(k1), Invited(k2), Revoked(k3, 1, 1), Accepted(k4, 1, 1, ana, 1)}

OneClient == {c1}
TwoClients == {c1, c2}
OneWorker == {w1}
MCEmails == {mail, post}
MCSubjects == {ana, bob}
MCKeys == {k1, k2, k3, k4, k5}
MCExecutors == Clients \cup Workers
MCSymmetry == Permutations(Clients) \cup Permutations(Workers)
================================================================================
