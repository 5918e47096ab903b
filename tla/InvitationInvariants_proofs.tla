------------------------ MODULE InvitationInvariants_proofs ------------------------
(* The invariants of an invitation, its commands, its keys and its log, for   *)
(* every value of the constants.  InvitationSteps says once what a            *)
(* transaction does to one invitation; each invariant is then a case analysis *)
(* over that, on rows and states alone.                                       *)
EXTENDS InvitationService_proofs

-------------------------------------------------------------------------------
(* Command keys and statements *)

\* The keys of notifications and of lifecycle commands, by their fields.
LEMMA KeyParts ==
    ASSUME NEW id \in Ids
    PROVE  /\ \A g \in 1..MaxGeneration :
                    LET k == NotifyKey(id, g) IN
                    /\ k \in CommandKeys
                    /\ k.id = id
                    /\ k.kind = "notify_invitation"
                    /\ k.generation = g
           /\ \A l \in Lifecycles :
                    LET k == LifecycleKey(id, l) IN
                    /\ k \in CommandKeys
                    /\ k.id = id
                    /\ k.kind = "notify_lifecycle"
                    /\ k.lifecycle = l
BY DEF CommandKeys, NotifyKey, LifecycleKey

\* A key of one of these kinds is determined by its fields.
LEMMA KeyForms ==
    ASSUME NEW k \in CommandKeys, k.kind # "add_member"
    PROVE  /\ k.id \in Ids
           /\ \/ /\ k.kind = "notify_invitation"
                 /\ k.generation \in 1..MaxGeneration
                 /\ k = NotifyKey(k.id, k.generation)
              \/ /\ k.kind = "notify_lifecycle"
                 /\ k.lifecycle \in Lifecycles
                 /\ k = LifecycleKey(k.id, k.lifecycle)
BY DEF CommandKeys, NotifyKey, MemberKey, LifecycleKey

\* What the statements on commands do to the state of each command.
LEMMA InsertedStates ==
    ASSUME NEW table \in [CommandKeys -> Command], NEW new \in CommandKeys,
           NEW subject, NEW k \in CommandKeys
    PROVE  Inserted(table, new, subject)[k].state =
                IF k = new /\ table[k].state = "absent" THEN "pending"
                ELSE table[k].state
BY DEF Inserted

\* Superseding touches the live notifications of the given invitations only.
LEMMA SupersededStates ==
    ASSUME TablesOK, NEW S, NEW k \in CommandKeys
    PROVE  Superseded(S)[k].state =
                IF /\ k.kind = "notify_invitation"
                   /\ k.id \in S
                   /\ commands[k].state \in Live
                THEN "superseded"
                ELSE commands[k].state
BY CommandParts DEF Superseded, TablesOK

\* Finishing a command sets its state and no other's.
LEMMA FinishedStates ==
    ASSUME TablesOK, NEW done \in CommandKeys, NEW outcome, NEW k \in CommandKeys
    PROVE  Finished(done, outcome)[k].state =
                IF k = done THEN outcome ELSE commands[k].state
BY CommandParts DEF Finished, TablesOK
-------------------------------------------------------------------------------
(* What a transaction does to one invitation *)

\* The notifications and lifecycle commands of an invitation.
CommandsOf(id) == {k \in CommandKeys : k.id = id /\ k.kind # "add_member"}

\* The activity rows of an invitation.
LogOf(id) == {row \in activity : row.id = id}

Logged(id) == \E kind \in ActivityKinds :
    LogOf(id)' = LogOf(id) \cup {Record(id, kind, invitations'[id])}

SameState(k) ==
    \/ commands'[k].state = commands[k].state
    \/ {commands[k].state, commands'[k].state} \subseteq Live

\* The live notifications of the invitation are superseded, if `ended', and the
\* commands `new' are inserted.
CommandsAfter(id, ended, new) ==
    \A k \in CommandsOf(id) :
        commands'[k].state =
            IF k \in new /\ commands[k].state = "absent" THEN "pending"
            ELSE IF /\ ended
                    /\ k.kind = "notify_invitation"
                    /\ commands[k].state \in Live
            THEN "superseded"
            ELSE commands[k].state

\* Only the clock, leases and retries touch the invitation.
IsQuiet(id) ==
    /\ \E due \in BOOLEAN : invitations'[id] = [invitations[id] EXCEPT !.due = due]
    /\ \A k \in CommandsOf(id) : SameState(k)
    /\ LogOf(id)' = LogOf(id)

IsCreated(id) ==
    /\ invitations[id].state = "none"
    /\ \E email \in Emails \cup {NULL} : invitations'[id] = NewInvitation(email)
    /\ CommandsAfter(id, FALSE, {NotifyKey(id, 1)})
    /\ Logged(id)

IsOpen(row) == row.state = "pending" /\ row.subject = NULL

IsResent(id) ==
    LET row == invitations[id] IN
    /\ IsOpen(row)
    /\ row.generation + 1 \in 1..MaxGeneration
    /\ \E derived \in Nat \ {0} : invitations'[id] = Rotated(row, derived)
    /\ CommandsAfter(id, TRUE, {NotifyKey(id, row.generation + 1)})
    /\ Logged(id)

\* A subject that consumed the token is given up by its refusal only.
IsClosed(id) ==
    /\ invitations[id].state = "pending"
    /\ \/ invitations[id].subject = NULL
       \/ \E e \in Executors, answer \in {"refused", "unknown"} :
                Settles(e, MemberKey(id), answer)
    /\ \E l \in {"revoked", "expired"} :
            /\ invitations'[id] = Closed(invitations[id], l)
            /\ CommandsAfter(id, TRUE, {LifecycleKey(id, l)})
    /\ Logged(id)

IsConsumed(id) ==
    /\ IsOpen(invitations[id])
    /\ \E subject \in Subjects :
            invitations'[id] = Consumed(invitations[id], subject)
    /\ CommandsAfter(id, FALSE, {})
    /\ Logged(id)

IsAccepted(id) ==
    /\ invitations[id].state = "pending"
    /\ invitations[id].subject # NULL
    /\ \E e \in Executors : Settles(e, MemberKey(id), "ok")
    /\ invitations'[id] = AcceptedRow(invitations[id])
    /\ CommandsAfter(id, FALSE, {LifecycleKey(id, "accepted")})
    /\ Logged(id)

\* One leased command is settled: carried out, failed or found out of date.
IsSettled(id) ==
    \E k \in CommandsOf(id) :
        /\ commands[k].state = "in_flight"
        /\ commands'[k].state \in Settled
        /\ \A j \in CommandsOf(id) \ {k} : commands'[j].state = commands[j].state
        /\ LogOf(id)' = LogOf(id)
        /\ \/ /\ commands'[k].state = "superseded"
              /\ ~CommandMatches(k)
              /\ invitations'[id] = invitations[id]
           \/ /\ k.kind = "notify_lifecycle"
              /\ invitations'[id] = invitations[id]
           \/ /\ k.kind = "notify_invitation"
              /\ \/ invitations'[id] = Delivery(k, "queued")[id]
                        /\ commands'[k].state = "completed"
                 \/ invitations'[id] = Delivery(k, "failed")[id]
                        /\ commands'[k].state = "failed"

InvitationStep(id) ==
    \/ IsQuiet(id)
    \/ IsCreated(id)
    \/ IsResent(id)
    \/ IsClosed(id)
    \/ IsConsumed(id)
    \/ IsAccepted(id)
    \/ IsSettled(id)

\* A transaction on another invitation is quiet.
LEMMA Elsewhere ==
    ASSUME TablesOK, NEW id \in Ids,
           invitations'[id] = invitations[id],
           \A k \in CommandsOf(id) : commands'[k].state = commands[k].state,
           LogOf(id)' = LogOf(id)
    PROVE  IsQuiet(id)
<1>1. invitations[id] \in Invitation /\ invitations[id].due \in BOOLEAN
  BY InvitationFields DEF TablesOK
<1>2. invitations[id] = [invitations[id] EXCEPT !.due = invitations[id].due]
  BY <1>1 DEF Invitation
<1>3. QED
  BY <1>1, <1>2 DEF IsQuiet, SameState

\* One log record of one invitation.
LEMMA LogParts ==
    ASSUME NEW id \in Ids, NEW kind, NEW row, Log(id, kind, row)
    PROVE  /\ LogOf(id)' = LogOf(id) \cup {Record(id, kind, row)}
           /\ \A other \in Ids \ {id} : LogOf(other)' = LogOf(other)
BY DEF Log, LogOf, Record

\* Superseding and inserting in one transaction, on one invitation.
LEMMA AfterSuperseding ==
    ASSUME TablesOK, NEW id \in Ids, NEW new \in CommandKeys, new.id = id,
           commands' = Inserted(Superseded({id}), new, NULL)
    PROVE  /\ CommandsAfter(id, TRUE, {new})
           /\ \A other \in Ids \ {id} : \A k \in CommandsOf(other) :
                    commands'[k].state = commands[k].state
<1>1. Superseded({id}) \in [CommandKeys -> Command]
  BY TableTypes
<1>2. \A k \in CommandKeys : commands'[k].state =
            IF k = new /\ Superseded({id})[k].state = "absent" THEN "pending"
            ELSE Superseded({id})[k].state
  BY <1>1, InsertedStates
<1>3. \A k \in CommandKeys : Superseded({id})[k].state =
            IF /\ k.kind = "notify_invitation"
               /\ k.id \in {id}
               /\ commands[k].state \in Live
            THEN "superseded"
            ELSE commands[k].state
  BY SupersededStates
<1>4. QED
  BY <1>2, <1>3 DEF CommandsAfter, CommandsOf, Live

\* invite inserts its invitation with its first notification, or changes nothing.
LEMMA CreationStep ==
    ASSUME TablesOK, NEW id \in Ids, NEW request \in RequestsOf("invite"),
           CreateInvitation(request, id), NEW j \in Ids
    PROVE  InvitationStep(j)
<1>1. NotifyKey(id, 1) \in CommandKeys /\ NotifyKey(id, 1).id = id
  BY KeyParts, StoreAssumption
<1>2. \A k \in CommandKeys : commands'[k].state =
            IF k = NotifyKey(id, 1) /\ commands[k].state = "absent" THEN "pending"
            ELSE commands[k].state
  BY <1>1, InsertedStates DEF CreateInvitation, TablesOK
<1>3. invitations' = [invitations EXCEPT ![id] = NewInvitation(request.email)]
  BY DEF CreateInvitation
<1>4. Log(id, "created", NewInvitation(request.email))
  BY DEF CreateInvitation
<1>5. CASE j = id
  <2>1. invitations[id].state = "none"
    BY DEF CreateInvitation, NextNumber, Ids
  <2>2. request.email \in Emails \cup {NULL}
    BY RequestTypes DEF RequestsOf
  <2>3. invitations'[id] = NewInvitation(request.email)
    BY <1>3 DEF TablesOK
  <2>4. Logged(id)
    BY <1>4, <2>3, LogParts DEF Logged, ActivityKinds
  <2>5. CommandsAfter(id, FALSE, {NotifyKey(id, 1)})
    BY <1>2 DEF CommandsAfter, CommandsOf
  <2>6. QED
    BY <1>5, <2>1, <2>2, <2>3, <2>4, <2>5 DEF IsCreated, InvitationStep
<1>6. CASE j # id
  <2>1. invitations'[j] = invitations[j]
    BY <1>3, <1>6 DEF TablesOK
  <2>2. \A k \in CommandsOf(j) : commands'[k].state = commands[k].state
    BY <1>1, <1>2, <1>6 DEF CommandsOf
  <2>3. LogOf(j)' = LogOf(j)
    BY <1>4, <1>6, LogParts
  <2>4. QED
    BY <2>1, <2>2, <2>3, Elsewhere DEF InvitationStep
<1>7. QED
  BY <1>5, <1>6

\* resend replaces the token and the notification of its invitation alone.
LEMMA ResendStep ==
    ASSUME TablesOK, NEW request \in RequestsOf("resend"),
           NEW derived \in Nat \ {0}, ResendInvitation(request, derived),
           NEW j \in Ids
    PROVE  InvitationStep(j)
<1> DEFINE id == request.id
           row == Rotated(invitations[id], derived)
           new == NotifyKey(id, invitations[id].generation + 1)
<1>1. id \in Ids /\ invitations[id] \in Invitation
  BY RequestTypes DEF RequestsOf, TablesOK
<1>2. /\ row.generation = invitations[id].generation + 1
      /\ invitations[id].generation \in Nat
  BY <1>1 DEF Rotated, Invitation
<1>3. row.generation \in 1..MaxGeneration
  BY <1>2, StoreAssumption DEF ResendInvitation
<1>4. /\ IsOpen(invitations[id])
      /\ invitations' = [invitations EXCEPT ![id] = row]
      /\ commands' = Inserted(Superseded({id}), NotifyKey(id, row.generation), NULL)
      /\ Log(id, "resent", row)
  BY DEF ResendInvitation, Open, IsOpen
<1>5. new \in CommandKeys /\ new.id = id
  BY <1>1, <1>2, <1>3, KeyParts
<1>6. commands' = Inserted(Superseded({id}), new, NULL)
  BY <1>2, <1>4
<1>7. invitations'[id] = row
  BY <1>1, <1>4 DEF TablesOK
<1> HIDE DEF new, row
<1>8. /\ CommandsAfter(id, TRUE, {new})
      /\ \A other \in Ids \ {id} : \A k \in CommandsOf(other) :
               commands'[k].state = commands[k].state
  BY <1>1, <1>5, <1>6, AfterSuperseding
<1>9. CASE j = id
  <2>1. Logged(id)
    BY <1>1, <1>4, <1>7, LogParts DEF Logged, ActivityKinds
  <2>2. QED
    BY <1>1, <1>2, <1>3, <1>4, <1>7, <1>8, <1>9, <2>1
       DEF IsResent, InvitationStep, row, new
<1>10. CASE j # id
  <2>1. invitations'[j] = invitations[j]
    BY <1>4, <1>10 DEF TablesOK
  <2>2. LogOf(j)' = LogOf(j)
    BY <1>1, <1>4, <1>10, LogParts
  <2>3. QED
    BY <1>8, <1>10, <2>1, <2>2, Elsewhere DEF InvitationStep
<1>11. QED
  BY <1>9, <1>10

\* Revocation, and the expiry begin_accept finds.
LEMMA ClosingStep ==
    ASSUME TablesOK, NEW id \in Ids, IsOpen(invitations[id]),
           NEW l \in {"revoked", "expired"}, NEW kind \in ActivityKinds,
           invitations' = [invitations EXCEPT ![id] = Closed(invitations[id], l)],
           commands' = Inserted(Superseded({id}), LifecycleKey(id, l), NULL),
           Log(id, kind, Closed(invitations[id], l)),
           NEW j \in Ids
    PROVE  InvitationStep(j)
<1> DEFINE new == LifecycleKey(id, l)
<1>1. new \in CommandKeys /\ new.id = id
  BY KeyParts DEF Lifecycles
<1>2. /\ CommandsAfter(id, TRUE, {new})
      /\ \A other \in Ids \ {id} : \A k \in CommandsOf(other) :
               commands'[k].state = commands[k].state
  <2> HIDE DEF new
  <2>1. commands' = Inserted(Superseded({id}), new, NULL)
    BY DEF new
  <2>2. QED
    BY <1>1, <2>1, AfterSuperseding
<1>3. CASE j = id
  <2>1. invitations'[id] = Closed(invitations[id], l)
    BY DEF TablesOK
  <2>2. Logged(id)
    BY <2>1, LogParts DEF Logged
  <2>3. QED
    BY <1>2, <1>3, <2>1, <2>2 DEF IsClosed, InvitationStep, IsOpen
<1>4. CASE j # id
  <2>1. invitations'[j] = invitations[j]
    BY <1>4 DEF TablesOK
  <2>2. LogOf(j)' = LogOf(j)
    BY <1>4, LogParts
  <2>3. QED
    BY <1>2, <1>4, <2>1, <2>2, Elsewhere DEF InvitationStep
<1>5. QED
  BY <1>3, <1>4

\* begin_accept binds its invitation to the subject and supersedes its notification.
LEMMA BeginAcceptStep ==
    ASSUME TablesOK, NEW request \in RequestsOf("accept"), NEW generation \in Nat,
           NEW e \in Executors, BeginAccept(request, generation, e), NEW j \in Ids
    PROVE  InvitationStep(j)
<1> DEFINE id == request.id
           member == MemberKey(id)
           inserted == Inserted(commands, member, request.actor)
           row == Consumed(invitations[id], request.actor)
<1>1. id \in Ids /\ request.actor \in Subjects /\ member \in CommandKeys
  BY RequestTypes, KeyTypes DEF RequestsOf
<1>2. /\ IsOpen(invitations[id])
      /\ invitations' = [invitations EXCEPT ![id] = row]
      /\ commands' = [inserted EXCEPT ![member] = Leased(inserted[member], e)]
      /\ Log(id, "acceptance_started", row)
  BY DEF BeginAccept, Open, IsOpen
<1>3. \A k \in CommandKeys : k # member => inserted[k] = commands[k]
  BY <1>1 DEF Inserted, TablesOK
<1>4. DOMAIN inserted = CommandKeys
  BY <1>1 DEF Inserted, TablesOK
<1>5. member.kind = "add_member"
  BY <1>1, KeysDiffer
<1> HIDE DEF inserted, member, row
<1>6. \A k \in CommandKeys : k.kind # "add_member" => commands'[k] = commands[k]
  BY <1>2, <1>3, <1>4, <1>5
<1>7. CASE j = id
  <2>1. invitations'[id] = row
    BY <1>1, <1>2 DEF TablesOK
  <2>2. Logged(id)
    BY <1>1, <1>2, <2>1, LogParts DEF Logged, ActivityKinds
  <2>3. CommandsAfter(id, FALSE, {})
    BY <1>6 DEF CommandsAfter, CommandsOf
  <2>4. QED
    BY <1>1, <1>2, <1>7, <2>1, <2>2, <2>3 DEF IsConsumed, InvitationStep, row
<1>8. CASE j # id
  <2>1. invitations'[j] = invitations[j]
    BY <1>2, <1>8 DEF TablesOK
  <2>2. LogOf(j)' = LogOf(j)
    BY <1>1, <1>2, <1>8, LogParts
  <2>3. QED
    BY <1>6, <2>1, <2>2, Elsewhere DEF InvitationStep, CommandsOf
<1>9. QED
  BY <1>7, <1>8

\* complete_accept ends its invitation as accepted and announces it once.
LEMMA CompleteAcceptStep ==
    ASSUME TablesOK, MembershipMirrorsInvitation, NEW id \in Ids,
           NEW e \in Executors, CompleteAccept(id, e),
           Settles(e, MemberKey(id), "ok"), NEW j \in Ids
    PROVE  InvitationStep(j)
<1> DEFINE member == MemberKey(id)
           new == LifecycleKey(id, "accepted")
           row == AcceptedRow(invitations[id])
<1>1. /\ member \in CommandKeys /\ member.kind = "add_member"
      /\ new \in CommandKeys /\ new.id = id
  BY KeyTypes, KeysDiffer, KeyParts DEF Lifecycles
<1>2. Mirror(invitations[id], commands[member])
  BY MirrorPart
<1>3. commands[member].state = "in_flight"
  BY DEF CompleteAccept, Holds
<1>4. invitations[id].state = "pending" /\ invitations[id].subject # NULL
  BY <1>2, <1>3 DEF Mirror, Live
<1>5. /\ invitations' = [invitations EXCEPT ![id] = row]
      /\ commands' = Inserted(Finished(member, "completed"), new, NULL)
      /\ Log(id, "accepted", row)
  BY DEF CompleteAccept
<1> HIDE DEF member, new, row
<1>6. Finished(member, "completed") \in [CommandKeys -> Command]
  BY <1>1, TableTypes DEF Settled
<1>7. \A k \in CommandKeys : k.kind # "add_member" =>
            commands'[k].state =
                IF k = new /\ commands[k].state = "absent" THEN "pending"
                ELSE commands[k].state
  BY <1>1, <1>5, <1>6, InsertedStates, FinishedStates
<1>8. CASE j = id
  <2>1. invitations'[id] = row
    BY <1>5 DEF TablesOK
  <2>2. Logged(id)
    BY <1>5, <2>1, LogParts DEF Logged, ActivityKinds
  <2>3. CommandsAfter(id, FALSE, {new})
    BY <1>7 DEF CommandsAfter, CommandsOf
  <2>4. QED
    BY <1>4, <1>8, <2>1, <2>2, <2>3 DEF IsAccepted, InvitationStep, row, new
<1>9. CASE j # id
  <2>1. invitations'[j] = invitations[j]
    BY <1>5, <1>9 DEF TablesOK
  <2>2. \A k \in CommandsOf(j) : commands'[k].state = commands[k].state
    BY <1>1, <1>7, <1>9 DEF CommandsOf
  <2>3. LogOf(j)' = LogOf(j)
    BY <1>5, <1>9, LogParts
  <2>4. QED
    BY <2>1, <2>2, <2>3, Elsewhere DEF InvitationStep
<1>10. QED
  BY <1>8, <1>9

\* fail_acceptance ends its invitation as expired and announces it once.
LEMMA FailAcceptanceStep ==
    ASSUME TablesOK, MembershipMirrorsInvitation, NEW id \in Ids,
           NEW e \in Executors, FailAcceptance(id, e),
           NEW answer \in {"refused", "unknown"}, Settles(e, MemberKey(id), answer),
           NEW j \in Ids
    PROVE  InvitationStep(j)
<1> DEFINE member == MemberKey(id)
           new == LifecycleKey(id, "expired")
           row == Closed(invitations[id], "expired")
           table == [Superseded({id}) EXCEPT ![member] = Finished(member, "failed")[member]]
<1>1. /\ member \in CommandKeys /\ member.kind = "add_member"
      /\ new \in CommandKeys /\ new.id = id
  BY KeyTypes, KeysDiffer, KeyParts DEF Lifecycles
<1>2. Mirror(invitations[id], commands[member])
  BY MirrorPart
<1>3. commands[member].state = "in_flight"
  BY DEF FailAcceptance, Holds
<1>4. MemberMatches(id)
  BY <1>2, <1>3 DEF Mirror, Live, MemberMatches
<1>5. /\ invitations' = [invitations EXCEPT ![id] = row]
      /\ commands' = Inserted(table, new, NULL)
      /\ Log(id, "acceptance_failed", row)
  BY <1>4 DEF FailAcceptance, ExpireLocked
<1>6. Superseded({id}) \in [CommandKeys -> Command]
  BY TableTypes
<1>7. Finished(member, "failed")[member] \in Command
  BY <1>1, TableTypes DEF Settled
<1>8. table \in [CommandKeys -> Command]
  BY <1>6, <1>7
<1>9. \A k \in CommandKeys : k # member => table[k] = Superseded({id})[k]
  BY <1>6
<1>10. invitations[id].state = "pending"
  BY <1>4 DEF MemberMatches
<1> HIDE DEF member, new, row, table
<1>11. \A k \in CommandKeys : commands'[k].state =
            IF k = new /\ table[k].state = "absent" THEN "pending" ELSE table[k].state
  BY <1>1, <1>5, <1>8, InsertedStates
<1>12. \A k \in CommandKeys : Superseded({id})[k].state =
            IF /\ k.kind = "notify_invitation"
               /\ k.id \in {id}
               /\ commands[k].state \in Live
            THEN "superseded"
            ELSE commands[k].state
  BY SupersededStates
<1>13. CASE j = id
  <2>1. invitations'[id] = row
    BY <1>5 DEF TablesOK
  <2>2. Logged(id)
    BY <1>5, <2>1, LogParts DEF Logged, ActivityKinds
  <2>3. CommandsAfter(id, TRUE, {new})
    BY <1>1, <1>9, <1>11, <1>12 DEF CommandsAfter, CommandsOf, Live
  <2>4. QED
    BY <1>10, <1>13, <2>1, <2>2, <2>3 DEF IsClosed, InvitationStep, row, new
<1>14. CASE j # id
  <2>1. invitations'[j] = invitations[j]
    BY <1>5, <1>14 DEF TablesOK
  <2>2. \A k \in CommandsOf(j) : commands'[k].state = commands[k].state
    BY <1>1, <1>9, <1>11, <1>12, <1>14 DEF CommandsOf
  <2>3. LogOf(j)' = LogOf(j)
    BY <1>5, <1>14, LogParts
  <2>4. QED
    BY <2>1, <2>2, <2>3, Elsewhere DEF InvitationStep
<1>15. QED
  BY <1>13, <1>14

\* A sweep closes the invitations it takes and leaves the others alone.
LEMMA ExpireDueStep ==
    ASSUME TablesOK, NEW S \in SUBSET DueInvitations, ExpireDue(S), NEW j \in Ids
    PROVE  InvitationStep(j)
<1> DEFINE new == LifecycleKey(j, "expired")
           row == Closed(invitations[j], "expired")
<1>1. new \in CommandKeys /\ new.id = j
  BY KeyParts DEF Lifecycles
<1>2. \A k \in CommandKeys : k.id = j =>
        commands'[k].state =
            IF j \in S /\ k = new
            THEN IF commands[k].state = "absent" THEN "pending" ELSE commands[k].state
            ELSE IF /\ k.kind = "notify_invitation"
                    /\ j \in S
                    /\ commands[k].state \in Live
            THEN "superseded"
            ELSE commands[k].state
  <2> SUFFICES ASSUME NEW k \in CommandKeys, k.id = j
               PROVE  commands'[k].state =
                        IF j \in S /\ k = new
                        THEN IF commands[k].state = "absent" THEN "pending"
                             ELSE commands[k].state
                        ELSE IF /\ k.kind = "notify_invitation"
                                /\ j \in S
                                /\ commands[k].state \in Live
                        THEN "superseded"
                        ELSE commands[k].state
    OBVIOUS
  <2>1. commands'[k] = IF j \in S /\ k = new THEN Inserted(commands, k, NULL)[k]
                       ELSE Superseded(S)[k]
    BY DEF ExpireDue
  <2>2. Inserted(commands, k, NULL)[k].state =
            IF commands[k].state = "absent" THEN "pending" ELSE commands[k].state
    BY InsertedStates DEF TablesOK
  <2> HIDE DEF new
  <2>3. QED
    BY <2>1, <2>2, SupersededStates
<1>3. new.kind = "notify_lifecycle"
  BY KeyParts DEF Lifecycles
<1>4. activity' = activity \cup
            {Record(id, "expired", Closed(invitations[id], "expired")) : id \in S}
  BY DEF ExpireDue
<1> HIDE DEF new
<1>5. CASE j \in S
  <2>1. /\ invitations[j].state = "pending" /\ invitations'[j] = row
        /\ invitations[j].subject = NULL
    BY <1>5 DEF ExpireDue, DueInvitations
  <2>2. LogOf(j)' = LogOf(j) \cup {Record(j, "expired", row)}
    BY <1>4, <1>5 DEF LogOf, Record
  <2>3. Logged(j)
    BY <2>1, <2>2 DEF Logged, ActivityKinds
  <2>4. CommandsAfter(j, TRUE, {new})
    BY <1>2, <1>3, <1>5 DEF CommandsAfter, CommandsOf
  <2>5. QED
    BY <2>1, <2>3, <2>4 DEF IsClosed, InvitationStep, new
<1>6. CASE j \notin S
  <2>1. invitations'[j] = invitations[j]
    BY <1>6 DEF ExpireDue
  <2>2. \A k \in CommandsOf(j) : commands'[k].state = commands[k].state
    BY <1>2, <1>6 DEF CommandsOf
  <2>3. LogOf(j)' = LogOf(j)
    BY <1>4, <1>6 DEF LogOf, Record
  <2>4. QED
    BY <2>1, <2>2, <2>3, Elsewhere DEF InvitationStep
<1>7. QED
  BY <1>5, <1>6

\* An executor settles a command that is not a membership command.
LEMMA SettlingStep ==
    ASSUME TablesOK, NEW k \in CommandKeys, k.kind # "add_member",
           NEW e \in Executors,
           \/ k.kind = "notify_invitation" /\ CompleteNotification(k, e)
           \/ k.kind = "notify_lifecycle" /\ CompleteLifecycle(k, e)
           \/ FailNotification(k, e)
           \/ FailLifecycle(k, e)
           \/ ~CommandMatches(k) /\ SupersedeCommand(k, e),
           NEW j \in Ids
    PROVE  InvitationStep(j)
<1>1. k.id \in Ids
  BY KeyForms
<1>2. Holds(k, e)
  BY DEF CompleteNotification, CompleteLifecycle, FailNotification, FailLifecycle,
         SupersedeCommand
<1>3. PICK outcome \in Settled : commands' = Finished(k, outcome)
  BY DEF CompleteNotification, CompleteLifecycle, FailNotification, FailLifecycle,
         SupersedeCommand, Settled
<1>4. \A i \in CommandKeys : commands'[i].state =
            IF i = k THEN outcome ELSE commands[i].state
  BY <1>3, FinishedStates
<1>5. activity' = activity
  BY DEF CompleteNotification, CompleteLifecycle, FailNotification, FailLifecycle,
         SupersedeCommand
<1>6. LogOf(j)' = LogOf(j)
  BY <1>5 DEF LogOf
<1>7. CASE j = k.id
  <2>1. \/ /\ k.kind = "notify_lifecycle"
           /\ invitations'[j] = invitations[j]
        \/ /\ k.kind = "notify_invitation"
           /\ \/ /\ invitations'[j] = Delivery(k, "queued")[j]
                 /\ commands' = Finished(k, "completed")
              \/ /\ invitations'[j] = Delivery(k, "failed")[j]
                 /\ commands' = Finished(k, "failed")
        \/ /\ ~CommandMatches(k)
           /\ invitations'[j] = invitations[j]
           /\ commands' = Finished(k, "superseded")
    BY DEF CompleteNotification, CompleteLifecycle, FailNotification, FailLifecycle,
           SupersedeCommand
  <2>2. \A o : Finished(k, o)[k].state = o
    BY FinishedStates
  <2>3. k \in CommandsOf(j)
    BY <1>7 DEF CommandsOf
  <2>4. /\ commands[k].state = "in_flight"
        /\ commands'[k].state \in Settled
        /\ \A i \in CommandsOf(j) \ {k} : commands'[i].state = commands[i].state
    BY <1>2, <1>4 DEF Holds, CommandsOf
  <2>5. QED
    BY <1>6, <2>1, <2>2, <2>3, <2>4 DEF IsSettled, InvitationStep
<1>8. CASE j # k.id
  <2>1. \A i \in CommandsOf(j) : commands'[i].state = commands[i].state
    BY <1>4, <1>8 DEF CommandsOf
  <2>2. invitations'[j] = invitations[j]
    BY <1>1, <1>8 DEF CompleteNotification, CompleteLifecycle, FailNotification,
            FailLifecycle, SupersedeCommand, Delivery, TablesOK
  <2>3. QED
    BY <1>6, <2>1, <2>2, Elsewhere DEF InvitationStep
<1>9. QED
  BY <1>7, <1>8

\* Claims, retries, the clock, and steps that leave the tables alone.
LEMMA QuietStep ==
    ASSUME TablesOK,
           \/ UNCHANGED tables
           \/ \E S \in SUBSET DueCommands, e \in Executors : ClaimDueCommands(S, e)
           \/ \E k \in CommandKeys, e \in Executors : RetryCommand(k, e)
           \/ \E id \in Ids : TokenComesDue(id)
           \/ \E k \in CommandKeys : CommandComesDue(k),
           NEW j \in Ids
    PROVE  InvitationStep(j)
<1>1. activity' = activity
  BY DEF tables, ClaimDueCommands, RetryCommand, TokenComesDue, CommandComesDue
<1>2. LogOf(j)' = LogOf(j)
  BY <1>1 DEF LogOf
<1>3. \A k \in CommandKeys : SameState(k)
  <2>1. ASSUME NEW S \in SUBSET DueCommands, NEW e \in Executors,
               ClaimDueCommands(S, e)
        PROVE  \A k \in CommandKeys : SameState(k)
    BY <2>1, CommandParts DEF ClaimDueCommands, DueCommands, SameState, Live, TablesOK
  <2>2. ASSUME NEW i \in CommandKeys, NEW e \in Executors, RetryCommand(i, e)
        PROVE  \A k \in CommandKeys : SameState(k)
    BY <2>2, CommandParts DEF RetryCommand, Holds, SameState, Live, TablesOK
  <2>3. ASSUME NEW i \in CommandKeys, CommandComesDue(i)
        PROVE  \A k \in CommandKeys : SameState(k)
    BY <2>3, CommandParts DEF CommandComesDue, SameState, SameCommand, TablesOK
  <2>4. CASE UNCHANGED tables \/ \E id \in Ids : TokenComesDue(id)
    BY <2>4 DEF tables, TokenComesDue, SameState
  <2>5. QED
    BY <2>1, <2>2, <2>3, <2>4
<1>4. invitations[j] \in Invitation /\ invitations[j].due \in BOOLEAN
  BY InvitationFields DEF TablesOK
<1>5. invitations[j] = [invitations[j] EXCEPT !.due = invitations[j].due]
  BY <1>4 DEF Invitation
<1>6. \E due \in BOOLEAN : invitations'[j] = [invitations[j] EXCEPT !.due = due]
  <2>1. ASSUME NEW id \in Ids, TokenComesDue(id)
        PROVE  invitations'[j] \in {invitations[j], [invitations[j] EXCEPT !.due = TRUE]}
    BY <2>1 DEF TokenComesDue, TablesOK
  <2>2. ASSUME ~ \E id \in Ids : TokenComesDue(id)
        PROVE  invitations'[j] = invitations[j]
    BY <2>2 DEF tables, ClaimDueCommands, RetryCommand, CommandComesDue
  <2>3. QED
    BY <1>4, <1>5, <2>1, <2>2
<1>7. QED
  BY <1>2, <1>3, <1>6 DEF IsQuiet, InvitationStep, CommandsOf

\* A transaction does one of seven things to an invitation, its notifications,
\* its lifecycle commands and its log.
THEOREM InvitationSteps ==
    ASSUME TablesOK, MembershipMirrorsInvitation, Transaction, NEW j \in Ids
    PROVE  InvitationStep(j)
<1>1. ASSUME NEW request \in RequestsOf("revoke"), RevokeInvitation(request)
      PROVE  InvitationStep(j)
  <2> DEFINE id == request.id
  <2>1. id \in Ids
    BY RequestTypes DEF RequestsOf
  <2>2. /\ IsOpen(invitations[id])
        /\ invitations' = [invitations EXCEPT ![id] = Closed(invitations[id], "revoked")]
        /\ commands' = Inserted(Superseded({id}), LifecycleKey(id, "revoked"), NULL)
        /\ Log(id, "revoked", Closed(invitations[id], "revoked"))
    BY <1>1 DEF RevokeInvitation, Open, IsOpen
  <2> HIDE DEF id
  <2>3. QED
    BY <2>1, <2>2, ClosingStep DEF ActivityKinds
<1>2. ASSUME NEW request \in RequestsOf("accept"), BeginAcceptExpires(request)
      PROVE  InvitationStep(j)
  <2> DEFINE id == request.id
  <2>1. id \in Ids
    BY RequestTypes DEF RequestsOf
  <2>2. /\ IsOpen(invitations[id])
        /\ invitations' = [invitations EXCEPT ![id] = Closed(invitations[id], "expired")]
        /\ commands' = Inserted(Superseded({id}), LifecycleKey(id, "expired"), NULL)
        /\ Log(id, "expired", Closed(invitations[id], "expired"))
    BY <1>2 DEF BeginAcceptExpires, ExpireLocked, Open, IsOpen
  <2> HIDE DEF id
  <2>3. QED
    BY <2>1, <2>2, ClosingStep DEF ActivityKinds
<1>3. ASSUME NEW c \in Clients, call[c].request \in RequestsOf("accept"),
             call[c].seen \in Nat, BeginAccept(call[c].request, call[c].seen, c)
      PROVE  InvitationStep(j)
  BY <1>3, ServiceAssumption, BeginAcceptStep
<1>4. ASSUME NEW k \in CommandKeys, NEW e \in Executors, k.kind = "add_member",
             \/ Settles(e, k, "ok") /\ CompleteAccept(k.id, e)
             \/ /\ Settles(e, k, "refused") \/ Settles(e, k, "unknown")
                /\ FailAcceptance(k.id, e)
      PROVE  InvitationStep(j)
  <2>1. k.id \in Ids /\ k = MemberKey(k.id)
    BY <1>4, KeyShape
  <2>2. QED
    BY <1>4, <2>1, CompleteAcceptStep, FailAcceptanceStep
<1>5. ASSUME NEW k \in CommandKeys, NEW e \in Executors, k.kind = "add_member",
             ~CommandMatches(k), SupersedeCommand(k, e)
      PROVE  FALSE
  <2>1. k.id \in Ids /\ k = MemberKey(k.id)
    BY <1>5, KeyShape
  <2>2. Mirror(invitations[k.id], commands[k])
    BY <2>1, MirrorPart
  <2>3. commands[k].state \in Live
    BY <1>5 DEF SupersedeCommand, Holds, Live
  <2>4. QED
    BY <1>5, <2>1, <2>2, <2>3 DEF Mirror, CommandMatches, MemberMatches
<1>6. ASSUME NEW k \in CommandKeys, NEW e \in Executors,
             \/ k.kind = "notify_invitation" /\ CompleteNotification(k, e)
             \/ k.kind = "notify_lifecycle" /\ CompleteLifecycle(k, e)
             \/ FailNotification(k, e)
             \/ FailLifecycle(k, e)
             \/ ~CommandMatches(k) /\ SupersedeCommand(k, e)
      PROVE  InvitationStep(j)
  <2>1. k.kind # "add_member"
    BY <1>5, <1>6 DEF FailNotification, FailLifecycle
  <2>2. QED
    BY <1>6, <2>1, SettlingStep
<1>7. QED
  BY <1>1, <1>2, <1>3, <1>4, <1>6, CreationStep, ResendStep, ExpireDueStep, QuietStep
     DEF Transaction
-------------------------------------------------------------------------------
(* An invitation and the commands that announce it *)

DeliveryIs(delivery, state) ==
    /\ delivery = "pending" <=> state \in Live
    /\ delivery = "queued" <=> state = "completed"
    /\ delivery = "failed" <=> state = "failed"

\* What a row says of its notification k, and of its lifecycle command k.
NotificationFits(row, k, state) ==
    /\ k.generation > row.generation => state = "absent"
    /\ state \in Live =>
            row.state \in {"pending", "accepted"} /\ row.generation = k.generation
    /\ IsOpen(row) /\ row.generation = k.generation =>
            DeliveryIs(row.delivery, state)
LifecycleFits(row, k, state) == state # "absent" <=> row.state = k.lifecycle

RowIsSound(row) ==
    /\ row.state = "none" =>
            row.generation = 0 /\ row.revision = 0 /\ row.subject = NULL
    /\ row.state # "none" => row.generation \in 1..MaxGeneration
    /\ IsOpen(row) => row.token # 0

Announced(id) ==
    /\ RowIsSound(invitations[id])
    /\ \A k \in CommandsOf(id) :
            /\ k.kind = "notify_invitation" =>
                    NotificationFits(invitations[id], k, commands[k].state)
            /\ k.kind = "notify_lifecycle" =>
                    LifecycleFits(invitations[id], k, commands[k].state)

\* What each write of a row does to its fields.
LEMMA RowEffects ==
    ASSUME NEW row \in Invitation
    PROVE  /\ \A due : LET new == [row EXCEPT !.due = due] IN
                /\ new.state = row.state /\ new.subject = row.subject
                /\ new.token = row.token /\ new.generation = row.generation
                /\ new.revision = row.revision /\ new.delivery = row.delivery
           /\ \A outcome : LET new == [row EXCEPT !.delivery = outcome] IN
                /\ new.state = row.state /\ new.subject = row.subject
                /\ new.token = row.token /\ new.generation = row.generation
                /\ new.revision = row.revision /\ new.delivery = outcome
           /\ \A derived : LET new == Rotated(row, derived) IN
                /\ new.state = row.state /\ new.subject = row.subject
                /\ new.token = derived /\ new.generation = row.generation + 1
                /\ new.revision = row.revision + 1 /\ new.delivery = "pending"
           /\ \A state : LET new == Closed(row, state) IN
                /\ new.state = state /\ new.subject = row.subject
                /\ new.token = 0 /\ new.generation = row.generation
                /\ new.revision = row.revision + 1
           /\ \A subject : LET new == Consumed(row, subject) IN
                /\ new.state = row.state /\ new.subject = subject
                /\ new.token = 0 /\ new.generation = row.generation
                /\ new.revision = row.revision + 1
           /\ LET new == AcceptedRow(row) IN
                /\ new.state = "accepted" /\ new.subject = row.subject
                /\ new.generation = row.generation
                /\ new.revision = row.revision + 1
BY DEF Invitation, Rotated, Closed, Consumed, AcceptedRow

\* A step that leaves the row and its commands alone keeps the announcements.
LEMMA QuietKeepsAnnounced ==
    ASSUME TablesOK, NEW id \in Ids, Announced(id), IsQuiet(id)
    PROVE  Announced(id)'
<1>1. invitations[id] \in Invitation
  BY DEF TablesOK
<1>2. PICK due \in BOOLEAN : invitations'[id] = [invitations[id] EXCEPT !.due = due]
  BY DEF IsQuiet
<1> DEFINE row == invitations[id]
           new == invitations'[id]
<1>3. /\ new.state = row.state /\ new.subject = row.subject
      /\ new.token = row.token /\ new.generation = row.generation
      /\ new.revision = row.revision /\ new.delivery = row.delivery
  BY <1>1, <1>2, RowEffects
<1> HIDE DEF row, new
<1>4. RowIsSound(row) /\ RowIsSound(new)
  BY <1>3 DEF Announced, RowIsSound, IsOpen, row
<1>5. ASSUME NEW k \in CommandsOf(id)
      PROVE  /\ k.kind = "notify_invitation" =>
                    NotificationFits(new, k, commands'[k].state)
             /\ k.kind = "notify_lifecycle" =>
                    LifecycleFits(new, k, commands'[k].state)
  <2>1. SameState(k)
    BY <1>5 DEF IsQuiet
  <2>2. /\ k.kind = "notify_invitation" => NotificationFits(row, k, commands[k].state)
        /\ k.kind = "notify_lifecycle" => LifecycleFits(row, k, commands[k].state)
    BY <1>5 DEF Announced, row
  <2>3. QED
    BY <1>3, <2>1, <2>2 DEF SameState, NotificationFits, LifecycleFits, IsOpen,
            DeliveryIs, Live
<1>6. QED
  BY <1>4, <1>5 DEF Announced, CommandsOf, new

\* The writes that go with CommandsAfter.
LEMMA WritesKeepAnnounced ==
    ASSUME TablesOK, NEW id \in Ids, Announced(id),
           IsCreated(id) \/ IsResent(id) \/ IsClosed(id) \/ IsConsumed(id)
              \/ IsAccepted(id)
    PROVE  Announced(id)'
<1> DEFINE row == invitations[id]
           new == invitations'[id]
<1>0. row \in Invitation /\ row.generation \in Nat /\ row.revision \in Nat
  BY InvitationFields DEF TablesOK
<1>1. RowIsSound(row)
  BY DEF Announced
<1>2. ASSUME NEW k \in CommandsOf(id)
      PROVE  /\ k \in CommandKeys /\ k.id = id
             /\ \/ /\ k.kind = "notify_invitation"
                   /\ k.generation \in 1..MaxGeneration
                   /\ k = NotifyKey(id, k.generation)
                   /\ NotificationFits(row, k, commands[k].state)
                \/ /\ k.kind = "notify_lifecycle"
                   /\ k.lifecycle \in Lifecycles
                   /\ k = LifecycleKey(id, k.lifecycle)
                   /\ LifecycleFits(row, k, commands[k].state)
  BY <1>2, KeyForms DEF CommandsOf, Announced
<1>3. \A g : /\ NotifyKey(id, g).kind = "notify_invitation"
             /\ NotifyKey(id, g).generation = g
  BY DEF NotifyKey
<1>4. \A l : /\ LifecycleKey(id, l).kind = "notify_lifecycle"
             /\ LifecycleKey(id, l).lifecycle = l
  BY DEF LifecycleKey
<1> SUFFICES /\ RowIsSound(new)
             /\ \A k \in CommandsOf(id) :
                    /\ k.kind = "notify_invitation" =>
                            NotificationFits(new, k, commands'[k].state)
                    /\ k.kind = "notify_lifecycle" =>
                            LifecycleFits(new, k, commands'[k].state)
  BY DEF Announced, CommandsOf
<1>5. CASE IsCreated(id)
  <2>1. /\ row.state = "none" /\ row.generation = 0
        /\ new.state = "pending" /\ new.subject = NULL /\ new.token = 1
        /\ new.generation = 1 /\ new.delivery = "pending"
    BY <1>1, <1>5 DEF IsCreated, NewInvitation, RowIsSound
  <2>2. RowIsSound(new)
    BY <2>1, StoreAssumption DEF RowIsSound
  <2>3. CommandsAfter(id, FALSE, {NotifyKey(id, 1)})
    BY <1>5 DEF IsCreated
  <2> HIDE DEF row, new
  <2>4. ASSUME NEW k \in CommandsOf(id), k.kind = "notify_invitation"
        PROVE  NotificationFits(new, k, commands'[k].state)
    <3>1. commands[k].state = "absent"
      BY <1>2, <2>1, <2>4 DEF NotificationFits
    <3>2. commands'[k].state = IF k = NotifyKey(id, 1) THEN "pending" ELSE "absent"
      BY <2>3, <2>4, <3>1 DEF CommandsAfter
    <3>3. k = NotifyKey(id, 1) <=> k.generation = 1
      BY <1>2, <1>3, <2>4
    <3>4. k.generation \in 1..MaxGeneration
      BY <1>2, <2>4
    <3>5. QED
      BY <2>1, <3>2, <3>3, <3>4 DEF NotificationFits, DeliveryIs, Live, IsOpen
  <2>5. ASSUME NEW k \in CommandsOf(id), k.kind = "notify_lifecycle"
        PROVE  LifecycleFits(new, k, commands'[k].state)
    <3>1. commands'[k].state = commands[k].state
      BY <1>3, <2>3, <2>5 DEF CommandsAfter
    <3>2. QED
      BY <1>2, <2>1, <2>5, <3>1 DEF LifecycleFits, Lifecycles
  <2>6. QED
    BY <2>2, <2>4, <2>5
<1>6. CASE IsResent(id)
  <2>1. /\ row.state = "pending" /\ new.state = "pending"
        /\ row.subject = NULL /\ new.subject = NULL /\ new.token # 0
        /\ new.generation = row.generation + 1 /\ new.delivery = "pending"
        /\ new.generation \in 1..MaxGeneration
    BY <1>0, <1>6, RowEffects DEF IsResent, IsOpen
  <2>2. RowIsSound(new)
    BY <2>1 DEF RowIsSound
  <2>3. CommandsAfter(id, TRUE, {NotifyKey(id, new.generation)})
    BY <1>6, <2>1 DEF IsResent
  <2> HIDE DEF row, new
  <2>4. ASSUME NEW k \in CommandsOf(id), k.kind = "notify_invitation"
        PROVE  NotificationFits(new, k, commands'[k].state)
    <3>1. NotificationFits(row, k, commands[k].state)
      BY <1>2, <2>4
    <3>2. k = NotifyKey(id, new.generation) <=> k.generation = new.generation
      BY <1>2, <1>3, <2>4
    <3>3. k.generation \in 1..MaxGeneration
      BY <1>2, <2>4
    <3>4. CASE k.generation > row.generation
      <4>1. commands[k].state = "absent"
        BY <3>1, <3>4 DEF NotificationFits
      <4>2. commands'[k].state =
                IF k.generation = new.generation THEN "pending" ELSE "absent"
        BY <2>3, <2>4, <3>2, <4>1 DEF CommandsAfter, Live
      <4>3. QED
        BY <2>1, <4>2 DEF NotificationFits, DeliveryIs, Live, IsOpen
    <3>5. CASE ~(k.generation > row.generation)
      <4>1. k.generation # new.generation /\ ~(k.generation > new.generation)
        BY <1>0, <2>1, <3>3, <3>5
      <4>2. commands'[k].state \notin Live
        BY <2>3, <2>4, <3>2, <4>1 DEF CommandsAfter, Live
      <4>3. QED
        BY <4>1, <4>2 DEF NotificationFits
    <3>6. QED
      BY <3>4, <3>5
  <2>5. ASSUME NEW k \in CommandsOf(id), k.kind = "notify_lifecycle"
        PROVE  LifecycleFits(new, k, commands'[k].state)
    <3>1. commands'[k].state = commands[k].state
      BY <1>3, <2>3, <2>5 DEF CommandsAfter
    <3>2. QED
      BY <1>2, <2>1, <2>5, <3>1 DEF LifecycleFits
  <2>6. QED
    BY <2>2, <2>4, <2>5
<1>7. CASE IsClosed(id)
  <2>1. PICK l \in {"revoked", "expired"} :
            /\ new = Closed(row, l)
            /\ CommandsAfter(id, TRUE, {LifecycleKey(id, l)})
    BY <1>7 DEF IsClosed
  <2>2. /\ row.state = "pending" /\ new.state = l
        /\ new.generation = row.generation
    BY <1>0, <1>7, <2>1, RowEffects DEF IsClosed
  <2>3. RowIsSound(new)
    BY <1>1, <2>2 DEF RowIsSound, IsOpen
  <2> HIDE DEF row, new
  <2>4. ASSUME NEW k \in CommandsOf(id), k.kind = "notify_invitation"
        PROVE  NotificationFits(new, k, commands'[k].state)
    <3>1. /\ commands[k].state = "absent" => commands'[k].state = "absent"
          /\ commands'[k].state \notin Live
      BY <1>4, <2>1, <2>4 DEF CommandsAfter, Live
    <3>2. QED
      BY <1>2, <2>2, <2>4, <3>1 DEF NotificationFits, IsOpen
  <2>5. ASSUME NEW k \in CommandsOf(id), k.kind = "notify_lifecycle"
        PROVE  LifecycleFits(new, k, commands'[k].state)
    <3>1. commands[k].state = "absent"
      BY <1>2, <2>2, <2>5 DEF LifecycleFits, Lifecycles
    <3>2. k = LifecycleKey(id, l) <=> k.lifecycle = l
      BY <1>2, <1>4, <2>5
    <3>3. commands'[k].state = IF k.lifecycle = l THEN "pending" ELSE "absent"
      BY <2>1, <2>5, <3>1, <3>2 DEF CommandsAfter, Live
    <3>4. QED
      BY <2>2, <3>3 DEF LifecycleFits
  <2>6. QED
    BY <2>3, <2>4, <2>5
<1>8. CASE IsConsumed(id)
  <2>1. PICK subject \in Subjects : new = Consumed(row, subject)
    BY <1>8 DEF IsConsumed
  <2>2. /\ row.state = "pending" /\ new.state = "pending"
        /\ new.subject # NULL /\ new.generation = row.generation
    BY <1>0, <1>8, <2>1, RowEffects, StoreAssumption DEF IsConsumed, IsOpen
  <2>3. RowIsSound(new)
    BY <1>1, <2>2 DEF RowIsSound, IsOpen
  <2>4. \A k \in CommandsOf(id) : commands'[k].state = commands[k].state
    BY <1>8 DEF IsConsumed, CommandsAfter
  <2> HIDE DEF row, new
  <2>5. QED
    BY <1>2, <2>2, <2>3, <2>4 DEF NotificationFits, LifecycleFits, IsOpen
<1>9. CASE IsAccepted(id)
  <2>1. /\ row.state = "pending" /\ new.state = "accepted"
        /\ new.subject # NULL /\ new.generation = row.generation
    BY <1>0, <1>9, RowEffects DEF IsAccepted
  <2>2. RowIsSound(new)
    BY <1>1, <2>1 DEF RowIsSound, IsOpen
  <2>3. CommandsAfter(id, FALSE, {LifecycleKey(id, "accepted")})
    BY <1>9 DEF IsAccepted
  <2> HIDE DEF row, new
  <2>4. ASSUME NEW k \in CommandsOf(id), k.kind = "notify_invitation"
        PROVE  NotificationFits(new, k, commands'[k].state)
    <3>1. commands'[k].state = commands[k].state
      BY <1>4, <2>3, <2>4 DEF CommandsAfter
    <3>2. QED
      BY <1>2, <2>1, <2>4, <3>1 DEF NotificationFits, IsOpen
  <2>5. ASSUME NEW k \in CommandsOf(id), k.kind = "notify_lifecycle"
        PROVE  LifecycleFits(new, k, commands'[k].state)
    <3>1. commands[k].state = "absent"
      BY <1>2, <2>1, <2>5 DEF LifecycleFits, Lifecycles
    <3>2. k = LifecycleKey(id, "accepted") <=> k.lifecycle = "accepted"
      BY <1>2, <1>4, <2>5
    <3>3. commands'[k].state =
                IF k.lifecycle = "accepted" THEN "pending" ELSE "absent"
      BY <2>3, <2>5, <3>1, <3>2 DEF CommandsAfter
    <3>4. QED
      BY <2>1, <3>3 DEF LifecycleFits
  <2>6. QED
    BY <2>2, <2>4, <2>5
<1>10. QED
  BY <1>5, <1>6, <1>7, <1>8, <1>9

\* Settling one command and its delivery state keeps the announcements.
LEMMA SettlingKeepsAnnounced ==
    ASSUME TablesOK, NEW id \in Ids, Announced(id), IsSettled(id)
    PROVE  Announced(id)'
<1> DEFINE row == invitations[id]
           new == invitations'[id]
<1>1. PICK k \in CommandsOf(id) :
        /\ commands[k].state = "in_flight"
        /\ commands'[k].state \in Settled
        /\ \A j \in CommandsOf(id) \ {k} : commands'[j].state = commands[j].state
        /\ \/ /\ commands'[k].state = "superseded"
              /\ ~CommandMatches(k)
              /\ invitations'[id] = invitations[id]
           \/ /\ k.kind = "notify_lifecycle"
              /\ invitations'[id] = invitations[id]
           \/ /\ k.kind = "notify_invitation"
              /\ \/ invitations'[id] = Delivery(k, "queued")[id]
                        /\ commands'[k].state = "completed"
                 \/ invitations'[id] = Delivery(k, "failed")[id]
                        /\ commands'[k].state = "failed"
  BY DEF IsSettled
<1>2. row \in Invitation /\ row.generation \in Nat /\ k.id = id /\ RowIsSound(row)
  BY <1>1, InvitationFields DEF TablesOK, CommandsOf, Announced
<1>3. \A outcome : Delivery(k, outcome)[id] =
            IF row.state = "pending" /\ row.generation = k.generation
            THEN [row EXCEPT !.delivery = outcome] ELSE row
  BY <1>2 DEF Delivery, TablesOK
<1>4. /\ new.state = row.state /\ new.subject = row.subject
      /\ new.token = row.token /\ new.generation = row.generation
      /\ new.revision = row.revision
      /\ new.delivery = IF /\ k.kind = "notify_invitation"
                           /\ commands'[k].state # "superseded"
                           /\ row.state = "pending"
                           /\ row.generation = k.generation
                        THEN IF commands'[k].state = "completed" THEN "queued"
                             ELSE "failed"
                        ELSE row.delivery
  <2>1. \A outcome : /\ Delivery(k, outcome)[id].state = row.state
                     /\ Delivery(k, outcome)[id].subject = row.subject
                     /\ Delivery(k, outcome)[id].token = row.token
                     /\ Delivery(k, outcome)[id].generation = row.generation
                     /\ Delivery(k, outcome)[id].revision = row.revision
                     /\ Delivery(k, outcome)[id].delivery =
                            IF /\ row.state = "pending"
                               /\ row.generation = k.generation
                            THEN outcome ELSE row.delivery
    <3> TAKE outcome
    <3> DEFINE written == [row EXCEPT !.delivery = outcome]
    <3>1. /\ written.state = row.state /\ written.subject = row.subject
          /\ written.token = row.token /\ written.generation = row.generation
          /\ written.revision = row.revision /\ written.delivery = outcome
      BY <1>2, RowEffects
    <3>2. Delivery(k, outcome)[id] =
                IF row.state = "pending" /\ row.generation = k.generation
                THEN written ELSE row
      BY <1>3
    <3> HIDE DEF row, written
    <3>3. QED
      BY <3>1, <3>2
  <2> HIDE DEF row
  <2>2. \/ /\ commands'[k].state = "superseded" \/ k.kind = "notify_lifecycle"
           /\ new = row
        \/ /\ k.kind = "notify_invitation"
           /\ \/ /\ new = Delivery(k, "queued")[id]
                 /\ commands'[k].state = "completed"
              \/ /\ new = Delivery(k, "failed")[id]
                 /\ commands'[k].state = "failed"
    BY <1>1 DEF row
  <2> HIDE DEF new
  <2>3. QED
    BY <2>1, <2>2
<1> HIDE DEF row, new
<1>5. RowIsSound(new)
  BY <1>2, <1>4 DEF RowIsSound, IsOpen
<1>6. ASSUME NEW j \in CommandsOf(id)
      PROVE  /\ j.kind = "notify_invitation" =>
                    NotificationFits(row, j, commands[j].state)
             /\ j.kind = "notify_lifecycle" =>
                    LifecycleFits(row, j, commands[j].state)
  BY <1>6 DEF Announced, row
<1>7. ASSUME NEW j \in CommandsOf(id), j.kind = "notify_lifecycle"
      PROVE  LifecycleFits(new, j, commands'[j].state)
  <2>1. commands'[j].state = "absent" <=> commands[j].state = "absent"
    BY <1>1, <1>7 DEF Settled
  <2>2. QED
    BY <1>4, <1>6, <1>7, <2>1 DEF LifecycleFits
<1>8. ASSUME NEW j \in CommandsOf(id), j.kind = "notify_invitation"
      PROVE  NotificationFits(new, j, commands'[j].state)
  <2>1. NotificationFits(row, j, commands[j].state)
    BY <1>6, <1>8
  <2>2. CASE j = k
    <3>1. /\ row.generation = k.generation
          /\ row.state \in {"pending", "accepted"}
      BY <1>1, <2>1, <2>2 DEF NotificationFits, Live
    <3>2. CASE commands'[k].state = "superseded"
      <4>1. ~CommandMatches(k)
        BY <1>1, <1>8, <2>2, <3>2
      <4>2. ~IsOpen(row)
        BY <1>2, <1>8, <2>2, <3>1, <4>1 DEF CommandMatches, IsOpen, RowIsSound, row
      <4>3. QED
        BY <1>1, <1>2, <1>4, <2>2, <3>1, <3>2, <4>2
           DEF NotificationFits, IsOpen, Live
    <3>3. CASE commands'[k].state # "superseded"
      <4>1. commands'[k].state \in {"completed", "failed"}
        BY <1>1, <3>3 DEF Settled
      <4>2. QED
        BY <1>2, <1>4, <1>8, <2>2, <3>1, <3>3, <4>1
           DEF NotificationFits, IsOpen, DeliveryIs, Live
    <3>4. QED
      BY <3>2, <3>3
  <2>3. CASE j # k
    <3>1. commands'[j].state = commands[j].state
      BY <1>1, <2>3
    <3>2. CASE k.kind = "notify_invitation"
      <4>1. j.generation # k.generation
        BY <1>8, <2>3, <3>2, KeyForms DEF CommandsOf
      <4>2. QED
        BY <1>4, <2>1, <3>1, <4>1 DEF NotificationFits, IsOpen
    <3>3. CASE k.kind # "notify_invitation"
      BY <1>4, <2>1, <3>1, <3>3 DEF NotificationFits, IsOpen
    <3>4. QED
      BY <3>2, <3>3
  <2>4. QED
    BY <2>2, <2>3
<1>9. QED
  BY <1>5, <1>7, <1>8 DEF Announced, CommandsOf, new

AllAnnounced == \A id \in Ids : Announced(id)

\* Nothing is announced of an invitation that does not exist.
LEMMA AnnouncedInit ==
    ASSUME Init
    PROVE  AllAnnounced
<1>1. ASSUME NEW id \in Ids
      PROVE  /\ invitations[id] = NoInvitation
             /\ \A k \in CommandsOf(id) : commands[k].state = "absent"
  BY DEF Init, TablesInit, CommandsOf, NoCommand
<1>2. ASSUME NEW id \in Ids
      PROVE  Announced(id)
  <2>1. \A k \in CommandsOf(id) : k.kind = "notify_lifecycle" => k.lifecycle \in Lifecycles
    BY KeyForms DEF CommandsOf
  <2>2. QED
    BY <1>1, <1>2, <2>1 DEF Announced, NoInvitation, RowIsSound, NotificationFits,
            LifecycleFits, IsOpen, Live, Lifecycles
<1>3. QED
  BY <1>2 DEF AllAnnounced

\* Every step keeps the announcements of every invitation.
LEMMA AnnouncedStep ==
    ASSUME TypeOK, MembershipMirrorsInvitation, AllAnnounced, [Next]_vars
    PROVE  AllAnnounced'
<1>1. TablesOK /\ Transaction
  BY StepsAreTransactions DEF TypeOK
<1>2. ASSUME NEW id \in Ids
      PROVE  Announced(id)'
  <2>1. Announced(id)
    BY DEF AllAnnounced
  <2>2. InvitationStep(id)
    BY <1>1, InvitationSteps
  <2>3. QED
    BY <1>1, <2>1, <2>2, QuietKeepsAnnounced, WritesKeepAnnounced,
       SettlingKeepsAnnounced DEF InvitationStep
<1>3. QED
  BY <1>2 DEF AllAnnounced

\* The commands of every invitation always say what its row says.
THEOREM AllAnnouncedAlways == Spec => []AllAnnounced
<1>1. Init => AllAnnounced
  BY AnnouncedInit
<1>2. TypeOK /\ MembershipMirrorsInvitation /\ AllAnnounced /\ [Next]_vars =>
            AllAnnounced'
  BY AnnouncedStep
<1>3. QED
  BY <1>1, <1>2, TypeCorrect, MembershipMirrors, PTL DEF Spec

\* While a token can still be used, delivery_state is the fate of the notification
\* that carries it.
THEOREM DeliveryHonest == Spec => []DeliveryIsHonest
<1>1. AllAnnounced => DeliveryIsHonest
  <2> SUFFICES ASSUME AllAnnounced, NEW id \in Ids, IsOpen(invitations[id])
               PROVE  DeliveryIs(invitations[id].delivery,
                          commands[NotifyKey(id, invitations[id].generation)].state)
    BY DEF DeliveryIsHonest, DeliveryIs, IsOpen
  <2> DEFINE g == invitations[id].generation
             k == NotifyKey(id, g)
  <2>1. Announced(id) /\ g \in 1..MaxGeneration
    BY DEF AllAnnounced, Announced, RowIsSound, IsOpen
  <2>2. /\ k \in CommandsOf(id) /\ k.kind = "notify_invitation"
        /\ k.generation = invitations[id].generation
    BY <2>1, KeyParts DEF CommandsOf
  <2> HIDE DEF k
  <2>3. NotificationFits(invitations[id], k, commands[k].state)
    BY <2>1, <2>2 DEF Announced
  <2>4. DeliveryIs(invitations[id].delivery, commands[k].state)
    BY <2>2, <2>3 DEF NotificationFits
  <2>5. QED
    BY <2>4 DEF k
<1>2. QED
  BY <1>1, AllAnnouncedAlways, PTL

\* A live notification belongs to the current generation of an invitation that
\* was neither revoked nor expired.
THEOREM OnlyCurrentIsLive == Spec => []OnlyCurrentNotificationIsLive
<1>1. AllAnnounced => OnlyCurrentNotificationIsLive
  <2> SUFFICES ASSUME AllAnnounced, NEW id \in Ids, NEW g \in 1..MaxGeneration,
                      commands[NotifyKey(id, g)].state \in Live
               PROVE  /\ invitations[id].state \in {"pending", "accepted"}
                      /\ invitations[id].generation = g
    BY DEF OnlyCurrentNotificationIsLive
  <2> DEFINE k == NotifyKey(id, g)
  <2>1. k \in CommandsOf(id) /\ k.kind = "notify_invitation" /\ k.generation = g
    BY KeyParts DEF CommandsOf
  <2>2. commands[k].state \in Live
    OBVIOUS
  <2> HIDE DEF k
  <2>3. NotificationFits(invitations[id], k, commands[k].state)
    BY <2>1 DEF AllAnnounced, Announced
  <2>4. QED
    BY <2>1, <2>2, <2>3 DEF NotificationFits
<1>2. QED
  BY <1>1, AllAnnouncedAlways, PTL
-------------------------------------------------------------------------------
(* What the notification service was told *)

\* A generation, and the revision and verifier that go with it as long as the
\* invitation stays open at that generation.
Fresh(id, generation, revision, token) ==
    LET row == invitations[id] IN
    /\ row.state # "none"
    /\ generation <= row.generation
    /\ IsOpen(row) /\ row.generation = generation =>
            row.revision = revision /\ row.token = token

\* What an executor read stays true of its command while it is being carried out.
TaskIsFresh(e) ==
    LET k == task[e].key IN
    task[e].pc = "call" =>
        /\ k.kind = "notify_invitation" =>
                Fresh(k.id, k.generation, task[e].revision, task[e].token)
        /\ k.kind = "notify_lifecycle" => invitations[k.id].state = k.lifecycle

ToldTheTruth ==
    /\ \A e \in Executors : TaskIsFresh(e)
    /\ \A link \in links :
            Fresh(link.id, link.generation, link.revision, link.generation)
    /\ \A o \in observed : invitations[o.id].state = o.lifecycle

\* Settling a command writes at most the delivery state.
LEMMA SettledRow ==
    ASSUME TablesOK, NEW id \in Ids, IsSettled(id)
    PROVE  LET row == invitations[id]
               new == invitations'[id]
           IN  /\ new.state = row.state /\ new.subject = row.subject
               /\ new.token = row.token /\ new.generation = row.generation
               /\ new.revision = row.revision
<1> DEFINE row == invitations[id]
           queued == [row EXCEPT !.delivery = "queued"]
           failed == [row EXCEPT !.delivery = "failed"]
<1>1. PICK k \in CommandsOf(id) :
            \/ invitations'[id] = row
            \/ invitations'[id] = Delivery(k, "queued")[id]
            \/ invitations'[id] = Delivery(k, "failed")[id]
  BY DEF IsSettled
<1>2. row \in Invitation /\ k.id = id
  BY DEF TablesOK, CommandsOf
<1>3. \A outcome : Delivery(k, outcome)[id] =
            IF row.state = "pending" /\ row.generation = k.generation
            THEN [row EXCEPT !.delivery = outcome] ELSE row
  BY <1>2 DEF Delivery, TablesOK
<1>4. /\ Delivery(k, "queued")[id] \in {row, queued}
      /\ Delivery(k, "failed")[id] \in {row, failed}
  BY <1>3
<1> DEFINE Like(written) ==
                /\ written.state = row.state /\ written.subject = row.subject
                /\ written.token = row.token /\ written.generation = row.generation
                /\ written.revision = row.revision
<1>5. Like(row) /\ Like(queued) /\ Like(failed)
  <2>1. Like(queued)
    BY <1>2, RowEffects
  <2>2. Like(failed)
    BY <1>2, RowEffects
  <2>3. QED
    BY <2>1, <2>2
<1> HIDE DEF row, queued, failed
<1>6. invitations'[id] \in {row, queued, failed}
  BY <1>1, <1>4
<1>7. QED
  BY <1>5, <1>6 DEF row

\* What a worker read of an invitation stays true, or is outdated by a newer generation.
LEMMA FreshStays ==
    ASSUME TablesOK, NEW id \in Ids, InvitationStep(id), NEW generation \in Nat,
           NEW revision, NEW token, Fresh(id, generation, revision, token)
    PROVE  Fresh(id, generation, revision, token)'
<1> DEFINE row == invitations[id]
           new == invitations'[id]
<1>1. row \in Invitation /\ row.generation \in Nat /\ row.state # "none"
  BY InvitationFields DEF TablesOK, Fresh
<1>2. \/ /\ new.state = row.state /\ new.subject = row.subject
         /\ new.token = row.token /\ new.generation = row.generation
         /\ new.revision = row.revision
      \/ /\ new.state # "none"
         /\ new.generation = row.generation + 1
      \/ /\ new.state # "none" /\ ~IsOpen(new)
         /\ new.generation = row.generation
  <2>1. CASE IsQuiet(id)
    BY <1>1, <2>1, RowEffects DEF IsQuiet
  <2>2. CASE IsResent(id)
    BY <1>1, <2>2, RowEffects DEF IsResent
  <2>3. CASE IsClosed(id)
    BY <1>1, <2>3, RowEffects DEF IsClosed, IsOpen
  <2>4. CASE IsConsumed(id)
    BY <1>1, <2>4, RowEffects, StoreAssumption DEF IsConsumed, IsOpen
  <2>5. CASE IsAccepted(id)
    BY <1>1, <2>5, RowEffects DEF IsAccepted, IsOpen
  <2>6. CASE IsSettled(id)
    BY <1>1, <2>6, SettledRow
  <2>7. QED
    BY <1>1, <2>1, <2>2, <2>3, <2>4, <2>5, <2>6 DEF InvitationStep, IsCreated
<1> HIDE DEF new
<1>3. QED
  BY <1>1, <1>2 DEF Fresh, IsOpen, new

\* An executor takes up a command by matching it with its invitation, or inside
\* begin_accept.
LEMMA TaskOrigins ==
    ASSUME TypeOK, [Next]_vars, NEW e \in Executors
    PROVE  \/ task'[e] = task[e]
           \/ task'[e].pc # "call"
           \/ task'[e].key.kind = "add_member"
           \/ /\ UNCHANGED tables
              /\ task'[e].key \in CommandKeys
              /\ CommandMatches(task'[e].key)
              /\ task'[e].revision = invitations[task'[e].key.id].revision
              /\ task'[e].token = invitations[task'[e].key.id].token
<1> DEFINE Origin ==
           \/ task'[e] = task[e]
           \/ task'[e].pc # "call"
           \/ task'[e].key.kind = "add_member"
           \/ /\ UNCHANGED tables
              /\ task'[e].key \in CommandKeys
              /\ CommandMatches(task'[e].key)
              /\ task'[e].revision = invitations[task'[e].key.id].revision
              /\ task'[e].token = invitations[task'[e].key.id].token
<1>1. task \in [Executors -> Task] /\ NoTask.pc = "idle"
  BY DEF TypeOK, RuntimeOK, NoTask
<1>2. ASSUME NEW c \in Clients, ClientStep(c)
      PROVE  Origin
  <2>1. CASE AcceptBegin(c)
    <3>1. task' = [task EXCEPT ![c] = [pc |-> "call", key |-> MemberKey(call[c].request.id),
                              revision |-> 0, token |-> 0, answer |-> "none"]]
      BY <2>1 DEF AcceptBegin
    <3>2. MemberKey(call[c].request.id).kind = "add_member"
      BY DEF MemberKey
    <3>3. QED
      BY <1>1, <3>1, <3>2
  <2>2. CASE ~AcceptBegin(c)
    <3>1. task' = task
      BY <1>2, <2>2 DEF ClientStep, Invite, ResendRead, Revoke, AcceptLookup,
              ResendCommit, AcceptRead, AcceptExpires, CallReturns, runtime
    <3>2. QED
      BY <3>1
  <2>3. QED
    BY <2>1, <2>2
<1>3. ASSUME NEW d \in Executors, CommandStep(d) \/ Crash(d)
      PROVE  Origin
  <2>1. \/ \E answer \in Answers :
               task' = [task EXCEPT ![d].pc = "settle", ![d].answer = answer]
        \/ task' = [task EXCEPT ![d] = NoTask]
    BY <1>3 DEF CommandStep, MembershipAdmits, NotificationQueues, LifecycleIsObserved,
            MembershipRefuses, NotificationRefused, AnswersUnknown, Unavailable,
            Answer, Answers, Carried, Accepts, AcceptReplays, Delivers, Announces, Fails,
            Retries, EndTask, Aborts, Crash
  <2>2. CASE \E answer \in Answers :
               task' = [task EXCEPT ![d].pc = "settle", ![d].answer = answer]
    <3>1. PICK answer \in Answers :
               task' = [task EXCEPT ![d].pc = "settle", ![d].answer = answer]
      BY <2>2
    <3>2. CASE d = e
      <4>1. task'[e].pc = "settle"
        BY <1>1, <3>1, <3>2 DEF Task, NoTask
      <4>2. QED
        BY <4>1
    <3>3. CASE d # e
      BY <1>1, <3>1, <3>3
    <3>4. QED
      BY <3>2, <3>3
  <2>3. CASE task' = [task EXCEPT ![d] = NoTask]
    BY <1>1, <2>3
  <2>4. QED
    BY <2>1, <2>2, <2>3
<1>4. ASSUME NEW w \in Workers, WorkerStep(w)
      PROVE  Origin
  <2>1. ASSUME NEW k \in batch[w], Execute(w, k)
        PROVE  Origin
    <3>1. w \in Executors /\ k \in CommandKeys
      BY ServiceAssumption, RuntimeTypes DEF TypeOK
    <3>2. /\ UNCHANGED tables /\ CommandMatches(k)
          /\ task' = [task EXCEPT ![w] = [pc |-> "call", key |-> k, answer |-> "none",
                              revision |-> invitations[k.id].revision,
                              token |-> invitations[k.id].token]]
      BY <2>1 DEF Execute
    <3>3. CASE w = e
      BY <1>1, <3>1, <3>2, <3>3
    <3>4. CASE w # e
      BY <1>1, <3>2, <3>4
    <3>5. QED
      BY <3>3, <3>4
  <2>2. ASSUME \A k \in batch[w] : ~Execute(w, k)
        PROVE  task' = task
    BY <1>4, <2>2 DEF WorkerStep, Claim, Discard, DiscardAborts
  <2>3. QED
    BY <2>1, <2>2
<1>5. CASE \/ \E S \in SUBSET DueInvitations : ExpireDueSweep(S)
           \/ \E id \in Ids : TokenDue(id)
           \/ \E k \in CommandKeys : CommandDue(k)
           \/ UNCHANGED vars
  BY <1>5 DEF ExpireDueSweep, TokenDue, CommandDue, vars, runtime
<1>6. QED
  BY <1>2, <1>3, <1>4, <1>5 DEF Next

\* The providers change by carrying out, or refusing, what an executor asks, and
\* the tables do not change meanwhile.
LEMMA ProviderSteps ==
    ASSUME [Next]_vars
    PROVE  \/ UNCHANGED providers
           \/ /\ UNCHANGED tables
              /\ \E e \in Executors :
                    \/ \E answer \in Carried : \/ MembershipAdmits(e, answer)
                                               \/ NotificationQueues(e, answer)
                                               \/ LifecycleIsObserved(e, answer)
                    \/ MembershipRefuses(e)
<1>1. ASSUME NEW c \in Clients, ClientStep(c)
      PROVE  UNCHANGED providers
  BY <1>1 DEF ClientStep, Invite, ResendRead, Revoke, AcceptLookup, ResendCommit,
          AcceptRead, AcceptBegin, AcceptExpires, CallReturns
<1>2. ASSUME NEW e \in Executors, CommandStep(e) \/ Crash(e)
      PROVE  \/ UNCHANGED providers
             \/ /\ UNCHANGED tables
                /\ \/ \E answer \in Carried : \/ MembershipAdmits(e, answer)
                                              \/ NotificationQueues(e, answer)
                                              \/ LifecycleIsObserved(e, answer)
                   \/ MembershipRefuses(e)
  BY <1>2 DEF CommandStep, MembershipAdmits, NotificationQueues, LifecycleIsObserved,
          MembershipRefuses, NotificationRefused, AnswersUnknown, Unavailable, Answer,
          Accepts, AcceptReplays, Delivers, Announces, Fails, Retries, EndTask, Aborts,
          Crash
<1>3. ASSUME NEW w \in Workers, WorkerStep(w)
      PROVE  UNCHANGED providers
  BY <1>3 DEF WorkerStep, Claim, Execute, Discard, DiscardAborts
<1>4. CASE \/ \E S \in SUBSET DueInvitations : ExpireDueSweep(S)
           \/ \E id \in Ids : TokenDue(id)
           \/ \E k \in CommandKeys : CommandDue(k)
           \/ UNCHANGED vars
  BY <1>4 DEF ExpireDueSweep, TokenDue, CommandDue, vars
<1>5. QED
  BY <1>1, <1>2, <1>3, <1>4 DEF Next

\* A step never changes the state of an invitation that has ended.
LEMMA TerminalState ==
    ASSUME TablesOK, NEW id \in Ids, InvitationStep(id),
           invitations[id].state \in Lifecycles
    PROVE  invitations'[id].state = invitations[id].state
<1>1. invitations[id] \in Invitation
  BY DEF TablesOK
<1>2. CASE IsQuiet(id)
  BY <1>1, <1>2, RowEffects DEF IsQuiet
<1>3. CASE IsSettled(id)
  BY <1>3, SettledRow
<1>4. QED
  BY <1>2, <1>3 DEF InvitationStep, IsCreated, IsResent, IsClosed, IsConsumed,
     IsAccepted, IsOpen, Lifecycles

\* At first nothing was told and no worker has a task.
LEMMA ToldInit ==
    ASSUME Init
    PROVE  ToldTheTruth
BY DEF Init, NoTask, ToldTheTruth, TaskIsFresh

\* Every step keeps what was told true, and what the workers are about to tell.
LEMMA ToldStep ==
    ASSUME TypeOK, MembershipMirrorsInvitation, ToldTheTruth, [Next]_vars
    PROVE  ToldTheTruth'
<1>1. TablesOK /\ Transaction
  BY StepsAreTransactions DEF TypeOK
<1>2. \A id \in Ids : InvitationStep(id)
  BY <1>1, InvitationSteps
<1>3. ASSUME NEW e \in Executors, task[e].pc = "call"
      PROVE  /\ task[e].key \in CommandKeys /\ task[e].key.id \in Ids
             /\ task[e].key.kind = "notify_invitation" =>
                    task[e].key.generation \in Nat
             /\ task[e].key.kind = "notify_lifecycle" =>
                    task[e].key.lifecycle \in Lifecycles
  <2>1. task[e].key \in CommandKeys
    BY <1>3, RuntimeTypes DEF TypeOK
  <2>2. QED
    BY <2>1, KeyShape, StoreAssumption
<1>4. ASSUME NEW e \in Executors
      PROVE  TaskIsFresh(e)'
  <2> DEFINE k == task[e].key
  <2>1. TaskIsFresh(e)
    BY DEF ToldTheTruth
  <2>2. CASE task'[e] = task[e] /\ task[e].pc = "call"
    <3>1. k.kind = "notify_invitation" =>
                Fresh(k.id, k.generation, task[e].revision, task[e].token)'
      <4>1. SUFFICES ASSUME k.kind = "notify_invitation"
                     PROVE  Fresh(k.id, k.generation, task[e].revision, task[e].token)'
        OBVIOUS
      <4>2. Fresh(k.id, k.generation, task[e].revision, task[e].token)
        BY <2>1, <2>2, <4>1 DEF TaskIsFresh
      <4>3. k.id \in Ids /\ k.generation \in Nat
        BY <1>3, <2>2, <4>1
      <4> DEFINE i == k.id
                 g == k.generation
                 r == task[e].revision
                 t == task[e].token
      <4>4. invitations'[i].state # "none" /\ g <= invitations'[i].generation
            /\ (IsOpen(invitations'[i]) /\ invitations'[i].generation = g =>
                    invitations'[i].revision = r /\ invitations'[i].token = t)
        <5>1. i \in Ids /\ g \in Nat /\ Fresh(i, g, r, t) /\ InvitationStep(i)
          BY <1>2, <4>2, <4>3
        <5> HIDE DEF i, g, r, t
        <5>2. QED
          BY <1>1, <5>1, FreshStays DEF Fresh
      <4>5. QED
        BY <2>2, <4>4 DEF Fresh
    <3>2. k.kind = "notify_lifecycle" => invitations'[k.id].state = k.lifecycle
      BY <1>1, <1>2, <1>3, <2>1, <2>2, TerminalState DEF TaskIsFresh
    <3>3. QED
      BY <2>2, <3>1, <3>2 DEF TaskIsFresh
  <2>3. CASE task'[e].pc # "call" \/ task'[e].key.kind = "add_member"
    BY <2>3 DEF TaskIsFresh
  <2>4. CASE /\ UNCHANGED tables
             /\ task'[e].key \in CommandKeys
             /\ CommandMatches(task'[e].key)
             /\ task'[e].revision = invitations[task'[e].key.id].revision
             /\ task'[e].token = invitations[task'[e].key.id].token
    <3>1. invitations' = invitations
      BY <2>4 DEF tables
    <3>2. \A j \in CommandKeys : CommandMatches(j) =>
            /\ j.kind = "notify_invitation" =>
                    /\ invitations[j.id].state = "pending"
                    /\ invitations[j.id].generation = j.generation
                    /\ j.generation \in Nat
            /\ j.kind = "notify_lifecycle" => invitations[j.id].state = j.lifecycle
      BY KeyShape DEF CommandMatches
    <3>3. QED
      BY <2>4, <3>1, <3>2 DEF TaskIsFresh, Fresh
  <2>5. QED
    BY <2>2, <2>3, <2>4, TaskOrigins
<1>5. ASSUME NEW link \in links
      PROVE  Fresh(link.id, link.generation, link.revision, link.generation)'
  <2>1. link.id \in Ids /\ link.generation \in Nat
    BY <1>5 DEF TypeOK, ProvidersOK, Link
  <2>2. Fresh(link.id, link.generation, link.revision, link.generation)
    BY <1>5 DEF ToldTheTruth
  <2>3. QED
    BY <1>1, <1>2, <2>1, <2>2, FreshStays
<1>6. ASSUME NEW o \in observed
      PROVE  invitations'[o.id].state = o.lifecycle
  <2>1. o.id \in Ids /\ o.lifecycle \in Lifecycles
    BY <1>6 DEF TypeOK, ProvidersOK, Observation
  <2>2. QED
    BY <1>1, <1>2, <1>6, <2>1, TerminalState DEF ToldTheTruth
<1>7. ASSUME NEW link \in links'
      PROVE  Fresh(link.id, link.generation, link.revision, link.generation)'
  <2>1. CASE link \in links
    BY <1>5, <2>1
  <2>2. CASE link \notin links
    <3>1. PICK e \in Executors, answer \in Carried : NotificationQueues(e, answer)
      BY <1>7, <2>2, ProviderSteps DEF providers, MembershipAdmits,
         LifecycleIsObserved, MembershipRefuses
    <3>2. /\ task[e].pc = "call" /\ task[e].key.kind = "notify_invitation"
          /\ link = [id |-> task[e].key.id, generation |-> task[e].key.generation,
                     revision |-> task[e].revision]
          /\ task[e].token = task[e].key.generation
          /\ invitations' = invitations
      BY <1>7, <2>2, <3>1 DEF NotificationQueues, Calls, Answer, tables
    <3>3. Fresh(link.id, link.generation, link.revision, link.generation)
      BY <3>2 DEF ToldTheTruth, TaskIsFresh
    <3>4. QED
      BY <3>2, <3>3 DEF Fresh
  <2>3. QED
    BY <2>1, <2>2
<1>8. ASSUME NEW o \in observed'
      PROVE  invitations'[o.id].state = o.lifecycle
  <2>1. CASE o \in observed
    BY <1>6, <2>1
  <2>2. CASE o \notin observed
    <3>1. PICK e \in Executors, answer \in Carried : LifecycleIsObserved(e, answer)
      BY <1>8, <2>2, ProviderSteps DEF providers, MembershipAdmits,
         NotificationQueues, MembershipRefuses
    <3>2. /\ task[e].pc = "call" /\ task[e].key.kind = "notify_lifecycle"
          /\ o = [id |-> task[e].key.id, lifecycle |-> task[e].key.lifecycle]
          /\ invitations' = invitations
      BY <1>8, <2>2, <3>1 DEF LifecycleIsObserved, Calls, Answer, tables
    <3>3. QED
      BY <3>2 DEF ToldTheTruth, TaskIsFresh
  <2>3. QED
    BY <2>1, <2>2
<1>9. QED
  BY <1>4, <1>7, <1>8 DEF ToldTheTruth

\* What the notification service was told, and what workers are about to tell it, is
\* always what the invitation's row said at some revision that fits.
THEOREM ToldTheTruthAlways == Spec => []ToldTheTruth
<1>1. Init => ToldTheTruth
  BY ToldInit
<1>2. TypeOK /\ MembershipMirrorsInvitation /\ ToldTheTruth /\ [Next]_vars =>
            ToldTheTruth'
  BY ToldStep
<1>3. QED
  BY <1>1, <1>2, TypeCorrect, MembershipMirrors, PTL DEF Spec

\* The link of the latest delivered generation works as long as the invitation is
\* open.
THEOREM LinksStayUsable == Spec => []LinkStaysUsable
<1>1. ToldTheTruth => LinkStaysUsable
  BY DEF ToldTheTruth, Fresh, IsOpen, LinkStaysUsable
<1>2. QED
  BY <1>1, ToldTheTruthAlways, PTL

\* An invitation that ended has a lifecycle command for the way it ended and for
\* no other, and the notification service is told nothing else.
THEOREM LifecycleAnnounced == Spec => []LifecycleIsAnnounced
<1>1. AllAnnounced /\ ToldTheTruth => LifecycleIsAnnounced
  <2> SUFFICES ASSUME AllAnnounced, NEW id \in Ids, NEW l \in Lifecycles
               PROVE  commands[LifecycleKey(id, l)].state # "absent" <=>
                            invitations[id].state = l
    BY DEF LifecycleIsAnnounced, ToldTheTruth
  <2> DEFINE k == LifecycleKey(id, l)
  <2>1. k \in CommandsOf(id) /\ k.kind = "notify_lifecycle" /\ k.lifecycle = l
    BY KeyParts DEF CommandsOf
  <2> HIDE DEF k
  <2>2. LifecycleFits(invitations[id], k, commands[k].state)
    BY <2>1 DEF AllAnnounced, Announced
  <2>3. QED
    BY <2>1, <2>2 DEF LifecycleFits, k
<1>2. QED
  BY <1>1, AllAnnouncedAlways, ToldTheTruthAlways, PTL
-------------------------------------------------------------------------------
(* The activity log *)

\* The log of an invitation has one row for each of its revisions.
LogFits(log, last) ==
    /\ \A row \in log : row.revision \in 1..last
    /\ \A r \in 1..last :
            \E row \in log : \A other \in log : other.revision = r <=> other = row

\* A log that gains the row of the next revision still has one row per revision.
LEMMA LogGrows ==
    ASSUME NEW log, NEW last \in Nat, LogFits(log, last),
           NEW row, row.revision = last + 1
    PROVE  LogFits(log \cup {row}, last + 1)
<1> DEFINE new == log \cup {row}
<1>1. \A old \in log : old.revision \in 1..last
  BY DEF LogFits
<1>2. \A r \in 1..(last + 1) : r = last + 1 \/ r \in 1..last
  OBVIOUS
<1>3. ASSUME NEW r \in 1..last
      PROVE  \E found \in new : \A other \in new : other.revision = r <=> other = found
  <2>1. PICK found \in log : \A other \in log : other.revision = r <=> other = found
    BY <1>3 DEF LogFits
  <2>2. row.revision # r /\ row # found
    BY <1>1, <1>3, <2>1
  <2>3. QED
    BY <2>1, <2>2
<1>4. \A other \in new : other.revision = last + 1 <=> other = row
  BY <1>1
<1>5. QED
  BY <1>1, <1>2, <1>3, <1>4 DEF LogFits

\* A transaction either leaves the revision and the log of an invitation alone, or
\* raises the one and adds a row to the other.
LEMMA RevisionSteps ==
    ASSUME TablesOK, NEW id \in Ids, InvitationStep(id), Announced(id)
    PROVE  \/ /\ invitations'[id].revision = invitations[id].revision
              /\ LogOf(id)' = LogOf(id)
           \/ /\ invitations'[id].revision = invitations[id].revision + 1
              /\ Logged(id)
<1>1. invitations[id] \in Invitation
  BY DEF TablesOK
<1>2. CASE IsQuiet(id)
  BY <1>1, <1>2, RowEffects DEF IsQuiet
<1>3. CASE IsCreated(id)
  BY <1>3 DEF IsCreated, NewInvitation, Announced, RowIsSound
<1>4. CASE IsResent(id)
  BY <1>1, <1>4, RowEffects DEF IsResent
<1>5. CASE IsClosed(id)
  BY <1>1, <1>5, RowEffects DEF IsClosed
<1>6. CASE IsConsumed(id)
  BY <1>1, <1>6, RowEffects DEF IsConsumed
<1>7. CASE IsAccepted(id)
  BY <1>1, <1>7, RowEffects DEF IsAccepted
<1>8. CASE IsSettled(id)
  BY <1>8, SettledRow DEF IsSettled
<1>9. QED
  BY <1>2, <1>3, <1>4, <1>5, <1>6, <1>7, <1>8 DEF InvitationStep

AllLogged == \A id \in Ids : LogFits(LogOf(id), invitations[id].revision)

\* Every step that writes a new revision logs it, and no other step logs.
LEMMA LoggedStep ==
    ASSUME TypeOK, MembershipMirrorsInvitation, AllAnnounced, AllLogged, [Next]_vars
    PROVE  AllLogged'
<1>1. TablesOK /\ Transaction
  BY StepsAreTransactions DEF TypeOK
<1>2. ASSUME NEW id \in Ids
      PROVE  LogFits(LogOf(id)', invitations'[id].revision)
  <2>1. /\ InvitationStep(id) /\ Announced(id)
        /\ LogFits(LogOf(id), invitations[id].revision)
        /\ invitations[id].revision \in Nat
    BY <1>1, InvitationSteps, InvitationFields DEF AllAnnounced, AllLogged, TablesOK
  <2>2. CASE /\ invitations'[id].revision = invitations[id].revision + 1
             /\ Logged(id)
    <3>1. PICK kind \in ActivityKinds :
                LogOf(id)' = LogOf(id) \cup {Record(id, kind, invitations'[id])}
      BY <2>2 DEF Logged
    <3> DEFINE row == Record(id, kind, invitations'[id])
    <3>2. row.revision = invitations[id].revision + 1
      BY <2>2 DEF Record
    <3> HIDE DEF row
    <3>3. QED
      BY <2>1, <2>2, <3>1, <3>2, LogGrows DEF row
  <2>3. QED
    BY <1>1, <2>1, <2>2, RevisionSteps
<1>3. QED
  BY <1>2 DEF AllLogged

\* The log of every invitation always has exactly one row per revision.
THEOREM AllLoggedAlways == Spec => []AllLogged
<1>1. Init => AllLogged
  BY DEF Init, TablesInit, NoInvitation, AllLogged, LogFits, LogOf
<1>2. TypeOK /\ MembershipMirrorsInvitation /\ AllAnnounced /\ AllLogged
        /\ [Next]_vars => AllLogged'
  BY LoggedStep
<1>3. QED
  BY <1>1, <1>2, TypeCorrect, MembershipMirrors, AllAnnouncedAlways, PTL DEF Spec

\* The activity log explains every revision of every invitation once.
THEOREM AuditTrailComplete == Spec => []AuditTrailIsComplete
<1>1. AllLogged => AuditTrailIsComplete
  <2> SUFFICES ASSUME AllLogged, NEW id \in Ids
               PROVE  /\ \A row \in activity : row.id = id =>
                              row.revision \in 1..invitations[id].revision
                      /\ \A r \in 1..invitations[id].revision :
                              \E row \in activity : \A other \in activity :
                                  (other.id = id /\ other.revision = r) <=> other = row
    BY DEF AuditTrailIsComplete
  <2>1. LogFits(LogOf(id), invitations[id].revision)
    BY DEF AllLogged
  <2>2. QED
    BY <2>1 DEF LogFits, LogOf
<1>2. QED
  BY <1>1, AllLoggedAlways, PTL
-------------------------------------------------------------------------------
(* Who the membership service admitted *)

\* A membership command was taken up for the subject that consumed the token, and
\* is settled with what the membership service did.
AnswerIsTrue(e) ==
    LET id == task[e].key.id IN
    task[e].pc # "idle" /\ task[e].key.kind = "add_member" =>
        /\ invitations[id].subject # NULL
        /\ task[e].pc = "settle" =>
                /\ task[e].answer # "unknown"
                /\ task[e].answer = "ok" => members[id] # NULL
                /\ task[e].answer = "refused" => id \in refused

AdmittedFits(id) ==
    /\ members[id] # NULL => members[id] = invitations[id].subject
    /\ invitations[id].state = "accepted" => members[id] # NULL
    /\ invitations[id].state = "expired" /\ invitations[id].subject # NULL =>
            id \in refused
    /\ RefusalIsFinal => /\ id \in refused => members[id] = NULL
                         /\ members[id] # NULL =>
                                invitations[id].state \in {"pending", "accepted"}

\* So are the membership commands in a leased batch.
BatchIsTaken(e) ==
    \A k \in batch[e] : k.kind = "add_member" => invitations[k.id].subject # NULL

AdmissionsFit ==
    /\ \A e \in Executors : AnswerIsTrue(e) /\ BatchIsTaken(e)
    /\ \A id \in Ids : AdmittedFits(id)

\* The subject of an invitation stays.
LEMMA SubjectStays ==
    ASSUME TablesOK, NEW id \in Ids, InvitationStep(id), Announced(id),
           invitations[id].subject # NULL
    PROVE  invitations'[id].subject = invitations[id].subject
<1>1. invitations[id] \in Invitation
  BY DEF TablesOK
<1>2. CASE IsQuiet(id)
  BY <1>1, <1>2, RowEffects DEF IsQuiet
<1>3. CASE IsClosed(id)
  BY <1>1, <1>3, RowEffects DEF IsClosed
<1>4. CASE IsAccepted(id)
  BY <1>1, <1>4, RowEffects DEF IsAccepted
<1>5. CASE IsSettled(id)
  BY <1>5, SettledRow
<1>6. ~IsCreated(id) /\ ~IsResent(id) /\ ~IsConsumed(id)
  BY DEF IsCreated, IsResent, IsConsumed, IsOpen, Announced, RowIsSound
<1>7. QED
  BY <1>2, <1>3, <1>4, <1>5, <1>6 DEF InvitationStep

\* Commands enter a batch by a claim, which leaves the invitations alone.
LEMMA BatchSteps ==
    ASSUME TypeOK, [Next]_vars, NEW e \in Executors
    PROVE  \/ batch'[e] \subseteq batch[e]
           \/ batch'[e] \subseteq DueCommands /\ UNCHANGED invitations
<1>1. batch \in [Executors -> SUBSET CommandKeys]
  BY DEF TypeOK, RuntimeOK
<1>2. ASSUME NEW c \in Clients, ClientStep(c)
      PROVE  batch' = batch
  BY <1>2 DEF ClientStep, Invite, ResendRead, Revoke, AcceptLookup, ResendCommit,
          AcceptRead, AcceptBegin, AcceptExpires, CallReturns, runtime
<1>3. ASSUME NEW d \in Executors, CommandStep(d) \/ Crash(d)
      PROVE  batch' = batch \/ batch' = [batch EXCEPT ![d] = {}]
  BY <1>3 DEF CommandStep, MembershipAdmits, NotificationQueues, LifecycleIsObserved,
          MembershipRefuses, NotificationRefused, AnswersUnknown, Unavailable, Answer,
          Accepts, AcceptReplays, Delivers, Announces, Fails, Retries, EndTask, Aborts,
          Crash
<1>4. ASSUME NEW w \in Workers, WorkerStep(w)
      PROVE  \/ \E k \in batch[w] : batch' = [batch EXCEPT ![w] = batch[w] \ {k}]
             \/ batch' = [batch EXCEPT ![w] = {}]
             \/ \E S \in SUBSET DueCommands :
                    batch' = [batch EXCEPT ![w] = S] /\ UNCHANGED invitations
  BY <1>4 DEF WorkerStep, Claim, ClaimDueCommands, Execute, Discard, DiscardAborts
<1>5. CASE \/ \E S \in SUBSET DueInvitations : ExpireDueSweep(S)
           \/ \E id \in Ids : TokenDue(id)
           \/ \E k \in CommandKeys : CommandDue(k)
           \/ UNCHANGED vars
  BY <1>5 DEF ExpireDueSweep, TokenDue, CommandDue, vars, runtime
<1>6. QED
  BY <1>1, <1>2, <1>3, <1>4, <1>5, ServiceAssumption DEF Next

\* How an executor comes to hold, and to settle, a membership command.
LEMMA MemberTasks ==
    ASSUME TypeOK, [Next]_vars, NEW e \in Executors,
           task'[e].pc # "idle", task'[e].key.kind = "add_member"
    PROVE  \/ task'[e] = task[e]
           \/ /\ task'[e].pc = "call"
              /\ \/ invitations'[task'[e].key.id].subject # NULL
                 \/ task'[e].key \in batch[e] /\ UNCHANGED tables
           \/ /\ task[e].pc = "call" /\ task'[e].pc = "settle"
              /\ task'[e].key = task[e].key
              /\ UNCHANGED tables
              /\ \/ \E answer \in Carried : /\ MembershipAdmits(e, answer)
                                            /\ task'[e].answer = answer
                 \/ MembershipRefuses(e) /\ task'[e].answer = "refused"
                 \/ task'[e].answer = "unavailable"
<1> DEFINE Origin ==
           \/ task'[e] = task[e]
           \/ /\ task'[e].pc = "call"
              /\ \/ invitations'[task'[e].key.id].subject # NULL
                 \/ task'[e].key \in batch[e] /\ UNCHANGED tables
           \/ /\ task[e].pc = "call" /\ task'[e].pc = "settle"
              /\ task'[e].key = task[e].key
              /\ UNCHANGED tables
              /\ \/ \E answer \in Carried : /\ MembershipAdmits(e, answer)
                                            /\ task'[e].answer = answer
                 \/ MembershipRefuses(e) /\ task'[e].answer = "refused"
                 \/ task'[e].answer = "unavailable"
<1>1. task \in [Executors -> Task] /\ NoTask.pc = "idle"
  BY DEF TypeOK, RuntimeOK, NoTask
<1>2. ASSUME NEW c \in Clients, AcceptBegin(c)
      PROVE  Origin
  <2> DEFINE request == call[c].request
             id == request.id
  <2>1. request \in RequestsOf("accept") /\ c \in Executors
    BY <1>2, RuntimeTypes, ServiceAssumption DEF TypeOK, AcceptBegin
  <2>2. id \in Ids /\ request.actor \in Subjects /\ invitations[id] \in Invitation
    BY <2>1, RequestTypes DEF RequestsOf, TypeOK, TablesOK
  <2>3. invitations'[id] = Consumed(invitations[id], request.actor)
    BY <1>2, <2>2 DEF AcceptBegin, BeginAccept, TypeOK, TablesOK
  <2>4. invitations'[id].subject # NULL
    BY <2>2, <2>3, RowEffects, StoreAssumption
  <2>5. task' = [task EXCEPT ![c] = [pc |-> "call", key |-> MemberKey(id),
                              revision |-> 0, token |-> 0, answer |-> "none"]]
    BY <1>2 DEF AcceptBegin
  <2>6. MemberKey(id).id = id
    BY <2>2, KeysDiffer
  <2>7. CASE c = e
    BY <1>1, <2>1, <2>4, <2>5, <2>6, <2>7
  <2>8. CASE c # e
    BY <1>1, <2>5, <2>8
  <2>9. QED
    BY <2>7, <2>8
<1>3. ASSUME NEW c \in Clients, ClientStep(c), ~AcceptBegin(c)
      PROVE  Origin
  <2>1. task' = task
    BY <1>3 DEF ClientStep, Invite, ResendRead, Revoke, AcceptLookup, ResendCommit,
            AcceptRead, AcceptExpires, CallReturns, runtime
  <2>2. QED
    BY <2>1
<1>4. ASSUME NEW d \in Executors, CommandStep(d) \/ Crash(d), d # e
      PROVE  Origin
  <2>1. \/ \E answer \in Answers :
               task' = [task EXCEPT ![d].pc = "settle", ![d].answer = answer]
        \/ task' = [task EXCEPT ![d] = NoTask]
    BY <1>4 DEF CommandStep, MembershipAdmits, NotificationQueues, LifecycleIsObserved,
            MembershipRefuses, NotificationRefused, AnswersUnknown, Unavailable,
            Answer, Answers, Carried, Accepts, AcceptReplays, Delivers, Announces, Fails,
            Retries, EndTask, Aborts, Crash
  <2>2. task'[e] = task[e]
    BY <1>1, <1>4, <2>1
  <2>3. QED
    BY <2>2
<1>5. CASE CommandStep(e) \/ Crash(e)
  <2>1. CASE task' = [task EXCEPT ![e] = NoTask]
    BY <1>1, <2>1
  <2>2. CASE task' # [task EXCEPT ![e] = NoTask]
    <3>1. /\ task[e].pc = "call"
          /\ UNCHANGED tables
          /\ \E answer \in Answers :
                /\ task' = [task EXCEPT ![e].pc = "settle", ![e].answer = answer]
                /\ \/ answer \in Carried /\ MembershipAdmits(e, answer)
                   \/ answer = "refused" /\ MembershipRefuses(e)
                   \/ answer = "unavailable"
                   \/ task[e].key.kind # "add_member"
      BY <1>5, <2>2 DEF CommandStep, MembershipAdmits, NotificationQueues,
            LifecycleIsObserved, MembershipRefuses, NotificationRefused,
            AnswersUnknown, Unavailable, Calls, Answer, Answers, Carried, Accepts,
            AcceptReplays, Delivers, Announces, Fails, Retries, EndTask, Aborts, Crash
    <3>2. PICK answer \in Answers :
                /\ task' = [task EXCEPT ![e].pc = "settle", ![e].answer = answer]
                /\ \/ answer \in Carried /\ MembershipAdmits(e, answer)
                   \/ answer = "refused" /\ MembershipRefuses(e)
                   \/ answer = "unavailable"
                   \/ task[e].key.kind # "add_member"
      BY <3>1
    <3>3. /\ task'[e].pc = "settle" /\ task'[e].answer = answer
          /\ task'[e].key = task[e].key
      BY <1>1, <3>1, <3>2 DEF Task, NoTask
    <3>4. QED
      BY <3>1, <3>2, <3>3
  <2>3. QED
    BY <2>1, <2>2
<1>6. ASSUME NEW w \in Workers, WorkerStep(w)
      PROVE  Origin
  <2>1. ASSUME NEW k \in batch[w], Execute(w, k)
        PROVE  Origin
    <3>1. w \in Executors
      BY ServiceAssumption
    <3>2. /\ UNCHANGED tables
          /\ task' = [task EXCEPT ![w] = [pc |-> "call", key |-> k, answer |-> "none",
                              revision |-> invitations[k.id].revision,
                              token |-> invitations[k.id].token]]
      BY <2>1 DEF Execute
    <3>3. CASE w = e
      BY <1>1, <2>1, <3>1, <3>2, <3>3
    <3>4. CASE w # e
      BY <1>1, <3>2, <3>4
    <3>5. QED
      BY <3>3, <3>4
  <2>2. ASSUME \A k \in batch[w] : ~Execute(w, k)
        PROVE  task' = task
    BY <1>6, <2>2 DEF WorkerStep, Claim, Discard, DiscardAborts
  <2>3. QED
    BY <2>1, <2>2
<1>7. CASE \/ \E S \in SUBSET DueInvitations : ExpireDueSweep(S)
           \/ \E id \in Ids : TokenDue(id)
           \/ \E k \in CommandKeys : CommandDue(k)
           \/ UNCHANGED vars
  BY <1>7 DEF ExpireDueSweep, TokenDue, CommandDue, vars, runtime
<1>8. QED
  BY <1>2, <1>3, <1>4, <1>5, <1>6, <1>7 DEF Next

\* What a step does to the membership of one invitation.
LEMMA MemberSteps ==
    ASSUME TypeOK, MembershipMirrorsInvitation, AdmissionsFit, [Next]_vars,
           NEW id \in Ids
    PROVE  \/ members'[id] = members[id] /\ (id \in refused' <=> id \in refused)
           \/ /\ UNCHANGED tables
              /\ members'[id] = invitations[id].subject /\ members'[id] # NULL
              /\ id \in refused' <=> id \in refused
              /\ RefusalIsFinal => id \notin refused
           \/ /\ UNCHANGED tables
              /\ members'[id] = members[id] /\ members[id] = NULL
              /\ id \in refused'
<1>0. members \in [Ids -> Subjects \cup {NULL}]
  BY DEF TypeOK, ProvidersOK
<1>1. CASE UNCHANGED providers
  BY <1>1 DEF providers
<1>2. ASSUME NEW e \in Executors, NEW answer \in Carried, MembershipAdmits(e, answer)
      PROVE  \/ members'[id] = members[id] /\ (id \in refused' <=> id \in refused)
             \/ /\ UNCHANGED tables
                /\ members'[id] = invitations[id].subject /\ members'[id] # NULL
                /\ id \in refused' <=> id \in refused
                /\ RefusalIsFinal => id \notin refused
  <2> DEFINE k == task[e].key
  <2>1. /\ task[e].pc = "call" /\ k.kind = "add_member"
        /\ RefusalIsFinal => k.id \notin refused
        /\ members' = [members EXCEPT ![k.id] = commands[k].subject]
        /\ refused' = refused /\ UNCHANGED tables
    BY <1>2 DEF MembershipAdmits, Calls, Answer
  <2>2. k \in CommandKeys
    BY <2>1, RuntimeTypes DEF TypeOK
  <2>3. k.id \in Ids /\ k = MemberKey(k.id)
    BY <2>1, <2>2, KeyShape
  <2>4. commands[k].subject = invitations[k.id].subject
    BY <2>3, MirrorPart DEF Mirror
  <2>5. invitations[k.id].subject # NULL
    BY <2>1 DEF AdmissionsFit, AnswerIsTrue
  <2>6. QED
    BY <1>0, <2>1, <2>3, <2>4, <2>5
<1>3. ASSUME NEW e \in Executors, MembershipRefuses(e), UNCHANGED tables
      PROVE  \/ members'[id] = members[id] /\ (id \in refused' <=> id \in refused)
             \/ /\ UNCHANGED tables
                /\ members'[id] = members[id] /\ members[id] = NULL
                /\ id \in refused'
  BY <1>3 DEF MembershipRefuses
<1>4. ASSUME NEW e \in Executors, NEW answer \in Carried,
             NotificationQueues(e, answer) \/ LifecycleIsObserved(e, answer)
      PROVE  members' = members /\ refused' = refused
  BY <1>4 DEF NotificationQueues, LifecycleIsObserved
<1>5. QED
  BY <1>1, <1>2, <1>3, <1>4, ProviderSteps

\* Every step keeps the membership service and the invitations in agreement.
LEMMA AdmissionStep ==
    ASSUME TypeOK, MembershipMirrorsInvitation, AllAnnounced, AdmissionsFit,
           [Next]_vars
    PROVE  AdmissionsFit'
<1>1. TablesOK /\ Transaction
  BY StepsAreTransactions DEF TypeOK
<1>2. \A id \in Ids : InvitationStep(id) /\ Announced(id)
  BY <1>1, InvitationSteps DEF AllAnnounced
<1>3. \A id \in Ids : invitations[id].subject # NULL =>
            invitations'[id].subject = invitations[id].subject
  BY <1>1, <1>2, SubjectStays
<1>4. \A e \in Executors : AnswerIsTrue(e) /\ BatchIsTaken(e)
  BY DEF AdmissionsFit
<1>5. \A id \in Ids : AdmittedFits(id)
  BY DEF AdmissionsFit
<1>6. ASSUME NEW e \in Executors
      PROVE  BatchIsTaken(e)'
  <2>1. batch[e] \subseteq CommandKeys
    BY RuntimeTypes DEF TypeOK
  <2>2. CASE batch'[e] \subseteq batch[e]
    BY <1>3, <1>4, <2>1, <2>2, KeyShape DEF BatchIsTaken
  <2>3. CASE batch'[e] \subseteq DueCommands /\ UNCHANGED invitations
    <3>1. ASSUME NEW k \in DueCommands, k.kind = "add_member"
          PROVE  invitations[k.id].subject # NULL
      <4>1. k \in CommandKeys /\ commands[k].state \in Live
        BY <3>1 DEF DueCommands
      <4>2. k.id \in Ids /\ k = MemberKey(k.id)
        BY <3>1, <4>1, KeyShape
      <4>3. Mirror(invitations[k.id], commands[k])
        BY <4>2, MirrorPart
      <4>4. QED
        BY <4>1, <4>3 DEF Mirror
    <3>2. QED
      BY <2>3, <3>1 DEF BatchIsTaken
  <2>4. QED
    BY <2>2, <2>3, BatchSteps
<1>7. ASSUME NEW id \in Ids
      PROVE  /\ members[id] # NULL => members'[id] # NULL
             /\ id \in refused => id \in refused'
  BY <1>7, MemberSteps
<1>8. ASSUME NEW e \in Executors
      PROVE  AnswerIsTrue(e)'
  <2> SUFFICES ASSUME task'[e].pc # "idle", task'[e].key.kind = "add_member"
               PROVE  AnswerIsTrue(e)'
    BY DEF AnswerIsTrue
  <2>1. task' \in [Executors -> Task]
    BY TypeStep DEF TypeOK, RuntimeOK
  <2>2. task'[e].key \in CommandKeys
    BY <2>1 DEF Task, NoTask
  <2> DEFINE id == task'[e].key.id
  <2>3. id \in Ids /\ task'[e].key = MemberKey(id)
    BY <2>2, KeyShape
  <2>4. CASE task'[e] = task[e]
    BY <1>3, <1>4, <1>7, <2>3, <2>4 DEF AnswerIsTrue
  <2>5. CASE /\ task'[e].pc = "call"
             /\ \/ invitations'[id].subject # NULL
                \/ task'[e].key \in batch[e] /\ UNCHANGED tables
    BY <1>4, <2>5 DEF AnswerIsTrue, BatchIsTaken, tables
  <2>6. CASE /\ task[e].pc = "call" /\ task'[e].pc = "settle"
             /\ task'[e].key = task[e].key
             /\ UNCHANGED tables
             /\ \/ \E answer \in Carried : /\ MembershipAdmits(e, answer)
                                           /\ task'[e].answer = answer
                \/ MembershipRefuses(e) /\ task'[e].answer = "refused"
                \/ task'[e].answer = "unavailable"
    <3>1. invitations[id].subject # NULL /\ invitations' = invitations
      BY <1>4, <2>6 DEF AnswerIsTrue, tables
    <3>2. CASE \E answer \in Carried : /\ MembershipAdmits(e, answer)
                                       /\ task'[e].answer = answer
      <4>1. members'[id] = commands[task[e].key].subject
        BY <2>3, <2>6, <3>2 DEF MembershipAdmits, TypeOK, ProvidersOK
      <4>2. commands[MemberKey(id)].subject = invitations[id].subject
        BY <2>3, MirrorPart DEF Mirror
      <4>3. members'[id] # NULL
        BY <2>3, <2>6, <3>1, <4>1, <4>2
      <4>4. QED
        BY <3>1, <3>2, <4>3 DEF AnswerIsTrue, Carried
    <3>3. CASE MembershipRefuses(e) /\ task'[e].answer = "refused"
      <4>1. id \in refused'
        BY <2>6, <3>3 DEF MembershipRefuses
      <4>2. QED
        BY <3>1, <3>3, <4>1 DEF AnswerIsTrue
    <3>4. CASE task'[e].answer = "unavailable"
      BY <3>1, <3>4 DEF AnswerIsTrue
    <3>5. QED
      BY <2>6, <3>2, <3>3, <3>4
  <2>7. QED
    BY <2>4, <2>5, <2>6, MemberTasks
<1>9. ASSUME NEW id \in Ids
      PROVE  AdmittedFits(id)'
  <2>1. Mirror(invitations[id], commands[MemberKey(id)])
    BY MirrorPart
  <2>2. AdmittedFits(id)
    BY <1>5
  <2>3. CASE /\ UNCHANGED tables
             /\ members'[id] = invitations[id].subject /\ members'[id] # NULL
             /\ id \in refused' <=> id \in refused
             /\ RefusalIsFinal => id \notin refused
    <3>1. invitations' = invitations
      BY <2>3 DEF tables
    <3>2. invitations[id].state \in {"pending", "accepted", "expired"}
      <4>1. commands[MemberKey(id)] \in Command
        BY KeyTypes DEF TypeOK, TablesOK
      <4>2. QED
        BY <2>1, <2>3, <4>1 DEF Mirror, Command, Live, Settled
    <3>3. QED
      BY <2>2, <2>3, <3>1, <3>2 DEF AdmittedFits
  <2>4. CASE /\ UNCHANGED tables
             /\ members'[id] = members[id] /\ members[id] = NULL
             /\ id \in refused'
    BY <2>2, <2>4 DEF AdmittedFits, tables
  <2>5. CASE members'[id] = members[id] /\ (id \in refused' <=> id \in refused)
    <3> DEFINE row == invitations[id]
               new == invitations'[id]
    <3>1. row.subject # NULL => new.subject = row.subject
      BY <1>3
    <3>2. ASSUME NEW e \in Executors, NEW answer, Settles(e, MemberKey(id), answer)
          PROVE  /\ answer # "unknown"
                 /\ answer = "ok" => members[id] # NULL
                 /\ answer = "refused" => id \in refused
      <4>1. task[e].key.id = id /\ task[e].key.kind = "add_member"
        BY <3>2, KeysDiffer DEF Settles
      <4>2. QED
        BY <1>4, <3>2, <4>1 DEF AnswerIsTrue, Settles
    <3>3. \/ new.state = row.state /\ (new.subject # NULL => row.subject # NULL)
          \/ new.state = "pending"
          \/ new.state = "accepted" /\ members[id] # NULL
          \/ /\ new.state \in {"revoked", "expired"}
             /\ (new.subject = NULL /\ row.subject = NULL) \/ id \in refused
      <4>1. row \in Invitation
        BY <1>1 DEF TablesOK
      <4>2. CASE IsQuiet(id)
        BY <4>1, <4>2, RowEffects DEF IsQuiet
      <4>3. CASE IsCreated(id)
        BY <4>3 DEF IsCreated, NewInvitation
      <4>4. CASE IsResent(id)
        BY <4>1, <4>4, RowEffects DEF IsResent, IsOpen
      <4>5. CASE IsClosed(id)
        BY <3>2, <4>1, <4>5, RowEffects DEF IsClosed
      <4>6. CASE IsConsumed(id)
        BY <4>1, <4>6, RowEffects DEF IsConsumed, IsOpen
      <4>7. CASE IsAccepted(id)
        BY <3>2, <4>1, <4>7, RowEffects DEF IsAccepted
      <4>8. CASE IsSettled(id)
        <5>1. new.state = row.state /\ new.subject = row.subject
          BY <1>1, <4>8, SettledRow
        <5>2. QED
          BY <5>1
      <4>9. QED
        BY <1>2, <4>2, <4>3, <4>4, <4>5, <4>6, <4>7, <4>8 DEF InvitationStep
    <3> HIDE DEF new
    <3>4. QED
      BY <2>2, <2>5, <3>1, <3>3 DEF AdmittedFits, new
  <2>6. QED
    BY <2>3, <2>4, <2>5, MemberSteps
<1>10. QED
  BY <1>6, <1>8, <1>9 DEF AdmissionsFit

\* What the membership service did, and what a worker heard of it, always fits the
\* invitation it was asked for.
THEOREM AdmissionsFitAlways == Spec => []AdmissionsFit
<1>1. Init => AdmissionsFit
  BY DEF Init, TablesInit, NoTask, NoInvitation, AdmissionsFit, AnswerIsTrue,
         BatchIsTaken, AdmittedFits
<1>2. TypeOK /\ MembershipMirrorsInvitation /\ AllAnnounced /\ AdmissionsFit
        /\ [Next]_vars => AdmissionsFit'
  BY AdmissionStep
<1>3. QED
  BY <1>1, <1>2, TypeCorrect, MembershipMirrors, AllAnnouncedAlways, PTL DEF Spec

\* Nobody is a member through an invitation that ends any other way than accepted
\* by that subject, and an accepted invitation made its subject a member.
THEOREM AdmissionMatches == Spec => []AdmissionMatchesInvitation
<1>1. AdmissionsFit => AdmissionMatchesInvitation
  BY DEF AdmissionsFit, AdmittedFits, AdmissionMatchesInvitation
<1>2. QED
  BY <1>1, AdmissionsFitAlways, PTL
-------------------------------------------------------------------------------
(* Idempotency keys *)

\* The invitations whose acceptance is undecided.
Claimed(id) == invitations[id].state = "pending" /\ invitations[id].subject # NULL

StartedFits(key) ==
    LET row == mutations[key] IN
    row.status = "started" =>
        /\ row.id \in Ids
        /\ row.command = MemberKey(row.id)
        /\ row.request.op = "accept"
        /\ row.request.actor = invitations[row.id].subject
        /\ Claimed(row.id)

OneStarted(id) ==
    Claimed(id) =>
        \E key \in Keys : \A other \in Keys :
            Started(other, MemberKey(id)) <=> other = key

KeysFit ==
    /\ \A key \in Keys : StartedFits(key)
    /\ \A id \in Ids : OneStarted(id)
    /\ KeysActOnce

\* Rows of activity that say what a caller asked for.
Asked == {"created", "resent", "revoked", "accepted"}

\* No key is completed and nothing a caller asked for is logged.
LEMMA ActOnceKept ==
    ASSUME KeysActOnce,
           \A key \in Keys :
                /\ mutations'[key].status = "completed" <=>
                        mutations[key].status = "completed"
                /\ mutations[key].status = "completed" =>
                        mutations'[key] = mutations[key],
           activity \subseteq activity',
           \A row \in activity' \ activity : row.kind \notin Asked
    PROVE  KeysActOnce'
<1>1. CompletedKeys' = CompletedKeys
  BY DEF CompletedKeys
<1>2. \A key \in CompletedKeys : Effect(mutations'[key]) = Effect(mutations[key])
  BY DEF CompletedKeys
<1>3. \A key \in CompletedKeys' : Effect(mutations'[key]) \in activity'
  BY <1>1, <1>2 DEF KeysActOnce
<1>4. ASSUME NEW row \in activity', row.kind \in Asked
      PROVE  \E key \in CompletedKeys' : \A other \in CompletedKeys' :
                Effect(mutations'[other]) = row <=> other = key
  <2>1. row \in activity
    BY <1>4
  <2>2. PICK key \in CompletedKeys : \A other \in CompletedKeys :
                Effect(mutations[other]) = row <=> other = key
    BY <1>4, <2>1 DEF KeysActOnce, Asked
  <2>3. QED
    BY <1>1, <1>2, <2>2
<1>5. QED
  BY <1>3, <1>4 DEF KeysActOnce, Asked

\* One key is completed for one new row of the log.
LEMMA ActOnceGrows ==
    ASSUME KeysActOnce, NEW key \in Keys, NEW row, row \notin activity,
           mutations[key].status # "completed",
           mutations'[key].status = "completed",
           Effect(mutations'[key]) = row,
           \A other \in Keys \ {key} : mutations'[other] = mutations[other],
           activity' = activity \cup {row}
    PROVE  KeysActOnce'
<1>1. CompletedKeys' = CompletedKeys \cup {key} /\ key \notin CompletedKeys
  BY DEF CompletedKeys
<1>2. \A other \in CompletedKeys : Effect(mutations'[other]) = Effect(mutations[other])
  BY <1>1 DEF CompletedKeys
<1>3. \A other \in CompletedKeys : Effect(mutations'[other]) \in activity
  BY <1>2 DEF KeysActOnce
<1>4. ASSUME NEW old \in activity', old.kind \in Asked
      PROVE  \E found \in CompletedKeys' : \A other \in CompletedKeys' :
                Effect(mutations'[other]) = old <=> other = found
  <2>1. CASE old = row
    BY <1>1, <1>3, <2>1
  <2>2. CASE old \in activity
    <3>1. PICK found \in CompletedKeys : \A other \in CompletedKeys :
                Effect(mutations[other]) = old <=> other = found
      BY <1>4, <2>2 DEF KeysActOnce, Asked
    <3>2. found # key /\ old # row
      BY <1>1, <2>2
    <3>3. QED
      BY <1>1, <1>2, <3>1, <3>2
  <2>3. QED
    BY <2>1, <2>2
<1>5. \A other \in CompletedKeys' : Effect(mutations'[other]) \in activity'
  BY <1>1, <1>3
<1>6. QED
  BY <1>4, <1>5 DEF KeysActOnce, Asked

\* The claims, and the keys that started them, stay as they are.
ClaimKept(id) ==
    /\ Claimed(id)' <=> Claimed(id)
    /\ Claimed(id) => invitations'[id].subject = invitations[id].subject

StartedKept(key) ==
    /\ mutations'[key].status = "started" <=> mutations[key].status = "started"
    /\ mutations[key].status = "started" => mutations'[key] = mutations[key]

\* Steps that leave started keys and their claims alone keep the keys fitting.
LEMMA StartedKeysKept ==
    ASSUME KeysFit, \A id \in Ids : ClaimKept(id), \A key \in Keys : StartedKept(key)
    PROVE  /\ \A key \in Keys : StartedFits(key)'
           /\ \A id \in Ids : OneStarted(id)'
<1>1. ASSUME NEW key \in Keys
      PROVE  StartedFits(key)'
  BY DEF KeysFit, StartedFits, StartedKept, ClaimKept
<1>2. ASSUME NEW id \in Ids
      PROVE  OneStarted(id)'
  <2>1. \A key \in Keys : Started(key, MemberKey(id))' <=> Started(key, MemberKey(id))
    BY DEF Started, StartedKept
  <2>2. OneStarted(id) /\ (Claimed(id)' => Claimed(id))
    BY DEF KeysFit, ClaimKept
  <2>3. QED
    BY <2>1, <2>2 DEF OneStarted
<1>3. QED
  BY <1>1, <1>2

\* A row of the log of a revision the invitation has not had is new.
LEMMA NewRow ==
    ASSUME TablesOK, AllLogged, NEW id \in Ids, NEW row, row.id = id,
           row.revision = invitations[id].revision + 1
    PROVE  row \notin activity
<1>1. invitations[id].revision \in Nat
  BY InvitationFields DEF TablesOK
<1>2. \A old \in LogOf(id) : old.revision \in 1..invitations[id].revision
  BY DEF AllLogged, LogFits
<1>3. QED
  BY <1>1, <1>2 DEF LogOf

\* invite, resend, revoke and an acceptance that comes too late leave claims alone.
LEMMA ManagementClaims ==
    ASSUME TablesOK, AllAnnounced, NEW j \in Ids,
           \/ \E request \in RequestsOf("invite"), id \in Ids :
                    CreateInvitation(request, id)
           \/ \E request \in RequestsOf("resend"), derived \in Nat \ {0} :
                    ResendInvitation(request, derived)
           \/ \E request \in RequestsOf("revoke") : RevokeInvitation(request)
           \/ \E request \in RequestsOf("accept") : BeginAcceptExpires(request)
    PROVE  ClaimKept(j)
<1>1. CASE invitations[j].subject = NULL
  <2>1. invitations'[j].subject = NULL
    BY <1>1, ManagementKeepsSubject
  <2>2. QED
    BY <1>1, <2>1 DEF ClaimKept, Claimed
<1>2. CASE invitations[j].subject # NULL
  <2>1. \A id \in Ids : invitations[id].state = "none" => invitations[id].subject = NULL
    BY DEF AllAnnounced, Announced, RowIsSound
  <2>2. ASSUME NEW request \in RequestsOf("invite"), NEW id \in Ids,
               CreateInvitation(request, id)
        PROVE  invitations'[j] = invitations[j]
    <3>1. invitations[id].state = "none"
      BY <2>2 DEF CreateInvitation, NextNumber, Ids
    <3>2. QED
      BY <1>2, <2>1, <2>2, <3>1 DEF CreateInvitation, TablesOK
  <2>3. ASSUME NEW request \in RequestsOf("resend"), NEW derived \in Nat \ {0},
               ResendInvitation(request, derived)
        PROVE  invitations'[j] = invitations[j]
    BY <1>2, <2>3 DEF ResendInvitation, Open, TablesOK
  <2>4. ASSUME NEW request \in RequestsOf("revoke"), RevokeInvitation(request)
        PROVE  invitations'[j] = invitations[j]
    BY <1>2, <2>4 DEF RevokeInvitation, Open, TablesOK
  <2>5. ASSUME NEW request \in RequestsOf("accept"), BeginAcceptExpires(request)
        PROVE  invitations'[j] = invitations[j]
    BY <1>2, <2>5 DEF BeginAcceptExpires, ExpireLocked, Open, TablesOK
  <2>6. QED
    BY <2>2, <2>3, <2>4, <2>5 DEF ClaimKept, Claimed
<1>3. QED
  BY <1>1, <1>2

\* Sweeps, settled notifications, the clock, and what leaves the invitations alone.
LEMMA WorkerClaims ==
    ASSUME TablesOK, NEW j \in Ids,
           \/ UNCHANGED invitations
           \/ \E S \in SUBSET DueInvitations : ExpireDue(S)
           \/ \E k \in CommandKeys, e \in Executors :
                    CompleteNotification(k, e) \/ FailNotification(k, e)
           \/ \E id \in Ids : TokenComesDue(id)
    PROVE  ClaimKept(j)
<1>0. invitations[j] \in Invitation
  BY DEF TablesOK
<1>1. CASE UNCHANGED invitations
  BY <1>1 DEF ClaimKept, Claimed
<1>2. ASSUME NEW S \in SUBSET DueInvitations, ExpireDue(S)
      PROVE  ClaimKept(j)
  <2>1. CASE j \in S
    BY <1>0, <1>2, <2>1, RowEffects DEF ExpireDue, DueInvitations, ClaimKept, Claimed
  <2>2. CASE j \notin S
    BY <1>2, <2>2 DEF ExpireDue, ClaimKept, Claimed
  <2>3. QED
    BY <2>1, <2>2
<1>3. ASSUME NEW k \in CommandKeys, NEW e \in Executors,
             CompleteNotification(k, e) \/ FailNotification(k, e)
      PROVE  ClaimKept(j)
  <2>1. PICK outcome \in {"queued", "failed"} : invitations' = Delivery(k, outcome)
    BY <1>3 DEF CompleteNotification, FailNotification
  <2> DEFINE written == [invitations[j] EXCEPT !.delivery = outcome]
  <2>2. invitations'[j] \in {invitations[j], written}
    BY <1>0, <2>1 DEF Delivery, TablesOK
  <2>3. written.state = invitations[j].state /\ written.subject = invitations[j].subject
    BY <1>0, RowEffects
  <2> HIDE DEF written
  <2>4. QED
    BY <2>2, <2>3 DEF ClaimKept, Claimed
<1>4. ASSUME NEW id \in Ids, TokenComesDue(id)
      PROVE  ClaimKept(j)
  <2> DEFINE written == [invitations[j] EXCEPT !.due = TRUE]
  <2>1. invitations'[j] \in {invitations[j], written}
    BY <1>4 DEF TokenComesDue, TablesOK
  <2>2. written.state = invitations[j].state /\ written.subject = invitations[j].subject
    BY <1>0, RowEffects
  <2> HIDE DEF written
  <2>3. QED
    BY <2>1, <2>2 DEF ClaimKept, Claimed
<1>5. QED
  BY <1>1, <1>2, <1>3, <1>4

\* invite, resend and revoke complete a key in the transaction that carries them
\* out.
LEMMA CompletingKeysFit ==
    ASSUME TablesOK, AllLogged, KeysFit, \A j \in Ids : ClaimKept(j),
           NEW request \in Requests, NEW id \in Ids, NEW row,
           row.revision = invitations[id].revision + 1,
           NEW kind, kind = CASE request.op = "invite" -> "created"
                              [] request.op = "resend" -> "resent"
                              [] request.op = "revoke" -> "revoked"
                              [] request.op = "accept" -> "accepted",
           NewKey(request), Complete(request, id, row), Log(id, kind, row)
    PROVE  KeysFit'
<1> DEFINE key == request.key
           entry == Record(id, kind, row)
           new == [status |-> "completed", request |-> request, id |-> id,
                   command |-> NULL, revision |-> row.revision]
<1>1. key \in Keys /\ mutations' = [mutations EXCEPT ![key] = new]
  BY RequestTypes DEF Complete
<1>2. mutations'[key] = new
  BY <1>1 DEF TablesOK
<1>3. mutations[key].status = "vacant"
  BY DEF NewKey
<1>4. \A other \in Keys \ {key} : mutations'[other] = mutations[other]
  BY <1>1 DEF TablesOK
<1>5. Effect(new) = entry
  BY DEF Effect, Record
<1>6. entry \notin activity
  <2>1. entry.id = id /\ entry.revision = row.revision
    BY DEF Record
  <2> HIDE DEF entry
  <2>2. QED
    BY <2>1, NewRow
<1>7. activity' = activity \cup {entry}
  BY DEF Log
<1>8. new.status = "completed"
  OBVIOUS
<1> HIDE DEF new, entry, key
<1>9. KeysActOnce'
  BY <1>1, <1>2, <1>3, <1>4, <1>5, <1>6, <1>7, <1>8, ActOnceGrows DEF KeysFit
<1>10. \A other \in Keys : StartedKept(other)
  BY <1>2, <1>3, <1>4, <1>8 DEF StartedKept
<1>11. QED
  BY <1>9, <1>10, StartedKeysKept DEF KeysFit

\* Transactions that touch no key and log nothing a caller asked for.
LEMMA OtherKeysFit ==
    ASSUME KeysFit, \A j \in Ids : ClaimKept(j), UNCHANGED mutations,
           activity \subseteq activity',
           \A row \in activity' \ activity : row.kind \notin Asked
    PROVE  KeysFit'
<1>1. KeysActOnce'
  BY ActOnceKept DEF KeysFit
<1>2. \A key \in Keys : StartedKept(key)
  BY DEF StartedKept
<1>3. QED
  BY <1>1, <1>2, StartedKeysKept DEF KeysFit

\* The keys bound to a membership command are the started keys of its invitation.
LEMMA StartedOfInvitation ==
    ASSUME KeysFit, NEW id \in Ids, NEW key \in Keys
    PROVE  Started(key, MemberKey(id)) <=>
                mutations[key].status = "started" /\ mutations[key].id = id
<1>1. StartedFits(key)
  BY DEF KeysFit
<1>2. QED
  BY <1>1, KeysDiffer DEF StartedFits, Started

\* begin_accept starts its key together with the membership command it stands for.
LEMMA BeginAcceptKeysFit ==
    ASSUME TablesOK, KeysFit, NEW request \in RequestsOf("accept"),
           NEW generation \in Nat, NEW e \in Executors,
           BeginAccept(request, generation, e)
    PROVE  KeysFit'
<1> DEFINE id == request.id
           key == request.key
           row == Consumed(invitations[id], request.actor)
           entry == Record(id, "acceptance_started", row)
           new == [status |-> "started", request |-> request, id |-> id,
                   command |-> MemberKey(id), revision |-> 0]
<1>1. /\ id \in Ids /\ key \in Keys /\ request.op = "accept"
      /\ request.actor \in Subjects /\ request.actor # NULL
      /\ invitations[id] \in Invitation
  BY RequestTypes, StoreAssumption DEF RequestsOf, TablesOK
<1>2. /\ mutations[key].status = "vacant"
      /\ mutations' = [mutations EXCEPT ![key] = new]
      /\ invitations' = [invitations EXCEPT ![id] = row]
      /\ activity' = activity \cup {entry}
      /\ invitations[id].state = "pending" /\ invitations[id].subject = NULL
  BY DEF BeginAccept, NewKey, Open, Log
<1>3. /\ mutations'[key] = new
      /\ \A other \in Keys \ {key} : mutations'[other] = mutations[other]
  BY <1>1, <1>2 DEF TablesOK
<1>4. /\ invitations'[id] = row
      /\ \A j \in Ids \ {id} : invitations'[j] = invitations[j]
  BY <1>1, <1>2 DEF TablesOK
<1>5. row.state = "pending" /\ row.subject = request.actor
  BY <1>1, <1>2, RowEffects
<1>6. /\ new.status = "started" /\ new.request = request /\ new.id = id
      /\ new.command = MemberKey(id)
  OBVIOUS
<1>7. entry.kind = "acceptance_started"
  BY DEF Record
<1> HIDE DEF new, row, entry, key, id
<1>8. ~Claimed(id)
  BY <1>2 DEF Claimed
<1>9. KeysActOnce'
  <2>1. \A row2 \in activity' \ activity : row2.kind \notin Asked
    BY <1>2, <1>7 DEF Asked
  <2>2. \A other \in Keys :
            /\ mutations'[other].status = "completed" <=>
                    mutations[other].status = "completed"
            /\ mutations[other].status = "completed" => mutations'[other] = mutations[other]
    BY <1>2, <1>3, <1>6
  <2>3. activity \subseteq activity'
    BY <1>2
  <2>4. QED
    BY <2>1, <2>2, <2>3, ActOnceKept DEF KeysFit
<1>10. ASSUME NEW other \in Keys
       PROVE  StartedFits(other)'
  <2>1. CASE other = key
    BY <1>1, <1>3, <1>4, <1>5, <1>6, <2>1 DEF StartedFits, Claimed, id
  <2>2. CASE other # key
    <3>1. StartedFits(other)
      BY DEF KeysFit
    <3>2. mutations[other].status = "started" => mutations[other].id # id
      BY <1>8, <3>1 DEF StartedFits
    <3>3. QED
      BY <1>3, <1>4, <2>2, <3>1, <3>2 DEF StartedFits, Claimed
  <2>3. QED
    BY <2>1, <2>2
<1>11. ASSUME NEW j \in Ids
       PROVE  OneStarted(j)'
  <2>1. CASE j = id
    <3>1. \A other \in Keys : ~Started(other, MemberKey(id))
      <4>1. \A other \in Keys : StartedFits(other)
        BY DEF KeysFit
      <4>2. QED
        BY <1>1, <1>8, <4>1, StartedOfInvitation DEF StartedFits
    <3>2. \A other \in Keys : Started(other, MemberKey(id))' <=> other = key
      BY <1>3, <1>6, <3>1 DEF Started
    <3>3. QED
      BY <1>1, <2>1, <3>2 DEF OneStarted
  <2>2. CASE j # id
    <3>1. MemberKey(j) # MemberKey(id)
      BY <1>1, <2>2, KeysDiffer
    <3>2. \A other \in Keys :
                Started(other, MemberKey(j))' <=> Started(other, MemberKey(j))
      BY <1>2, <1>3, <1>6, <3>1 DEF Started
    <3>3. OneStarted(j) /\ (Claimed(j)' <=> Claimed(j))
      BY <1>4, <2>2 DEF KeysFit, Claimed
    <3>4. QED
      BY <3>2, <3>3 DEF OneStarted
  <2>3. QED
    BY <2>1, <2>2
<1>12. QED
  BY <1>9, <1>10, <1>11 DEF KeysFit

\* Deciding an acceptance ends the claim, and takes the started status from its
\* keys.
LEMMA DecidedKeysFit ==
    ASSUME TablesOK, KeysFit, NEW id \in Ids, ~Claimed(id)',
           \A j \in Ids \ {id} : invitations'[j] = invitations[j],
           \A key \in Keys : Started(key, MemberKey(id)) =>
                mutations'[key].status # "started",
           \A key \in Keys : ~Started(key, MemberKey(id)) =>
                mutations'[key] = mutations[key]
    PROVE  /\ \A key \in Keys : StartedFits(key)'
           /\ \A j \in Ids : OneStarted(j)'
<1>1. ASSUME NEW key \in Keys
      PROVE  StartedFits(key)'
  <2>1. CASE Started(key, MemberKey(id))
    BY <2>1 DEF StartedFits
  <2>2. CASE ~Started(key, MemberKey(id))
    <3>1. StartedFits(key) /\ mutations'[key] = mutations[key]
      BY <2>2 DEF KeysFit
    <3>2. mutations[key].status = "started" => mutations[key].id # id
      BY <2>2, StartedOfInvitation
    <3>3. QED
      BY <3>1, <3>2 DEF StartedFits, Claimed
  <2>3. QED
    BY <2>1, <2>2
<1>2. ASSUME NEW j \in Ids
      PROVE  OneStarted(j)'
  <2>1. CASE j = id
    BY <2>1 DEF OneStarted
  <2>2. CASE j # id
    <3>1. MemberKey(j) # MemberKey(id)
      BY <2>2, KeysDiffer
    <3>2. \A key \in Keys : Started(key, MemberKey(j))' <=> Started(key, MemberKey(j))
      BY <3>1 DEF Started
    <3>3. OneStarted(j) /\ (Claimed(j)' <=> Claimed(j))
      BY <2>2 DEF KeysFit, Claimed
    <3>4. QED
      BY <3>2, <3>3 DEF OneStarted
  <2>3. QED
    BY <2>1, <2>2
<1>3. QED
  BY <1>1, <1>2

\* complete_accept completes the one key that was started for the invitation.
LEMMA CompleteAcceptKeysFit ==
    ASSUME TablesOK, MembershipMirrorsInvitation, AllLogged, KeysFit, NEW id \in Ids,
           NEW e \in Executors, CompleteAccept(id, e)
    PROVE  KeysFit'
<1> DEFINE row == AcceptedRow(invitations[id])
           entry == Record(id, "accepted", row)
           member == MemberKey(id)
<1>1. invitations[id] \in Invitation
  BY DEF TablesOK
<1>2. Mirror(invitations[id], commands[member]) /\ commands[member].state = "in_flight"
  BY MirrorPart DEF CompleteAccept, Holds
<1>3. Claimed(id)
  BY <1>2 DEF Mirror, Claimed, Live
<1>4. PICK key \in Keys : \A other \in Keys : Started(other, member) <=> other = key
  BY <1>3 DEF KeysFit, OneStarted
<1>5. /\ mutations[key].status = "started" /\ mutations[key].id = id
      /\ mutations[key].request.op = "accept"
  BY <1>4, StartedOfInvitation DEF KeysFit, StartedFits
<1>6. /\ invitations' = [invitations EXCEPT ![id] = row]
      /\ activity' = activity \cup {entry}
      /\ mutations' = [k \in Keys |->
                IF Started(k, member)
                THEN [mutations[k] EXCEPT !.status = "completed",
                                          !.revision = row.revision]
                ELSE mutations[k]]
  BY DEF CompleteAccept, Log
<1>7. /\ invitations'[id] = row
      /\ \A j \in Ids \ {id} : invitations'[j] = invitations[j]
  BY <1>6 DEF TablesOK
<1>8. row.state = "accepted" /\ row.revision = invitations[id].revision + 1
  BY <1>1, RowEffects
<1> DEFINE new == [mutations[key] EXCEPT !.status = "completed",
                                         !.revision = row.revision]
<1>9. /\ mutations'[key] = new
      /\ \A other \in Keys \ {key} : mutations'[other] = mutations[other]
  BY <1>4, <1>6
<1>10. mutations[key] \in Mutation
  BY DEF TablesOK
<1>11. /\ new.status = "completed" /\ new.id = id /\ new.revision = row.revision
       /\ new.request = mutations[key].request
  BY <1>5, <1>10 DEF Mutation
<1>12. entry.id = id /\ entry.revision = row.revision
  BY DEF Record
<1>13. Effect(mutations'[key]) = entry
  <2>1. /\ mutations'[key].id = id /\ mutations'[key].revision = row.revision
        /\ mutations'[key].request.op = "accept"
    BY <1>5, <1>9, <1>11
  <2> HIDE DEF row
  <2>2. QED
    BY <2>1 DEF Effect, Record
<1> HIDE DEF new, row, entry, member
<1>14. entry \notin activity
  BY <1>8, <1>12, NewRow
<1>15. KeysActOnce'
  BY <1>5, <1>6, <1>9, <1>11, <1>13, <1>14, ActOnceGrows DEF KeysFit
<1>16. ~Claimed(id)'
  BY <1>7, <1>8 DEF Claimed
<1>17. /\ \A k \in Keys : Started(k, MemberKey(id)) => mutations'[k].status # "started"
       /\ \A k \in Keys : ~Started(k, MemberKey(id)) => mutations'[k] = mutations[k]
  BY <1>4, <1>9, <1>11 DEF member
<1>18. QED
  BY <1>7, <1>15, <1>16, <1>17, DecidedKeysFit DEF KeysFit

\* fail_acceptance releases the one key that was started for the invitation.
LEMMA FailAcceptanceKeysFit ==
    ASSUME TablesOK, MembershipMirrorsInvitation, KeysFit, NEW id \in Ids,
           NEW e \in Executors, FailAcceptance(id, e)
    PROVE  KeysFit'
<1> DEFINE row == Closed(invitations[id], "expired")
           entry == Record(id, "acceptance_failed", row)
           member == MemberKey(id)
<1>1. invitations[id] \in Invitation
  BY DEF TablesOK
<1>2. Mirror(invitations[id], commands[member]) /\ commands[member].state = "in_flight"
  BY MirrorPart DEF FailAcceptance, Holds
<1>3. MemberMatches(id)
  BY <1>2 DEF Mirror, Live, MemberMatches
<1>4. /\ invitations' = [invitations EXCEPT ![id] = row]
      /\ activity' = activity \cup {entry}
      /\ mutations' = Released(member)
  BY <1>3 DEF FailAcceptance, ExpireLocked, Log
<1>5. /\ invitations'[id] = row
      /\ \A j \in Ids \ {id} : invitations'[j] = invitations[j]
  BY <1>4 DEF TablesOK
<1>6. row.state = "expired"
  BY <1>1, RowEffects
<1>7. entry.kind = "acceptance_failed"
  BY DEF Record
<1> HIDE DEF row, entry, member
<1>8. /\ \A k \in Keys : Started(k, member) => mutations'[k].status = "vacant"
      /\ \A k \in Keys : ~Started(k, member) => mutations'[k] = mutations[k]
  BY <1>4 DEF Released, Vacant
<1>9. KeysActOnce'
  <2>1. \A row2 \in activity' \ activity : row2.kind \notin Asked
    BY <1>4, <1>7 DEF Asked
  <2>2. \A key \in Keys :
            /\ mutations'[key].status = "completed" <=>
                    mutations[key].status = "completed"
            /\ mutations[key].status = "completed" => mutations'[key] = mutations[key]
    BY <1>8 DEF Started
  <2>3. activity \subseteq activity'
    BY <1>4
  <2>4. QED
    BY <2>1, <2>2, <2>3, ActOnceKept DEF KeysFit
<1>10. ~Claimed(id)'
  BY <1>5, <1>6 DEF Claimed
<1>11. /\ \A k \in Keys : Started(k, MemberKey(id)) => mutations'[k].status # "started"
       /\ \A k \in Keys : ~Started(k, MemberKey(id)) => mutations'[k] = mutations[k]
  BY <1>8 DEF member
<1>12. QED
  BY <1>5, <1>9, <1>10, <1>11, DecidedKeysFit DEF KeysFit

\* Management operations complete their key in the transaction that acts on it.
LEMMA ManagementKeysFit ==
    ASSUME TablesOK, AllAnnounced, AllLogged, KeysFit,
           \/ \E request \in RequestsOf("invite"), id \in Ids :
                    CreateInvitation(request, id)
           \/ \E request \in RequestsOf("resend"), derived \in Nat \ {0} :
                    ResendInvitation(request, derived)
           \/ \E request \in RequestsOf("revoke") : RevokeInvitation(request)
           \/ \E request \in RequestsOf("accept") : BeginAcceptExpires(request)
    PROVE  KeysFit'
<1>0. \A j \in Ids : ClaimKept(j)
  BY ManagementClaims
<1>1. ASSUME NEW request \in RequestsOf("invite"), NEW id \in Ids,
             CreateInvitation(request, id)
      PROVE  KeysFit'
  <2> DEFINE row == NewInvitation(request.email)
  <2>1. request \in Requests /\ request.op = "invite"
    BY DEF RequestsOf
  <2>2. invitations[id].state = "none"
    BY <1>1 DEF CreateInvitation, NextNumber, Ids
  <2>3. row.revision = invitations[id].revision + 1
    BY <2>2 DEF AllAnnounced, Announced, RowIsSound, NewInvitation
  <2>4. NewKey(request) /\ Complete(request, id, row) /\ Log(id, "created", row)
    BY <1>1 DEF CreateInvitation
  <2> HIDE DEF row
  <2>5. QED
    BY <1>0, <2>1, <2>3, <2>4, CompletingKeysFit
<1>2. ASSUME NEW request \in RequestsOf("resend"), NEW derived \in Nat \ {0},
             ResendInvitation(request, derived)
      PROVE  KeysFit'
  <2> DEFINE id == request.id
             row == Rotated(invitations[id], derived)
  <2>1. /\ request \in Requests /\ request.op = "resend" /\ id \in Ids
        /\ invitations[id] \in Invitation
    BY RequestTypes DEF RequestsOf, TablesOK
  <2>2. row.revision = invitations[id].revision + 1
    BY <2>1, RowEffects
  <2>3. NewKey(request) /\ Complete(request, id, row) /\ Log(id, "resent", row)
    BY <1>2 DEF ResendInvitation
  <2> HIDE DEF row, id
  <2>4. QED
    BY <1>0, <2>1, <2>2, <2>3, CompletingKeysFit
<1>3. ASSUME NEW request \in RequestsOf("revoke"), RevokeInvitation(request)
      PROVE  KeysFit'
  <2> DEFINE id == request.id
             row == Closed(invitations[id], "revoked")
  <2>1. /\ request \in Requests /\ request.op = "revoke" /\ id \in Ids
        /\ invitations[id] \in Invitation
    BY RequestTypes DEF RequestsOf, TablesOK
  <2>2. row.revision = invitations[id].revision + 1
    BY <2>1, RowEffects
  <2>3. NewKey(request) /\ Complete(request, id, row) /\ Log(id, "revoked", row)
    BY <1>3 DEF RevokeInvitation
  <2> HIDE DEF row, id
  <2>4. QED
    BY <1>0, <2>1, <2>2, <2>3, CompletingKeysFit
<1>4. ASSUME NEW request \in RequestsOf("accept"), BeginAcceptExpires(request)
      PROVE  KeysFit'
  <2>1. /\ UNCHANGED mutations /\ activity \subseteq activity'
        /\ \A row \in activity' \ activity : row.kind \notin Asked
    BY <1>4 DEF BeginAcceptExpires, Log, Record, Asked
  <2>2. QED
    BY <1>0, <2>1, OtherKeysFit
<1>5. QED
  BY <1>1, <1>2, <1>3, <1>4

\* What the worker does besides acceptances leaves keys alone.
LEMMA WorkerKeysFit ==
    ASSUME TablesOK, KeysFit,
           \/ UNCHANGED tables
           \/ \E S \in SUBSET DueInvitations : ExpireDue(S)
           \/ \E S \in SUBSET DueCommands, e \in Executors : ClaimDueCommands(S, e)
           \/ \E k \in CommandKeys, e \in Executors :
                    \/ CompleteNotification(k, e)
                    \/ CompleteLifecycle(k, e)
                    \/ FailNotification(k, e)
                    \/ FailLifecycle(k, e)
                    \/ RetryCommand(k, e)
                    \/ SupersedeCommand(k, e)
           \/ \E id \in Ids : TokenComesDue(id)
           \/ \E k \in CommandKeys : CommandComesDue(k)
    PROVE  KeysFit'
<1>1. \A j \in Ids : ClaimKept(j)
  <2>1. \/ UNCHANGED invitations
        \/ \E S \in SUBSET DueInvitations : ExpireDue(S)
        \/ \E k \in CommandKeys, e \in Executors :
                CompleteNotification(k, e) \/ FailNotification(k, e)
        \/ \E id \in Ids : TokenComesDue(id)
    BY OthersKeepInvitations
  <2>2. QED
    BY <2>1, WorkerClaims
<1>2. UNCHANGED mutations
  BY DEF tables, ExpireDue, ClaimDueCommands, CompleteNotification, CompleteLifecycle,
         FailNotification, FailLifecycle, RetryCommand, SupersedeCommand,
         TokenComesDue, CommandComesDue
<1>3. /\ activity \subseteq activity'
      /\ \A row \in activity' \ activity : row.kind \notin Asked
  <2>1. ASSUME NEW S \in SUBSET DueInvitations, ExpireDue(S)
        PROVE  /\ activity \subseteq activity'
               /\ \A row \in activity' \ activity : row.kind \notin Asked
    BY <2>1 DEF ExpireDue, Record, Asked
  <2>2. ASSUME ~ \E S \in SUBSET DueInvitations : ExpireDue(S)
        PROVE  activity' = activity
    BY <2>2 DEF tables, ClaimDueCommands, CompleteNotification, CompleteLifecycle,
         FailNotification, FailLifecycle, RetryCommand, SupersedeCommand,
         TokenComesDue, CommandComesDue
  <2>3. QED
    BY <2>1, <2>2
<1>4. QED
  BY <1>1, <1>2, <1>3, OtherKeysFit

\* Every step keeps keys, commands and the log in agreement.
LEMMA KeysStep ==
    ASSUME TypeOK, MembershipMirrorsInvitation, AllAnnounced, AllLogged, KeysFit,
           [Next]_vars
    PROVE  KeysFit'
<1>1. TablesOK /\ Transaction
  BY StepsAreTransactions DEF TypeOK
<1>2. ASSUME NEW c \in Clients, call[c].request \in RequestsOf("accept"),
             call[c].seen \in Nat, BeginAccept(call[c].request, call[c].seen, c)
      PROVE  KeysFit'
  BY <1>1, <1>2, ServiceAssumption, BeginAcceptKeysFit
<1>3. ASSUME NEW k \in CommandKeys, NEW e \in Executors,
             CompleteAccept(k.id, e) \/ FailAcceptance(k.id, e)
      PROVE  KeysFit'
  BY <1>1, <1>3, KeyShape, CompleteAcceptKeysFit, FailAcceptanceKeysFit
<1>4. QED
  BY <1>1, <1>2, <1>3, ManagementKeysFit, WorkerKeysFit DEF Transaction

\* A started key always stands for one live membership command, and a completed key for
\* one entry of the log.
THEOREM KeysFitAlways == Spec => []KeysFit
<1>1. Init => KeysFit
  BY DEF Init, TablesInit, NoInvitation, Vacant, KeysFit, StartedFits, OneStarted,
         Claimed, KeysActOnce, CompletedKeys
<1>2. TypeOK /\ MembershipMirrorsInvitation /\ AllAnnounced /\ AllLogged /\ KeysFit
        /\ [Next]_vars => KeysFit'
  BY KeysStep
<1>3. QED
  BY <1>1, <1>2, TypeCorrect, MembershipMirrors, AllAnnouncedAlways, AllLoggedAlways,
     PTL DEF Spec

\* An accept key answers "in progress" only while the command that will complete or
\* release it is live, and every live membership command has exactly one such key.
THEOREM StartedKeysHaveCommands == Spec => []StartedKeyHasLiveCommand
<1>1. MembershipMirrorsInvitation /\ KeysFit => StartedKeyHasLiveCommand
  <2> SUFFICES ASSUME MembershipMirrorsInvitation, KeysFit
               PROVE  StartedKeyHasLiveCommand
    OBVIOUS
  <2>1. \A id \in Ids : Claimed(id) <=> commands[MemberKey(id)].state \in Live
    BY DEF MembershipMirrorsInvitation, Claimed
  <2>2. ASSUME NEW key \in Keys, mutations[key].status = "started"
        PROVE  /\ mutations[key].command = MemberKey(mutations[key].id)
               /\ commands[mutations[key].command].state \in Live
               /\ mutations[key].request.actor = invitations[mutations[key].id].subject
    BY <2>1, <2>2 DEF KeysFit, StartedFits
  <2>3. \A id \in Ids : commands[MemberKey(id)].state \in Live =>
            \E key \in Keys : \A other \in Keys :
                Started(other, MemberKey(id)) <=> other = key
    BY <2>1 DEF KeysFit, OneStarted
  <2>4. QED
    BY <2>2, <2>3 DEF StartedKeyHasLiveCommand
<1>2. QED
  BY <1>1, MembershipMirrors, KeysFitAlways, PTL

\* A completed key stands for one effect, and every effect a caller asked for was
\* done under one key.
THEOREM KeysActExactlyOnce == Spec => []KeysActOnce
<1>1. KeysFit => KeysActOnce
  BY DEF KeysFit
<1>2. QED
  BY <1>1, KeysFitAlways, PTL
================================================================================
