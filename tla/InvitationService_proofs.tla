------------------------ MODULE InvitationService_proofs -----------------------
(* Proofs about InvitationService for every value of its constants: types and  *)
(* transactions, then how the membership command of an invitation mirrors it,  *)
(* and what a step may never do.  MembershipMirrorsInvitation is inductive     *)
(* together with TypeOK; the action properties follow from it and from the     *)
(* transactions alone: callers, workers, leases and providers only decide when *)
(* one of them runs.                                                           *)
EXTENDS InvitationService, TLAPS

-------------------------------------------------------------------------------
(* Command keys *)

\* The command keys the transactions build are command keys.
LEMMA KeyTypes ==
    ASSUME NEW id \in Ids
    PROVE  /\ MemberKey(id) \in CommandKeys
           /\ \A g \in 1..MaxGeneration : NotifyKey(id, g) \in CommandKeys
           /\ \A l \in Lifecycles : LifecycleKey(id, l) \in CommandKeys
BY DEF CommandKeys

\* A command key names its invitation, and is known by its kind.
LEMMA KeyShape ==
    ASSUME NEW k \in CommandKeys
    PROVE  /\ k.id \in Ids
           /\ k.kind = "add_member" <=> k = MemberKey(k.id)
           /\ k.kind = "notify_invitation" =>
                    k.generation \in 1..MaxGeneration
           /\ k.kind = "notify_lifecycle" => k.lifecycle \in Lifecycles
BY DEF CommandKeys, NotifyKey, MemberKey, LifecycleKey

\* Keys of different kinds, or of different invitations, are different.
LEMMA KeysDiffer ==
    ASSUME NEW id \in Ids, NEW other \in Ids
    PROVE  /\ MemberKey(id).id = id
           /\ MemberKey(id).kind = "add_member"
           /\ MemberKey(id) = MemberKey(other) => id = other
           /\ \A g \in Nat : MemberKey(id) # NotifyKey(other, g)
           /\ \A l \in Lifecycles : MemberKey(id) # LifecycleKey(other, l)
BY DEF NotifyKey, MemberKey, LifecycleKey
-------------------------------------------------------------------------------
(* Types of rows and tables *)

LEMMA InvitationFields ==
    ASSUME NEW row \in Invitation
    PROVE  /\ row.state \in States
           /\ row.email \in Emails \cup {NULL}
           /\ row.subject \in Subjects \cup {NULL}
           /\ row.token \in Nat
           /\ row.generation \in Nat
           /\ row.revision \in Nat
           /\ row.due \in BOOLEAN
           /\ row.delivery \in DeliveryStates
BY DEF Invitation

LEMMA InvitationUpdates ==
    ASSUME NEW row \in Invitation
    PROVE  /\ \A x \in States : [row EXCEPT !.state = x] \in Invitation
           /\ \A x \in Subjects : [row EXCEPT !.subject = x] \in Invitation
           /\ \A x \in Nat : [row EXCEPT !.token = x] \in Invitation
           /\ \A x \in Nat : [row EXCEPT !.generation = x] \in Invitation
           /\ \A x \in Nat : [row EXCEPT !.revision = x] \in Invitation
           /\ \A x \in BOOLEAN : [row EXCEPT !.due = x] \in Invitation
           /\ \A x \in DeliveryStates : [row EXCEPT !.delivery = x] \in Invitation
BY DEF Invitation

\* A row that ends is a row.
LEMMA ClosedType ==
    ASSUME NEW row \in Invitation, NEW state \in States
    PROVE  Closed(row, state) \in Invitation
<1> DEFINE r1 == [row EXCEPT !.state = state]
           r2 == [r1 EXCEPT !.token = 0]
           r3 == [r2 EXCEPT !.revision = row.revision + 1]
           d == IF row.delivery = "pending" THEN "superseded" ELSE row.delivery
           r4 == [r3 EXCEPT !.delivery = d]
<1>1. r1 \in Invitation
  BY InvitationUpdates
<1> HIDE DEF r1
<1>2. r2 \in Invitation
  BY <1>1, InvitationUpdates
<1> HIDE DEF r2
<1>3. r3 \in Invitation
  BY <1>2, InvitationUpdates, InvitationFields
<1> HIDE DEF r3
<1>4. d \in DeliveryStates
  BY InvitationFields DEF DeliveryStates
<1> HIDE DEF d
<1>5. r4 \in Invitation
  BY <1>3, <1>4, InvitationUpdates
<1>6. Closed(row, state) = r4
  BY DEF r4, r3, r2, r1, d, Closed
<1>7. QED
  BY <1>5, <1>6

\* A row whose token is rotated is a row.
LEMMA RotatedType ==
    ASSUME NEW row \in Invitation, NEW derived \in Nat
    PROVE  Rotated(row, derived) \in Invitation
<1> DEFINE r1 == [row EXCEPT !.token = derived]
           r2 == [r1 EXCEPT !.generation = row.generation + 1]
           r3 == [r2 EXCEPT !.revision = row.revision + 1]
           r4 == [r3 EXCEPT !.due = FALSE]
           r5 == [r4 EXCEPT !.delivery = "pending"]
<1>1. r1 \in Invitation
  BY InvitationUpdates
<1> HIDE DEF r1
<1>2. r2 \in Invitation
  BY <1>1, InvitationUpdates, InvitationFields
<1> HIDE DEF r2
<1>3. r3 \in Invitation
  BY <1>2, InvitationUpdates, InvitationFields
<1> HIDE DEF r3
<1>4. r4 \in Invitation
  BY <1>3, InvitationUpdates
<1> HIDE DEF r4
<1>5. r5 \in Invitation
  BY <1>4, InvitationUpdates DEF DeliveryStates
<1>6. Rotated(row, derived) = r5
  BY DEF r5, r4, r3, r2, r1, Rotated
<1>7. QED
  BY <1>5, <1>6

\* A row whose token is consumed is a row.
LEMMA ConsumedType ==
    ASSUME NEW row \in Invitation, NEW subject \in Subjects
    PROVE  Consumed(row, subject) \in Invitation
<1> DEFINE r1 == [row EXCEPT !.subject = subject]
           r2 == [r1 EXCEPT !.token = 0]
           r3 == [r2 EXCEPT !.revision = row.revision + 1]
<1>1. r1 \in Invitation
  BY InvitationUpdates
<1> HIDE DEF r1
<1>2. r2 \in Invitation
  BY <1>1, InvitationUpdates
<1> HIDE DEF r2
<1>3. r3 \in Invitation
  BY <1>2, InvitationUpdates, InvitationFields
<1>4. Consumed(row, subject) = r3
  BY DEF r3, r2, r1, Consumed
<1>5. QED
  BY <1>3, <1>4

\* A row whose acceptance completes is a row.
LEMMA AcceptedRowType ==
    ASSUME NEW row \in Invitation
    PROVE  AcceptedRow(row) \in Invitation
<1> DEFINE r1 == [row EXCEPT !.state = "accepted"]
           r2 == [r1 EXCEPT !.revision = row.revision + 1]
<1>1. r1 \in Invitation
  BY InvitationUpdates DEF States, Lifecycles
<1> HIDE DEF r1
<1>2. r2 \in Invitation
  BY <1>1, InvitationUpdates, InvitationFields
<1>3. AcceptedRow(row) = r2
  BY DEF r2, r1, AcceptedRow
<1>4. QED
  BY <1>2, <1>3

LEMMA NewInvitationType ==
    ASSUME NEW email \in Emails \cup {NULL}
    PROVE  NewInvitation(email) \in Invitation
BY DEF Invitation, States, DeliveryStates, NewInvitation

LEMMA CommandUpdates ==
    ASSUME NEW row \in Command
    PROVE  /\ \A x \in {"absent"} \cup Live \cup Settled :
                    [row EXCEPT !.state = x] \in Command
           /\ \A x \in 0..MaxCommandAttempts : [row EXCEPT !.attempts = x] \in Command
           /\ \A x \in Executors \cup {NULL} : [row EXCEPT !.lease = x] \in Command
           /\ \A x \in BOOLEAN : [row EXCEPT !.due = x] \in Command
BY DEF Command

\* A row that loses its lease is a row.
LEMMA UnleasedType ==
    ASSUME NEW row \in Command, NEW state \in {"pending"} \cup Settled
    PROVE  Unleased(row, state) \in Command
<1> DEFINE r1 == [row EXCEPT !.state = state]
           r2 == [r1 EXCEPT !.lease = NULL]
           r3 == [r2 EXCEPT !.due = FALSE]
<1>1. r1 \in Command
  BY CommandUpdates DEF Live
<1> HIDE DEF r1
<1>2. r2 \in Command
  BY <1>1, CommandUpdates
<1> HIDE DEF r2
<1>3. r3 \in Command
  BY <1>2, CommandUpdates
<1>4. Unleased(row, state) = r3
  BY DEF r3, r2, r1, Unleased
<1>5. QED
  BY <1>3, <1>4

\* A row that is leased is a row.
LEMMA LeasedType ==
    ASSUME NEW row \in Command, NEW e \in Executors
    PROVE  Leased(row, e) \in Command
<1> DEFINE r1 == [row EXCEPT !.state = "in_flight"]
           r2 == [r1 EXCEPT !.lease = e]
           r3 == [r2 EXCEPT !.due = FALSE]
           n == IF row.attempts < MaxCommandAttempts THEN row.attempts + 1
                ELSE row.attempts
           r4 == [r3 EXCEPT !.attempts = n]
<1>1. r1 \in Command
  BY CommandUpdates DEF Live
<1> HIDE DEF r1
<1>2. r2 \in Command
  BY <1>1, CommandUpdates
<1> HIDE DEF r2
<1>3. r3 \in Command
  BY <1>2, CommandUpdates
<1> HIDE DEF r3
<1>4. row.attempts \in 0..MaxCommandAttempts
  BY DEF Command
<1>5. n \in 0..MaxCommandAttempts
  BY <1>4, StoreAssumption
<1> HIDE DEF n
<1>6. r4 \in Command
  BY <1>3, <1>5, CommandUpdates
<1>7. Leased(row, e) = r4
  BY DEF r4, r3, r2, r1, n, Leased
<1>8. QED
  BY <1>6, <1>7

LEMMA InsertedType ==
    ASSUME NEW table \in [CommandKeys -> Command], NEW k \in CommandKeys,
           NEW subject \in Subjects \cup {NULL}
    PROVE  Inserted(table, k, subject) \in [CommandKeys -> Command]
<1> DEFINE new == [state |-> "pending", attempts |-> 0, lease |-> NULL,
                   due |-> TRUE, subject |-> subject]
<1>1. new \in Command
  BY StoreAssumption DEF Command, Live
<1>2. Inserted(table, k, subject) =
        IF table[k].state # "absent" THEN table ELSE [table EXCEPT ![k] = new]
  BY DEF Inserted
<1> HIDE DEF new
<1>3. QED
  BY <1>1, <1>2

LEMMA TableTypes ==
    ASSUME TablesOK
    PROVE  /\ \A S : Superseded(S) \in [CommandKeys -> Command]
           /\ \A k \in CommandKeys, outcome \in Settled :
                    Finished(k, outcome) \in [CommandKeys -> Command]
<1>1. \A S : Superseded(S) \in [CommandKeys -> Command]
  BY UnleasedType DEF TablesOK, Superseded, Settled
<1>2. \A k \in CommandKeys, outcome \in Settled :
            Finished(k, outcome) \in [CommandKeys -> Command]
  BY UnleasedType DEF TablesOK, Finished
<1>3. QED
  BY <1>1, <1>2

LEMMA RequestTypes ==
    ASSUME NEW request \in Requests
    PROVE  /\ request.key \in Keys
           /\ request.email \in Emails \cup {NULL}
           /\ request.id \in Ids
           /\ request.revision \in Nat
           /\ request.actor \in Subjects \cup {NULL}
           /\ request.token \in Nat
           /\ request.op = "accept" => request.actor \in Subjects
           /\ request.op = "invite" => request.email \in Emails
<1>1. request \in RequestRecord
  BY StoreAssumption
<1>2. /\ request.key \in Keys
      /\ request.email \in Emails \cup {NULL}
      /\ request.id \in Ids
      /\ request.revision \in Nat
      /\ request.actor \in Subjects \cup {NULL}
      /\ request.token \in Nat
  BY <1>1 DEF RequestRecord
<1>3. /\ request.op = "accept" => request.actor # NULL
      /\ request.op = "invite" => request.email # NULL
  BY StoreAssumption
<1>4. QED
  BY <1>2, <1>3

LEMMA CompleteType ==
    ASSUME TablesOK, NEW request \in Requests, NEW id \in Ids,
           NEW row \in Invitation, Complete(request, id, row)
    PROVE  mutations' \in [Keys -> Mutation]
<1> DEFINE new == [status |-> "completed", request |-> request, id |-> id,
                   command |-> NULL, revision |-> row.revision]
<1>1. new \in Mutation
  BY InvitationFields DEF Mutation
<1>2. mutations' = [mutations EXCEPT ![request.key] = new]
  BY DEF Complete
<1> HIDE DEF new
<1>3. QED
  BY <1>1, <1>2 DEF TablesOK

LEMMA LogType ==
    ASSUME TablesOK, NEW id \in Ids, NEW kind \in ActivityKinds,
           NEW row \in Invitation, Log(id, kind, row)
    PROVE  activity' \subseteq Activity
BY InvitationFields DEF TablesOK, Log, Record, Activity
-------------------------------------------------------------------------------
(* Every transaction keeps the tables well typed *)

LEMMA CreateInvitationType ==
    ASSUME TablesOK, NEW request \in Requests, NEW id \in Ids,
           CreateInvitation(request, id)
    PROVE  TablesOK'
<1> DEFINE row == NewInvitation(request.email)
<1>1. row \in Invitation
  BY NewInvitationType, RequestTypes
<1>2. invitations' = [invitations EXCEPT ![id] = row]
  BY DEF CreateInvitation
<1>3. commands' = Inserted(commands, NotifyKey(id, 1), NULL)
  BY DEF CreateInvitation
<1>4. Log(id, "created", row) /\ Complete(request, id, row)
  BY DEF CreateInvitation
<1> HIDE DEF row
<1>5. invitations' \in [Ids -> Invitation]
  BY <1>1, <1>2 DEF TablesOK
<1>6. NotifyKey(id, 1) \in CommandKeys
  BY KeyTypes, StoreAssumption
<1>7. commands' \in [CommandKeys -> Command]
  BY <1>3, <1>6, InsertedType DEF TablesOK
<1>8. activity' \subseteq Activity
  BY <1>1, <1>4, LogType DEF ActivityKinds
<1>9. mutations' \in [Keys -> Mutation]
  BY <1>1, <1>4, CompleteType
<1>10. QED
  BY <1>5, <1>7, <1>8, <1>9 DEF TablesOK

LEMMA ResendInvitationType ==
    ASSUME TablesOK, NEW request \in Requests, NEW derived \in Nat,
           ResendInvitation(request, derived)
    PROVE  TablesOK'
<1> DEFINE id == request.id
           row == Rotated(invitations[id], derived)
<1>1. id \in Ids /\ invitations[id] \in Invitation
  BY RequestTypes DEF TablesOK
<1>2. row \in Invitation
  BY <1>1, RotatedType
<1>3. row.generation = invitations[id].generation + 1
  BY <1>1 DEF Rotated, Invitation
<1>4. invitations' = [invitations EXCEPT ![id] = row]
  BY DEF ResendInvitation
<1>5. commands' = Inserted(Superseded({id}), NotifyKey(id, row.generation), NULL)
  BY DEF ResendInvitation
<1>6. Log(id, "resent", row) /\ Complete(request, id, row)
  BY DEF ResendInvitation
<1>7. invitations[id].generation < MaxGeneration
  BY DEF ResendInvitation
<1>8. row.generation \in 1..MaxGeneration
  BY <1>1, <1>3, <1>7, InvitationFields, StoreAssumption
<1> HIDE DEF row, id
<1>9. invitations' \in [Ids -> Invitation]
  BY <1>1, <1>2, <1>4 DEF TablesOK
<1>10. commands' \in [CommandKeys -> Command]
  BY <1>1, <1>5, <1>8, KeyTypes, TableTypes, InsertedType
<1>11. activity' \subseteq Activity
  BY <1>1, <1>2, <1>6, LogType DEF ActivityKinds
<1>12. mutations' \in [Keys -> Mutation]
  BY <1>1, <1>2, <1>6, CompleteType
<1>13. QED
  BY <1>9, <1>10, <1>11, <1>12 DEF TablesOK

LEMMA RevokeInvitationType ==
    ASSUME TablesOK, NEW request \in Requests, RevokeInvitation(request)
    PROVE  TablesOK'
<1> DEFINE id == request.id
           row == Closed(invitations[id], "revoked")
<1>1. id \in Ids /\ invitations[id] \in Invitation
  BY RequestTypes DEF TablesOK
<1>2. row \in Invitation
  BY <1>1, ClosedType DEF States, Lifecycles
<1>3. invitations' = [invitations EXCEPT ![id] = row]
  BY DEF RevokeInvitation
<1>4. commands' = Inserted(Superseded({id}), LifecycleKey(id, "revoked"), NULL)
  BY DEF RevokeInvitation
<1>5. Log(id, "revoked", row) /\ Complete(request, id, row)
  BY DEF RevokeInvitation
<1> HIDE DEF row, id
<1>6. invitations' \in [Ids -> Invitation]
  BY <1>1, <1>2, <1>3 DEF TablesOK
<1>7. commands' \in [CommandKeys -> Command]
  BY <1>1, <1>4, KeyTypes, TableTypes, InsertedType DEF Lifecycles
<1>8. activity' \subseteq Activity
  BY <1>1, <1>2, <1>5, LogType DEF ActivityKinds
<1>9. mutations' \in [Keys -> Mutation]
  BY <1>1, <1>2, <1>5, CompleteType
<1>10. QED
  BY <1>6, <1>7, <1>8, <1>9 DEF TablesOK

LEMMA ExpireLockedType ==
    ASSUME TablesOK, NEW id \in Ids, NEW table \in [CommandKeys -> Command],
           ExpireLocked(id, table)
    PROVE  /\ Closed(invitations[id], "expired") \in Invitation
           /\ invitations' \in [Ids -> Invitation]
           /\ commands' \in [CommandKeys -> Command]
<1>1. Closed(invitations[id], "expired") \in Invitation
  BY ClosedType DEF TablesOK, States, Lifecycles
<1>2. invitations' \in [Ids -> Invitation]
  BY <1>1 DEF TablesOK, ExpireLocked
<1>3. commands' \in [CommandKeys -> Command]
  BY KeyTypes, InsertedType DEF ExpireLocked, Lifecycles
<1>4. QED
  BY <1>1, <1>2, <1>3

LEMMA BeginAcceptType ==
    ASSUME TablesOK, NEW request \in RequestsOf("accept"), NEW generation \in Nat,
           NEW e \in Executors, BeginAccept(request, generation, e)
    PROVE  TablesOK'
<1> DEFINE id == request.id
           k == MemberKey(id)
           row == Consumed(invitations[id], request.actor)
           inserted == Inserted(commands, k, request.actor)
           leased == Leased(inserted[k], e)
           new == [status |-> "started", request |-> request, id |-> id,
                   command |-> k, revision |-> 0]
<1>1. request \in Requests /\ request.actor \in Subjects /\ request.key \in Keys
  BY RequestTypes DEF RequestsOf
<1>2. id \in Ids /\ invitations[id] \in Invitation
  BY <1>1, RequestTypes DEF TablesOK
<1>3. row \in Invitation
  BY <1>1, <1>2, ConsumedType
<1>4. k \in CommandKeys
  BY <1>2, KeyTypes
<1>5. inserted \in [CommandKeys -> Command]
  BY <1>1, <1>4, InsertedType DEF TablesOK
<1>6. leased \in Command
  BY <1>4, <1>5, LeasedType
<1>7. new \in Mutation
  BY <1>1, <1>2, <1>4 DEF Mutation
<1>8. invitations' = [invitations EXCEPT ![id] = row]
  BY DEF BeginAccept
<1>9. commands' = [inserted EXCEPT ![k] = leased]
  BY DEF BeginAccept
<1>10. Log(id, "acceptance_started", row)
  BY DEF BeginAccept
<1>11. mutations' = [mutations EXCEPT ![request.key] = new]
  BY DEF BeginAccept
<1> HIDE DEF id, k, row, inserted, leased, new
<1>12. invitations' \in [Ids -> Invitation]
  BY <1>2, <1>3, <1>8 DEF TablesOK
<1>13. commands' \in [CommandKeys -> Command]
  BY <1>4, <1>5, <1>6, <1>9
<1>14. activity' \subseteq Activity
  BY <1>2, <1>3, <1>10, LogType DEF ActivityKinds
<1>15. mutations' \in [Keys -> Mutation]
  BY <1>1, <1>7, <1>11 DEF TablesOK
<1>16. QED
  BY <1>12, <1>13, <1>14, <1>15 DEF TablesOK

LEMMA BeginAcceptExpiresType ==
    ASSUME TablesOK, NEW request \in Requests, BeginAcceptExpires(request)
    PROVE  TablesOK'
<1>1. request.id \in Ids
  BY RequestTypes
<1>2. Superseded({request.id}) \in [CommandKeys -> Command]
  BY TableTypes
<1>3. /\ ExpireLocked(request.id, Superseded({request.id}))
      /\ Log(request.id, "expired", Closed(invitations[request.id], "expired"))
      /\ UNCHANGED mutations
  BY DEF BeginAcceptExpires
<1>4. /\ Closed(invitations[request.id], "expired") \in Invitation
      /\ invitations' \in [Ids -> Invitation]
      /\ commands' \in [CommandKeys -> Command]
  BY <1>1, <1>2, <1>3, ExpireLockedType
<1>5. activity' \subseteq Activity
  BY <1>1, <1>3, <1>4, LogType DEF ActivityKinds
<1>6. QED
  BY <1>3, <1>4, <1>5 DEF TablesOK

LEMMA CompleteAcceptType ==
    ASSUME TablesOK, NEW id \in Ids, NEW e \in Executors, CompleteAccept(id, e)
    PROVE  TablesOK'
<1> DEFINE k == MemberKey(id)
           row == AcceptedRow(invitations[id])
<1>1. row \in Invitation
  BY AcceptedRowType DEF TablesOK
<1>2. k \in CommandKeys /\ LifecycleKey(id, "accepted") \in CommandKeys
  BY KeyTypes DEF Lifecycles
<1>3. invitations' = [invitations EXCEPT ![id] = row]
  BY DEF CompleteAccept
<1>4. commands' = Inserted(Finished(k, "completed"), LifecycleKey(id, "accepted"), NULL)
  BY DEF CompleteAccept
<1>5. Log(id, "accepted", row)
  BY DEF CompleteAccept
<1>6. mutations' = [key \in Keys |->
            IF Started(key, k)
            THEN [mutations[key] EXCEPT !.status = "completed",
                                        !.revision = row.revision]
            ELSE mutations[key]]
  BY DEF CompleteAccept
<1>7. row.revision \in Nat
  BY <1>1, InvitationFields
<1> HIDE DEF row, k
<1>8. invitations' \in [Ids -> Invitation]
  BY <1>1, <1>3 DEF TablesOK
<1>9. commands' \in [CommandKeys -> Command]
  BY <1>2, <1>4, TableTypes, InsertedType DEF Settled
<1>10. activity' \subseteq Activity
  BY <1>1, <1>5, LogType DEF ActivityKinds
<1>11. ASSUME NEW m \in Mutation
       PROVE  [m EXCEPT !.status = "completed", !.revision = row.revision]
                    \in Mutation
  BY <1>7 DEF Mutation
<1>12. mutations' \in [Keys -> Mutation]
  BY <1>6, <1>11 DEF TablesOK
<1>13. QED
  BY <1>8, <1>9, <1>10, <1>12 DEF TablesOK

LEMMA ExpireDueType ==
    ASSUME TablesOK, NEW S \in SUBSET Ids, ExpireDue(S)
    PROVE  TablesOK'
<1>1. \A id \in Ids : Closed(invitations[id], "expired") \in Invitation
  BY ClosedType DEF TablesOK, States, Lifecycles
<1>2. invitations' \in [Ids -> Invitation]
  BY <1>1 DEF TablesOK, ExpireDue
<1>3. \A k \in CommandKeys : Inserted(commands, k, NULL) \in [CommandKeys -> Command]
  BY InsertedType DEF TablesOK
<1>4. Superseded(S) \in [CommandKeys -> Command]
  BY TableTypes
<1>5. commands' \in [CommandKeys -> Command]
  BY <1>3, <1>4 DEF ExpireDue
<1>6. \A id \in Ids : Record(id, "expired", Closed(invitations[id], "expired"))
                        \in Activity
  BY <1>1, InvitationFields DEF Record, Activity, ActivityKinds
<1>7. activity' \subseteq Activity
  BY <1>6 DEF ExpireDue, TablesOK
<1>8. QED
  BY <1>2, <1>5, <1>7 DEF TablesOK, ExpireDue

LEMMA ClaimDueCommandsType ==
    ASSUME TablesOK, NEW S \in SUBSET CommandKeys, NEW e \in Executors,
           ClaimDueCommands(S, e)
    PROVE  TablesOK'
BY LeasedType DEF TablesOK, ClaimDueCommands

LEMMA DeliveryType ==
    ASSUME TablesOK, NEW k \in CommandKeys, NEW outcome \in DeliveryStates
    PROVE  Delivery(k, outcome) \in [Ids -> Invitation]
<1>1. k.id \in Ids /\ invitations[k.id] \in Invitation
  BY KeyShape DEF TablesOK
<1>2. [invitations[k.id] EXCEPT !.delivery = outcome] \in Invitation
  BY <1>1, InvitationUpdates
<1>3. QED
  BY <1>1, <1>2 DEF TablesOK, Delivery

\* Settling, failing, rescheduling or superseding a leased command.
LEMMA SettleType ==
    ASSUME TablesOK, NEW k \in CommandKeys, NEW e \in Executors,
           \/ CompleteNotification(k, e)
           \/ CompleteLifecycle(k, e)
           \/ RetryCommand(k, e)
           \/ SupersedeCommand(k, e)
           \/ FailNotification(k, e)
           \/ FailLifecycle(k, e)
    PROVE  TablesOK'
<1>1. \A outcome \in Settled : Finished(k, outcome) \in [CommandKeys -> Command]
  BY TableTypes
<1>2. Unleased(commands[k], "pending") \in Command
  BY UnleasedType DEF TablesOK
<1>3. \A outcome \in DeliveryStates : Delivery(k, outcome) \in [Ids -> Invitation]
  BY DeliveryType
<1>4. CASE CompleteNotification(k, e)
  BY <1>1, <1>3, <1>4 DEF TablesOK, CompleteNotification, Settled, DeliveryStates
<1>5. CASE CompleteLifecycle(k, e)
  BY <1>1, <1>5 DEF TablesOK, CompleteLifecycle, Settled
<1>6. CASE RetryCommand(k, e)
  BY <1>2, <1>6 DEF TablesOK, RetryCommand
<1>7. CASE SupersedeCommand(k, e)
  BY <1>1, <1>7 DEF TablesOK, SupersedeCommand, Settled
<1>8. CASE FailNotification(k, e)
  BY <1>1, <1>3, <1>8 DEF TablesOK, FailNotification, Settled, DeliveryStates
<1>9. CASE FailLifecycle(k, e)
  BY <1>1, <1>9 DEF TablesOK, FailLifecycle, Settled
<1>10. QED
  BY <1>4, <1>5, <1>6, <1>7, <1>8, <1>9

LEMMA FailAcceptanceType ==
    ASSUME TablesOK, NEW id \in Ids, NEW e \in Executors, FailAcceptance(id, e)
    PROVE  TablesOK'
<1> DEFINE k == MemberKey(id)
           table == [Superseded({id}) EXCEPT ![k] = Finished(k, "failed")[k]]
<1>1. k \in CommandKeys
  BY KeyTypes
<1>2. Finished(k, "failed") \in [CommandKeys -> Command]
  BY <1>1, TableTypes DEF Settled
<1>3. table \in [CommandKeys -> Command]
  BY <1>1, <1>2, TableTypes
<1>4. Vacant \in Mutation
  BY DEF Vacant, Mutation
<1>5. Released(k) \in [Keys -> Mutation]
  BY <1>4 DEF Released, TablesOK
<1>6. CASE MemberMatches(id)
  <2>1. /\ ExpireLocked(id, table)
        /\ Log(id, "acceptance_failed", Closed(invitations[id], "expired"))
        /\ mutations' = Released(k)
    BY <1>6 DEF FailAcceptance
  <2> HIDE DEF table, k
  <2>2. /\ Closed(invitations[id], "expired") \in Invitation
        /\ invitations' \in [Ids -> Invitation]
        /\ commands' \in [CommandKeys -> Command]
    BY <1>3, <2>1, ExpireLockedType
  <2>3. activity' \subseteq Activity
    BY <2>1, <2>2, LogType DEF ActivityKinds
  <2>4. QED
    BY <1>5, <2>1, <2>2, <2>3 DEF TablesOK
<1>7. CASE ~MemberMatches(id)
  BY <1>2, <1>7 DEF FailAcceptance, TablesOK
<1>8. QED
  BY <1>6, <1>7

LEMMA ClockType ==
    ASSUME TablesOK,
           \/ \E id \in Ids : TokenComesDue(id)
           \/ \E k \in CommandKeys : CommandComesDue(k)
    PROVE  TablesOK'
<1>1. ASSUME NEW id \in Ids, TokenComesDue(id)
      PROVE  TablesOK'
  BY <1>1, InvitationUpdates DEF TablesOK, TokenComesDue
<1>2. ASSUME NEW k \in CommandKeys, CommandComesDue(k)
      PROVE  TablesOK'
  BY <1>2, CommandUpdates DEF TablesOK, CommandComesDue
<1>3. QED
  BY <1>1, <1>2
-------------------------------------------------------------------------------
(* Type correctness of the service *)

\* What a step of the service does to the tables: nothing, the clock, or one
\* transaction.
Transaction ==
    \/ UNCHANGED tables
    \/ \E request \in RequestsOf("invite"), id \in Ids :
            CreateInvitation(request, id)
    \/ \E request \in RequestsOf("resend"), derived \in Nat \ {0} :
            ResendInvitation(request, derived)
    \/ \E request \in RequestsOf("revoke") : RevokeInvitation(request)
    \/ \E c \in Clients : /\ call[c].request \in RequestsOf("accept")
                         /\ call[c].seen \in Nat
                         /\ BeginAccept(call[c].request, call[c].seen, c)
    \/ \E request \in RequestsOf("accept") : BeginAcceptExpires(request)
    \/ \E S \in SUBSET DueInvitations : ExpireDue(S)
    \/ \E S \in SUBSET DueCommands, e \in Executors : ClaimDueCommands(S, e)
    \/ \E k \in CommandKeys, e \in Executors :
            \/ /\ k.kind = "add_member" /\ Settles(e, k, "ok")
               /\ CompleteAccept(k.id, e)
            \/ /\ k.kind = "add_member"
               /\ Settles(e, k, "refused") \/ Settles(e, k, "unknown")
               /\ FailAcceptance(k.id, e)
            \/ k.kind = "notify_invitation" /\ CompleteNotification(k, e)
            \/ k.kind = "notify_lifecycle" /\ CompleteLifecycle(k, e)
            \/ FailNotification(k, e)
            \/ FailLifecycle(k, e)
            \/ RetryCommand(k, e)
            \/ ~CommandMatches(k) /\ SupersedeCommand(k, e)
    \/ \E id \in Ids : TokenComesDue(id)
    \/ \E k \in CommandKeys : CommandComesDue(k)

\* A call that has read holds a request of its operation, and an executor at work
\* holds a command.
LEMMA RuntimeTypes ==
    ASSUME RuntimeOK
    PROVE  /\ \A c \in Clients : call[c].pc = "resend" =>
                    call[c].request \in RequestsOf("resend") /\ call[c].seen \in Nat
           /\ \A c \in Clients : call[c].pc \in {"lookup", "begin"} =>
                    call[c].request \in RequestsOf("accept") /\ call[c].seen \in Nat
           /\ \A e \in Executors : task[e].pc # "idle" =>
                    task[e].key \in CommandKeys /\ task[e].revision \in Nat
           /\ \A e \in Executors : batch[e] \subseteq CommandKeys
<1>1. \A c \in Clients : call[c].pc = "resend" =>
            call[c].request \in RequestsOf("resend") /\ call[c].seen \in Nat
  BY DEF RuntimeOK, Call, NoCall
<1>2. \A c \in Clients : call[c].pc \in {"lookup", "begin"} =>
            call[c].request \in RequestsOf("accept") /\ call[c].seen \in Nat
  BY DEF RuntimeOK, Call, NoCall
<1>3. \A e \in Executors : task[e].pc # "idle" =>
            task[e].key \in CommandKeys /\ task[e].revision \in Nat
  BY DEF RuntimeOK, Task, NoTask
<1>4. \A e \in Executors : batch[e] \subseteq CommandKeys
  BY DEF RuntimeOK
<1>5. QED
  BY <1>1, <1>2, <1>3, <1>4

LEMMA ClientTransaction ==
    ASSUME RuntimeOK, NEW c \in Clients, ClientStep(c)
    PROVE  Transaction
<1>1. ASSUME NEW request \in Requests, Invite(c, request)
      PROVE  Transaction
  BY <1>1 DEF Invite, RequestsOf, Transaction
<1>2. ASSUME NEW request \in Requests,
             ResendRead(c, request) \/ AcceptLookup(c, request)
      PROVE  Transaction
  BY <1>2 DEF ResendRead, AcceptLookup, tables, Transaction
<1>3. ASSUME NEW request \in Requests, Revoke(c, request)
      PROVE  Transaction
  BY <1>3 DEF Revoke, RequestsOf, Transaction
<1>4. CASE ResendCommit(c)
  <2>1. call[c].request \in RequestsOf("resend") /\ call[c].seen + 1 \in Nat \ {0}
    BY <1>4, RuntimeTypes DEF ResendCommit
  <2>2. ResendInvitation(call[c].request, call[c].seen + 1)
    BY <1>4 DEF ResendCommit
  <2>3. QED
    BY <2>1, <2>2 DEF Transaction
<1>5. CASE AcceptRead(c) \/ CallReturns(c)
  BY <1>5 DEF AcceptRead, CallReturns, tables, Transaction
<1>6. CASE AcceptBegin(c)
  <2>1. call[c].request \in RequestsOf("accept") /\ call[c].seen \in Nat
    BY <1>6, RuntimeTypes DEF AcceptBegin
  <2>2. BeginAccept(call[c].request, call[c].seen, c)
    BY <1>6 DEF AcceptBegin
  <2>3. QED
    BY <2>1, <2>2 DEF Transaction
<1>7. CASE AcceptExpires(c)
  <2>1. call[c].request \in RequestsOf("accept")
    BY <1>7, RuntimeTypes DEF AcceptExpires
  <2>2. BeginAcceptExpires(call[c].request)
    BY <1>7 DEF AcceptExpires
  <2>3. QED
    BY <2>1, <2>2 DEF Transaction
<1>8. QED
  BY <1>1, <1>2, <1>3, <1>4, <1>5, <1>6, <1>7 DEF ClientStep

LEMMA CommandTransaction ==
    ASSUME RuntimeOK, NEW e \in Executors, CommandStep(e)
    PROVE  Transaction
<1>1. ASSUME NEW answer \in Carried,
             \/ MembershipAdmits(e, answer)
             \/ NotificationQueues(e, answer)
             \/ LifecycleIsObserved(e, answer)
      PROVE  Transaction
  BY <1>1 DEF MembershipAdmits, NotificationQueues, LifecycleIsObserved, Answer,
              tables, Transaction
<1>2. CASE \/ MembershipRefuses(e)
           \/ NotificationRefused(e)
           \/ AnswersUnknown(e)
           \/ Unavailable(e)
  BY <1>2 DEF MembershipRefuses, NotificationRefused, AnswersUnknown, Unavailable,
              Answer, tables, Transaction
<1>3. ASSUME NEW k \in CommandKeys, Accepts(e, k)
      PROVE  Transaction
  BY <1>3 DEF Accepts, Transaction
<1>4. ASSUME NEW k \in CommandKeys, AcceptReplays(e, k) \/ Aborts(e, k)
      PROVE  Transaction
  BY <1>4 DEF AcceptReplays, Aborts, tables, Transaction
<1>5. ASSUME NEW k \in CommandKeys, Delivers(e, k)
      PROVE  Transaction
  BY <1>5 DEF Delivers, Transaction
<1>6. ASSUME NEW k \in CommandKeys, Announces(e, k)
      PROVE  Transaction
  BY <1>6 DEF Announces, Transaction
<1>7. ASSUME NEW k \in CommandKeys, Fails(e, k)
      PROVE  Transaction
  BY <1>7 DEF Fails, FailCommand, Transaction
<1>8. ASSUME NEW k \in CommandKeys, Retries(e, k)
      PROVE  Transaction
  BY <1>8 DEF Retries, Transaction
<1>9. QED
  BY <1>1, <1>2, <1>3, <1>4, <1>5, <1>6, <1>7, <1>8 DEF CommandStep

LEMMA WorkerTransaction ==
    ASSUME RuntimeOK, NEW w \in Workers, WorkerStep(w)
    PROVE  Transaction
<1>0. w \in Executors /\ batch[w] \subseteq CommandKeys
  BY ServiceAssumption, RuntimeTypes
<1>1. ASSUME NEW S \in SUBSET DueCommands, Claim(w, S)
      PROVE  Transaction
  BY <1>0, <1>1 DEF Claim, Transaction
<1>2. ASSUME NEW k \in batch[w], Execute(w, k) \/ DiscardAborts(w, k)
      PROVE  Transaction
  BY <1>2 DEF Execute, DiscardAborts, tables, Transaction
<1>3. ASSUME NEW k \in batch[w], Discard(w, k)
      PROVE  Transaction
  BY <1>0, <1>3 DEF Discard, Transaction
<1>4. QED
  BY <1>1, <1>2, <1>3 DEF WorkerStep

\* Every step of the service is one transaction, the clock, or leaves the tables
\* alone.
THEOREM StepsAreTransactions ==
    ASSUME RuntimeOK, [Next]_vars
    PROVE  Transaction
<1>1. ASSUME NEW c \in Clients, ClientStep(c)
      PROVE  Transaction
  BY <1>1, ClientTransaction
<1>2. ASSUME NEW e \in Executors, CommandStep(e)
      PROVE  Transaction
  BY <1>2, CommandTransaction
<1>3. ASSUME NEW e \in Executors, Crash(e)
      PROVE  Transaction
  BY <1>3 DEF Crash, tables, Transaction
<1>4. ASSUME NEW w \in Workers, WorkerStep(w)
      PROVE  Transaction
  BY <1>4, WorkerTransaction
<1>5. ASSUME NEW S \in SUBSET DueInvitations, ExpireDueSweep(S)
      PROVE  Transaction
  BY <1>5 DEF ExpireDueSweep, Transaction
<1>6. ASSUME NEW id \in Ids, TokenDue(id)
      PROVE  Transaction
  BY <1>6 DEF TokenDue, Transaction
<1>7. ASSUME NEW k \in CommandKeys, CommandDue(k)
      PROVE  Transaction
  BY <1>7 DEF CommandDue, Transaction
<1>8. CASE UNCHANGED vars
  BY <1>8 DEF vars, tables, Transaction
<1>9. QED
  BY <1>1, <1>2, <1>3, <1>4, <1>5, <1>6, <1>7, <1>8 DEF Next

LEMMA TransactionType ==
    ASSUME TablesOK, Transaction
    PROVE  TablesOK'
<1>1. ASSUME UNCHANGED tables
      PROVE  TablesOK'
  BY <1>1 DEF tables, TablesOK
<1>2. ASSUME NEW request \in RequestsOf("invite"), NEW id \in Ids,
             CreateInvitation(request, id)
      PROVE  TablesOK'
  BY <1>2, CreateInvitationType DEF RequestsOf
<1>3. ASSUME NEW request \in RequestsOf("resend"), NEW derived \in Nat,
             ResendInvitation(request, derived)
      PROVE  TablesOK'
  BY <1>3, ResendInvitationType DEF RequestsOf
<1>4. ASSUME NEW request \in RequestsOf("revoke"), RevokeInvitation(request)
      PROVE  TablesOK'
  BY <1>4, RevokeInvitationType DEF RequestsOf
<1>5. ASSUME NEW c \in Clients, call[c].request \in RequestsOf("accept"),
             call[c].seen \in Nat, BeginAccept(call[c].request, call[c].seen, c)
      PROVE  TablesOK'
  BY <1>5, ServiceAssumption, BeginAcceptType
<1>6. ASSUME NEW request \in RequestsOf("accept"), BeginAcceptExpires(request)
      PROVE  TablesOK'
  BY <1>6, BeginAcceptExpiresType DEF RequestsOf
<1>7. ASSUME NEW S \in SUBSET DueInvitations, ExpireDue(S)
      PROVE  TablesOK'
  BY <1>7, ExpireDueType DEF DueInvitations
<1>8. ASSUME NEW S \in SUBSET DueCommands, NEW e \in Executors,
             ClaimDueCommands(S, e)
      PROVE  TablesOK'
  BY <1>8, ClaimDueCommandsType DEF DueCommands
<1>9. ASSUME NEW k \in CommandKeys, NEW e \in Executors,
             CompleteAccept(k.id, e) \/ FailAcceptance(k.id, e)
      PROVE  TablesOK'
  BY <1>9, KeyShape, CompleteAcceptType, FailAcceptanceType
<1>10. ASSUME NEW k \in CommandKeys, NEW e \in Executors,
              \/ CompleteNotification(k, e)
              \/ CompleteLifecycle(k, e)
              \/ FailNotification(k, e)
              \/ FailLifecycle(k, e)
              \/ RetryCommand(k, e)
              \/ SupersedeCommand(k, e)
       PROVE  TablesOK'
  BY <1>10, SettleType
<1>11. ASSUME \/ \E id \in Ids : TokenComesDue(id)
              \/ \E k \in CommandKeys : CommandComesDue(k)
       PROVE  TablesOK'
  BY <1>11, ClockType
<1>12. QED
  BY <1>1, <1>2, <1>3, <1>4, <1>5, <1>6, <1>7, <1>8, <1>9, <1>10, <1>11
     DEF Transaction

LEMMA ClientRuntime ==
    ASSUME TypeOK, NEW c \in Clients, ClientStep(c)
    PROVE  RuntimeOK' /\ ProvidersOK'
<1> USE DEF TypeOK, RuntimeOK, ProvidersOK
<1>0. NoCall \in Call /\ NoTask \in Task /\ c \in Executors
  BY ServiceAssumption DEF Call, Task
<1>1. ASSUME NEW request \in Requests, Invite(c, request) \/ Revoke(c, request)
      PROVE  RuntimeOK' /\ ProvidersOK'
  BY <1>1 DEF Invite, Revoke, runtime, providers
<1>2. ASSUME NEW request \in Requests, ResendRead(c, request)
      PROVE  RuntimeOK' /\ ProvidersOK'
  <2>1. invitations[request.id].generation \in Nat
    BY RequestTypes, InvitationFields DEF TablesOK
  <2>2. [pc |-> "resend", request |-> request,
         seen |-> invitations[request.id].generation] \in Call
    BY <1>2, <2>1 DEF ResendRead, Call, RequestsOf
  <2>3. QED
    BY <1>2, <2>2 DEF ResendRead, providers
<1>3. ASSUME NEW request \in Requests, AcceptLookup(c, request)
      PROVE  RuntimeOK' /\ ProvidersOK'
  <2>1. [pc |-> "lookup", request |-> request, seen |-> 0] \in Call
    BY <1>3 DEF AcceptLookup, Call, RequestsOf
  <2>2. QED
    BY <1>3, <2>1 DEF AcceptLookup, providers
<1>4. CASE ResendCommit(c) \/ AcceptExpires(c) \/ CallReturns(c)
  BY <1>0, <1>4 DEF ResendCommit, AcceptExpires, CallReturns, providers
<1>5. CASE AcceptRead(c)
  <2>1. call[c].pc = "lookup" /\ call[c].request \in RequestsOf("accept")
    BY <1>5, RuntimeTypes DEF AcceptRead
  <2>2. invitations[call[c].request.id].generation \in Nat
    BY <2>1, RequestTypes, InvitationFields DEF TablesOK, RequestsOf
  <2> DEFINE Reading == [pc: {"lookup", "begin"}, request: RequestsOf("accept"),
                         seen: Nat]
             r1 == [call[c] EXCEPT !.pc = "begin"]
             r2 == [r1 EXCEPT !.seen = invitations[call[c].request.id].generation]
  <2>3. call[c] \in Reading
    BY <2>1 DEF Call, NoCall
  <2>4. r1 \in Reading
    BY <2>3
  <2> HIDE DEF r1
  <2>5. r2 \in Reading
    BY <2>2, <2>4
  <2>6. r2 \in Call
    BY <2>5 DEF Call
  <2>7. call' = [call EXCEPT ![c] = r2]
    BY <1>5 DEF AcceptRead, r1
  <2> HIDE DEF r2
  <2>8. QED
    BY <1>5, <2>6, <2>7 DEF AcceptRead, providers
<1>6. CASE AcceptBegin(c)
  <2>1. MemberKey(call[c].request.id) \in CommandKeys
    BY <1>6, RuntimeTypes, RequestTypes, KeyTypes DEF AcceptBegin, RequestsOf
  <2>2. [pc |-> "call", key |-> MemberKey(call[c].request.id), revision |-> 0,
         token |-> 0, answer |-> "none"] \in Task
    BY <2>1 DEF Task, Answers
  <2>3. QED
    BY <1>0, <1>6, <2>2 DEF AcceptBegin, providers
<1>7. QED
  BY <1>1, <1>2, <1>3, <1>4, <1>5, <1>6 DEF ClientStep

\* An answer keeps the command of the task.
LEMMA AnswerType ==
    ASSUME RuntimeOK, NEW e \in Executors, task[e].pc = "call",
           NEW answer \in Answers, Answer(e, answer)
    PROVE  RuntimeOK'
<1> DEFINE t1 == [task[e] EXCEPT !.pc = "settle"]
           t2 == [t1 EXCEPT !.answer = answer]
           Working == [pc: {"call", "settle"}, key: CommandKeys, revision: Nat,
                       token: Nat, answer: Answers]
<1>1. task[e] \in Working
  BY DEF RuntimeOK, Task, NoTask
<1>2. t1 \in Working
  BY <1>1
<1> HIDE DEF t1
<1>3. t2 \in Working
  BY <1>2
<1>4. t2 \in Task
  BY <1>3 DEF Task
<1>5. task' = [task EXCEPT ![e] = t2]
  BY DEF Answer, t1
<1> HIDE DEF t2
<1>6. QED
  BY <1>4, <1>5 DEF Answer, RuntimeOK

LEMMA CommandRuntime ==
    ASSUME TypeOK, NEW e \in Executors, CommandStep(e)
    PROVE  RuntimeOK' /\ ProvidersOK'
<1> USE DEF TypeOK
<1>0. NoTask \in Task
  BY DEF Task
<1>1. task[e].pc = "call" => /\ task[e].key \in CommandKeys
                             /\ task[e].revision \in Nat
  BY RuntimeTypes
<1>2. Carried \subseteq Answers /\ {"refused", "unknown", "unavailable"} \subseteq Answers
  BY DEF Carried, Answers
<1>3. ASSUME NEW answer \in Carried, MembershipAdmits(e, answer)
      PROVE  RuntimeOK' /\ ProvidersOK'
  <2>1. RuntimeOK'
    BY <1>2, <1>3, AnswerType DEF MembershipAdmits, Calls
  <2>2. commands[task[e].key].subject \in Subjects \cup {NULL}
    BY <1>1, <1>3 DEF MembershipAdmits, Calls, TablesOK, Command
  <2>3. QED
    BY <1>3, <2>1, <2>2 DEF MembershipAdmits, ProvidersOK
<1>4. ASSUME NEW answer \in Carried, NotificationQueues(e, answer)
      PROVE  RuntimeOK' /\ ProvidersOK'
  <2>1. RuntimeOK'
    BY <1>2, <1>4, AnswerType DEF NotificationQueues, Calls
  <2>2. /\ task[e].key.id \in Ids /\ task[e].key.generation \in Nat
        /\ task[e].revision \in Nat
    BY <1>1, <1>4, KeyShape, StoreAssumption DEF NotificationQueues, Calls
  <2>3. QED
    BY <1>4, <2>1, <2>2 DEF NotificationQueues, ProvidersOK, Link
<1>5. ASSUME NEW answer \in Carried, LifecycleIsObserved(e, answer)
      PROVE  RuntimeOK' /\ ProvidersOK'
  <2>1. RuntimeOK'
    BY <1>2, <1>5, AnswerType DEF LifecycleIsObserved, Calls
  <2>2. task[e].key.id \in Ids /\ task[e].key.lifecycle \in Lifecycles
    BY <1>1, <1>5, KeyShape DEF LifecycleIsObserved, Calls
  <2>3. QED
    BY <1>5, <2>1, <2>2 DEF LifecycleIsObserved, ProvidersOK, Observation
<1>6. CASE MembershipRefuses(e)
  <2>1. RuntimeOK'
    BY <1>2, <1>6, AnswerType DEF MembershipRefuses, Calls
  <2>2. task[e].key.id \in Ids
    BY <1>1, <1>6, KeyShape DEF MembershipRefuses, Calls
  <2>3. QED
    BY <1>6, <2>1, <2>2 DEF MembershipRefuses, ProvidersOK
<1>7. CASE NotificationRefused(e) \/ AnswersUnknown(e) \/ Unavailable(e)
  <2>1. RuntimeOK'
    BY <1>2, <1>7, AnswerType
       DEF NotificationRefused, AnswersUnknown, Unavailable, Calls
  <2>2. QED
    BY <1>7, <2>1
       DEF NotificationRefused, AnswersUnknown, Unavailable, providers, ProvidersOK
<1>8. ASSUME NEW k \in CommandKeys,
             \/ Accepts(e, k)
             \/ AcceptReplays(e, k)
             \/ Delivers(e, k)
             \/ Announces(e, k)
             \/ Fails(e, k)
             \/ Retries(e, k)
      PROVE  RuntimeOK' /\ ProvidersOK'
  <2>1. EndTask(e)
    BY <1>8 DEF Accepts, AcceptReplays, Delivers, Announces, Fails, Retries
  <2>2. QED
    BY <1>0, <2>1 DEF EndTask, RuntimeOK, providers, ProvidersOK
<1>9. ASSUME NEW k \in CommandKeys, Aborts(e, k)
      PROVE  RuntimeOK' /\ ProvidersOK'
  BY <1>0, <1>9 DEF Aborts, RuntimeOK, providers, ProvidersOK
<1>10. QED
  BY <1>3, <1>4, <1>5, <1>6, <1>7, <1>8, <1>9 DEF CommandStep

LEMMA WorkerRuntime ==
    ASSUME TypeOK, NEW w \in Workers, WorkerStep(w)
    PROVE  RuntimeOK' /\ ProvidersOK'
<1> USE DEF TypeOK, RuntimeOK, ProvidersOK
<1>0. w \in Executors
  BY ServiceAssumption
<1>1. ASSUME NEW S \in SUBSET DueCommands, Claim(w, S)
      PROVE  RuntimeOK' /\ ProvidersOK'
  BY <1>0, <1>1 DEF Claim, DueCommands, providers
<1>2. ASSUME NEW k \in batch[w], Execute(w, k)
      PROVE  RuntimeOK' /\ ProvidersOK'
  <2>1. k \in CommandKeys
    BY <1>0
  <2>2. invitations[k.id].revision \in Nat /\ invitations[k.id].token \in Nat
    BY <2>1, KeyShape, InvitationFields DEF TablesOK
  <2>3. [pc |-> "call", key |-> k, answer |-> "none",
         revision |-> invitations[k.id].revision,
         token |-> invitations[k.id].token] \in Task
    BY <2>1, <2>2 DEF Task, Answers
  <2>4. QED
    BY <1>0, <1>2, <2>3 DEF Execute, providers
<1>3. ASSUME NEW k \in batch[w], Discard(w, k) \/ DiscardAborts(w, k)
      PROVE  RuntimeOK' /\ ProvidersOK'
  BY <1>0, <1>3 DEF Discard, DiscardAborts, providers
<1>4. QED
  BY <1>1, <1>2, <1>3 DEF WorkerStep

LEMMA TypeStep ==
    ASSUME TypeOK, [Next]_vars
    PROVE  TypeOK'
<1>1. TablesOK'
  BY StepsAreTransactions, TransactionType DEF TypeOK
<1>2. RuntimeOK' /\ ProvidersOK'
  <2>1. ASSUME NEW c \in Clients, ClientStep(c)
        PROVE  RuntimeOK' /\ ProvidersOK'
    BY <2>1, ClientRuntime
  <2>2. ASSUME NEW e \in Executors, CommandStep(e)
        PROVE  RuntimeOK' /\ ProvidersOK'
    BY <2>2, CommandRuntime
  <2>3. ASSUME NEW e \in Executors, Crash(e)
        PROVE  RuntimeOK' /\ ProvidersOK'
    BY <2>3 DEF Crash, TypeOK, RuntimeOK, ProvidersOK, Task, providers
  <2>4. ASSUME NEW w \in Workers, WorkerStep(w)
        PROVE  RuntimeOK' /\ ProvidersOK'
    BY <2>4, WorkerRuntime
  <2>5. CASE UNCHANGED <<runtime, providers>>
    BY <2>5 DEF TypeOK, RuntimeOK, ProvidersOK, runtime, providers
  <2>6. QED
    BY <2>1, <2>2, <2>3, <2>4, <2>5
       DEF Next, ExpireDueSweep, TokenDue, CommandDue, vars
<1>3. QED
  BY <1>1, <1>2 DEF TypeOK

LEMMA TypeInit ==
    ASSUME Init
    PROVE  TypeOK
<1>1. TablesOK
  <2>1. NoInvitation \in Invitation
    BY DEF NoInvitation, Invitation, States, DeliveryStates
  <2>2. 0 \in 0..MaxCommandAttempts
    BY StoreAssumption
  <2>3. NoCommand \in Command
    BY <2>2 DEF NoCommand, Command
  <2>4. Vacant \in Mutation
    BY DEF Vacant, Mutation
  <2>5. QED
    BY <2>1, <2>3, <2>4 DEF Init, TablesInit, TablesOK
<1>2. RuntimeOK /\ ProvidersOK
  BY DEF Init, RuntimeOK, ProvidersOK, Call, Task
<1>3. QED
  BY <1>1, <1>2 DEF TypeOK

\* Every reachable row satisfies the schema's column constraints, and executors
\* and calls only hold what they were given.
THEOREM TypeCorrect == Spec => []TypeOK
<1>1. Init => TypeOK
  BY TypeInit
<1>2. TypeOK /\ [Next]_vars => TypeOK'
  BY TypeStep
<1>3. QED
  BY <1>1, <1>2, PTL DEF Spec
-------------------------------------------------------------------------------
(* The membership command mirrors its invitation *)

\* What MembershipMirrorsInvitation says of one row and its membership command.
Mirror(row, command) ==
    /\ command.subject = row.subject
    /\ command.state # "superseded"
    /\ command.state = "absent" <=> row.subject = NULL
    /\ command.state \in Live <=> row.subject # NULL /\ row.state = "pending"
    /\ command.state = "completed" <=> row.state = "accepted"
    /\ command.state = "failed" <=> row.subject # NULL /\ row.state = "expired"

LEMMA MirrorPart ==
    MembershipMirrorsInvitation <=>
        \A id \in Ids : Mirror(invitations[id], commands[MemberKey(id)])
BY DEF MembershipMirrorsInvitation, Mirror

\* The part of a row and of its command that the mirror is about.
SameRow(row, new) == new.state = row.state /\ new.subject = row.subject
SameCommand(command, new) ==
    /\ new.subject = command.subject
    /\ new.state = command.state \/ {command.state, new.state} \subseteq Live

LEMMA SameMirror ==
    ASSUME NEW row, NEW command, NEW row2, NEW command2, Mirror(row, command),
           SameRow(row, row2), SameCommand(command, command2)
    PROVE  Mirror(row2, command2)
BY DEF Mirror, SameRow, SameCommand, Live

\* An invitation without a subject has no membership command, and may end as
\* anything but accepted.
LEMMA UnclaimedMirror ==
    ASSUME NEW row, NEW command, Mirror(row, command), row.subject = NULL,
           NEW row2, row2.subject = NULL, row2.state # "accepted"
    PROVE  Mirror(row2, command)
BY DEF Mirror, Live

\* An invitation that does not exist yet has no subject.
LEMMA NoneIsUnclaimed ==
    ASSUME NEW row, NEW command \in Command, Mirror(row, command),
           row.state = "none"
    PROVE  row.subject = NULL
<1>1. command.state \in {"absent"} \cup Live \cup Settled
  BY DEF Command
<1>2. QED
  BY <1>1 DEF Mirror, Live, Settled

\* What the rows written by the transactions keep of the row they replace.
LEMMA RowParts ==
    ASSUME NEW row \in Invitation
    PROVE  /\ \A state : /\ Closed(row, state).state = state
                         /\ Closed(row, state).subject = row.subject
           /\ \A derived : SameRow(row, Rotated(row, derived))
           /\ \A subject : /\ Consumed(row, subject).state = row.state
                           /\ Consumed(row, subject).subject = subject
           /\ AcceptedRow(row).state = "accepted"
           /\ AcceptedRow(row).subject = row.subject
           /\ \A due : SameRow(row, [row EXCEPT !.due = due])
           /\ \A outcome : SameRow(row, [row EXCEPT !.delivery = outcome])
BY DEF Invitation, Closed, Rotated, Consumed, AcceptedRow, SameRow

LEMMA CommandParts ==
    ASSUME NEW row \in Command
    PROVE  /\ \A state : /\ Unleased(row, state).state = state
                         /\ Unleased(row, state).subject = row.subject
           /\ \A e : /\ Leased(row, e).state = "in_flight"
                     /\ Leased(row, e).subject = row.subject
           /\ \A due : SameCommand(row, [row EXCEPT !.due = due])
BY DEF Command, Unleased, Leased, SameCommand

\* Superseding notifications, and inserting another command, leave the membership
\* commands alone.
LEMMA MembersKept ==
    ASSUME NEW id \in Ids, NEW table \in [CommandKeys -> Command],
           NEW k \in CommandKeys, k # MemberKey(id)
    PROVE  /\ \A S : Superseded(S)[MemberKey(id)] = commands[MemberKey(id)]
           /\ \A subject : Inserted(table, k, subject)[MemberKey(id)] =
                                table[MemberKey(id)]
<1>1. MemberKey(id) \in CommandKeys
  BY KeyTypes
<1>2. \A S : Superseded(S)[MemberKey(id)] = commands[MemberKey(id)]
  BY <1>1, KeysDiffer DEF Superseded
<1>3. \A subject : Inserted(table, k, subject)[MemberKey(id)] =
                        table[MemberKey(id)]
  BY <1>1 DEF Inserted
<1>4. QED
  BY <1>2, <1>3
-------------------------------------------------------------------------------
(* Every transaction keeps the mirror *)

\* Every invitation and its membership command keep what the mirror is about.
Kept(id) ==
    /\ SameRow(invitations[id], invitations'[id])
    /\ SameCommand(commands[MemberKey(id)], commands'[MemberKey(id)])

LEMMA KeptMirror ==
    ASSUME MembershipMirrorsInvitation, \A id \in Ids : Kept(id)
    PROVE  MembershipMirrorsInvitation'
<1>1. \A id \in Ids : Mirror(invitations[id], commands[MemberKey(id)])
  BY MirrorPart
<1>2. \A id \in Ids : Mirror(invitations'[id], commands'[MemberKey(id)])
  BY <1>1, SameMirror DEF Kept
<1>3. QED
  BY <1>2 DEF MembershipMirrorsInvitation, Mirror

\* The transactions that write one invitation: the mirror of that invitation is
\* all there is to show.
LEMMA OneMirror ==
    ASSUME MembershipMirrorsInvitation, NEW id \in Ids,
           \A other \in Ids \ {id} : Kept(other),
           Mirror(invitations'[id], commands'[MemberKey(id)])
    PROVE  MembershipMirrorsInvitation'
<1>1. \A j \in Ids : Mirror(invitations[j], commands[MemberKey(j)])
  BY MirrorPart
<1>2. \A j \in Ids : Mirror(invitations'[j], commands'[MemberKey(j)])
  BY <1>1, SameMirror DEF Kept
<1>3. QED
  BY <1>2 DEF MembershipMirrorsInvitation, Mirror

\* Row id is replaced and the membership commands are left alone.
LEMMA RowReplaced ==
    ASSUME TablesOK, MembershipMirrorsInvitation, NEW id \in Ids, NEW row,
           invitations' = [invitations EXCEPT ![id] = row],
           \A j \in Ids : commands'[MemberKey(j)] = commands[MemberKey(j)],
           \/ SameRow(invitations[id], row)
           \/ /\ invitations[id].subject = NULL
              /\ row.subject = NULL
              /\ row.state # "accepted"
    PROVE  MembershipMirrorsInvitation'
<1>1. invitations'[id] = row
  BY DEF TablesOK
<1>2. \A j \in Ids \ {id} : invitations'[j] = invitations[j]
  BY DEF TablesOK
<1>3. \A other \in Ids \ {id} : Kept(other)
  BY <1>2 DEF Kept, SameRow, SameCommand
<1>4. Mirror(invitations[id], commands[MemberKey(id)])
  BY MirrorPart
<1>5. Mirror(row, commands[MemberKey(id)])
  <2>1. CASE SameRow(invitations[id], row)
    BY <1>4, <2>1, SameMirror DEF SameCommand
  <2>2. CASE /\ invitations[id].subject = NULL
             /\ row.subject = NULL
             /\ row.state # "accepted"
    BY <1>4, <2>2, UnclaimedMirror
  <2>3. QED
    BY <2>1, <2>2
<1>6. QED
  BY <1>1, <1>3, <1>5, OneMirror

LEMMA ManagementMirror ==
    ASSUME TablesOK, MembershipMirrorsInvitation,
           \/ \E request \in RequestsOf("invite"), id \in Ids :
                    CreateInvitation(request, id)
           \/ \E request \in RequestsOf("resend"), derived \in Nat :
                    ResendInvitation(request, derived)
           \/ \E request \in RequestsOf("revoke") : RevokeInvitation(request)
           \/ \E request \in RequestsOf("accept") : BeginAcceptExpires(request)
    PROVE  MembershipMirrorsInvitation'
<1>0. \A S : Superseded(S) \in [CommandKeys -> Command]
  BY TableTypes
<1>1. ASSUME NEW request \in RequestsOf("invite"), NEW id \in Ids,
             CreateInvitation(request, id)
      PROVE  MembershipMirrorsInvitation'
  <2>1. invitations[id].state = "none"
    BY <1>1 DEF CreateInvitation, NextNumber, Ids
  <2>2. Mirror(invitations[id], commands[MemberKey(id)])
    BY MirrorPart
  <2>3. invitations[id].subject = NULL
    BY <2>1, <2>2, NoneIsUnclaimed, KeyTypes DEF TablesOK
  <2>4. NotifyKey(id, 1) \in CommandKeys
    BY KeyTypes, StoreAssumption
  <2>5. \A j \in Ids : commands'[MemberKey(j)] = commands[MemberKey(j)]
    BY <1>1, <2>4, MembersKept, KeysDiffer DEF CreateInvitation, TablesOK
  <2>6. /\ invitations' = [invitations EXCEPT ![id] = NewInvitation(request.email)]
        /\ NewInvitation(request.email).subject = NULL
        /\ NewInvitation(request.email).state = "pending"
    BY <1>1 DEF CreateInvitation, NewInvitation
  <2>7. QED
    BY <2>3, <2>5, <2>6, RowReplaced
<1>2. ASSUME NEW request \in RequestsOf("resend"), NEW derived \in Nat,
             ResendInvitation(request, derived)
      PROVE  MembershipMirrorsInvitation'
  <2> DEFINE id == request.id
             row == Rotated(invitations[id], derived)
  <2>1. id \in Ids /\ invitations[id] \in Invitation
    BY RequestTypes DEF RequestsOf, TablesOK
  <2>2. SameRow(invitations[id], row)
    BY <2>1, RowParts
  <2>3. row.generation \in 1..MaxGeneration
    <3>1. row.generation = invitations[id].generation + 1
      BY <2>1 DEF Rotated, Invitation
    <3>2. QED
      BY <1>2, <2>1, <3>1, InvitationFields, StoreAssumption DEF ResendInvitation
  <2>4. NotifyKey(id, row.generation) \in CommandKeys
    BY <2>1, <2>3, KeyTypes
  <2>5. /\ invitations' = [invitations EXCEPT ![id] = row]
        /\ commands' = Inserted(Superseded({id}), NotifyKey(id, row.generation),
                                NULL)
    BY <1>2 DEF ResendInvitation
  <2> HIDE DEF row
  <2>6. \A j \in Ids : NotifyKey(id, row.generation) # MemberKey(j)
    BY <2>1, <2>3, KeysDiffer
  <2>7. \A j \in Ids : commands'[MemberKey(j)] = commands[MemberKey(j)]
    BY <1>0, <2>4, <2>5, <2>6, MembersKept
  <2>8. QED
    BY <2>1, <2>2, <2>5, <2>7, RowReplaced
<1>3. ASSUME NEW request \in RequestsOf("revoke"), RevokeInvitation(request)
      PROVE  MembershipMirrorsInvitation'
  <2> DEFINE id == request.id
             k == LifecycleKey(id, "revoked")
  <2>1. id \in Ids /\ invitations[id] \in Invitation
    BY RequestTypes DEF RequestsOf, TablesOK
  <2>2. k \in CommandKeys /\ \A j \in Ids : k # MemberKey(j)
    BY <2>1, KeyTypes, KeysDiffer DEF Lifecycles
  <2>3. commands' = Inserted(Superseded({id}), k, NULL)
    BY <1>3 DEF RevokeInvitation
  <2> HIDE DEF k
  <2>4. \A j \in Ids : commands'[MemberKey(j)] = commands[MemberKey(j)]
    BY <1>0, <2>2, <2>3, MembersKept
  <2>5. /\ invitations' = [invitations EXCEPT ![id] =
                                Closed(invitations[id], "revoked")]
        /\ invitations[id].subject = NULL
    BY <1>3 DEF RevokeInvitation, Open
  <2>6. /\ Closed(invitations[id], "revoked").state = "revoked"
        /\ Closed(invitations[id], "revoked").subject = NULL
    BY <2>1, <2>5, RowParts
  <2> HIDE DEF id
  <2>7. QED
    BY <2>1, <2>4, <2>5, <2>6, RowReplaced
<1>4. ASSUME NEW request \in RequestsOf("accept"), BeginAcceptExpires(request)
      PROVE  MembershipMirrorsInvitation'
  <2> DEFINE id == request.id
             k == LifecycleKey(id, "expired")
  <2>1. id \in Ids /\ invitations[id] \in Invitation
    BY RequestTypes DEF RequestsOf, TablesOK
  <2>2. k \in CommandKeys /\ \A j \in Ids : k # MemberKey(j)
    BY <2>1, KeyTypes, KeysDiffer DEF Lifecycles
  <2>3. commands' = Inserted(Superseded({id}), k, NULL)
    BY <1>4 DEF BeginAcceptExpires, ExpireLocked
  <2> HIDE DEF k
  <2>4. \A j \in Ids : commands'[MemberKey(j)] = commands[MemberKey(j)]
    BY <1>0, <2>2, <2>3, MembersKept
  <2>5. /\ invitations' = [invitations EXCEPT ![id] =
                                Closed(invitations[id], "expired")]
        /\ invitations[id].subject = NULL
    BY <1>4 DEF BeginAcceptExpires, ExpireLocked, Open
  <2>6. /\ Closed(invitations[id], "expired").state = "expired"
        /\ Closed(invitations[id], "expired").subject = NULL
    BY <2>1, <2>5, RowParts
  <2> HIDE DEF id
  <2>7. QED
    BY <2>1, <2>4, <2>5, <2>6, RowReplaced
<1>5. QED
  BY <1>1, <1>2, <1>3, <1>4

LEMMA BeginAcceptMirror ==
    ASSUME TablesOK, MembershipMirrorsInvitation,
           NEW request \in RequestsOf("accept"), NEW generation \in Nat,
           NEW e \in Executors, BeginAccept(request, generation, e)
    PROVE  MembershipMirrorsInvitation'
<1> DEFINE id == request.id
           k == MemberKey(id)
           inserted == Inserted(commands, k, request.actor)
           new == [state |-> "pending", attempts |-> 0, lease |-> NULL,
                   due |-> TRUE, subject |-> request.actor]
<1>1. /\ id \in Ids /\ invitations[id] \in Invitation /\ k \in CommandKeys
      /\ request.actor \in Subjects /\ request.actor # NULL
  BY RequestTypes, KeyTypes, StoreAssumption DEF RequestsOf, TablesOK
<1>2. Mirror(invitations[id], commands[k])
  BY <1>1, MirrorPart
<1>3. commands[k].state = "absent"
  BY <1>2 DEF Mirror, BeginAccept, Open
<1>4. inserted = [commands EXCEPT ![k] = new]
  BY <1>3 DEF Inserted
<1>5. new \in Command
  BY <1>1, StoreAssumption DEF Command, Live
<1>6. invitations' = [invitations EXCEPT ![id] =
                            Consumed(invitations[id], request.actor)]
  BY DEF BeginAccept
<1>7. commands' = [inserted EXCEPT ![k] = Leased(inserted[k], e)]
  BY DEF BeginAccept
<1>8. new.subject = request.actor
  OBVIOUS
<1> HIDE DEF new, inserted
<1>9. commands' = [commands EXCEPT ![k] = Leased(new, e)]
  BY <1>1, <1>4, <1>7 DEF TablesOK
<1>10. \A j \in Ids \ {id} : MemberKey(j) \in CommandKeys /\ MemberKey(j) # k
  BY <1>1, KeyTypes, KeysDiffer
<1> HIDE DEF k
<1>11. \A j \in Ids \ {id} : Kept(j)
  BY <1>6, <1>9, <1>10 DEF Kept, SameRow, SameCommand, TablesOK
<1>12. /\ invitations'[id].subject = request.actor
       /\ invitations'[id].state = "pending"
  BY <1>1, <1>6, RowParts DEF TablesOK, BeginAccept, Open
<1>13. /\ commands'[k].subject = request.actor
       /\ commands'[k].state = "in_flight"
  BY <1>1, <1>5, <1>8, <1>9, CommandParts DEF TablesOK
<1>14. Mirror(invitations'[id], commands'[k])
  BY <1>1, <1>12, <1>13 DEF Mirror, Live
<1>15. QED
  BY <1>1, <1>11, <1>14, OneMirror DEF k

LEMMA ExpireDueMirror ==
    ASSUME TablesOK, MembershipMirrorsInvitation, NEW S \in SUBSET DueInvitations,
           ExpireDue(S)
    PROVE  MembershipMirrorsInvitation'
<1>1. \A id \in Ids : commands'[MemberKey(id)] = commands[MemberKey(id)]
  <2> TAKE id \in Ids
  <2>1. MemberKey(id) \in CommandKeys
    BY KeyTypes
  <2>2. MemberKey(id).kind # "notify_invitation"
    BY KeysDiffer
  <2>3. MemberKey(id) # LifecycleKey(MemberKey(id).id, "expired")
    BY KeysDiffer DEF Lifecycles
  <2>4. commands'[MemberKey(id)] = Superseded(S)[MemberKey(id)]
    BY <2>1, <2>3 DEF ExpireDue
  <2>5. QED
    BY <2>1, <2>2, <2>4 DEF Superseded
<1>2. \A id \in Ids : Mirror(invitations'[id], commands[MemberKey(id)])
  <2> TAKE id \in Ids
  <2>1. Mirror(invitations[id], commands[MemberKey(id)])
    BY MirrorPart
  <2>2. CASE id \in S
    <3>1. invitations'[id] = Closed(invitations[id], "expired")
      BY <2>2 DEF ExpireDue
    <3>2. invitations[id].subject = NULL
      BY <2>2 DEF DueInvitations
    <3>3. QED
      BY <2>1, <3>1, <3>2, RowParts, UnclaimedMirror DEF TablesOK
  <2>3. CASE id \notin S
    BY <2>1, <2>3 DEF ExpireDue
  <2>4. QED
    BY <2>2, <2>3
<1>3. QED
  BY <1>1, <1>2 DEF MembershipMirrorsInvitation, Mirror

LEMMA CompleteAcceptMirror ==
    ASSUME TablesOK, MembershipMirrorsInvitation, NEW id \in Ids, NEW e \in Executors,
           CompleteAccept(id, e)
    PROVE  MembershipMirrorsInvitation'
<1> DEFINE k == MemberKey(id)
           l == LifecycleKey(id, "accepted")
<1>1. /\ k \in CommandKeys /\ l \in CommandKeys
      /\ \A j \in Ids : l # MemberKey(j)
  BY KeyTypes, KeysDiffer DEF Lifecycles
<1>2. Mirror(invitations[id], commands[k])
  BY MirrorPart
<1>3. /\ commands[k].state = "in_flight" /\ invitations[id].state = "pending"
      /\ invitations' = [invitations EXCEPT ![id] = AcceptedRow(invitations[id])]
      /\ commands' = Inserted(Finished(k, "completed"), l, NULL)
  BY DEF CompleteAccept, Holds, MemberMatches
<1>4. \A j \in Ids \ {id} : MemberKey(j) \in CommandKeys /\ MemberKey(j) # k
  BY KeyTypes, KeysDiffer
<1>5. Finished(k, "completed") \in [CommandKeys -> Command]
  BY <1>1, TableTypes DEF Settled
<1> HIDE DEF l
<1>6. \A j \in Ids : commands'[MemberKey(j)] = Finished(k, "completed")[MemberKey(j)]
  BY <1>1, <1>3, <1>5, MembersKept
<1> HIDE DEF k
<1>7. Finished(k, "completed") =
            [commands EXCEPT ![k] = Unleased(commands[k], "completed")]
  BY DEF Finished
<1>8. \A j \in Ids \ {id} : Kept(j)
  BY <1>3, <1>4, <1>6, <1>7 DEF Kept, SameRow, SameCommand, TablesOK
<1>9. /\ commands'[MemberKey(id)].state = "completed"
      /\ commands'[MemberKey(id)].subject = commands[MemberKey(id)].subject
  BY <1>1, <1>6, <1>7, CommandParts DEF TablesOK, k
<1>10. /\ invitations'[id].state = "accepted"
       /\ invitations'[id].subject = invitations[id].subject
  BY <1>3, RowParts DEF TablesOK
<1>11. Mirror(invitations'[id], commands'[MemberKey(id)])
  BY <1>2, <1>3, <1>9, <1>10 DEF Mirror, Live, k
<1>12. QED
  BY <1>8, <1>11, OneMirror

LEMMA FailAcceptanceMirror ==
    ASSUME TablesOK, MembershipMirrorsInvitation, NEW id \in Ids, NEW e \in Executors,
           FailAcceptance(id, e)
    PROVE  MembershipMirrorsInvitation'
<1> DEFINE k == MemberKey(id)
           l == LifecycleKey(id, "expired")
           table == [Superseded({id}) EXCEPT ![k] = Finished(k, "failed")[k]]
<1>1. /\ k \in CommandKeys /\ l \in CommandKeys
      /\ \A j \in Ids : l # MemberKey(j)
  BY KeyTypes, KeysDiffer DEF Lifecycles
<1>2. Mirror(invitations[id], commands[k])
  BY MirrorPart
<1>3. commands[k].state = "in_flight"
  BY DEF FailAcceptance, Holds
<1>4. MemberMatches(id)
  BY <1>2, <1>3 DEF Mirror, Live, MemberMatches
<1>5. invitations' = [invitations EXCEPT ![id] = Closed(invitations[id], "expired")]
  BY <1>4 DEF FailAcceptance, ExpireLocked
<1>6. commands' = Inserted(table, l, NULL)
  BY <1>4 DEF FailAcceptance, ExpireLocked
<1>7. Superseded({id}) \in [CommandKeys -> Command]
  BY TableTypes
<1>8. Finished(k, "failed") \in [CommandKeys -> Command]
  BY <1>1, TableTypes DEF Settled
<1>9. table \in [CommandKeys -> Command]
  BY <1>1, <1>7, <1>8
<1>10. Finished(k, "failed")[k] = Unleased(commands[k], "failed")
  BY <1>1 DEF Finished, TablesOK
<1>11. table[k] = Unleased(commands[k], "failed")
  BY <1>1, <1>7, <1>10
<1>12. \A j \in Ids \ {id} : MemberKey(j) # k
  BY KeysDiffer
<1>13. \A j \in Ids \ {id} : table[MemberKey(j)] = commands[MemberKey(j)]
  <2> TAKE j \in Ids \ {id}
  <2>1. Superseded({id})[MemberKey(j)] = commands[MemberKey(j)]
    BY <1>1, MembersKept DEF TablesOK
  <2>2. table[MemberKey(j)] = Superseded({id})[MemberKey(j)]
    BY <1>7, <1>12, KeyTypes
  <2>3. QED
    BY <2>1, <2>2
<1> HIDE DEF table, l
<1>14. \A j \in Ids : commands'[MemberKey(j)] = table[MemberKey(j)]
  BY <1>1, <1>6, <1>9, MembersKept
<1>15. \A j \in Ids \ {id} : Kept(j)
  BY <1>5, <1>13, <1>14 DEF Kept, SameRow, SameCommand, TablesOK
<1>16. /\ commands'[k].state = "failed"
       /\ commands'[k].subject = commands[k].subject
  BY <1>1, <1>11, <1>14, CommandParts DEF TablesOK
<1>17. /\ invitations'[id].state = "expired"
       /\ invitations'[id].subject = invitations[id].subject
  BY <1>5, RowParts DEF TablesOK
<1>18. Mirror(invitations'[id], commands'[MemberKey(id)])
  BY <1>2, <1>3, <1>16, <1>17 DEF Mirror, Live
<1>19. QED
  BY <1>15, <1>18, OneMirror

\* Claiming and rescheduling a command, settling a command of another kind, and
\* the clock keep every mirror.
LEMMA ExecutorMirror ==
    ASSUME TablesOK, MembershipMirrorsInvitation,
           NEW k \in CommandKeys, NEW e \in Executors,
           \/ k.kind = "notify_invitation" /\ CompleteNotification(k, e)
           \/ k.kind = "notify_lifecycle" /\ CompleteLifecycle(k, e)
           \/ FailNotification(k, e)
           \/ FailLifecycle(k, e)
           \/ RetryCommand(k, e)
           \/ ~CommandMatches(k) /\ SupersedeCommand(k, e)
    PROVE  MembershipMirrorsInvitation'
<1>1. \A id \in Ids : Mirror(invitations[id], commands[MemberKey(id)])
  BY MirrorPart
<1>2. \A id \in Ids : /\ MemberKey(id) \in CommandKeys
                      /\ MemberKey(id).kind = "add_member"
                      /\ MemberKey(id).id = id
  BY KeyTypes, KeysDiffer
<1>3. k.id \in Ids /\ (k.kind = "add_member" => k = MemberKey(k.id))
  BY KeyShape
<1>4. k.kind = "add_member" /\ Holds(k, e) => CommandMatches(k)
  BY <1>1, <1>3 DEF Mirror, Live, Holds, CommandMatches, MemberMatches
<1>5. \A outcome : \A id \in Ids :
        SameRow(invitations[id], Delivery(k, outcome)[id])
  BY <1>3, RowParts DEF Delivery, SameRow, TablesOK
<1>6. \A id \in Ids : SameRow(invitations[id], invitations'[id])
  BY <1>5 DEF CompleteNotification, CompleteLifecycle, FailNotification,
              FailLifecycle, RetryCommand, SupersedeCommand, SameRow
<1>7. \A j \in CommandKeys \ {k} : commands'[j] = commands[j]
  BY DEF CompleteNotification, CompleteLifecycle, FailNotification, FailLifecycle,
         RetryCommand, SupersedeCommand, Finished, TablesOK
<1>8. k.kind = "add_member" => /\ commands[k].state \in Live
                               /\ commands'[k].state \in Live
                               /\ commands'[k].subject = commands[k].subject
  BY <1>4, CommandParts DEF FailNotification, FailLifecycle, RetryCommand,
                            SupersedeCommand, Holds, Live, TablesOK
<1>9. \A id \in Ids : SameCommand(commands[MemberKey(id)], commands'[MemberKey(id)])
  BY <1>2, <1>7, <1>8 DEF SameCommand
<1>10. QED
  BY <1>6, <1>9, KeptMirror DEF Kept

LEMMA ClaimMirror ==
    ASSUME TablesOK, MembershipMirrorsInvitation,
           \/ \E S \in SUBSET DueCommands, e \in Executors : ClaimDueCommands(S, e)
           \/ \E id \in Ids : TokenComesDue(id)
           \/ \E k \in CommandKeys : CommandComesDue(k)
           \/ UNCHANGED tables
    PROVE  MembershipMirrorsInvitation'
<1>1. ASSUME NEW S \in SUBSET DueCommands, NEW e \in Executors,
             ClaimDueCommands(S, e)
      PROVE  \A id \in Ids : Kept(id)
  BY <1>1, CommandParts, KeyTypes DEF ClaimDueCommands, DueCommands, Kept, SameRow,
                                      SameCommand, Live, TablesOK
<1>2. ASSUME NEW id \in Ids, TokenComesDue(id)
      PROVE  \A j \in Ids : Kept(j)
  BY <1>2, RowParts DEF TokenComesDue, Kept, SameRow, SameCommand, TablesOK
<1>3. ASSUME NEW k \in CommandKeys, CommandComesDue(k)
      PROVE  \A id \in Ids : Kept(id)
  BY <1>3, CommandParts, KeyTypes DEF CommandComesDue, Kept, SameRow, SameCommand,
                                      TablesOK
<1>4. ASSUME UNCHANGED tables
      PROVE  \A id \in Ids : Kept(id)
  BY <1>4 DEF tables, Kept, SameRow, SameCommand
<1>5. QED
  BY <1>1, <1>2, <1>3, <1>4, KeptMirror

\* No transaction breaks the mirror.
LEMMA MirrorStep ==
    ASSUME TablesOK, MembershipMirrorsInvitation, Transaction
    PROVE  MembershipMirrorsInvitation'
<1>1. ASSUME NEW c \in Clients, call[c].request \in RequestsOf("accept"),
             call[c].seen \in Nat, BeginAccept(call[c].request, call[c].seen, c)
      PROVE  MembershipMirrorsInvitation'
  BY <1>1, ServiceAssumption, BeginAcceptMirror
<1>2. ASSUME NEW k \in CommandKeys, NEW e \in Executors,
             CompleteAccept(k.id, e) \/ FailAcceptance(k.id, e)
      PROVE  MembershipMirrorsInvitation'
  BY <1>2, KeyShape, CompleteAcceptMirror, FailAcceptanceMirror
<1>3. ASSUME NEW S \in SUBSET DueInvitations, ExpireDue(S)
      PROVE  MembershipMirrorsInvitation'
  BY <1>3, ExpireDueMirror
<1>4. ASSUME NEW k \in CommandKeys, NEW e \in Executors,
             \/ k.kind = "notify_invitation" /\ CompleteNotification(k, e)
             \/ k.kind = "notify_lifecycle" /\ CompleteLifecycle(k, e)
             \/ FailNotification(k, e)
             \/ FailLifecycle(k, e)
             \/ RetryCommand(k, e)
             \/ ~CommandMatches(k) /\ SupersedeCommand(k, e)
      PROVE  MembershipMirrorsInvitation'
  BY <1>4, ExecutorMirror
<1>5. QED
  BY <1>1, <1>2, <1>3, <1>4, ManagementMirror, ClaimMirror DEF Transaction

LEMMA MirrorInit ==
    ASSUME Init
    PROVE  MembershipMirrorsInvitation
BY KeyTypes DEF Init, TablesInit, NoInvitation, NoCommand, Live,
                MembershipMirrorsInvitation

\* In every reachable state, whatever callers, workers and providers do and
\* however leases lapse, an acceptance is undecided exactly while its membership
\* command is live, and is decided the way the command ended.
THEOREM MembershipMirrors == Spec => []MembershipMirrorsInvitation
<1>1. Init => TypeOK /\ MembershipMirrorsInvitation
  BY TypeInit, MirrorInit
<1>2. TypeOK /\ MembershipMirrorsInvitation /\ [Next]_vars =>
            (TypeOK /\ MembershipMirrorsInvitation)'
  BY TypeStep, StepsAreTransactions, MirrorStep DEF TypeOK
<1>3. QED
  BY <1>1, <1>2, PTL DEF Spec
-------------------------------------------------------------------------------
(* Settled commands *)

\* The statements the transactions share leave a settled row of a table alone.
LEMMA SettledKept ==
    ASSUME NEW table \in [CommandKeys -> Command], NEW k \in CommandKeys,
           table[k].state \in Settled
    PROVE  /\ \A subject : \A other \in CommandKeys :
                    Inserted(table, other, subject)[k] = table[k]
           /\ table = commands => \A S : Superseded(S)[k] = commands[k]
<1>1. table[k].state # "absent" /\ table[k].state \notin Live
  BY DEF Settled, Live
<1>2. \A subject : \A other \in CommandKeys :
            Inserted(table, other, subject)[k] = table[k]
  BY <1>1 DEF Inserted
<1>3. table = commands => \A S : Superseded(S)[k] = commands[k]
  BY <1>1 DEF Superseded
<1>4. QED
  BY <1>2, <1>3

\* Superseding the notifications of an invitation and inserting a command in the
\* same transaction leave a settled command alone.
LEMMA SupersededThenInserted ==
    ASSUME TablesOK, NEW S, NEW other \in CommandKeys, NEW subject,
           NEW k \in CommandKeys, commands[k].state \in Settled
    PROVE  Inserted(Superseded(S), other, subject)[k] = commands[k]
<1>1. Superseded(S) \in [CommandKeys -> Command]
  BY TableTypes
<1>2. Superseded(S)[k] = commands[k]
  BY SettledKept DEF TablesOK
<1> DEFINE table == Superseded(S)
<1>3. table \in [CommandKeys -> Command] /\ table[k] = commands[k]
  BY <1>1, <1>2
<1> HIDE DEF table
<1>4. Inserted(table, other, subject)[k] = table[k]
  BY <1>3, SettledKept
<1>5. QED
  BY <1>3, <1>4 DEF table

LEMMA ManagementKeepsSettled ==
    ASSUME TablesOK, NEW k \in CommandKeys, commands[k].state \in Settled,
           \/ \E request \in RequestsOf("invite"), id \in Ids :
                    CreateInvitation(request, id)
           \/ \E request \in RequestsOf("resend"), derived \in Nat :
                    ResendInvitation(request, derived)
           \/ \E request \in RequestsOf("revoke") : RevokeInvitation(request)
           \/ \E request \in RequestsOf("accept") : BeginAcceptExpires(request)
    PROVE  commands'[k] = commands[k]
<1>1. ASSUME NEW request \in RequestsOf("invite"), NEW id \in Ids,
             CreateInvitation(request, id)
      PROVE  commands'[k] = commands[k]
  <2>1. NotifyKey(id, 1) \in CommandKeys
    BY KeyTypes, StoreAssumption
  <2>2. QED
    BY <1>1, <2>1, SettledKept DEF CreateInvitation, TablesOK
<1>2. ASSUME NEW request \in RequestsOf("resend"), NEW derived \in Nat,
             ResendInvitation(request, derived)
      PROVE  commands'[k] = commands[k]
  <2> DEFINE id == request.id
             g == Rotated(invitations[id], derived).generation
  <2>1. id \in Ids /\ invitations[id] \in Invitation
    BY RequestTypes DEF RequestsOf, TablesOK
  <2>2. g = invitations[id].generation + 1
    BY <2>1 DEF Rotated, Invitation
  <2>3. g \in 1..MaxGeneration
    BY <1>2, <2>1, <2>2, InvitationFields, StoreAssumption DEF ResendInvitation
  <2>4. commands' = Inserted(Superseded({id}), NotifyKey(id, g), NULL)
    BY <1>2 DEF ResendInvitation
  <2> HIDE DEF g, id
  <2>5. QED
    BY <2>1, <2>3, <2>4, KeyTypes, SupersededThenInserted
<1>3. ASSUME NEW request \in RequestsOf("revoke"), RevokeInvitation(request)
      PROVE  commands'[k] = commands[k]
  <2>1. LifecycleKey(request.id, "revoked") \in CommandKeys
    BY KeyTypes, RequestTypes DEF RequestsOf, Lifecycles
  <2>2. QED
    BY <1>3, <2>1, SupersededThenInserted DEF RevokeInvitation
<1>4. ASSUME NEW request \in RequestsOf("accept"), BeginAcceptExpires(request)
      PROVE  commands'[k] = commands[k]
  <2>1. LifecycleKey(request.id, "expired") \in CommandKeys
    BY KeyTypes, RequestTypes DEF RequestsOf, Lifecycles
  <2>2. QED
    BY <1>4, <2>1, SupersededThenInserted DEF BeginAcceptExpires, ExpireLocked
<1>5. QED
  BY <1>1, <1>2, <1>3, <1>4

LEMMA AcceptanceKeepsSettled ==
    ASSUME TablesOK, MembershipMirrorsInvitation,
           NEW k \in CommandKeys, commands[k].state \in Settled,
           \/ \E request \in RequestsOf("accept"), generation \in Nat,
                 e \in Executors : BeginAccept(request, generation, e)
           \/ \E id \in Ids, e \in Executors :
                    CompleteAccept(id, e) \/ FailAcceptance(id, e)
    PROVE  commands'[k] = commands[k]
<1>0. commands \in [CommandKeys -> Command]
  BY DEF TablesOK
<1>1. ASSUME NEW request \in RequestsOf("accept"), NEW generation \in Nat,
             NEW e \in Executors, BeginAccept(request, generation, e)
      PROVE  commands'[k] = commands[k]
  <2> DEFINE m == MemberKey(request.id)
             inserted == Inserted(commands, m, request.actor)
  <2>1. request.id \in Ids /\ m \in CommandKeys /\ request.actor \in Subjects
    BY RequestTypes, KeyTypes DEF RequestsOf
  <2>2. commands[m].state = "absent"
    BY <1>1, <2>1 DEF MembershipMirrorsInvitation, BeginAccept, Open
  <2>3. k # m
    BY <2>2 DEF Settled
  <2>4. inserted \in [CommandKeys -> Command] /\ inserted[k] = commands[k]
    BY <1>0, <2>1, InsertedType, SettledKept
  <2>5. commands' = [inserted EXCEPT ![m] = Leased(inserted[m], e)]
    BY <1>1 DEF BeginAccept
  <2> HIDE DEF inserted, m
  <2>6. QED
    BY <2>3, <2>4, <2>5
<1>2. ASSUME NEW id \in Ids, NEW e \in Executors, CompleteAccept(id, e)
      PROVE  commands'[k] = commands[k]
  <2> DEFINE table == Finished(MemberKey(id), "completed")
  <2>1. k # MemberKey(id)
    BY <1>2 DEF CompleteAccept, Holds, Settled
  <2>2. table \in [CommandKeys -> Command] /\ table[k] = commands[k]
    BY <1>0, <2>1, KeyTypes, TableTypes DEF Finished, Settled
  <2>3. commands' = Inserted(table, LifecycleKey(id, "accepted"), NULL)
    BY <1>2 DEF CompleteAccept
  <2>4. LifecycleKey(id, "accepted") \in CommandKeys
    BY KeyTypes DEF Lifecycles
  <2> HIDE DEF table
  <2>5. QED
    BY <2>2, <2>3, <2>4, SettledKept
<1>3. ASSUME NEW id \in Ids, NEW e \in Executors, FailAcceptance(id, e)
      PROVE  commands'[k] = commands[k]
  <2> DEFINE m == MemberKey(id)
             table == [Superseded({id}) EXCEPT ![m] = Finished(m, "failed")[m]]
  <2>1. k # m
    BY <1>3 DEF FailAcceptance, Holds, Settled
  <2>2. m \in CommandKeys /\ LifecycleKey(id, "expired") \in CommandKeys
    BY KeyTypes DEF Lifecycles
  <2>3. Superseded({id}) \in [CommandKeys -> Command]
    BY TableTypes
  <2>4. Finished(m, "failed") \in [CommandKeys -> Command]
    BY <2>2, TableTypes DEF Settled
  <2>5. Superseded({id})[k] = commands[k]
    BY <1>0, SettledKept
  <2>6. table \in [CommandKeys -> Command] /\ table[k] = commands[k]
    BY <2>1, <2>2, <2>3, <2>4, <2>5
  <2>7. Finished(m, "failed")[k] = commands[k]
    BY <1>0, <2>1 DEF Finished
  <2>8. \/ commands' = Inserted(table, LifecycleKey(id, "expired"), NULL)
        \/ commands' = Finished(m, "failed")
    BY <1>3 DEF FailAcceptance, ExpireLocked
  <2> HIDE DEF table, m
  <2>9. QED
    BY <2>2, <2>6, <2>7, <2>8, SettledKept
<1>4. QED
  BY <1>1, <1>2, <1>3

LEMMA WorkersKeepSettled ==
    ASSUME TablesOK, NEW k \in CommandKeys, commands[k].state \in Settled,
           \/ UNCHANGED tables
           \/ \E S \in SUBSET DueInvitations : ExpireDue(S)
           \/ \E S \in SUBSET DueCommands, e \in Executors : ClaimDueCommands(S, e)
           \/ \E j \in CommandKeys, e \in Executors :
                    \/ CompleteNotification(j, e)
                    \/ CompleteLifecycle(j, e)
                    \/ FailNotification(j, e)
                    \/ FailLifecycle(j, e)
                    \/ RetryCommand(j, e)
                    \/ SupersedeCommand(j, e)
           \/ \E id \in Ids : TokenComesDue(id)
           \/ \E j \in CommandKeys : CommandComesDue(j)
    PROVE  commands'[k] = commands[k]
<1>0. commands[k].state \notin Live
  BY DEF Settled, Live
<1>1. ASSUME NEW S \in SUBSET DueInvitations, ExpireDue(S)
      PROVE  commands'[k] = commands[k]
  BY <1>1, SettledKept DEF ExpireDue, TablesOK
<1>2. ASSUME NEW S \in SUBSET DueCommands, NEW e \in Executors,
             ClaimDueCommands(S, e)
      PROVE  commands'[k] = commands[k]
  BY <1>0, <1>2 DEF ClaimDueCommands, DueCommands
<1>3. ASSUME NEW j \in CommandKeys, NEW e \in Executors,
             \/ CompleteNotification(j, e)
             \/ CompleteLifecycle(j, e)
             \/ FailNotification(j, e)
             \/ FailLifecycle(j, e)
             \/ RetryCommand(j, e)
             \/ SupersedeCommand(j, e)
      PROVE  commands'[k] = commands[k]
  <2>1. Holds(j, e)
    BY <1>3 DEF CompleteNotification, CompleteLifecycle, FailNotification,
                FailLifecycle, RetryCommand, SupersedeCommand
  <2>2. j # k
    BY <1>0, <2>1 DEF Holds, Live
  <2>3. QED
    BY <1>3, <2>2 DEF CompleteNotification, CompleteLifecycle, FailNotification,
            FailLifecycle, RetryCommand, SupersedeCommand, Finished, TablesOK
<1>4. ASSUME \/ UNCHANGED tables
             \/ \E id \in Ids : TokenComesDue(id)
             \/ \E j \in CommandKeys : CommandComesDue(j)
      PROVE  commands'[k] = commands[k]
  BY <1>0, <1>4 DEF tables, TokenComesDue, CommandComesDue, TablesOK
<1>5. QED
  BY <1>1, <1>2, <1>3, <1>4

\* Whatever an executor does with a late answer, and however its lease was lost,
\* a command that was settled is never revived or settled differently.
THEOREM SettledStaySettled == Spec => SettledCommandsStaySettled
<1>1. ASSUME TypeOK, MembershipMirrorsInvitation, [Next]_vars,
             NEW k \in CommandKeys, commands[k].state \in Settled
      PROVE  commands'[k] = commands[k]
  <2>1. TablesOK /\ Transaction
    BY <1>1, StepsAreTransactions DEF TypeOK
  <2>2. ASSUME NEW c \in Clients, call[c].request \in RequestsOf("accept"),
               call[c].seen \in Nat, BeginAccept(call[c].request, call[c].seen, c)
        PROVE  commands'[k] = commands[k]
    BY <1>1, <2>1, <2>2, ServiceAssumption, AcceptanceKeepsSettled
  <2>3. ASSUME NEW j \in CommandKeys, NEW e \in Executors,
               CompleteAccept(j.id, e) \/ FailAcceptance(j.id, e)
        PROVE  commands'[k] = commands[k]
    BY <1>1, <2>1, <2>3, KeyShape, AcceptanceKeepsSettled
  <2>4. QED
    BY <1>1, <2>1, <2>2, <2>3, ManagementKeepsSettled, WorkersKeepSettled
       DEF Transaction
<1>2. TypeOK /\ MembershipMirrorsInvitation /\ [Next]_vars =>
        [\A k \in CommandKeys : commands[k].state \in Settled =>
            commands'[k] = commands[k]]_vars
  BY <1>1
<1>3. QED
  BY <1>2, TypeCorrect, MembershipMirrors, PTL
     DEF Spec, SettledCommandsStaySettled
-------------------------------------------------------------------------------
(* Invitations that ended *)

LEMMA ManagementKeepsTerminal ==
    ASSUME TablesOK, NEW id \in Ids, invitations[id].state \in Lifecycles,
           \/ \E request \in RequestsOf("invite"), j \in Ids :
                    CreateInvitation(request, j)
           \/ \E request \in RequestsOf("resend"), derived \in Nat :
                    ResendInvitation(request, derived)
           \/ \E request \in RequestsOf("revoke") : RevokeInvitation(request)
           \/ \E request \in RequestsOf("accept") : BeginAcceptExpires(request)
           \/ \E request \in RequestsOf("accept"), generation \in Nat,
                 e \in Executors : BeginAccept(request, generation, e)
    PROVE  invitations'[id] = invitations[id]
<1>0. invitations[id].state # "pending" /\ invitations[id].state # "none"
  BY DEF Lifecycles
<1>1. ASSUME NEW request \in RequestsOf("invite"), NEW j \in Ids,
             CreateInvitation(request, j)
      PROVE  invitations'[id] = invitations[id]
  <2>1. invitations[j].state = "none"
    BY <1>1 DEF CreateInvitation, NextNumber, Ids
  <2>2. QED
    BY <1>0, <1>1, <2>1 DEF CreateInvitation, TablesOK
<1>2. ASSUME NEW request \in RequestsOf("resend"), NEW derived \in Nat,
             ResendInvitation(request, derived)
      PROVE  invitations'[id] = invitations[id]
  BY <1>0, <1>2 DEF ResendInvitation, Open, TablesOK
<1>3. ASSUME NEW request \in RequestsOf("revoke"), RevokeInvitation(request)
      PROVE  invitations'[id] = invitations[id]
  BY <1>0, <1>3 DEF RevokeInvitation, Open, TablesOK
<1>4. ASSUME NEW request \in RequestsOf("accept"), BeginAcceptExpires(request)
      PROVE  invitations'[id] = invitations[id]
  BY <1>0, <1>4 DEF BeginAcceptExpires, ExpireLocked, Open, TablesOK
<1>5. ASSUME NEW request \in RequestsOf("accept"), NEW generation \in Nat,
             NEW e \in Executors, BeginAccept(request, generation, e)
      PROVE  invitations'[id] = invitations[id]
  BY <1>0, <1>5 DEF BeginAccept, Open, TablesOK
<1>6. QED
  BY <1>1, <1>2, <1>3, <1>4, <1>5

LEMMA ExecutorsKeepTerminal ==
    ASSUME TablesOK, NEW id \in Ids, invitations[id].state \in Lifecycles,
           \/ \E S \in SUBSET DueInvitations : ExpireDue(S)
           \/ \E j \in Ids, e \in Executors :
                    CompleteAccept(j, e) \/ FailAcceptance(j, e)
           \/ \E k \in CommandKeys, e \in Executors :
                    CompleteNotification(k, e) \/ FailNotification(k, e)
           \/ \E j \in Ids : TokenComesDue(j)
    PROVE  invitations'[id] = invitations[id]
<1>0. invitations[id].state # "pending"
  BY DEF Lifecycles
<1>1. ASSUME NEW S \in SUBSET DueInvitations, ExpireDue(S)
      PROVE  invitations'[id] = invitations[id]
  BY <1>0, <1>1 DEF ExpireDue, DueInvitations
<1>2. ASSUME NEW j \in Ids, NEW e \in Executors, CompleteAccept(j, e)
      PROVE  invitations'[id] = invitations[id]
  BY <1>0, <1>2 DEF CompleteAccept, MemberMatches, TablesOK
<1>3. ASSUME NEW j \in Ids, NEW e \in Executors, FailAcceptance(j, e)
      PROVE  invitations'[id] = invitations[id]
  BY <1>0, <1>3 DEF FailAcceptance, ExpireLocked, MemberMatches, TablesOK
<1>4. ASSUME NEW k \in CommandKeys, NEW e \in Executors,
             CompleteNotification(k, e) \/ FailNotification(k, e)
      PROVE  invitations'[id] = invitations[id]
  BY <1>0, <1>4 DEF CompleteNotification, FailNotification, Delivery, TablesOK
<1>5. ASSUME NEW j \in Ids, TokenComesDue(j)
      PROVE  invitations'[id] = invitations[id]
  BY <1>0, <1>5 DEF TokenComesDue, TablesOK
<1>6. QED
  BY <1>1, <1>2, <1>3, <1>4, <1>5

LEMMA OthersKeepInvitations ==
    ASSUME \/ UNCHANGED tables
           \/ \E S \in SUBSET DueCommands, e \in Executors : ClaimDueCommands(S, e)
           \/ \E k \in CommandKeys, e \in Executors :
                    \/ CompleteLifecycle(k, e)
                    \/ FailLifecycle(k, e)
                    \/ RetryCommand(k, e)
                    \/ SupersedeCommand(k, e)
           \/ \E k \in CommandKeys : CommandComesDue(k)
    PROVE  UNCHANGED invitations
BY DEF tables, ClaimDueCommands, CompleteLifecycle, FailLifecycle, RetryCommand,
       SupersedeCommand, CommandComesDue

\* An invitation that was accepted, revoked or has expired is never written
\* again: not by a call that read it open, not by a worker's late answer.
THEOREM TerminalStayFrozen == Spec => TerminalRowsAreFrozen
<1>1. ASSUME TypeOK, [Next]_vars, NEW id \in Ids,
             invitations[id].state \in Lifecycles
      PROVE  invitations'[id] = invitations[id]
  <2>1. TablesOK /\ Transaction
    BY <1>1, StepsAreTransactions DEF TypeOK
  <2>2. ASSUME NEW c \in Clients, call[c].request \in RequestsOf("accept"),
               call[c].seen \in Nat, BeginAccept(call[c].request, call[c].seen, c)
        PROVE  invitations'[id] = invitations[id]
    BY <1>1, <2>1, <2>2, ServiceAssumption, ManagementKeepsTerminal
  <2>3. ASSUME NEW k \in CommandKeys, NEW e \in Executors,
               CompleteAccept(k.id, e) \/ FailAcceptance(k.id, e)
        PROVE  invitations'[id] = invitations[id]
    BY <1>1, <2>1, <2>3, KeyShape, ExecutorsKeepTerminal
  <2>4. QED
    BY <1>1, <2>1, <2>2, <2>3, ManagementKeepsTerminal, ExecutorsKeepTerminal,
       OthersKeepInvitations DEF Transaction
<1>2. TypeOK /\ [Next]_vars =>
        [\A id \in Ids : invitations[id].state \in Lifecycles =>
            invitations'[id] = invitations[id]]_vars
  BY <1>1
<1>3. QED
  BY <1>2, TypeCorrect, PTL DEF Spec, TerminalRowsAreFrozen
-------------------------------------------------------------------------------
(* Acceptance *)

\* No transaction but begin_accept gives an invitation a subject.
LEMMA ManagementKeepsSubject ==
    ASSUME TablesOK, NEW id \in Ids, invitations[id].subject = NULL,
           \/ \E request \in RequestsOf("invite"), j \in Ids :
                    CreateInvitation(request, j)
           \/ \E request \in RequestsOf("resend"), derived \in Nat :
                    ResendInvitation(request, derived)
           \/ \E request \in RequestsOf("revoke") : RevokeInvitation(request)
           \/ \E request \in RequestsOf("accept") : BeginAcceptExpires(request)
    PROVE  invitations'[id].subject = NULL
<1>0. invitations[id] \in Invitation
  BY DEF TablesOK
<1>1. /\ \A email : NewInvitation(email).subject = NULL
      /\ \A derived : Rotated(invitations[id], derived).subject = NULL
      /\ \A state : Closed(invitations[id], state).subject = NULL
  BY <1>0, RowParts DEF NewInvitation, SameRow
<1>2. ASSUME NEW request \in RequestsOf("invite"), NEW j \in Ids,
             CreateInvitation(request, j)
      PROVE  invitations'[id].subject = NULL
  BY <1>1, <1>2 DEF CreateInvitation, TablesOK
<1>3. ASSUME NEW request \in RequestsOf("resend"), NEW derived \in Nat,
             ResendInvitation(request, derived)
      PROVE  invitations'[id].subject = NULL
  BY <1>1, <1>3 DEF ResendInvitation, TablesOK
<1>4. ASSUME NEW request \in RequestsOf("revoke"), RevokeInvitation(request)
      PROVE  invitations'[id].subject = NULL
  BY <1>1, <1>4 DEF RevokeInvitation, TablesOK
<1>5. ASSUME NEW request \in RequestsOf("accept"), BeginAcceptExpires(request)
      PROVE  invitations'[id].subject = NULL
  BY <1>1, <1>5 DEF BeginAcceptExpires, ExpireLocked, TablesOK
<1>6. QED
  BY <1>2, <1>3, <1>4, <1>5

LEMMA ExecutorsKeepSubject ==
    ASSUME TablesOK, NEW id \in Ids, invitations[id].subject = NULL,
           \/ \E S \in SUBSET DueInvitations : ExpireDue(S)
           \/ \E j \in Ids, e \in Executors :
                    CompleteAccept(j, e) \/ FailAcceptance(j, e)
           \/ \E k \in CommandKeys, e \in Executors :
                    CompleteNotification(k, e) \/ FailNotification(k, e)
           \/ \E j \in Ids : TokenComesDue(j)
    PROVE  invitations'[id].subject = NULL
<1>0. invitations[id] \in Invitation
  BY DEF TablesOK
<1>1. /\ \A state : Closed(invitations[id], state).subject = NULL
      /\ AcceptedRow(invitations[id]).subject = NULL
      /\ \A due : [invitations[id] EXCEPT !.due = due].subject = NULL
      /\ \A outcome : [invitations[id] EXCEPT !.delivery = outcome].subject = NULL
  BY <1>0, RowParts DEF SameRow
<1>2. ASSUME NEW S \in SUBSET DueInvitations, ExpireDue(S)
      PROVE  invitations'[id].subject = NULL
  BY <1>1, <1>2 DEF ExpireDue
<1>3. ASSUME NEW j \in Ids, NEW e \in Executors,
             CompleteAccept(j, e) \/ FailAcceptance(j, e)
      PROVE  invitations'[id].subject = NULL
  <2>1. \/ invitations' = [invitations EXCEPT ![j] = AcceptedRow(invitations[j])]
        \/ invitations' = [invitations EXCEPT ![j] = Closed(invitations[j], "expired")]
        \/ UNCHANGED invitations
    BY <1>3 DEF CompleteAccept, FailAcceptance, ExpireLocked
  <2>2. QED
    BY <1>1, <2>1 DEF TablesOK
<1>4. ASSUME NEW k \in CommandKeys, NEW e \in Executors,
             CompleteNotification(k, e) \/ FailNotification(k, e)
      PROVE  invitations'[id].subject = NULL
  <2>1. invitations' \in {Delivery(k, "queued"), Delivery(k, "failed")}
    BY <1>4 DEF CompleteNotification, FailNotification
  <2>2. \A outcome : Delivery(k, outcome)[id].subject = NULL
    <3> TAKE outcome
    <3>1. CASE k.id = id
      BY <1>1, <3>1 DEF Delivery, TablesOK
    <3>2. CASE k.id # id
      BY <3>2 DEF Delivery, TablesOK
    <3>3. QED
      BY <3>1, <3>2
  <2>3. QED
    BY <2>1, <2>2
<1>5. ASSUME NEW j \in Ids, TokenComesDue(j)
      PROVE  invitations'[id].subject = NULL
  BY <1>1, <1>5 DEF TokenComesDue, TablesOK
<1>6. QED
  BY <1>2, <1>3, <1>4, <1>5

\* A token is consumed only by a call that presented the token valid at that
\* moment, on behalf of the subject that becomes the invitation's.
THEOREM AcceptancePresentsToken == Spec => AcceptanceUsesCurrentToken
<1>1. ASSUME TypeOK, [Next]_vars, NEW id \in Ids,
             invitations[id].subject = NULL, invitations'[id].subject # NULL
      PROVE  \E c \in Clients :
                 /\ call[c].request # NULL
                 /\ call[c].request.op = "accept"
                 /\ call[c].request.id = id
                 /\ call[c].request.token = invitations[id].token
                 /\ call[c].request.actor = invitations'[id].subject
  <2>1. TablesOK /\ Transaction
    BY <1>1, StepsAreTransactions DEF TypeOK
  <2>2. PICK c \in Clients : /\ call[c].request \in RequestsOf("accept")
                             /\ BeginAccept(call[c].request, call[c].seen, c)
    BY <1>1, <2>1, KeyShape, ManagementKeepsSubject, ExecutorsKeepSubject,
       OthersKeepInvitations DEF Transaction
  <2>3. /\ call[c].request # NULL
        /\ call[c].request.op = "accept"
        /\ call[c].request.id \in Ids
    BY <2>2, StoreAssumption, RequestTypes DEF RequestsOf
  <2>4. /\ invitations' = [invitations EXCEPT ![call[c].request.id] =
                Consumed(invitations[call[c].request.id], call[c].request.actor)]
        /\ invitations[call[c].request.id].token = call[c].request.token
    BY <2>2 DEF BeginAccept, TokenMatches
  <2>5. call[c].request.id = id
    BY <1>1, <2>1, <2>3, <2>4 DEF TablesOK
  <2>6. invitations'[id].subject = call[c].request.actor
    BY <2>1, <2>4, <2>5, RowParts DEF TablesOK
  <2>7. QED
    BY <2>3, <2>4, <2>5, <2>6
<1>2. TypeOK /\ [Next]_vars =>
        [\A id \in Ids :
            invitations[id].subject = NULL /\ invitations'[id].subject # NULL =>
                \E c \in Clients :
                    /\ call[c].request # NULL
                    /\ call[c].request.op = "accept"
                    /\ call[c].request.id = id
                    /\ call[c].request.token = invitations[id].token
                    /\ call[c].request.actor = invitations'[id].subject]_vars
  BY <1>1
<1>3. QED
  BY <1>2, TypeCorrect, PTL DEF Spec, AcceptanceUsesCurrentToken
================================================================================
