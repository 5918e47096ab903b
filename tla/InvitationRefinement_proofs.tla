------------------------ MODULE InvitationRefinement_proofs ------------------------
(* The service implements the invitation's life the plugin card promises, for *)
(* every value of the constants, if the membership service means its refusals: *)
(* each transaction is a step of at most one invitation's life, or a sweep,   *)
(* and each answer of a provider decides or announces at most one invitation. *)
(* Its transactions are those of AtomicTransactions, which RowLocks executes  *)
(* lock by lock: one lemma per transaction, over one row and its notifications.*)
EXTENDS InvitationInvariants_proofs, InvitationRefinement

-------------------------------------------------------------------------------
(* What a step reads as *)

\* The phase of an invitation, by its row.
LEMMA Phases ==
    ASSUME NEW id \in Ids
    PROVE  /\ invitations[id].state # "pending" => PhaseOf(id) = invitations[id].state
           /\ invitations[id].state = "pending" =>
                /\ invitations[id].subject # NULL => PhaseOf(id) = "accepting"
                /\ invitations[id].subject = NULL => PhaseOf(id) = "open"
BY DEF PhaseOf

\* The same in the next state.
LEMMA NextPhases ==
    ASSUME NEW id \in Ids
    PROVE  /\ invitations'[id].state # "pending" =>
                PhaseOf(id)' = invitations'[id].state
           /\ invitations'[id].state = "pending" =>
                /\ invitations'[id].subject # NULL => PhaseOf(id)' = "accepting"
                /\ invitations'[id].subject = NULL => PhaseOf(id)' = "open"
BY DEF PhaseOf

SamePlace(id) ==
    /\ PhaseOf(id)' = PhaseOf(id)
    /\ invitations'[id].generation = invitations[id].generation
    /\ invitations'[id].subject = invitations[id].subject

\* The steps of the life of one invitation, on its row.
LifeStep(id) ==
    \/ SamePlace(id)
    \/ /\ PhaseOf(id) = "none" /\ PhaseOf(id)' = "open"
       /\ invitations'[id].generation = 1
       /\ invitations'[id].subject = invitations[id].subject
    \/ /\ PhaseOf(id) = "open" /\ PhaseOf(id)' = "open"
       /\ invitations'[id].generation = invitations[id].generation + 1
       /\ invitations'[id].subject = invitations[id].subject
    \/ /\ PhaseOf(id) = "open" /\ PhaseOf(id)' \in {"revoked", "expired"}
       /\ invitations'[id].generation = invitations[id].generation
       /\ invitations'[id].subject = invitations[id].subject
    \/ /\ PhaseOf(id) = "open" /\ PhaseOf(id)' = "accepting"
       /\ invitations'[id].generation = invitations[id].generation
       /\ invitations'[id].subject \in Subjects
    \/ /\ PhaseOf(id) = "accepting"
       /\ \/ DecisionOf(id) = "admitted" /\ PhaseOf(id)' = "accepted"
          \/ DecisionOf(id) = "refused" /\ PhaseOf(id)' = "expired"
       /\ invitations'[id].generation = invitations[id].generation
       /\ invitations'[id].subject = invitations[id].subject

\* A step that changes neither state nor subject nor generation changes nothing of
\* the life.
LEMMA SameLife ==
    ASSUME NEW id \in Ids,
           invitations'[id].state = invitations[id].state,
           invitations'[id].subject = invitations[id].subject,
           invitations'[id].generation = invitations[id].generation
    PROVE  SamePlace(id)
BY Phases, NextPhases DEF SamePlace

\* An acceptance that is undecided ends as the membership service decided.
LEMMA ConclusionStep ==
    ASSUME RefusalIsFinal, TypeOK, TypeOK', MembershipMirrorsInvitation',
           AdmissionsFit, NEW id \in Ids, IsClosed(id), invitations[id].subject # NULL
    PROVE  /\ DecisionOf(id) = "refused"
           /\ invitations'[id].state = "expired"
<1>1. PICK e \in Executors, answer \in {"refused", "unknown"} :
            Settles(e, MemberKey(id), answer)
  BY DEF IsClosed
<1>2. MemberKey(id).id = id /\ MemberKey(id).kind = "add_member"
  BY DEF MemberKey
<1>3. id \in refused
  BY <1>1, <1>2 DEF Settles, AdmissionsFit, AnswerIsTrue
<1>4. members[id] = NULL
  BY <1>3 DEF AdmissionsFit, AdmittedFits
<1>5. DecisionOf(id) = "refused"
  BY <1>3, <1>4 DEF DecisionOf
<1>6. invitations[id] \in Invitation
  BY DEF TypeOK, TablesOK
<1>7. PICK l \in {"revoked", "expired"} : invitations'[id] = Closed(invitations[id], l)
  BY DEF IsClosed
<1>8. invitations'[id].state = l /\ invitations'[id].subject # NULL
  BY <1>6, <1>7, RowEffects
<1>9. commands'[MemberKey(id)].state \in {"absent"} \cup Live \cup Settled
  <2>1. commands' \in [CommandKeys -> Command] /\ MemberKey(id) \in CommandKeys
    BY DEF TypeOK, TablesOK, CommandKeys, MemberKey
  <2>2. QED
    BY <2>1 DEF Command
<1>10. l = "expired"
  BY <1>8, <1>9 DEF MembershipMirrorsInvitation, Live, Settled
<1>11. QED
  BY <1>5, <1>8, <1>10

\* What a transaction does to an invitation is a step of its life.
LEMMA LifeSteps ==
    ASSUME RefusalIsFinal, TypeOK, TypeOK', MembershipMirrorsInvitation',
           AllAnnounced, AdmissionsFit, NEW id \in Ids, InvitationStep(id)
    PROVE  LifeStep(id)
<1> DEFINE row == invitations[id]
           new == invitations'[id]
<1>0. row \in Invitation /\ TablesOK
  BY DEF TypeOK, TablesOK
<1>1. CASE IsQuiet(id)
  <2>1. new.state = row.state /\ new.subject = row.subject
        /\ new.generation = row.generation
    BY <1>0, <1>1, RowEffects DEF IsQuiet
  <2>2. QED
    BY <2>1, SameLife DEF LifeStep
<1>2. CASE IsCreated(id)
  <2>1. /\ row.state = "none" /\ row.subject = NULL
        /\ new.state = "pending" /\ new.subject = NULL /\ new.generation = 1
    BY <1>2 DEF IsCreated, NewInvitation, AllAnnounced, Announced, RowIsSound
  <2>2. PhaseOf(id) = "none" /\ PhaseOf(id)' = "open"
    BY <2>1, Phases, NextPhases
  <2>3. QED
    BY <2>1, <2>2 DEF LifeStep
<1>3. CASE IsResent(id)
  <2>1. /\ row.state = "pending" /\ row.subject = NULL
        /\ new.state = "pending" /\ new.subject = NULL
        /\ new.generation = row.generation + 1
    BY <1>0, <1>3, RowEffects DEF IsResent, IsOpen
  <2>2. PhaseOf(id) = "open" /\ PhaseOf(id)' = "open"
    BY <2>1, Phases, NextPhases
  <2>3. QED
    BY <2>1, <2>2 DEF LifeStep
<1>4. CASE IsClosed(id)
  <2>1. PICK l \in {"revoked", "expired"} : new = Closed(row, l)
    BY <1>4 DEF IsClosed
  <2>2. /\ row.state = "pending" /\ new.state = l /\ new.subject = row.subject
        /\ new.generation = row.generation
    BY <1>0, <1>4, <2>1, RowEffects DEF IsClosed
  <2>3. PhaseOf(id)' = l
    BY <2>2, NextPhases
  <2>4. CASE row.subject = NULL
    <3>1. PhaseOf(id) = "open"
      BY <2>2, <2>4, Phases
    <3>2. QED
      BY <2>2, <2>3, <3>1 DEF LifeStep
  <2>5. CASE row.subject # NULL
    <3>1. DecisionOf(id) = "refused" /\ l = "expired"
      BY <1>4, <2>2, <2>5, ConclusionStep
    <3>2. PhaseOf(id) = "accepting"
      BY <2>2, <2>5, Phases
    <3>3. QED
      BY <2>2, <2>3, <3>1, <3>2 DEF LifeStep
  <2>6. QED
    BY <2>4, <2>5
<1>5. CASE IsConsumed(id)
  <2>1. PICK subject \in Subjects : new = Consumed(row, subject)
    BY <1>5 DEF IsConsumed
  <2>2. /\ row.state = "pending" /\ row.subject = NULL
        /\ new.state = "pending" /\ new.subject = subject /\ subject # NULL
        /\ new.generation = row.generation
    BY <1>0, <1>5, <2>1, RowEffects, StoreAssumption DEF IsConsumed, IsOpen
  <2>3. PhaseOf(id) = "open" /\ PhaseOf(id)' = "accepting"
    BY <2>2, Phases, NextPhases
  <2>4. QED
    BY <2>2, <2>3 DEF LifeStep
<1>6. CASE IsAccepted(id)
  <2>1. PICK e \in Executors : Settles(e, MemberKey(id), "ok")
    BY <1>6 DEF IsAccepted
  <2>2. MemberKey(id).id = id /\ MemberKey(id).kind = "add_member"
    BY DEF MemberKey
  <2>3. members[id] # NULL
    BY <2>1, <2>2 DEF Settles, AdmissionsFit, AnswerIsTrue
  <2>4. DecisionOf(id) = "admitted"
    BY <2>3 DEF DecisionOf
  <2>5. /\ row.state = "pending" /\ row.subject # NULL
        /\ new.state = "accepted" /\ new.subject = row.subject
        /\ new.generation = row.generation
    BY <1>0, <1>6, RowEffects DEF IsAccepted
  <2>6. PhaseOf(id) = "accepting" /\ PhaseOf(id)' = "accepted"
    BY <2>5, Phases, NextPhases
  <2>7. QED
    BY <2>4, <2>5, <2>6 DEF LifeStep
<1>7. CASE IsSettled(id)
  <2>1. new.state = row.state /\ new.subject = row.subject
        /\ new.generation = row.generation
    BY <1>0, <1>7, SettledRow
  <2>2. QED
    BY <2>1, SameLife DEF LifeStep
<1>8. QED
  BY <1>1, <1>2, <1>3, <1>4, <1>5, <1>6, <1>7 DEF InvitationStep
-------------------------------------------------------------------------------
(* One invitation at a time *)

\* No row but one is written, or the rows of a sweep, which were open and expire.
OneRowWritten ==
    \E id \in Ids : \A other \in Ids \ {id} : SamePlace(other)
Swept ==
    \E S \in SUBSET Ids :
        /\ \A id \in S :
                /\ PhaseOf(id) = "open" /\ PhaseOf(id)' = "expired"
                /\ invitations'[id].generation = invitations[id].generation
                /\ invitations'[id].subject = invitations[id].subject
        /\ \A id \in Ids \ S : SamePlace(id)

\* A transaction that leaves the rows of the other invitations as they are.
LEMMA OthersKept ==
    ASSUME NEW id \in Ids,
           \A other \in Ids \ {id} : invitations'[other] = invitations[other]
    PROVE  OneRowWritten
BY SameLife DEF OneRowWritten

\* A sweep of expire_due is a sweep of the invitations' lives.
LEMMA SweepStep ==
    ASSUME TablesOK, NEW S \in SUBSET DueInvitations, ExpireDue(S)
    PROVE  Swept
<1>1. S \subseteq Ids /\ \A id \in S : IsOpen(invitations[id])
  BY DEF DueInvitations, Open, IsOpen
<1>2. ASSUME NEW id \in S
      PROVE  /\ PhaseOf(id) = "open" /\ PhaseOf(id)' = "expired"
             /\ invitations'[id].generation = invitations[id].generation
             /\ invitations'[id].subject = invitations[id].subject
  <2>1. id \in Ids /\ invitations[id] \in Invitation
    BY <1>1 DEF TablesOK
  <2>2. invitations'[id] = Closed(invitations[id], "expired")
    BY <1>1, <2>1 DEF ExpireDue
  <2>3. /\ invitations'[id].state = "expired"
        /\ invitations'[id].generation = invitations[id].generation
        /\ invitations'[id].subject = invitations[id].subject
    BY <2>1, <2>2, RowEffects
  <2>4. QED
    BY <1>1, <2>1, <2>3, Phases, NextPhases DEF IsOpen
<1>3. ASSUME NEW id \in Ids \ S
      PROVE  SamePlace(id)
  BY SameLife DEF ExpireDue
<1>4. QED
  BY <1>1, <1>2, <1>3 DEF Swept

\* Every transaction writes the row of one invitation, or is a sweep.
LEMMA OneAtATime ==
    ASSUME TypeOK, Transaction
    PROVE  OneRowWritten \/ Swept
<1>0. TablesOK /\ 1 \in Ids
  BY StoreAssumption DEF TypeOK, Ids
<1>1. ASSUME UNCHANGED invitations
      PROVE  OneRowWritten
  BY <1>0, <1>1, OthersKept
<1>2. ASSUME NEW id \in Ids, NEW row,
             invitations' = [invitations EXCEPT ![id] = row]
      PROVE  OneRowWritten
  BY <1>0, <1>2, OthersKept DEF TablesOK
<1>3. ASSUME NEW request \in RequestsOf("invite"), NEW id \in Ids,
             CreateInvitation(request, id)
      PROVE  OneRowWritten
  BY <1>1, <1>2, <1>3 DEF CreateInvitation
<1>4. ASSUME NEW request \in RequestsOf("resend"), NEW derived \in Nat \ {0},
             ResendInvitation(request, derived)
      PROVE  OneRowWritten
  <2>1. request.id \in Ids
    BY RequestTypes DEF RequestsOf
  <2>2. QED
    BY <1>1, <1>2, <1>4, <2>1 DEF ResendInvitation
<1>5. ASSUME NEW request \in RequestsOf("revoke"), RevokeInvitation(request)
      PROVE  OneRowWritten
  <2>1. request.id \in Ids
    BY RequestTypes DEF RequestsOf
  <2>2. QED
    BY <1>1, <1>2, <1>5, <2>1 DEF RevokeInvitation
<1>6. ASSUME NEW request \in RequestsOf("accept"), BeginAcceptExpires(request)
      PROVE  OneRowWritten
  <2>1. request.id \in Ids
    BY RequestTypes DEF RequestsOf
  <2>2. QED
    BY <1>1, <1>2, <1>6, <2>1 DEF BeginAcceptExpires, ExpireLocked
<1>7. ASSUME NEW request \in RequestsOf("accept"), NEW generation, NEW e,
             BeginAccept(request, generation, e)
      PROVE  OneRowWritten
  <2>1. request.id \in Ids
    BY RequestTypes DEF RequestsOf
  <2>2. QED
    BY <1>1, <1>2, <1>7, <2>1 DEF BeginAccept
<1>8. ASSUME NEW k \in CommandKeys, NEW e \in Executors
      PROVE  /\ k.id \in Ids
             /\ CompleteAccept(k.id, e) => OneRowWritten
             /\ FailAcceptance(k.id, e) => OneRowWritten
             /\ CompleteNotification(k, e) => OneRowWritten
             /\ FailNotification(k, e) => OneRowWritten
  <2>1. k.id \in Ids
    BY KeyForms, KeyShape
  <2>2. CompleteAccept(k.id, e) => OneRowWritten
    BY <1>1, <1>2, <2>1 DEF CompleteAccept
  <2>3. FailAcceptance(k.id, e) => OneRowWritten
    BY <1>1, <1>2, <2>1 DEF FailAcceptance, ExpireLocked
  <2>4. ASSUME NEW outcome, invitations' = Delivery(k, outcome)
        PROVE  OneRowWritten
    BY <1>0, <2>1, <2>4, OthersKept DEF Delivery, TablesOK
  <2>5. QED
    BY <2>1, <2>2, <2>3, <2>4 DEF CompleteNotification, FailNotification
<1>9. ASSUME NEW k \in CommandKeys, NEW e \in Executors,
             \/ CompleteLifecycle(k, e)
             \/ FailLifecycle(k, e)
             \/ RetryCommand(k, e)
             \/ SupersedeCommand(k, e)
      PROVE  OneRowWritten
  BY <1>1, <1>9 DEF CompleteLifecycle, FailLifecycle, RetryCommand, SupersedeCommand
<1>10. ASSUME \/ UNCHANGED tables
              \/ \E S \in SUBSET DueCommands, e \in Executors : ClaimDueCommands(S, e)
              \/ \E k \in CommandKeys : CommandComesDue(k)
       PROVE  OneRowWritten
  BY <1>1, <1>10 DEF tables, ClaimDueCommands, CommandComesDue
<1>11. ASSUME NEW id \in Ids, TokenComesDue(id)
       PROVE  OneRowWritten
  BY <1>0, <1>11, OthersKept DEF TokenComesDue, TablesOK
<1>12. QED
  BY <1>0, <1>3, <1>4, <1>5, <1>6, <1>7, <1>8, <1>9, <1>10, <1>11, SweepStep
     DEF Transaction
-------------------------------------------------------------------------------
(* Steps of the service as steps of the lives *)

\* A transaction that writes one row is a step of that invitation's life.
LEMMA OneLife ==
    ASSUME UNCHANGED providers, NEW id \in Ids, LifeStep(id),
           \A other \in Ids \ {id} : SamePlace(other)
    PROVE  Lifecycle!Next \/ UNCHANGED Lifecycle!vars
<1>1. /\ \A i \in Ids : DecisionOf(i)' = DecisionOf(i)
      /\ observed' = observed
  BY DEF DecisionOf, providers
<1>2. ASSUME SamePlace(id)
      PROVE  UNCHANGED Lifecycle!vars
  <2>1. \A i \in Ids : SamePlace(i)
    BY <1>2
  <2>2. QED
    BY <1>1, <2>1 DEF Lifecycle!vars, SamePlace
<1>3. ASSUME PhaseOf(id) = "none", PhaseOf(id)' = "open",
             invitations'[id].generation = 1,
             invitations'[id].subject = invitations[id].subject
      PROVE  Lifecycle!Create(id)
  BY <1>1, <1>3 DEF Lifecycle!Create, Lifecycle!Moves, SamePlace
<1>4. ASSUME PhaseOf(id) = "open", PhaseOf(id)' = "open",
             invitations'[id].generation = invitations[id].generation + 1,
             invitations'[id].subject = invitations[id].subject
      PROVE  Lifecycle!Rotate(id)
  BY <1>1, <1>4 DEF Lifecycle!Rotate, SamePlace
<1>5. ASSUME PhaseOf(id) = "open", PhaseOf(id)' = "revoked",
             invitations'[id].generation = invitations[id].generation,
             invitations'[id].subject = invitations[id].subject
      PROVE  Lifecycle!Revoke(id)
  BY <1>1, <1>5 DEF Lifecycle!Revoke, Lifecycle!Moves, SamePlace
<1>6. ASSUME PhaseOf(id) = "open", PhaseOf(id)' = "expired",
             invitations'[id].generation = invitations[id].generation,
             invitations'[id].subject = invitations[id].subject
      PROVE  Lifecycle!Expire({id})
  BY <1>1, <1>6 DEF Lifecycle!Expire, SamePlace
<1>7. ASSUME NEW subject \in Subjects,
             PhaseOf(id) = "open", PhaseOf(id)' = "accepting",
             invitations'[id].generation = invitations[id].generation,
             invitations'[id].subject = subject
      PROVE  Lifecycle!StartAcceptance(id, subject)
  BY <1>1, <1>7 DEF Lifecycle!StartAcceptance, Lifecycle!Moves, SamePlace
<1>8. ASSUME PhaseOf(id) = "accepting",
             \/ DecisionOf(id) = "admitted" /\ PhaseOf(id)' = "accepted"
             \/ DecisionOf(id) = "refused" /\ PhaseOf(id)' = "expired",
             invitations'[id].generation = invitations[id].generation,
             invitations'[id].subject = invitations[id].subject
      PROVE  Lifecycle!Conclude(id)
  BY <1>1, <1>8 DEF Lifecycle!Conclude, Lifecycle!Moves, SamePlace
<1>9. QED
  <2>1. {id} \in SUBSET Ids
    OBVIOUS
  <2>2. \/ UNCHANGED Lifecycle!vars
        \/ Lifecycle!Create(id)
        \/ Lifecycle!Rotate(id)
        \/ Lifecycle!Revoke(id)
        \/ Lifecycle!Expire({id})
        \/ \E subject \in Subjects : Lifecycle!StartAcceptance(id, subject)
        \/ Lifecycle!Conclude(id)
    BY <1>2, <1>3, <1>4, <1>5, <1>6, <1>7, <1>8 DEF LifeStep
  <2>3. QED
    BY <2>1, <2>2 DEF Lifecycle!Next

\* A sweep of expire_due expires open invitations and touches no other.
LEMMA SweptLives ==
    ASSUME UNCHANGED providers, Swept
    PROVE  Lifecycle!Next
<1>1. /\ \A i \in Ids : DecisionOf(i)' = DecisionOf(i)
      /\ observed' = observed
  BY DEF DecisionOf, providers
<1>2. PICK S \in SUBSET Ids :
        /\ \A id \in S :
                /\ PhaseOf(id) = "open" /\ PhaseOf(id)' = "expired"
                /\ invitations'[id].generation = invitations[id].generation
                /\ invitations'[id].subject = invitations[id].subject
        /\ \A id \in Ids \ S : SamePlace(id)
  BY DEF Swept
<1>3. Lifecycle!Expire(S)
  BY <1>1, <1>2 DEF Lifecycle!Expire, SamePlace
<1>4. QED
  BY <1>2, <1>3 DEF Lifecycle!Next

\* What the notification service was told, as the invitations' lives have it.
EndsTold(told) == {<<o.id, o.lifecycle>> : o \in told}

\* Telling one more end.
LEMMA OneMoreEnd ==
    ASSUME NEW told, NEW new
    PROVE  EndsTold(told \cup {new}) = EndsTold(told) \cup {<<new.id, new.lifecycle>>}
BY DEF EndsTold

\* What a provider carries out decides or announces one invitation, or repeats what
\* it has done.
LEMMA ProvidersImplement ==
    ASSUME RefusalIsFinal, TypeOK, MembershipMirrorsInvitation, AllAnnounced,
           ToldTheTruth, AdmissionsFit, UNCHANGED tables, NEW e \in Executors,
           \/ \E answer \in Carried : \/ MembershipAdmits(e, answer)
                                      \/ NotificationQueues(e, answer)
                                      \/ LifecycleIsObserved(e, answer)
           \/ MembershipRefuses(e)
    PROVE  Lifecycle!Next \/ UNCHANGED Lifecycle!vars
<1>k. PICK k : k = task[e].key
  OBVIOUS
<1>id. PICK id : id = k.id
  OBVIOUS
<1>0. /\ invitations' = invitations
      /\ \A i \in Ids : PhaseOf(i)' = PhaseOf(i)
      /\ members \in [Ids -> Subjects \cup {NULL}]
  BY DEF tables, PhaseOf, TypeOK, ProvidersOK
<1>1. task[e].pc = "call" => k \in CommandKeys /\ id \in Ids
  <2>1. task[e].pc = "call" => k \in CommandKeys
    BY <1>k, RuntimeTypes DEF TypeOK
  <2>2. QED
    BY <1>id, <2>1, KeyShape
<1>2. ASSUME task[e].pc = "call", k.kind = "add_member", members[id] = NULL,
             id \notin refused
      PROVE  PhaseOf(id) = "accepting" /\ DecisionOf(id) = "none"
  <2>1. id \in Ids /\ invitations[id] \in Invitation
    BY <1>1, <1>2 DEF TypeOK, TablesOK
  <2>2. invitations[id].subject # NULL
    BY <1>k, <1>id, <1>2 DEF AdmissionsFit, AnswerIsTrue
  <2>3. invitations[id].state \notin {"accepted", "expired"}
    BY <1>2, <2>1, <2>2 DEF AdmissionsFit, AdmittedFits
  <2>4. invitations[id].state = "pending"
    <3>1. commands[MemberKey(id)].state \in {"absent"} \cup Live \cup Settled
      <4>1. commands \in [CommandKeys -> Command] /\ MemberKey(id) \in CommandKeys
        BY <2>1 DEF TypeOK, TablesOK, CommandKeys, MemberKey
      <4>2. QED
        BY <4>1 DEF Command
    <3>2. QED
      BY <2>1, <2>2, <2>3, <3>1 DEF MembershipMirrorsInvitation, Live, Settled
  <2>5. QED
    BY <1>2, <2>1, <2>2, <2>4, Phases DEF DecisionOf
<1>3. ASSUME NEW answer \in Carried, MembershipAdmits(e, answer)
      PROVE  Lifecycle!Next \/ UNCHANGED Lifecycle!vars
  <2>1. /\ task[e].pc = "call" /\ k.kind = "add_member" /\ id \notin refused
        /\ members' = [members EXCEPT ![id] = commands[k].subject]
        /\ refused' = refused /\ observed' = observed
    BY <1>k, <1>id, <1>3 DEF MembershipAdmits, Calls
  <2>2. id \in Ids /\ k = MemberKey(id)
    BY <1>1, <1>id, <2>1, KeyShape
  <2>3. /\ invitations[id].subject # NULL
        /\ commands[k].subject = invitations[id].subject
        /\ members[id] # NULL => members[id] = invitations[id].subject
    BY <1>k, <1>id, <2>1, <2>2, MirrorPart DEF Mirror, AdmissionsFit, AnswerIsTrue, AdmittedFits
  <2>4. CASE members[id] # NULL
    <3>1. members' = members
      BY <1>0, <2>1, <2>2, <2>3, <2>4
    <3>2. \A i \in Ids : DecisionOf(i)' = DecisionOf(i)
      BY <2>1, <3>1 DEF DecisionOf
    <3>3. QED
      BY <1>0, <2>1, <3>2 DEF Lifecycle!vars
  <2>5. CASE members[id] = NULL
    <3>1. PhaseOf(id) = "accepting" /\ DecisionOf(id) = "none"
      BY <1>2, <2>1, <2>5
    <3>2. DecisionOf(id)' = "admitted"
      BY <1>0, <2>1, <2>2, <2>3 DEF DecisionOf
    <3>3. \A i \in Ids \ {id} : DecisionOf(i)' = DecisionOf(i)
      BY <1>0, <2>1, <2>2 DEF DecisionOf
    <3>4. Lifecycle!Decide(id, "admitted")
      BY <1>0, <2>1, <2>2, <3>1, <3>2, <3>3 DEF Lifecycle!Decide
    <3>5. QED
      BY <2>2, <3>4 DEF Lifecycle!Next
  <2>6. QED
    BY <2>4, <2>5
<1>4. ASSUME MembershipRefuses(e)
      PROVE  Lifecycle!Next \/ UNCHANGED Lifecycle!vars
  <2>1. /\ task[e].pc = "call" /\ k.kind = "add_member" /\ members[id] = NULL
        /\ refused' = refused \cup {id}
        /\ members' = members /\ observed' = observed
    BY <1>k, <1>id, <1>4 DEF MembershipRefuses, Calls
  <2>2. id \in Ids
    BY <1>1, <2>1
  <2>3. \A i \in Ids \ {id} : DecisionOf(i)' = DecisionOf(i)
    BY <2>1 DEF DecisionOf
  <2>4. DecisionOf(id)' = "refused"
    BY <2>1 DEF DecisionOf
  <2>5. CASE id \in refused
    <3>1. DecisionOf(id) = "refused"
      BY <2>1, <2>5 DEF DecisionOf
    <3>2. \A i \in Ids : DecisionOf(i)' = DecisionOf(i)
      BY <2>3, <2>4, <3>1
    <3>3. QED
      BY <1>0, <2>1, <3>2 DEF Lifecycle!vars
  <2>6. CASE id \notin refused
    <3>1. PhaseOf(id) = "accepting" /\ DecisionOf(id) = "none"
      BY <1>2, <2>1, <2>6
    <3>2. Lifecycle!Decide(id, "refused")
      BY <1>0, <2>1, <2>2, <2>3, <2>4, <3>1 DEF Lifecycle!Decide
    <3>3. QED
      BY <2>2, <3>2 DEF Lifecycle!Next
  <2>7. QED
    BY <2>5, <2>6
<1>5. ASSUME NEW answer \in Carried, NotificationQueues(e, answer)
      PROVE  UNCHANGED Lifecycle!vars
  <2>1. members' = members /\ refused' = refused /\ observed' = observed
    BY <1>5 DEF NotificationQueues
  <2>2. \A i \in Ids : DecisionOf(i)' = DecisionOf(i)
    BY <2>1 DEF DecisionOf
  <2>3. QED
    BY <1>0, <2>1, <2>2 DEF Lifecycle!vars
<1>6. ASSUME NEW answer \in Carried, LifecycleIsObserved(e, answer)
      PROVE  Lifecycle!Next
  <2>1. /\ task[e].pc = "call" /\ k.kind = "notify_lifecycle"
        /\ observed' = observed \cup {[id |-> id, lifecycle |-> k.lifecycle]}
        /\ members' = members /\ refused' = refused
    BY <1>k, <1>id, <1>6 DEF LifecycleIsObserved, Calls
  <2>2. \A i \in Ids : DecisionOf(i)' = DecisionOf(i)
    BY <2>1 DEF DecisionOf
  <2>3. id \in Ids /\ k.lifecycle \in Lifecycles /\ k.kind # "add_member"
    BY <1>1, <2>1, KeyForms
  <2>4. invitations[id].state = k.lifecycle
    BY <1>k, <1>id, <2>1 DEF ToldTheTruth, TaskIsFresh
  <2>5. PhaseOf(id) = k.lifecycle
    BY <2>3, <2>4, Phases DEF Lifecycles
  <2>6. EndsTold(observed)' = EndsTold(observed) \cup {<<id, k.lifecycle>>}
    <3> DEFINE new == [id |-> id, lifecycle |-> k.lifecycle]
    <3>1. new.id = id /\ new.lifecycle = k.lifecycle /\ observed' = observed \cup {new}
      BY <2>1
    <3> HIDE DEF new
    <3>2. EndsTold(observed \cup {new}) = EndsTold(observed) \cup {<<new.id, new.lifecycle>>}
      BY OneMoreEnd
    <3>3. QED
      BY <3>1, <3>2
  <2>7. Lifecycle!Announce(id)
    BY <1>0, <2>2, <2>3, <2>5, <2>6
       DEF Lifecycle!Announce, Lifecycle!Ends, Lifecycles, EndsTold
  <2>8. QED
    BY <2>3, <2>7 DEF Lifecycle!Next
<1>7. QED
  BY <1>3, <1>4, <1>5, <1>6

\* Every step of the service is a step of the invitations' lives, or no step of them.
LEMMA StepImplements ==
    ASSUME RefusalIsFinal, TypeOK, TypeOK', MembershipMirrorsInvitation,
           MembershipMirrorsInvitation', AllAnnounced, ToldTheTruth, AdmissionsFit,
           [Next]_vars
    PROVE  Lifecycle!Next \/ UNCHANGED Lifecycle!vars
<1>1. Transaction
  BY StepsAreTransactions DEF TypeOK
<1>2. CASE UNCHANGED providers
  <2>1. \A id \in Ids : LifeStep(id)
    BY <1>1, InvitationSteps, LifeSteps DEF TypeOK
  <2>2. OneRowWritten \/ Swept
    BY <1>1, OneAtATime
  <2>3. QED
    BY <1>2, <2>1, <2>2, OneLife, SweptLives DEF OneRowWritten
<1>3. CASE ~UNCHANGED providers
  BY <1>3, ProviderSteps, ProvidersImplement
<1>4. QED
  BY <1>2, <1>3

\* Nothing exists, nobody accepts, nothing is decided or announced at first.
LEMMA InitImplements ==
    ASSUME Init
    PROVE  Lifecycle!Init
<1>1. ASSUME NEW id \in Ids
      PROVE  /\ PhaseOf(id) = "none" /\ DecisionOf(id) = "none"
             /\ invitations[id].generation = 0 /\ invitations[id].subject = NULL
  BY DEF Init, TablesInit, NoInvitation, PhaseOf, DecisionOf
<1>2. observed = {}
  BY DEF Init
<1>3. QED
  BY <1>1, <1>2 DEF Lifecycle!Init

\* The service implements the invitation's life of docs/plugin-card.md: whatever
\* crashes, is retried, answered late or overtaken, an invitation is rotated, revoked,
\* expired, accepted and announced only as that life allows.
THEOREM ServiceImplementsLifecycle ==
    ASSUME RefusalIsFinal
    PROVE  Spec => ImplementsLifecycle
<1>1. Init => Lifecycle!Init
  BY InitImplements
<1>2. /\ TypeOK /\ TypeOK'
      /\ MembershipMirrorsInvitation /\ MembershipMirrorsInvitation'
      /\ AllAnnounced /\ ToldTheTruth /\ AdmissionsFit
      /\ [Next]_vars
      => [Lifecycle!Next]_Lifecycle!vars
  BY StepImplements
<1>3. QED
  BY <1>1, <1>2, TypeCorrect, MembershipMirrors, AllAnnouncedAlways,
     ToldTheTruthAlways, AdmissionsFitAlways, PTL
     DEF Spec, ImplementsLifecycle, Lifecycle!Spec
-------------------------------------------------------------------------------
(* The tables as atomic transactions change them *)

LiveNow(k) == commands[k].state \in Live
NotesOf(id) == {NotifyKey(id, g) : g \in 1..MaxGeneration}

\* What is read of an invitation, and what becomes of it.
LEMMA RowReads ==
    ASSUME TablesOK, NEW id \in Ids
    PROVE  /\ rows[id] = RowOf(id) /\ notes[id] = NoteOf(id)
           /\ invitations[id].state = "none" <=> RowOf(id).state = "none"
           /\ invitations[id].state = "none" => RowOf(id) = Transactions!Absent
           /\ IsOpen(invitations[id]) <=> RowOf(id).state = "open"
           /\ invitations[id].state = "pending" /\ invitations[id].subject # NULL <=>
                RowOf(id).state = "accepting"
           /\ invitations[id].state # "none" =>
                RowOf(id) = [state |-> PhaseOf(id), generation |-> invitations[id].generation,
                             number |-> id, address |-> invitations[id].email]
<1>1. invitations[id].state \in {"none", "pending", "accepted", "revoked", "expired"}
  BY InvitationFields DEF TablesOK, States, Lifecycles
<1>2. rows[id] = RowOf(id) /\ notes[id] = NoteOf(id)
  BY DEF rows, notes
<1>3. invitations[id].state # "none" =>
         RowOf(id) = [state |-> PhaseOf(id), generation |-> invitations[id].generation,
                      number |-> id, address |-> invitations[id].email]
  BY DEF RowOf
<1>4. invitations[id].state = "none" => RowOf(id) = Transactions!Absent
  BY DEF RowOf, Transactions!Absent
<1>5. invitations[id].state # "none" => RowOf(id).state = PhaseOf(id)
  BY <1>3
<1>6. invitations[id].state = "none" => RowOf(id).state = "none"
  BY <1>4 DEF Transactions!Absent
<1>7. QED
  BY <1>1, <1>2, <1>3, <1>4, <1>5, <1>6, Phases DEF IsOpen

\* The notification a row shows is that of its own generation.
LEMMA NoteReads ==
    ASSUME NEW id \in Ids, NEW g, g = invitations[id].generation
    PROVE  NoteOf(id) = IF g \in 1..MaxGeneration /\ LiveNow(NotifyKey(id, g)) THEN g ELSE 0
BY DEF NoteOf, LiveNow

\* The same in the next state.
LEMMA NextNoteReads ==
    ASSUME NEW id \in Ids, NEW g, g = invitations'[id].generation
    PROVE  NoteOf(id)' = IF g \in 1..MaxGeneration /\ LiveNow(NotifyKey(id, g))' THEN g ELSE 0
BY DEF NoteOf, LiveNow

\* An invitation whose row and notifications stay as they are.
Undisturbed(id) ==
    /\ invitations'[id] = invitations[id]
    /\ \A k \in NotesOf(id) : LiveNow(k)' <=> LiveNow(k)

LEMMA UndisturbedReads ==
    ASSUME NEW id \in Ids, Undisturbed(id)
    PROVE  RowOf(id)' = RowOf(id) /\ NoteOf(id)' = NoteOf(id)
<1>1. RowOf(id)' = RowOf(id)
  BY DEF Undisturbed, RowOf, PhaseOf
<1>2. \A g \in 1..MaxGeneration : LiveNow(NotifyKey(id, g))' <=> LiveNow(NotifyKey(id, g))
  BY DEF Undisturbed, NotesOf
<1>3. NoteOf(id)' = NoteOf(id)
  <2>1. invitations'[id].generation = invitations[id].generation
    BY DEF Undisturbed
  <2>2. PICK g : g = invitations[id].generation
    OBVIOUS
  <2>3. NoteOf(id) = IF g \in 1..MaxGeneration /\ LiveNow(NotifyKey(id, g)) THEN g ELSE 0
    BY <2>2, NoteReads
  <2>4. NoteOf(id)' = IF g \in 1..MaxGeneration /\ LiveNow(NotifyKey(id, g))' THEN g ELSE 0
    BY <2>1, <2>2, NextNoteReads
  <2>5. QED
    BY <1>2, <2>3, <2>4
<1>4. QED
  BY <1>1, <1>3

\* A transaction that writes one invitation.
LEMMA OneChanged ==
    ASSUME NEW id \in Ids, \A other \in Ids \ {id} : Undisturbed(other)
    PROVE  /\ rows' = [rows EXCEPT ![id] = RowOf(id)']
           /\ notes' = [notes EXCEPT ![id] = NoteOf(id)']
           /\ invitations'[id].state # "none" /\ invitations[id].state # "none" =>
                /\ nextNumber' = nextNumber
                /\ late' = IF invitations'[id].due THEN late \cup {id} ELSE late \ {id}
<1>1. \A other \in Ids \ {id} : RowOf(other)' = RowOf(other) /\ NoteOf(other)' = NoteOf(other)
  BY UndisturbedReads
<1>2. rows' = [rows EXCEPT ![id] = RowOf(id)']
  BY <1>1 DEF rows
<1>3. notes' = [notes EXCEPT ![id] = NoteOf(id)']
  BY <1>1 DEF notes
<1>4. ASSUME invitations'[id].state # "none", invitations[id].state # "none"
      PROVE  /\ nextNumber' = nextNumber
             /\ late' = IF invitations'[id].due THEN late \cup {id} ELSE late \ {id}
  <2>1. \A j \in Ids : invitations'[j].state = "none" <=> invitations[j].state = "none"
    BY <1>4 DEF Undisturbed
  <2>2. nextNumber' = nextNumber
    BY <2>1 DEF nextNumber, NextNumber
  <2>3. late' = IF invitations'[id].due THEN late \cup {id} ELSE late \ {id}
    BY <1>4 DEF late, Undisturbed
  <2>4. QED
    BY <2>2, <2>3
<1>5. QED
  BY <1>2, <1>3, <1>4

\* A transaction that writes none.
LEMMA NoneChanged ==
    ASSUME \A id \in Ids : Undisturbed(id)
    PROVE  UNCHANGED <<rows, notes, nextNumber, late>>
<1>1. \A id \in Ids : RowOf(id)' = RowOf(id) /\ NoteOf(id)' = NoteOf(id)
  BY UndisturbedReads
<1>2. rows' = rows /\ notes' = notes
  BY <1>1 DEF rows, notes
<1>3. nextNumber' = nextNumber /\ late' = late
  BY DEF nextNumber, NextNumber, late, Undisturbed
<1>4. QED
  BY <1>2, <1>3

\* What is read of an idempotency key.
LEMMA KeyReads ==
    ASSUME NEW key \in Keys
    PROVE  /\ keys[key] = KeyOf(key)
           /\ mutations[key].status = "vacant" => KeyOf(key) = Transactions!Free
           /\ \A id : KeyOf(key) = Transactions!Bound("started", id) <=>
                        mutations[key].status = "started" /\ mutations[key].id = id
<1>1. keys[key] = KeyOf(key)
  BY DEF keys
<1>2. mutations[key].status = "vacant" => KeyOf(key) = Transactions!Free
  BY DEF KeyOf, Transactions!Free
<1>3. ASSUME NEW id
      PROVE  KeyOf(key) = Transactions!Bound("started", id) <=>
                mutations[key].status = "started" /\ mutations[key].id = id
  <2>1. CASE mutations[key].status = "vacant"
    <3>1. KeyOf(key).status = "vacant" /\ Transactions!Bound("started", id).status = "started"
      BY <2>1 DEF KeyOf, Transactions!Bound
    <3>2. QED
      BY <2>1, <3>1
  <2>2. CASE mutations[key].status # "vacant"
    <3>1. KeyOf(key) = [status |-> mutations[key].status, id |-> mutations[key].id]
      BY <2>2 DEF KeyOf
    <3>2. QED
      BY <3>1 DEF Transactions!Bound
  <2>3. QED
    BY <2>1, <2>2
<1>4. QED
  BY <1>1, <1>2, <1>3

\* A transaction that found its key free answers it.
LEMMA KeyIsAnswered ==
    ASSUME TablesOK, NEW request \in Requests, NewKey(request),
           NEW entry, entry.status # "vacant",
           mutations' = [mutations EXCEPT ![request.key] = entry]
    PROVE  /\ request.key \in Keys
           /\ Transactions!Answer(request.key, Transactions!Bound(entry.status, entry.id))
<1> DEFINE key == request.key
<1>1. key \in Keys
  BY RequestTypes
<1>2. keys[key] = Transactions!Free
  BY <1>1, KeyReads DEF NewKey
<1>3. mutations'[key] = entry /\ \A other \in Keys \ {key} : mutations'[other] = mutations[other]
  BY <1>1 DEF TablesOK
<1>4. KeyOf(key)' = Transactions!Bound(entry.status, entry.id)
  BY <1>3 DEF KeyOf, Transactions!Bound
<1>5. \A other \in Keys \ {key} : KeyOf(other)' = KeyOf(other)
  BY <1>3 DEF KeyOf
<1>6. keys' = [keys EXCEPT ![key] = Transactions!Bound(entry.status, entry.id)]
  BY <1>4, <1>5 DEF keys
<1>7. QED
  BY <1>1, <1>2, <1>6 DEF Transactions!Answer

\* The keys bound to a membership command are those of the acceptance it carries out.
LEMMA KeysAreRebound ==
    ASSUME KeysFit, NEW id \in Ids, NEW entry,
           \A key \in Keys : IF Started(key, MemberKey(id)) THEN KeyOf(key)' = entry
                             ELSE mutations'[key] = mutations[key]
    PROVE  Transactions!Rebind(id, entry)
<1>1. \A key \in Keys : Started(key, MemberKey(id)) <=>
                            keys[key] = Transactions!Bound("started", id)
  BY StartedOfInvitation, KeyReads
<1>2. \A key \in Keys : mutations'[key] = mutations[key] => KeyOf(key)' = KeyOf(key)
  BY DEF KeyOf
<1>3. \A key \in Keys : KeyOf(key)' = IF keys[key] = Transactions!Bound("started", id) THEN entry
                                      ELSE keys[key]
  BY <1>1, <1>2, KeyReads
<1>4. QED
  BY <1>3 DEF keys, Transactions!Rebind

LEMMA KeysKept ==
    ASSUME UNCHANGED mutations
    PROVE  keys' = keys
BY DEF keys, KeyOf

\* A notification key names its invitation and its generation.
LEMMA NoteKeys ==
    ASSUME NEW id \in Ids, NEW k \in NotesOf(id)
    PROVE  /\ k \in CommandKeys /\ k \in CommandsOf(id)
           /\ k.id = id /\ k.kind = "notify_invitation"
           /\ k.generation \in 1..MaxGeneration /\ k = NotifyKey(id, k.generation)
           /\ k # MemberKey(k.id)
BY KeyParts, KeysDiffer DEF NotesOf, CommandsOf

\* Superseding the notifications of an invitation and inserting one command leaves no
\* other of its notifications live, and disturbs no other invitation.
LEMMA SupersededNotes ==
    ASSUME TablesOK, NEW id \in Ids, NEW new \in CommandKeys, new.id = id,
           new.kind = "notify_invitation" => commands[new].state = "absent",
           commands' = Inserted(Superseded({id}), new, NULL)
    PROVE  /\ \A k \in NotesOf(id) : LiveNow(k)' <=> k = new
           /\ \A other \in Ids \ {id} : \A k \in NotesOf(other) : LiveNow(k)' <=> LiveNow(k)
<1>1. CommandsAfter(id, TRUE, {new})
      /\ \A other \in Ids \ {id} : \A k \in CommandsOf(other) :
               commands'[k].state = commands[k].state
  BY AfterSuperseding
<1>2. ASSUME NEW k \in NotesOf(id)
      PROVE  LiveNow(k)' <=> k = new
  <2>1. commands'[k].state =
            IF k = new /\ commands[k].state = "absent" THEN "pending"
            ELSE IF commands[k].state \in Live THEN "superseded"
            ELSE commands[k].state
    BY <1>1, NoteKeys DEF CommandsAfter
  <2>2. k = new => commands[k].state = "absent"
    BY NoteKeys
  <2>3. QED
    BY <2>1, <2>2 DEF LiveNow, Live
<1>3. ASSUME NEW other \in Ids \ {id}, NEW k \in NotesOf(other)
      PROVE  LiveNow(k)' <=> LiveNow(k)
  <2>1. k \in CommandsOf(other)
    BY NoteKeys
  <2>2. commands'[k].state = commands[k].state
    BY <1>1, <2>1
  <2>3. QED
    BY <2>2 DEF LiveNow
<1>4. QED
  BY <1>2, <1>3

\* A notification of a generation that has not been reached was never inserted.
LEMMA LaterNotesAbsent ==
    ASSUME AllAnnounced, NEW id \in Ids, NEW g \in 1..MaxGeneration,
           g > invitations[id].generation
    PROVE  /\ NotifyKey(id, g) \in CommandKeys
           /\ NotifyKey(id, g).id = id
           /\ commands[NotifyKey(id, g)].state = "absent"
<1> DEFINE k == NotifyKey(id, g)
<1>1. /\ k \in CommandsOf(id) /\ k \in CommandKeys /\ k.id = id
      /\ k.kind = "notify_invitation" /\ k.generation = g
  BY KeyParts DEF CommandsOf
<1> HIDE DEF k
<1>2. NotificationFits(invitations[id], k, commands[k].state)
  BY <1>1 DEF AllAnnounced, Announced
<1>3. commands[k].state = "absent"
  BY <1>1, <1>2 DEF NotificationFits
<1>4. QED
  BY <1>1, <1>3 DEF k

\* complete_mutation stores the response under the key.
LEMMA CompletedIsAnswered ==
    ASSUME TablesOK, NEW request \in Requests, NewKey(request), NEW id, NEW row,
           Complete(request, id, row)
    PROVE  /\ request.key \in Keys
           /\ Transactions!Answer(request.key, Transactions!Bound("completed", id))
<1> DEFINE entry == [status |-> "completed", request |-> request, id |-> id,
                     command |-> NULL, revision |-> row.revision]
<1>1. mutations' = [mutations EXCEPT ![request.key] = entry]
  BY DEF Complete
<1>2. entry.status = "completed" /\ entry.id = id
  OBVIOUS
<1> HIDE DEF entry
<1>3. QED
  BY <1>1, <1>2, KeyIsAnswered

\* invite takes the next number for an address nothing is pending for.
LEMMA InviteIsAtomic ==
    ASSUME TablesOK, AllAnnounced, NEW request \in RequestsOf("invite"), NEW id \in Ids,
           CreateInvitation(request, id)
    PROVE  Transactions!Next
<1> DEFINE row == NewInvitation(request.email)
           new == NotifyKey(id, 1)
<1>1. request \in Requests /\ request.email \in Emails
  BY RequestTypes DEF RequestsOf
<1>2. /\ \A j \in Ids : invitations[j].state = "none" <=> j >= id
      /\ invitations' = [invitations EXCEPT ![id] = row]
      /\ commands' = Inserted(commands, new, NULL)
      /\ Complete(request, id, row) /\ NewKey(request)
      /\ \A j \in Ids : invitations[j].email = request.email =>
                            invitations[j].state # "pending"
  BY DEF CreateInvitation, NextNumber
<1>3. Ids = 1..MaxInvitations /\ MaxInvitations \in Nat \ {0} /\ 1 \in 1..MaxGeneration
  BY StoreAssumption DEF Ids
<1>4. invitations[id].state = "none"
  BY <1>2, <1>3
<1>5. RowOf(id) = Transactions!Absent /\ rows[id] = Transactions!Absent
  BY <1>4, RowReads
<1>6. nextNumber = id
  <2> DEFINE P(n) == \A j \in Ids : invitations[j].state = "none" <=> j >= n
  <2>1. id \in 1..(MaxInvitations + 1) /\ P(id)
    BY <1>2, <1>3
  <2>2. ASSUME NEW n \in 1..(MaxInvitations + 1), P(n)
        PROVE  n = id
    <3>1. CASE n < id
      <4>1. n \in Ids /\ n >= n /\ ~(n >= id)
        BY <1>3, <3>1
      <4>2. QED
        BY <1>2, <2>2, <4>1
    <3>2. CASE id < n
      <4>1. id >= id /\ ~(id >= n)
        BY <1>3, <3>2
      <4>2. QED
        BY <1>2, <2>2, <4>1
    <3>3. QED
      BY <1>3, <3>1, <3>2
  <2>3. nextNumber = CHOOSE n \in 1..(MaxInvitations + 1) : P(n)
    BY DEF nextNumber, NextNumber
  <2> HIDE DEF P
  <2>4. QED
    BY <2>1, <2>2, <2>3
<1>7. /\ invitations'[id] = row
      /\ \A j \in Ids \ {id} : invitations'[j] = invitations[j]
  BY <1>2 DEF TablesOK
<1>8. row.state = "pending" /\ row.subject = NULL /\ row.generation = 1
      /\ row.email = request.email /\ row.due = FALSE
  BY DEF NewInvitation
<1> HIDE DEF row
<1>9. RowOf(id)' = Transactions!Created(id, request.email)
  <2>1. PhaseOf(id)' = "open"
    BY <1>7, <1>8, NextPhases
  <2>2. invitations'[id].state # "none"
    BY <1>7, <1>8
  <2>3. QED
    BY <1>7, <1>8, <2>1, <2>2 DEF RowOf, Transactions!Created
<1>10. new \in CommandKeys /\ new.id = id /\ commands[new].state = "absent"
  <2>1. invitations[id].generation = 0
    BY <1>4 DEF AllAnnounced, Announced, RowIsSound
  <2>2. 1 > invitations[id].generation
    BY <2>1
  <2>3. QED
    BY <1>3, <2>2, LaterNotesAbsent
<1>11. \A k \in CommandKeys : commands'[k].state =
            IF k = new THEN "pending" ELSE commands[k].state
  BY <1>2, <1>10, InsertedStates DEF TablesOK
<1>12. NoteOf(id)' = 1
  <2>1. LiveNow(NotifyKey(id, 1))'
    BY <1>10, <1>11 DEF LiveNow, Live
  <2>2. 1 = invitations'[id].generation
    BY <1>7, <1>8
  <2>3. QED
    BY <1>3, <2>1, <2>2, NextNoteReads
<1>13. ASSUME NEW other \in Ids \ {id}
       PROVE  Undisturbed(other)
  <2>1. ASSUME NEW k \in NotesOf(other)
        PROVE  LiveNow(k)' <=> LiveNow(k)
    <3>1. k \in CommandKeys /\ k.id = other
      BY NoteKeys
    <3>2. k # new
      BY <1>10, <3>1
    <3>3. QED
      BY <1>11, <3>1, <3>2 DEF LiveNow
  <2>2. QED
    BY <1>7, <2>1 DEF Undisturbed
<1>14. /\ rows' = [rows EXCEPT ![id] = Transactions!Created(id, request.email)]
       /\ notes' = [notes EXCEPT ![id] = 1]
  BY <1>9, <1>12, <1>13, OneChanged
<1>15. nextNumber' = id + 1
  <2> DEFINE P(n) == \A j \in Ids : invitations'[j].state = "none" <=> j >= n
  <2>0. \A j \in Ids : invitations'[j].state = "none" <=> j >= id + 1
    <3>1. invitations'[id].state # "none" /\ ~(id >= id + 1)
      BY <1>3, <1>7, <1>8
    <3>2. \A j \in Ids \ {id} : j >= id + 1 <=> j >= id
      BY <1>3
    <3>3. QED
      BY <1>2, <1>7, <3>1, <3>2
  <2>1. id + 1 \in 1..(MaxInvitations + 1) /\ P(id + 1)
    BY <1>3, <2>0
  <2>2. ASSUME NEW n \in 1..(MaxInvitations + 1), P(n)
        PROVE  n = id + 1
    <3>1. CASE n < id + 1
      <4>1. n \in Ids /\ n >= n /\ ~(n >= id + 1)
        BY <1>3, <3>1
      <4>2. QED
        BY <2>0, <2>2, <4>1
    <3>2. CASE id + 1 < n
      <4>1. id + 1 \in Ids /\ id + 1 >= id + 1 /\ ~(id + 1 >= n)
        BY <1>3, <3>2
      <4>2. QED
        BY <2>0, <2>2, <4>1
    <3>3. QED
      BY <1>3, <3>1, <3>2
  <2>3. nextNumber' = CHOOSE n \in 1..(MaxInvitations + 1) : P(n)
    BY DEF nextNumber, NextNumber
  <2> HIDE DEF P
  <2>4. QED
    BY <2>1, <2>2, <2>3
<1>16. late' = late
  <2>1. id \notin late
    BY <1>4 DEF late
  <2>2. ~invitations'[id].due
    BY <1>7, <1>8
  <2>3. QED
    BY <1>7, <2>1, <2>2 DEF late
<1>17. ~Transactions!Pending(request.email)
  <2> SUFFICES ASSUME NEW j \in Ids, rows[j].address = request.email,
                      rows[j].state \in {"open", "accepting"}
               PROVE  FALSE
    BY DEF Transactions!Pending
  <2>1. invitations[j].state = "pending"
    BY RowReads DEF IsOpen
  <2>2. invitations[j].state # "none"
    BY <2>1
  <2>3. rows[j].address = invitations[j].email
    BY <2>2, RowReads
  <2>4. QED
    BY <1>2, <2>1, <2>3
<1>18. request.key \in Keys /\ Transactions!Answer(request.key, Transactions!Bound("completed", id))
  BY <1>1, <1>2, CompletedIsAnswered
<1>19. Transactions!Invite(request.key, id, request.email)
  BY <1>5, <1>6, <1>14, <1>15, <1>16, <1>17, <1>18 DEF Transactions!Invite
<1>20. QED
  BY <1>1, <1>18, <1>19 DEF Transactions!Next

\* The fields the atomic transactions look at and a write of the row may keep.
LEMMA RowKeeps ==
    ASSUME NEW row \in Invitation
    PROVE  /\ \A derived : /\ Rotated(row, derived).email = row.email
                           /\ Rotated(row, derived).due = FALSE
           /\ \A state : /\ Closed(row, state).email = row.email
                         /\ Closed(row, state).due = row.due
           /\ \A subject : /\ Consumed(row, subject).email = row.email
                           /\ Consumed(row, subject).due = row.due
           /\ AcceptedRow(row).email = row.email /\ AcceptedRow(row).due = row.due
           /\ \A outcome : LET new == [row EXCEPT !.delivery = outcome] IN
                new.email = row.email /\ new.due = row.due
BY DEF Invitation, Rotated, Closed, Consumed, AcceptedRow

\* A transaction that moves one pending invitation to another phase.
LEMMA PhaseEntered ==
    ASSUME TablesOK, NEW id \in Ids, invitations[id].state = "pending",
           NEW new, new = invitations'[id], new.state # "none",
           new.generation = invitations[id].generation,
           new.email = invitations[id].email, new.due = invitations[id].due,
           NEW from, from = PhaseOf(id), NEW to, to = PhaseOf(id)',
           \A other \in Ids \ {id} : Undisturbed(other)
    PROVE  /\ Transactions!Enters(id, from, to)
           /\ notes' = [notes EXCEPT ![id] = NoteOf(id)']
           /\ UNCHANGED <<nextNumber, late>>
<1>1. invitations[id].state # "none"
  OBVIOUS
<1>2. rows[id] = RowOf(id)
      /\ RowOf(id) = [state |-> PhaseOf(id), generation |-> invitations[id].generation,
                      number |-> id, address |-> invitations[id].email]
  BY <1>1, RowReads
<1>3. RowOf(id)' = [state |-> PhaseOf(id)', generation |-> new.generation,
                    number |-> id, address |-> new.email]
  BY DEF RowOf
<1>4. /\ rows' = [rows EXCEPT ![id] = RowOf(id)']
      /\ notes' = [notes EXCEPT ![id] = NoteOf(id)']
      /\ nextNumber' = nextNumber
      /\ late' = IF new.due THEN late \cup {id} ELSE late \ {id}
  BY <1>1, OneChanged
<1>5. [rows[id] EXCEPT !.state = to] = RowOf(id)'
  BY <1>2, <1>3
<1>6. rows' = [rows EXCEPT ![id].state = to]
  BY <1>4, <1>5
<1>7. rows[id].state = from
  BY <1>2
<1>8. late' = late
  BY <1>1, <1>4 DEF late
<1>9. QED
  BY <1>4, <1>6, <1>7, <1>8 DEF Transactions!Enters

\* The row of a request, and the other rows.
LEMMA OthersUndisturbed ==
    ASSUME TablesOK, NEW id \in Ids, NEW row,
           invitations' = [invitations EXCEPT ![id] = row],
           \A other \in Ids \ {id} : \A k \in NotesOf(other) : LiveNow(k)' <=> LiveNow(k)
    PROVE  /\ invitations'[id] = row
           /\ \A other \in Ids \ {id} : Undisturbed(other)
BY DEF TablesOK, Undisturbed

\* An invitation none of whose notifications is left live shows none.
LEMMA Silenced ==
    ASSUME NEW id \in Ids, \A k \in NotesOf(id) : ~LiveNow(k)',
           notes' = [notes EXCEPT ![id] = NoteOf(id)']
    PROVE  Transactions!Silence(id)
<1>1. PICK g : g = invitations'[id].generation
  OBVIOUS
<1>2. NoteOf(id)' = 0
  BY <1>1, NextNoteReads DEF NotesOf
<1>3. QED
  BY <1>2 DEF Transactions!Silence

\* An invitation whose notifications and generation stay shows the same.
LEMMA NoteKept ==
    ASSUME NEW id \in Ids, invitations'[id].generation = invitations[id].generation,
           \A k \in NotesOf(id) : LiveNow(k)' <=> LiveNow(k),
           notes' = [notes EXCEPT ![id] = NoteOf(id)']
    PROVE  notes' = notes
<1>1. PICK g : g = invitations[id].generation
  OBVIOUS
<1>2. NoteOf(id)' = NoteOf(id)
  BY <1>1, NoteReads, NextNoteReads DEF NotesOf
<1>3. QED
  BY <1>2 DEF notes

\* Closing an open invitation and superseding its notifications.
LEMMA ClosingIsAtomic ==
    ASSUME TablesOK, NEW id \in Ids, IsOpen(invitations[id]),
           NEW l \in {"revoked", "expired"},
           invitations' = [invitations EXCEPT ![id] = Closed(invitations[id], l)],
           commands' = Inserted(Superseded({id}), LifecycleKey(id, l), NULL)
    PROVE  /\ Transactions!Enters(id, "open", l)
           /\ Transactions!Silence(id)
           /\ UNCHANGED <<nextNumber, late>>
<1> DEFINE new == LifecycleKey(id, l)
           row == Closed(invitations[id], l)
<1>1. new \in CommandKeys /\ new.id = id /\ new.kind = "notify_lifecycle"
  BY KeyParts DEF Lifecycles
<1>2. invitations[id] \in Invitation
  BY DEF TablesOK
<1>3. row.state = l /\ row.generation = invitations[id].generation
      /\ row.email = invitations[id].email /\ row.due = invitations[id].due
  <2>1. \A state : /\ Closed(invitations[id], state).state = state
                  /\ Closed(invitations[id], state).generation = invitations[id].generation
    BY <1>2, RowEffects
  <2>2. \A state : /\ Closed(invitations[id], state).email = invitations[id].email
                  /\ Closed(invitations[id], state).due = invitations[id].due
    BY <1>2, RowKeeps
  <2>3. QED
    BY <2>1, <2>2
<1> HIDE DEF new, row
<1>4. /\ \A k \in NotesOf(id) : LiveNow(k)' <=> k = new
      /\ \A other \in Ids \ {id} : \A k \in NotesOf(other) : LiveNow(k)' <=> LiveNow(k)
  BY <1>1, SupersededNotes DEF new
<1>5. /\ invitations'[id] = row
      /\ \A other \in Ids \ {id} : Undisturbed(other)
  BY <1>4, OthersUndisturbed DEF row
<1>6. invitations[id].state = "pending" /\ row.state # "none"
  BY <1>3 DEF IsOpen
<1>7. PhaseOf(id) = "open" /\ PhaseOf(id)' = l
  BY <1>3, <1>5, Phases, NextPhases DEF IsOpen
<1>8. /\ Transactions!Enters(id, "open", l)
      /\ notes' = [notes EXCEPT ![id] = NoteOf(id)']
      /\ UNCHANGED <<nextNumber, late>>
  BY <1>3, <1>5, <1>6, <1>7, PhaseEntered
<1>9. \A k \in NotesOf(id) : ~LiveNow(k)'
  BY <1>1, <1>4, NoteKeys
<1>10. Transactions!Silence(id)
  BY <1>8, <1>9, Silenced
<1>11. QED
  BY <1>8, <1>10

\* revoke closes the invitation its request names.
LEMMA RevokeIsAtomic ==
    ASSUME TablesOK, NEW request \in RequestsOf("revoke"), RevokeInvitation(request)
    PROVE  Transactions!Next
<1> DEFINE id == request.id
           row == Closed(invitations[id], "revoked")
<1>1. request \in Requests /\ id \in Ids
  BY RequestTypes DEF RequestsOf
<1>2. /\ IsOpen(invitations[id]) /\ NewKey(request)
      /\ invitations' = [invitations EXCEPT ![id] = row]
      /\ commands' = Inserted(Superseded({id}), LifecycleKey(id, "revoked"), NULL)
      /\ Complete(request, id, row)
  BY DEF RevokeInvitation, Open, IsOpen
<1> HIDE DEF id
<1>3. /\ Transactions!Enters(id, "open", "revoked")
      /\ Transactions!Silence(id)
      /\ UNCHANGED <<nextNumber, late>>
  BY <1>1, <1>2, ClosingIsAtomic
<1>4. request.key \in Keys /\ Transactions!Answer(request.key, Transactions!Bound("completed", id))
  BY <1>1, <1>2, CompletedIsAnswered
<1>5. Transactions!Revoke(request.key, id)
  BY <1>3, <1>4 DEF Transactions!Revoke
<1>6. QED
  BY <1>1, <1>4, <1>5 DEF Transactions!Next

\* begin_accept that comes late expires the invitation and keeps no key.
LEMMA LateAcceptIsAtomic ==
    ASSUME TablesOK, NEW request \in RequestsOf("accept"), BeginAcceptExpires(request)
    PROVE  Transactions!Next
<1> DEFINE id == request.id
<1>1. request \in Requests /\ id \in Ids
  BY RequestTypes DEF RequestsOf
<1>2. /\ IsOpen(invitations[id]) /\ invitations[id].due
      /\ invitations' = [invitations EXCEPT ![id] = Closed(invitations[id], "expired")]
      /\ commands' = Inserted(Superseded({id}), LifecycleKey(id, "expired"), NULL)
      /\ UNCHANGED mutations
  BY DEF BeginAcceptExpires, ExpireLocked, Open, IsOpen
<1> HIDE DEF id
<1>3. /\ Transactions!Enters(id, "open", "expired")
      /\ Transactions!Silence(id)
      /\ UNCHANGED <<nextNumber, late>>
  BY <1>1, <1>2, ClosingIsAtomic
<1>4. id \in late
  BY <1>1, <1>2 DEF late, IsOpen
<1>5. Transactions!ExpireAll({id})
  <2>1. rows' = [i \in Ids |-> IF i \in {id} THEN [rows[i] EXCEPT !.state = "expired"]
                               ELSE rows[i]]
    BY <1>1, <1>3 DEF Transactions!Enters, rows
  <2>2. notes' = [i \in Ids |-> IF i \in {id} THEN 0 ELSE notes[i]]
    BY <1>1, <1>3 DEF Transactions!Silence, notes
  <2>3. rows[id].state = "open"
    BY <1>3 DEF Transactions!Enters
  <2>4. QED
    BY <1>3, <1>4, <2>1, <2>2, <2>3 DEF Transactions!ExpireAll
<1>6. Transactions!AcceptLate(id)
  BY <1>2, <1>5, KeysKept DEF Transactions!AcceptLate
<1>7. QED
  BY <1>1, <1>6 DEF Transactions!Next

\* resend rotates the generation, whose notification replaces the earlier ones.
LEMMA ResendIsAtomic ==
    ASSUME TablesOK, AllAnnounced, NEW request \in RequestsOf("resend"),
           NEW derived \in Nat \ {0}, ResendInvitation(request, derived)
    PROVE  Transactions!Next
<1>id. PICK id : id = request.id
  OBVIOUS
<1>g. PICK g : g = invitations[id].generation
  OBVIOUS
<1> DEFINE row == Rotated(invitations[id], derived)
           new == NotifyKey(id, g + 1)
<1>1. request \in Requests /\ id \in Ids
  BY <1>id, RequestTypes DEF RequestsOf
<1>2. invitations[id] \in Invitation
  BY <1>1 DEF TablesOK
<1>3. /\ row.state = invitations[id].state /\ row.subject = invitations[id].subject
      /\ row.generation = g + 1
      /\ row.email = invitations[id].email /\ row.due = FALSE
  <2>1. /\ row.state = invitations[id].state /\ row.subject = invitations[id].subject
        /\ row.generation = g + 1
    BY <1>2, <1>g, RowEffects
  <2>2. row.email = invitations[id].email /\ row.due = FALSE
    BY <1>2, RowKeeps
  <2>3. QED
    BY <2>1, <2>2
<1>4. /\ IsOpen(invitations[id]) /\ NewKey(request) /\ g < MaxGeneration
      /\ invitations' = [invitations EXCEPT ![id] = row]
      /\ commands' = Inserted(Superseded({id}), new, NULL)
      /\ Complete(request, id, row)
  BY <1>3, <1>id, <1>g DEF ResendInvitation, Open, IsOpen
<1>5. g \in 1..MaxGeneration /\ g + 1 \in 1..MaxGeneration /\ g + 1 > g
  <2>1. g \in 1..MaxGeneration
    BY <1>1, <1>4, <1>g DEF AllAnnounced, Announced, RowIsSound, IsOpen
  <2>2. QED
    BY <1>4, <2>1, StoreAssumption
<1>6. new \in CommandKeys /\ new.id = id /\ commands[new].state = "absent"
  BY <1>1, <1>5, <1>g, LaterNotesAbsent
<1> HIDE DEF row, new
<1>7. /\ \A k \in NotesOf(id) : LiveNow(k)' <=> k = new
      /\ \A other \in Ids \ {id} : \A k \in NotesOf(other) : LiveNow(k)' <=> LiveNow(k)
  BY <1>1, <1>4, <1>6, SupersededNotes
<1>8. /\ invitations'[id] = row
      /\ \A other \in Ids \ {id} : Undisturbed(other)
  BY <1>1, <1>4, <1>7, OthersUndisturbed
<1>9. invitations[id].state # "none" /\ row.state # "none" /\ row.state = "pending"
      /\ row.subject = NULL
  BY <1>3, <1>4 DEF IsOpen
<1>10. /\ rows' = [rows EXCEPT ![id] = RowOf(id)']
       /\ notes' = [notes EXCEPT ![id] = NoteOf(id)']
       /\ nextNumber' = nextNumber /\ late' = late \ {id}
  BY <1>1, <1>3, <1>8, <1>9, OneChanged
<1>11. rows[id] = [state |-> "open", generation |-> g, number |-> id,
                   address |-> invitations[id].email]
  <2>1. rows[id] = RowOf(id) /\ RowOf(id) =
            [state |-> PhaseOf(id), generation |-> g, number |-> id,
             address |-> invitations[id].email]
    BY <1>1, <1>9, <1>g, RowReads
  <2>2. PhaseOf(id) = "open"
    BY <1>1, <1>4, Phases DEF IsOpen
  <2>3. QED
    BY <2>1, <2>2
<1>12. RowOf(id)' = [state |-> "open", generation |-> g + 1, number |-> id,
                     address |-> invitations[id].email]
  <2>1. PhaseOf(id)' = "open"
    BY <1>1, <1>8, <1>9, NextPhases
  <2>2. QED
    BY <1>3, <1>8, <1>9, <2>1 DEF RowOf
<1>13. NoteOf(id)' = g + 1
  <2>1. g + 1 = invitations'[id].generation
    BY <1>3, <1>8
  <2>2. NotifyKey(id, g + 1) \in NotesOf(id)
    BY <1>5 DEF NotesOf
  <2>3. LiveNow(NotifyKey(id, g + 1))'
    BY <1>7, <2>2 DEF new
  <2>4. QED
    BY <1>1, <1>5, <2>1, <2>3, NextNoteReads
<1>14. request.key \in Keys /\ Transactions!Answer(request.key, Transactions!Bound("completed", id))
  BY <1>1, <1>4, CompletedIsAnswered
<1>15. rows' = [rows EXCEPT ![id].generation = @ + 1]
  <2>1. [rows[id] EXCEPT !.generation = @ + 1] = RowOf(id)'
    BY <1>11, <1>12
  <2>2. QED
    BY <1>10, <2>1
<1>16. Transactions!Resend(request.key, id)
  <2>1. rows[id].state = "open" /\ rows[id].generation = g
    BY <1>11
  <2>2. notes' = [notes EXCEPT ![id] = rows[id].generation + 1]
    BY <1>10, <1>13, <2>1
  <2>3. QED
    BY <1>4, <1>10, <1>14, <1>15, <2>1, <2>2 DEF Transactions!Resend
<1>17. QED
  BY <1>1, <1>14, <1>16 DEF Transactions!Next

\* begin_accept consumes the token and leaves its key started.
LEMMA BeginAcceptIsAtomic ==
    ASSUME TablesOK, MembershipMirrorsInvitation, NEW request \in RequestsOf("accept"),
           NEW generation, NEW e, BeginAccept(request, generation, e)
    PROVE  Transactions!Next
<1> DEFINE id == request.id
           k == MemberKey(id)
           row == Consumed(invitations[id], request.actor)
           entry == [status |-> "started", request |-> request, id |-> id,
                     command |-> k, revision |-> 0]
           inserted == Inserted(commands, k, request.actor)
<1>1. request \in Requests /\ id \in Ids /\ request.actor \in Subjects
      /\ request.actor # NULL
  BY RequestTypes, StoreAssumption DEF RequestsOf
<1>2. invitations[id] \in Invitation
  BY <1>1 DEF TablesOK
<1>3. /\ row.state = invitations[id].state /\ row.subject = request.actor
      /\ row.generation = invitations[id].generation
      /\ row.email = invitations[id].email /\ row.due = invitations[id].due
  <2>1. /\ row.state = invitations[id].state /\ row.subject = request.actor
        /\ row.generation = invitations[id].generation
    BY <1>2, RowEffects
  <2>2. row.email = invitations[id].email /\ row.due = invitations[id].due
    BY <1>2, RowKeeps
  <2>3. QED
    BY <2>1, <2>2
<1>4. /\ IsOpen(invitations[id]) /\ NewKey(request)
      /\ invitations' = [invitations EXCEPT ![id] = row]
      /\ commands' = [inserted EXCEPT ![k] = Leased(@, e)]
      /\ mutations' = [mutations EXCEPT ![request.key] = entry]
  BY DEF BeginAccept, Open, IsOpen
<1>5. k \in CommandKeys
  BY <1>1, KeyTypes
<1>6. \A j \in Ids : \A n \in NotesOf(j) : LiveNow(n)' <=> LiveNow(n)
  <2> SUFFICES ASSUME NEW j \in Ids, NEW n \in NotesOf(j)
               PROVE  LiveNow(n)' <=> LiveNow(n)
    OBVIOUS
  <2>1. n \in CommandKeys /\ n # k
    <3>1. n \in CommandKeys /\ n.kind = "notify_invitation"
      BY NoteKeys
    <3>2. k.kind = "add_member"
      BY <1>1, KeysDiffer
    <3>3. QED
      BY <3>1, <3>2
  <2>2. inserted[n] = commands[n]
    BY <1>5, <2>1 DEF TablesOK, Inserted
  <2>3. commands'[n] = inserted[n]
    <3> HIDE DEF inserted, k
    <3>1. QED
      BY <1>4, <2>1
  <2>4. QED
    BY <2>2, <2>3 DEF LiveNow
<1>7. entry.status = "started" /\ entry.id = id
  OBVIOUS
<1> HIDE DEF id, row, k, entry, inserted
<1>8. /\ invitations'[id] = row
      /\ \A other \in Ids \ {id} : Undisturbed(other)
  BY <1>1, <1>4, <1>6, OthersUndisturbed
<1>9. invitations[id].state = "pending" /\ row.state = "pending" /\ row.state # "none"
  BY <1>3, <1>4 DEF IsOpen
<1>10. PhaseOf(id) = "open" /\ PhaseOf(id)' = "accepting"
  BY <1>1, <1>3, <1>4, <1>8, <1>9, Phases, NextPhases DEF IsOpen
<1>11. /\ Transactions!Enters(id, "open", "accepting")
       /\ notes' = [notes EXCEPT ![id] = NoteOf(id)']
       /\ UNCHANGED <<nextNumber, late>>
  BY <1>1, <1>3, <1>8, <1>9, <1>10, PhaseEntered
<1>12. notes' = notes
  BY <1>1, <1>3, <1>6, <1>8, <1>11, NoteKept
<1>13. request.key \in Keys /\ Transactions!Answer(request.key, Transactions!Bound("started", id))
  BY <1>1, <1>4, <1>7, KeyIsAnswered
<1>14. Transactions!Accept(request.key, id)
  BY <1>11, <1>12, <1>13 DEF Transactions!Accept
<1>15. QED
  BY <1>1, <1>13, <1>14 DEF Transactions!Next

\* A sweep of expire_due expires what is due and open, and silences it.
LEMMA SweepIsAtomic ==
    ASSUME TablesOK, NEW S \in SUBSET DueInvitations, ExpireDue(S)
    PROVE  Transactions!Next
<1>1. S \in SUBSET Ids /\ \A id \in S : IsOpen(invitations[id]) /\ invitations[id].due
  BY DEF DueInvitations, IsOpen
<1>2. \A k \in CommandKeys : k.kind = "notify_invitation" =>
            commands'[k].state = Superseded(S)[k].state
  <2> SUFFICES ASSUME NEW k \in CommandKeys, k.kind = "notify_invitation"
               PROVE  commands'[k].state = Superseded(S)[k].state
    OBVIOUS
  <2>1. k # LifecycleKey(k.id, "expired")
    BY DEF LifecycleKey
  <2>2. QED
    BY <2>1 DEF ExpireDue
<1>3. ASSUME NEW id \in Ids, NEW k \in NotesOf(id)
      PROVE  LiveNow(k)' <=> LiveNow(k) /\ id \notin S
  <2>1. k \in CommandKeys /\ k.kind = "notify_invitation" /\ k.id = id
    BY NoteKeys
  <2>2. commands'[k].state = IF id \in S /\ commands[k].state \in Live THEN "superseded"
                             ELSE commands[k].state
    BY <1>2, <2>1, SupersededStates
  <2>3. QED
    BY <2>2 DEF LiveNow, Live
<1>4. ASSUME NEW id \in Ids \ S
      PROVE  Undisturbed(id)
  BY <1>3 DEF Undisturbed, ExpireDue
<1>5. ASSUME NEW id \in S
      PROVE  /\ rows[id].state = "open" /\ RowOf(id)' = [rows[id] EXCEPT !.state = "expired"]
             /\ NoteOf(id)' = 0
             /\ invitations'[id].state # "none" /\ invitations[id].state # "none"
             /\ invitations'[id].due = invitations[id].due
  <2> DEFINE row == Closed(invitations[id], "expired")
  <2>1. id \in Ids /\ invitations[id] \in Invitation
    BY <1>1 DEF TablesOK
  <2>2. invitations'[id] = row
    BY <2>1 DEF ExpireDue
  <2>3. row.state = "expired" /\ row.generation = invitations[id].generation
    BY <2>1, RowEffects
  <2>4. row.email = invitations[id].email /\ row.due = invitations[id].due
    BY <2>1, RowKeeps
  <2> HIDE DEF row
  <2>5. invitations[id].state = "pending" /\ invitations[id].state # "none"
    BY <1>1 DEF IsOpen
  <2>6. PhaseOf(id) = "open" /\ PhaseOf(id)' = "expired"
    BY <1>1, <2>1, <2>2, <2>3, Phases, NextPhases DEF IsOpen
  <2>7. rows[id] = [state |-> "open", generation |-> invitations[id].generation,
                    number |-> id, address |-> invitations[id].email]
    BY <2>1, <2>5, <2>6, RowReads
  <2>8. RowOf(id)' = [state |-> "expired", generation |-> invitations[id].generation,
                      number |-> id, address |-> invitations[id].email]
    BY <2>2, <2>3, <2>4, <2>6 DEF RowOf
  <2>9. NoteOf(id)' = 0
    <3>1. PICK g : g = invitations'[id].generation
      OBVIOUS
    <3>2. g \in 1..MaxGeneration => ~LiveNow(NotifyKey(id, g))'
      BY <1>3, <2>1 DEF NotesOf
    <3>3. QED
      BY <2>1, <3>1, <3>2, NextNoteReads
  <2>10. QED
    BY <2>2, <2>3, <2>4, <2>5, <2>7, <2>8, <2>9
<1>6. \A id \in Ids \ S : RowOf(id)' = RowOf(id) /\ NoteOf(id)' = NoteOf(id)
  BY <1>4, UndisturbedReads
<1>7. rows' = [i \in Ids |-> IF i \in S THEN [rows[i] EXCEPT !.state = "expired"]
                             ELSE rows[i]]
  BY <1>5, <1>6 DEF rows
<1>8. notes' = [i \in Ids |-> IF i \in S THEN 0 ELSE notes[i]]
  BY <1>5, <1>6 DEF notes
<1>9. UNCHANGED <<nextNumber, late>>
  <2>1. \A id \in Ids : /\ invitations'[id].state = "none" <=> invitations[id].state = "none"
                        /\ invitations'[id].due = invitations[id].due
    BY <1>4, <1>5 DEF Undisturbed
  <2>2. QED
    BY <2>1 DEF nextNumber, NextNumber, late
<1>10. \A i \in S : i \in late /\ rows[i].state = "open"
  BY <1>1, <1>5 DEF late
<1>11. keys' = keys
  BY KeysKept DEF ExpireDue
<1>12. Transactions!Sweep(S)
  BY <1>7, <1>8, <1>9, <1>10, <1>11 DEF Transactions!Sweep, Transactions!ExpireAll
<1>13. QED
  BY <1>1, <1>12 DEF Transactions!Next

\* What the transactions on membership commands leave of every notification.
LEMMA NotesElsewhere ==
    ASSUME TablesOK, NEW id \in Ids, NEW j \in Ids, NEW k \in NotesOf(j)
    PROVE  /\ k \in CommandKeys /\ k.kind = "notify_invitation" /\ k.id = j
           /\ k # MemberKey(id)
           /\ \A l \in Lifecycles : k # LifecycleKey(id, l)
<1>1. k \in CommandKeys /\ k.kind = "notify_invitation" /\ k.id = j
  BY NoteKeys
<1>2. MemberKey(id).kind = "add_member"
  BY KeysDiffer
<1>3. \A l \in Lifecycles : LifecycleKey(id, l).kind = "notify_lifecycle"
  BY KeyParts
<1>4. QED
  BY <1>1, <1>2, <1>3

\* The invitation of a membership command that is held is being accepted.
LEMMA HeldIsAccepting ==
    ASSUME MembershipMirrorsInvitation, NEW id \in Ids, NEW e, Holds(MemberKey(id), e)
    PROVE  invitations[id].state = "pending" /\ invitations[id].subject # NULL
BY MirrorPart DEF Mirror, Holds, Live

\* complete_accept accepts the invitation and completes its keys.
LEMMA CompleteAcceptIsAtomic ==
    ASSUME TablesOK, MembershipMirrorsInvitation, KeysFit, NEW id \in Ids,
           NEW e, CompleteAccept(id, e)
    PROVE  Transactions!Next
<1> DEFINE k == MemberKey(id)
           row == AcceptedRow(invitations[id])
           finished == Finished(k, "completed")
<1>1. k \in CommandKeys /\ LifecycleKey(id, "accepted") \in CommandKeys
  BY KeyTypes DEF Lifecycles
<1>2. /\ Holds(k, e)
      /\ invitations' = [invitations EXCEPT ![id] = row]
      /\ commands' = Inserted(finished, LifecycleKey(id, "accepted"), NULL)
      /\ \A key \in Keys : mutations'[key] =
            IF Started(key, k) THEN [mutations[key] EXCEPT !.status = "completed",
                                                           !.revision = row.revision]
            ELSE mutations[key]
  BY DEF CompleteAccept
<1>3. invitations[id] \in Invitation
  BY DEF TablesOK
<1>4. /\ row.state = "accepted" /\ row.subject = invitations[id].subject
      /\ row.generation = invitations[id].generation
      /\ row.email = invitations[id].email /\ row.due = invitations[id].due
  <2>1. /\ row.state = "accepted" /\ row.subject = invitations[id].subject
        /\ row.generation = invitations[id].generation
    BY <1>3, RowEffects
  <2>2. row.email = invitations[id].email /\ row.due = invitations[id].due
    BY <1>3, RowKeeps
  <2>3. QED
    BY <2>1, <2>2
<1>5. invitations[id].state = "pending" /\ invitations[id].subject # NULL
  BY <1>2, HeldIsAccepting
<1>6. ASSUME NEW j \in Ids, NEW n \in NotesOf(j)
      PROVE  LiveNow(n)' <=> LiveNow(n)
  <2>1. n \in CommandKeys /\ n # k /\ n # LifecycleKey(id, "accepted")
    BY NotesElsewhere DEF Lifecycles
  <2>2. finished[n].state = commands[n].state
    BY <1>1, <2>1, FinishedStates
  <2>3. finished \in [CommandKeys -> Command]
    BY <1>1, TableTypes DEF Settled
  <2> HIDE DEF finished
  <2>4. commands'[n].state = commands[n].state
    BY <1>1, <1>2, <2>1, <2>2, <2>3, InsertedStates
  <2>5. QED
    BY <2>4 DEF LiveNow
<1>7. ASSUME NEW key \in Keys
      PROVE  IF Started(key, k) THEN KeyOf(key)' = Transactions!Bound("completed", id)
             ELSE mutations'[key] = mutations[key]
  <2>1. mutations[key] \in Mutation
    BY DEF TablesOK
  <2>2. CASE Started(key, k)
    <3>1. mutations[key].id = id
      BY <2>2, StartedOfInvitation
    <3>2. mutations'[key].status = "completed" /\ mutations'[key].id = id
      BY <1>2, <2>1, <2>2, <3>1 DEF Mutation
    <3>3. QED
      BY <2>2, <3>2 DEF KeyOf, Transactions!Bound
  <2>3. CASE ~Started(key, k)
    BY <1>2, <2>3
  <2>4. QED
    BY <2>2, <2>3
<1> HIDE DEF row, finished
<1>8. /\ invitations'[id] = row
      /\ \A other \in Ids \ {id} : Undisturbed(other)
  BY <1>2, <1>6, OthersUndisturbed
<1>9. row.state # "none"
  BY <1>4
<1>10. PhaseOf(id) = "accepting" /\ PhaseOf(id)' = "accepted"
  BY <1>4, <1>5, <1>8, Phases, NextPhases
<1>11. /\ Transactions!Enters(id, "accepting", "accepted")
       /\ notes' = [notes EXCEPT ![id] = NoteOf(id)']
       /\ UNCHANGED <<nextNumber, late>>
  BY <1>4, <1>5, <1>8, <1>9, <1>10, PhaseEntered
<1>12. notes' = notes
  BY <1>4, <1>6, <1>8, <1>11, NoteKept
<1>13. Transactions!Rebind(id, Transactions!Bound("completed", id))
  BY <1>7, KeysAreRebound
<1>14. Transactions!Complete(id)
  BY <1>11, <1>12, <1>13 DEF Transactions!Complete
<1>15. QED
  BY <1>14 DEF Transactions!Next

\* fail_command of an acceptance expires the invitation and frees its keys, or only
\* settles the command.
LEMMA FailAcceptanceIsAtomic ==
    ASSUME TablesOK, MembershipMirrorsInvitation, KeysFit, NEW id \in Ids,
           NEW e, FailAcceptance(id, e)
    PROVE  Transactions!Next \/ UNCHANGED Transactions!vars
<1> DEFINE k == MemberKey(id)
           row == Closed(invitations[id], "expired")
           finished == Finished(k, "failed")
           table == [Superseded({id}) EXCEPT ![k] = finished[k]]
<1>1. k \in CommandKeys /\ LifecycleKey(id, "expired") \in CommandKeys
  BY KeyTypes DEF Lifecycles
<1>2. finished \in [CommandKeys -> Command] /\ Superseded({id}) \in [CommandKeys -> Command]
  BY <1>1, TableTypes DEF Settled
<1>3. invitations[id].state = "pending" /\ invitations[id].subject # NULL
  BY HeldIsAccepting DEF FailAcceptance
<1>4. CASE MemberMatches(id)
  <2>1. /\ invitations' = [invitations EXCEPT ![id] = row]
        /\ commands' = Inserted(table, LifecycleKey(id, "expired"), NULL)
        /\ mutations' = Released(k)
    BY <1>4 DEF FailAcceptance, ExpireLocked
  <2>2. invitations[id] \in Invitation
    BY DEF TablesOK
  <2>3. /\ row.state = "expired" /\ row.subject = invitations[id].subject
        /\ row.generation = invitations[id].generation
        /\ row.email = invitations[id].email /\ row.due = invitations[id].due
    <3>1. /\ row.state = "expired" /\ row.subject = invitations[id].subject
          /\ row.generation = invitations[id].generation
      BY <2>2, RowEffects
    <3>2. row.email = invitations[id].email /\ row.due = invitations[id].due
      BY <2>2, RowKeeps
    <3>3. QED
      BY <3>1, <3>2
  <2>4. ASSUME NEW j \in Ids, NEW n \in NotesOf(j)
        PROVE  LiveNow(n)' <=> LiveNow(n) /\ j # id
    <3>1. n \in CommandKeys /\ n.kind = "notify_invitation" /\ n.id = j
          /\ n # k /\ n # LifecycleKey(id, "expired")
      BY NotesElsewhere DEF Lifecycles
    <3>2. table \in [CommandKeys -> Command] /\ table[n].state = Superseded({id})[n].state
      <4> HIDE DEF finished
      <4>1. QED
        BY <1>1, <1>2, <3>1
    <3>3. Superseded({id})[n].state =
              IF j \in {id} /\ commands[n].state \in Live THEN "superseded"
              ELSE commands[n].state
      BY <3>1, SupersededStates
    <3> HIDE DEF table
    <3>4. commands'[n].state = table[n].state
      BY <1>1, <2>1, <3>1, <3>2, InsertedStates
    <3>5. QED
      BY <3>2, <3>3, <3>4 DEF LiveNow, Live
  <2>5. ASSUME NEW key \in Keys
        PROVE  IF Started(key, k) THEN KeyOf(key)' = Transactions!Free
               ELSE mutations'[key] = mutations[key]
    <3>1. CASE Started(key, k)
      <4>1. mutations'[key].status = "vacant"
        BY <2>1, <3>1 DEF Released, Vacant
      <4>2. QED
        BY <3>1, <4>1 DEF KeyOf, Transactions!Free
    <3>2. CASE ~Started(key, k)
      BY <2>1, <3>2 DEF Released
    <3>3. QED
      BY <3>1, <3>2
  <2> HIDE DEF row, table, finished
  <2>6. /\ invitations'[id] = row
        /\ \A other \in Ids \ {id} : Undisturbed(other)
    BY <2>1, <2>4, OthersUndisturbed
  <2>7. row.state # "none"
    BY <2>3
  <2>8. PhaseOf(id) = "accepting" /\ PhaseOf(id)' = "expired"
    BY <1>3, <2>3, <2>6, Phases, NextPhases
  <2>9. /\ Transactions!Enters(id, "accepting", "expired")
        /\ notes' = [notes EXCEPT ![id] = NoteOf(id)']
        /\ UNCHANGED <<nextNumber, late>>
    BY <1>3, <2>3, <2>6, <2>7, <2>8, PhaseEntered
  <2>10. Transactions!Silence(id)
    BY <2>4, <2>9, Silenced
  <2>11. Transactions!Rebind(id, Transactions!Free)
    BY <2>5, KeysAreRebound
  <2>12. Transactions!Refuse(id)
    BY <2>9, <2>10, <2>11 DEF Transactions!Refuse
  <2>13. QED
    BY <2>12 DEF Transactions!Next
<1>5. CASE ~MemberMatches(id)
  <2>1. commands' = finished /\ UNCHANGED <<invitations, mutations>>
    BY <1>5 DEF FailAcceptance
  <2>2. ASSUME NEW j \in Ids, NEW n \in NotesOf(j)
        PROVE  LiveNow(n)' <=> LiveNow(n)
    <3>1. n \in CommandKeys /\ n # k
      BY NotesElsewhere
    <3>2. finished[n].state = commands[n].state
      BY <1>1, <3>1, FinishedStates
    <3>3. QED
      BY <2>1, <3>2 DEF LiveNow
  <2>3. \A j \in Ids : Undisturbed(j)
    BY <2>1, <2>2 DEF Undisturbed
  <2>4. QED
    BY <2>1, <2>3, NoneChanged, KeysKept DEF Transactions!vars
<1>6. QED
  BY <1>4, <1>5

\* A write of what only the handlers look at, and of the due time.
LEMMA RowUnread ==
    ASSUME TablesOK, NEW id \in Ids, invitations[id].state # "none",
           NEW new, new = invitations'[id], new.state = invitations[id].state,
           new.subject = invitations[id].subject,
           new.generation = invitations[id].generation,
           new.email = invitations[id].email,
           \A other \in Ids \ {id} : Undisturbed(other)
    PROVE  /\ UNCHANGED <<rows, nextNumber>>
           /\ notes' = [notes EXCEPT ![id] = NoteOf(id)']
           /\ late' = IF new.due THEN late \cup {id} ELSE late \ {id}
<1>1. RowOf(id)' = RowOf(id)
  BY DEF RowOf, PhaseOf
<1>2. /\ rows' = [rows EXCEPT ![id] = RowOf(id)']
      /\ notes' = [notes EXCEPT ![id] = NoteOf(id)']
      /\ nextNumber' = nextNumber
      /\ late' = IF new.due THEN late \cup {id} ELSE late \ {id}
  BY OneChanged
<1>3. rows' = rows
  BY <1>1, <1>2 DEF rows
<1>4. QED
  BY <1>2, <1>3

\* What settling a notification writes of its row.
LEMMA DeliveryUnread ==
    ASSUME TablesOK, NEW k \in CommandKeys, k.id \in Ids, NEW outcome,
           invitations' = Delivery(k, outcome)
    PROVE  /\ invitations'[k.id].state = invitations[k.id].state
           /\ invitations'[k.id].subject = invitations[k.id].subject
           /\ invitations'[k.id].generation = invitations[k.id].generation
           /\ invitations'[k.id].email = invitations[k.id].email
           /\ invitations'[k.id].due = invitations[k.id].due
           /\ \A other \in Ids \ {k.id} : invitations'[other] = invitations[other]
<1> DEFINE row == invitations[k.id]
           new == [row EXCEPT !.delivery = outcome]
<1>1. row \in Invitation
  BY DEF TablesOK
<1>2. /\ new.state = row.state /\ new.subject = row.subject
      /\ new.generation = row.generation
  BY <1>1, RowEffects
<1>3. new.email = row.email /\ new.due = row.due
  BY <1>1, RowKeeps
<1>4. invitations'[k.id] \in {row, new}
  BY DEF Delivery, TablesOK
<1>5. \A other \in Ids \ {k.id} : invitations'[other] = invitations[other]
  BY DEF Delivery, TablesOK
<1> HIDE DEF row, new
<1>6. invitations[k.id] = row
  BY DEF row
<1>7. QED
  BY <1>2, <1>3, <1>4, <1>5, <1>6

\* A held notification is that of its invitation's generation; once it is settled,
\* the invitation has none.
LEMMA SettlingIsAtomic ==
    ASSUME TablesOK, AllAnnounced, NEW k \in CommandKeys, k.kind = "notify_invitation",
           NEW e, Holds(k, e), NEW outcome \in Settled, commands' = Finished(k, outcome),
           NEW delivery, invitations' = Delivery(k, delivery) \/ UNCHANGED invitations,
           UNCHANGED mutations
    PROVE  Transactions!Next
<1>id. PICK id : id = k.id
  OBVIOUS
<1>g. PICK g : g = invitations[id].generation
  OBVIOUS
<1>1. /\ id \in Ids /\ k.generation \in 1..MaxGeneration
      /\ k = NotifyKey(id, k.generation) /\ k \in CommandsOf(id)
  BY <1>id, KeyForms DEF CommandsOf
<1>2. commands[k].state \in Live
  BY DEF Holds, Live
<1>3. /\ invitations[id].state # "none" /\ k.generation = g
  BY <1>g, <1>1, <1>2 DEF AllAnnounced, Announced, NotificationFits
<1>4. /\ invitations'[id].state = invitations[id].state
      /\ invitations'[id].subject = invitations[id].subject
      /\ invitations'[id].generation = g
      /\ invitations'[id].email = invitations[id].email
      /\ invitations'[id].due = invitations[id].due
      /\ \A other \in Ids \ {id} : invitations'[other] = invitations[other]
  <2>1. CASE invitations' = Delivery(k, delivery)
    BY <1>id, <1>g, <1>1, <2>1, DeliveryUnread
  <2>2. CASE UNCHANGED invitations
    BY <1>g, <2>2
  <2>3. QED
    BY <2>1, <2>2
<1>5. ASSUME NEW j \in Ids, NEW n \in NotesOf(j)
      PROVE  LiveNow(n)' <=> LiveNow(n) /\ n # k
  <2>1. n \in CommandKeys
    BY NoteKeys
  <2>2. commands'[n].state = IF n = k THEN outcome ELSE commands[n].state
    BY <2>1, FinishedStates
  <2>3. QED
    BY <2>2 DEF LiveNow, Live, Settled
<1>6. \A other \in Ids \ {id} : Undisturbed(other)
  <2> SUFFICES ASSUME NEW other \in Ids \ {id}
               PROVE  Undisturbed(other)
    OBVIOUS
  <2>1. \A n \in NotesOf(other) : n # k
    BY <1>id, NoteKeys
  <2>2. QED
    BY <1>4, <1>5, <2>1 DEF Undisturbed
<1>7. /\ UNCHANGED <<rows, nextNumber>>
      /\ notes' = [notes EXCEPT ![id] = NoteOf(id)']
      /\ late' = IF invitations'[id].due THEN late \cup {id} ELSE late \ {id}
  <2>1. invitations'[id].generation = invitations[id].generation
    BY <1>g, <1>4
  <2>2. QED
    BY <1>1, <1>3, <1>4, <1>6, <2>1, RowUnread
<1>8. late' = late
  BY <1>1, <1>3, <1>4, <1>7 DEF late
<1>9. notes[id] = g /\ g # 0
  <2>1. NoteOf(id) = g
    BY <1>g, <1>1, <1>2, <1>3, NoteReads DEF LiveNow
  <2>2. QED
    BY <1>1, <1>3, <2>1 DEF notes
<1>10. NoteOf(id)' = 0
  <2>1. NotifyKey(id, g) \in NotesOf(id) /\ NotifyKey(id, g) = k
    BY <1>1, <1>3 DEF NotesOf
  <2>2. ~LiveNow(NotifyKey(id, g))'
    BY <1>1, <1>5, <2>1
  <2>3. g = invitations'[id].generation
    BY <1>4
  <2>4. QED
    BY <1>1, <2>2, <2>3, NextNoteReads
<1>11. Transactions!Silence(id)
  BY <1>7, <1>10 DEF Transactions!Silence
<1>12. keys' = keys
  BY KeysKept
<1>13. Transactions!Settle(id)
  BY <1>7, <1>8, <1>9, <1>11, <1>12 DEF Transactions!Settle
<1>14. QED
  BY <1>1, <1>13 DEF Transactions!Next

\* Nothing is read of the other commands, of a lease or of a due time.
LEMMA CommandsUnread ==
    ASSUME UNCHANGED <<invitations, mutations>>,
           \A k \in CommandKeys : k.kind = "notify_invitation" => (LiveNow(k)' <=> LiveNow(k))
    PROVE  UNCHANGED Transactions!vars
<1>1. \A id \in Ids : Undisturbed(id)
  BY NoteKeys DEF Undisturbed
<1>2. UNCHANGED <<rows, notes, nextNumber, late>>
  BY <1>1, NoneChanged
<1>3. QED
  BY <1>2, KeysKept DEF Transactions!vars

\* What an executor does with a command that is not a membership command.
LEMMA ExecutorIsAtomic ==
    ASSUME TablesOK, MembershipMirrorsInvitation, AllAnnounced,
           NEW k \in CommandKeys, NEW e \in Executors,
           \/ k.kind = "notify_invitation" /\ CompleteNotification(k, e)
           \/ k.kind = "notify_lifecycle" /\ CompleteLifecycle(k, e)
           \/ FailNotification(k, e)
           \/ FailLifecycle(k, e)
           \/ RetryCommand(k, e)
           \/ ~CommandMatches(k) /\ SupersedeCommand(k, e)
    PROVE  Transactions!Next \/ UNCHANGED Transactions!vars
<1>1. ASSUME k.kind = "notify_invitation", CompleteNotification(k, e)
      PROVE  Transactions!Next
  BY <1>1, SettlingIsAtomic DEF CompleteNotification, Settled
<1>2. ASSUME FailNotification(k, e)
      PROVE  Transactions!Next
  BY <1>2, SettlingIsAtomic DEF FailNotification, Settled
<1>3. ASSUME k.kind = "notify_invitation", SupersedeCommand(k, e)
      PROVE  Transactions!Next
  BY <1>3, SettlingIsAtomic DEF SupersedeCommand, Settled
<1>4. ASSUME NEW outcome, commands' = Finished(k, outcome), k.kind # "notify_invitation",
             UNCHANGED <<invitations, mutations>>
      PROVE  UNCHANGED Transactions!vars
  <2>1. ASSUME NEW n \in CommandKeys, n.kind = "notify_invitation"
        PROVE  LiveNow(n)' <=> LiveNow(n)
    BY <1>4, <2>1, FinishedStates DEF LiveNow
  <2>2. QED
    BY <1>4, <2>1, CommandsUnread
<1>5. ASSUME RetryCommand(k, e)
      PROVE  UNCHANGED Transactions!vars
  <2>1. ASSUME NEW n \in CommandKeys
        PROVE  LiveNow(n)' <=> LiveNow(n)
    <3>1. commands' = [commands EXCEPT ![k] = Unleased(commands[k], "pending")]
          /\ commands[k].state = "in_flight"
      BY <1>5 DEF RetryCommand, Holds
    <3>2. commands[k] \in Command /\ commands \in [CommandKeys -> Command]
      BY DEF TablesOK
    <3>3. Unleased(commands[k], "pending").state = "pending"
      BY <3>2, CommandParts
    <3>4. QED
      BY <3>1, <3>2, <3>3 DEF LiveNow, Live
  <2>2. QED
    BY <1>5, <2>1, CommandsUnread DEF RetryCommand
<1>6. QED
  BY <1>1, <1>2, <1>3, <1>4, <1>5
     DEF CompleteLifecycle, FailLifecycle, SupersedeCommand

\* A claim, the due time of a command, and a step that leaves the tables alone.
LEMMA QuietIsUnread ==
    ASSUME TablesOK,
           \/ UNCHANGED tables
           \/ \E S \in SUBSET DueCommands, e \in Executors : ClaimDueCommands(S, e)
           \/ \E k \in CommandKeys : CommandComesDue(k)
    PROVE  UNCHANGED Transactions!vars
<1>1. CASE UNCHANGED tables
  BY <1>1, CommandsUnread DEF tables, LiveNow
<1>2. ASSUME NEW S \in SUBSET DueCommands, NEW e \in Executors, ClaimDueCommands(S, e)
      PROVE  UNCHANGED Transactions!vars
  <2>1. ASSUME NEW n \in CommandKeys
        PROVE  LiveNow(n)' <=> LiveNow(n)
    <3>1. commands[n] \in Command
      BY DEF TablesOK
    <3>2. commands'[n] = IF n \in S THEN Leased(commands[n], e) ELSE commands[n]
      BY <1>2 DEF ClaimDueCommands
    <3>3. n \in S => commands[n].state \in Live
      BY DEF DueCommands
    <3>4. Leased(commands[n], e).state = "in_flight"
      BY <3>1, CommandParts
    <3>5. QED
      BY <3>2, <3>3, <3>4 DEF LiveNow, Live
  <2>2. QED
    BY <1>2, <2>1, CommandsUnread DEF ClaimDueCommands
<1>3. ASSUME NEW k \in CommandKeys, CommandComesDue(k)
      PROVE  UNCHANGED Transactions!vars
  <2>1. ASSUME NEW n \in CommandKeys
        PROVE  LiveNow(n)' <=> LiveNow(n)
    <3>1. commands[n] \in Command /\ commands \in [CommandKeys -> Command]
      BY DEF TablesOK
    <3>2. commands'[n] \in {commands[n], [commands[n] EXCEPT !.due = TRUE]}
      BY <1>3, <3>1 DEF CommandComesDue
    <3>3. [commands[n] EXCEPT !.due = TRUE].state = commands[n].state
      BY <3>1 DEF Command
    <3>4. QED
      BY <3>2, <3>3 DEF LiveNow
  <2>2. QED
    BY <1>3, <2>1, CommandsUnread DEF CommandComesDue
<1>4. QED
  BY <1>1, <1>2, <1>3

\* The clock makes an open or accepting invitation due.
LEMMA DueIsAtomic ==
    ASSUME TablesOK, NEW id \in Ids, TokenComesDue(id)
    PROVE  Transactions!TokenComesDue(id)
<1> DEFINE row == invitations[id]
           new == [row EXCEPT !.due = TRUE]
<1>1. row \in Invitation /\ invitations' = [invitations EXCEPT ![id] = new]
      /\ row.state = "pending" /\ ~row.due /\ UNCHANGED <<commands, mutations>>
  BY DEF TablesOK, TokenComesDue
<1>2. /\ new.state = row.state /\ new.subject = row.subject
      /\ new.generation = row.generation
      /\ new.email = row.email /\ new.due = TRUE
  BY <1>1 DEF Invitation
<1>3. \A j \in Ids : \A n \in NotesOf(j) : LiveNow(n)' <=> LiveNow(n)
  BY <1>1 DEF LiveNow
<1> HIDE DEF new
<1>4. /\ invitations'[id] = new
      /\ \A other \in Ids \ {id} : Undisturbed(other)
  BY <1>1, <1>3, OthersUndisturbed
<1>5. row.state # "none"
  BY <1>1
<1>6. /\ UNCHANGED <<rows, nextNumber>>
      /\ notes' = [notes EXCEPT ![id] = NoteOf(id)']
      /\ late' = late \cup {id}
  BY <1>2, <1>4, <1>5, RowUnread
<1>7. notes' = notes
  BY <1>2, <1>3, <1>4, <1>6, NoteKept
<1>8. rows[id].state \in {"open", "accepting"} /\ id \notin late
  BY <1>1, RowReads DEF IsOpen, late
<1>9. QED
  BY <1>1, <1>6, <1>7, <1>8, KeysKept DEF Transactions!TokenComesDue
-------------------------------------------------------------------------------
(* Steps of the service as atomic transactions *)

\* Every step of the service is one atomic transaction, or none.
LEMMA StepIsTransaction ==
    ASSUME TypeOK, MembershipMirrorsInvitation, AllAnnounced, KeysFit, [Next]_vars
    PROVE  Transactions!Next \/ UNCHANGED Transactions!vars
<1>1. TablesOK /\ Transaction
  BY StepsAreTransactions DEF TypeOK
<1>2. ASSUME NEW c \in Clients, call[c].request \in RequestsOf("accept"),
             BeginAccept(call[c].request, call[c].seen, c)
      PROVE  Transactions!Next
  BY <1>1, <1>2, BeginAcceptIsAtomic
<1>3. ASSUME NEW k \in CommandKeys, NEW e \in Executors,
             CompleteAccept(k.id, e) \/ FailAcceptance(k.id, e)
      PROVE  Transactions!Next \/ UNCHANGED Transactions!vars
  BY <1>1, <1>3, KeyShape, CompleteAcceptIsAtomic, FailAcceptanceIsAtomic
<1>4. ASSUME NEW k \in CommandKeys, NEW e \in Executors,
             \/ k.kind = "notify_invitation" /\ CompleteNotification(k, e)
             \/ k.kind = "notify_lifecycle" /\ CompleteLifecycle(k, e)
             \/ FailNotification(k, e)
             \/ FailLifecycle(k, e)
             \/ RetryCommand(k, e)
             \/ ~CommandMatches(k) /\ SupersedeCommand(k, e)
      PROVE  Transactions!Next \/ UNCHANGED Transactions!vars
  BY <1>1, <1>4, ExecutorIsAtomic
<1>5. ASSUME \/ UNCHANGED tables
             \/ \E S \in SUBSET DueCommands, e \in Executors : ClaimDueCommands(S, e)
             \/ \E k \in CommandKeys : CommandComesDue(k)
      PROVE  UNCHANGED Transactions!vars
  BY <1>1, <1>5, QuietIsUnread
<1>6. ASSUME NEW id \in Ids, TokenComesDue(id)
      PROVE  Transactions!Next
  BY <1>1, <1>6, DueIsAtomic DEF Transactions!Next
<1>7. ASSUME \/ \E request \in RequestsOf("invite"), id \in Ids :
                    CreateInvitation(request, id)
             \/ \E request \in RequestsOf("resend"), derived \in Nat \ {0} :
                    ResendInvitation(request, derived)
             \/ \E request \in RequestsOf("revoke") : RevokeInvitation(request)
             \/ \E request \in RequestsOf("accept") : BeginAcceptExpires(request)
             \/ \E S \in SUBSET DueInvitations : ExpireDue(S)
      PROVE  Transactions!Next
  BY <1>1, <1>7, InviteIsAtomic, ResendIsAtomic, RevokeIsAtomic, LateAcceptIsAtomic,
     SweepIsAtomic
<1>8. QED
  BY <1>1, <1>2, <1>3, <1>4, <1>5, <1>6, <1>7 DEF Transaction

\* At first there is no invitation, no notification and no key.
LEMMA InitIsEmpty ==
    ASSUME Init
    PROVE  Transactions!Init
<1>1. /\ \A id \in Ids : invitations[id].state = "none" /\ invitations[id].generation = 0
      /\ \A k \in CommandKeys : commands[k].state = "absent"
      /\ \A key \in Keys : mutations[key].status = "vacant"
  BY DEF Init, TablesInit, NoInvitation, NoCommand, Vacant
<1>2. rows = [id \in Ids |-> Transactions!Absent]
  BY <1>1 DEF rows, RowOf, Transactions!Absent
<1>3. notes = [id \in Ids |-> 0]
  <2> SUFFICES ASSUME NEW id \in Ids
               PROVE  NoteOf(id) = 0
    BY DEF notes
  <2>1. \A g \in 1..MaxGeneration : commands[NotifyKey(id, g)].state \notin Live
    BY <1>1, KeyTypes DEF Live
  <2>2. QED
    BY <2>1 DEF NoteOf
<1>4. keys = [key \in Keys |-> Transactions!Free]
  BY <1>1 DEF keys, KeyOf, Transactions!Free
<1>5. nextNumber = 1
  <2> DEFINE P(n) == \A j \in Ids : invitations[j].state = "none" <=> j >= n
  <2>1. Ids = 1..MaxInvitations /\ MaxInvitations \in Nat \ {0}
    BY StoreAssumption DEF Ids
  <2>2. 1 \in 1..(MaxInvitations + 1) /\ P(1)
    BY <1>1, <2>1
  <2>3. ASSUME NEW n \in 1..(MaxInvitations + 1), P(n)
        PROVE  n = 1
    <3>1. 1 \in Ids
      BY <2>1
    <3>2. 1 >= n
      BY <1>1, <2>3, <3>1
    <3>3. QED
      BY <2>1, <3>2
  <2>4. nextNumber = CHOOSE n \in 1..(MaxInvitations + 1) : P(n)
    BY DEF nextNumber, NextNumber
  <2> HIDE DEF P
  <2>5. QED
    BY <2>2, <2>3, <2>4
<1>6. late = {}
  BY <1>1 DEF late
<1>7. QED
  BY <1>2, <1>3, <1>4, <1>5, <1>6 DEF Transactions!Init

\* The handlers, the worker and the executors change what the tables say of an
\* invitation, its notification and the idempotency keys only by the transactions
\* that RowLocks, lock by lock and read by read, is shown to execute: an address has
\* one pending invitation, numbers do not repeat, a key is bound once, nothing expires
\* before it is due, and an answer of a provider settles what is still current.
THEOREM ServiceImplementsTransactions == Spec => ImplementsTransactions
<1>1. Init => Transactions!Init
  BY InitIsEmpty
<1>2. TypeOK /\ MembershipMirrorsInvitation /\ AllAnnounced /\ KeysFit /\ [Next]_vars
      => [Transactions!Next]_Transactions!vars
  BY StepIsTransaction
<1>3. QED
  BY <1>1, <1>2, TypeCorrect, MembershipMirrors, AllAnnouncedAlways, KeysFitAlways, PTL
     DEF Spec, ImplementsTransactions, Transactions!Spec
====================================================================================
