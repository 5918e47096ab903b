-------------------------- MODULE WorkerBatches_proofs --------------------------
(***************************************************************************)
(* Proofs about WorkerBatches for any number of worker calls, keys, rows   *)
(* and any limit: whose batch a key is, what its answer has counted, and   *)
(* what a caller that goes on until has_more is false may conclude.        *)
(***************************************************************************)
EXTENDS WorkerBatches, FiniteSetTheorems, TLAPS

--------------------------------------------------------------------------------
(* The inductive invariant *)

Typing ==
    /\ invitation \in [Invitations -> {"open", "late", "ended"}]
    /\ command \in [Commands -> Command]
    /\ busy \subseteq Rows
    /\ reservation \in [Keys -> Reservation]
    /\ call \in [Calls -> CallRecord]
    /\ loop \in [Calls -> Loop]

Dispatching(w) == call[w].at \in {"claim", "execute", "record"}

\* A reservation is begun once: by the one dispatch that goes on under it, or by a
\* sweep that has not committed it yet and that nobody else can begin.
KeysOK ==
    /\ \A k \in Keys :
          /\ reservation[k].status = "vacant" => reservation[k] = Vacant
          /\ reservation[k].batches <= 1
          /\ reservation[k].answer = NULL <=> reservation[k].status # "completed"
    /\ \A w \in Calls :
          /\ call[w].at = "idle" => call[w] = Idle
          /\ call[w].at = "idle" \/ Dispatching(w) \/ Sweeping(w)
          /\ Dispatching(w) => /\ call[w].key \in Keys
                               /\ reservation[call[w].key].status = "started"
                               /\ call[w].answer.op = "dispatch_due"
                               /\ loop[w].op = "dispatch_due"
          /\ Sweeping(w) => /\ call[w].key \in Keys
                            /\ reservation[call[w].key].status = "vacant"
                            /\ call[w].answer.op = "expire_due"
                            /\ call[w].answer.completed \cup call[w].answer.failed = {}
                            /\ loop[w].op = "expire_due"
    /\ \A v, w \in Calls : v # w /\ call[v].key \in Keys => call[v].key # call[w].key

\* Where a command is counted as completed or failed: in a stored answer, or in the
\* one a dispatch is still counting.
Counted(k, c) ==
    reservation[k].status = "completed"
      /\ c \in reservation[k].answer.completed \cup reservation[k].answer.failed
Counting(w, c) == c \in call[w].answer.completed \cup call[w].answer.failed

\* A notification that is counted is settled, and counted in one place.
CountsOK ==
    \A c \in Commands \ Memberships :
        /\ \A k \in Keys : Counted(k, c) => ~Unsettled(c)
        /\ \A w \in Calls : Counting(w, c) => ~Unsettled(c)
        /\ \A k, j \in Keys : Counted(k, c) /\ Counted(j, c) => k = j
        /\ \A k \in Keys, w \in Calls : ~(Counted(k, c) /\ Counting(w, c))
        /\ \A v, w \in Calls : Counting(v, c) /\ Counting(w, c) => v = w

SweptBy(k) == reservation[k].status = "completed" /\ reservation[k].answer.op = "expire_due"

\* What a sweep has locked is late and nobody else's; what one has committed is ended.
SweepsOK ==
    /\ \A w \in Calls : Sweeping(w) =>
          /\ call[w].answer.items \subseteq LateInvitations
          /\ call[w].answer.items \cap busy = {}
    /\ \A v, w \in Calls : v # w /\ Sweeping(v) /\ Sweeping(w) =>
          call[v].answer.items \cap call[w].answer.items = {}
    /\ \A k \in Keys, i \in Invitations :
          SweptBy(k) /\ i \in reservation[k].answer.items =>
              /\ invitation[i] = "ended"
              /\ \A j \in Keys : j # k /\ SweptBy(j) => i \notin reservation[j].answer.items

\* A caller is owed rows that are due still, and none of them by a batch begun
\* since that found, or is about to find, nothing left.
LoopsOK ==
    \A w \in Calls :
        /\ loop[w].owed \subseteq DueRows(loop[w].op)
        /\ loop[w].drained => loop[w].owed = {}
        /\ \A k \in Keys \ loop[w].old :
              /\ reservation[k].status = "completed" /\ reservation[k].answer.op = loop[w].op
                    /\ ~reservation[k].answer.has_more
                    => loop[w].owed = {}
              /\ \A v \in Calls : call[v].key = k /\ call[v].answer.op = loop[w].op =>
                    /\ call[v].at = "record" /\ ~call[v].answer.has_more => loop[w].owed = {}
                    /\ Sweeping(v) => loop[w].owed \subseteq call[v].todo
                    /\ call[v].at = "commit" /\ ~call[v].answer.has_more =>
                          loop[w].owed \subseteq call[v].answer.items

IInv == Typing /\ KeysOK /\ CountsOK /\ SweepsOK /\ LoopsOK
--------------------------------------------------------------------------------
(* Calls, keys and rows *)

\* A call that has not begun.
LEMMA IdleFields ==
    /\ Idle \in CallRecord
    /\ Idle.at = "idle" /\ Idle.key = NULL /\ Idle.todo = {}
    /\ Idle.answer = NoAnswer("dispatch_due")
    /\ \A op \in Operations :
          /\ NoAnswer(op) \in Answer
          /\ NoAnswer(op).op = op /\ NoAnswer(op).items = {}
          /\ NoAnswer(op).completed = {} /\ NoAnswer(op).failed = {}
    /\ Idle.answer.op = "dispatch_due"
    /\ Idle.answer.items = {}
    /\ Idle.answer.completed = {} /\ Idle.answer.failed = {}
BY DEF Idle, NoAnswer, CallRecord, Answer, Operations

\* A reservation that has not begun.
LEMMA VacantFields ==
    /\ Vacant \in Reservation
    /\ Vacant.status = "vacant" /\ Vacant.answer = NULL /\ Vacant.batches = 0
BY DEF Vacant, Reservation

\* The stages of a call exclude each other.
LEMMA Stages ==
    ASSUME NEW w
    PROVE  /\ Dispatching(w) => ~Sweeping(w) /\ call[w].at # "idle"
           /\ Sweeping(w) => call[w].at # "idle"
BY DEF Dispatching, Sweeping

\* A call that is set to a record keeps its type, and the others keep theirs.
LEMMA CallSet ==
    ASSUME Typing, NEW w \in Calls, NEW r \in CallRecord, call' = [call EXCEPT ![w] = r]
    PROVE  /\ call' \in [Calls -> CallRecord]
           /\ call'[w] = r
           /\ \A v \in Calls \ {w} : call'[v] = call[v]
BY DEF Typing

\* One reservation is set.
LEMMA ReservationSet ==
    ASSUME Typing, NEW k \in Keys, NEW r \in Reservation,
           reservation' = [reservation EXCEPT ![k] = r]
    PROVE  /\ reservation' \in [Keys -> Reservation]
           /\ reservation'[k] = r
           /\ \A j \in Keys \ {k} : reservation'[j] = reservation[j]
BY DEF Typing

\* Callers are owed what is due still.
LEMMA PayFacts ==
    ASSUME IInv, Pay
    PROVE  /\ loop' \in [Calls -> Loop]
           /\ \A w \in Calls :
                 /\ loop'[w].op = loop[w].op /\ loop'[w].old = loop[w].old
                 /\ loop'[w].drained = loop[w].drained
                 /\ loop'[w].owed \subseteq loop[w].owed
                 /\ loop'[w].owed \subseteq DueRows(loop[w].op)'
<1>1. loop \in [Calls -> Loop]  BY DEF IInv, Typing
<1> DEFINE still(r) == \/ r \in Commands /\ command'[r].due
                            /\ command'[r].state \in {"pending", "in_flight"}
                       \/ r \in Invitations /\ invitation'[r] = "late"
<1>2. \A w \in Calls : loop'[w] = [loop[w] EXCEPT !.owed = {r \in loop[w].owed : still(r)}]
  BY DEF Pay
<1>3. \A w \in Calls :
          /\ loop[w] \in Loop /\ loop'[w] \in Loop
          /\ loop'[w].op = loop[w].op /\ loop'[w].old = loop[w].old
          /\ loop'[w].drained = loop[w].drained
          /\ loop'[w].owed = {r \in loop[w].owed : still(r)}
  <2> SUFFICES ASSUME NEW w \in Calls
               PROVE  /\ loop[w] \in Loop /\ loop'[w] \in Loop
                      /\ loop'[w].op = loop[w].op /\ loop'[w].old = loop[w].old
                      /\ loop'[w].drained = loop[w].drained
                      /\ loop'[w].owed = {r \in loop[w].owed : still(r)}
    OBVIOUS
  <2> DEFINE S == {r \in loop[w].owed : still(r)}
  <2>1. loop[w] \in Loop /\ S \subseteq loop[w].owed  BY <1>1
  <2>2. loop'[w] = [loop[w] EXCEPT !.owed = S]  BY <1>2
  <2> HIDE DEF S, still
  <2>3. S \in SUBSET Rows  BY <2>1 DEF Loop
  <2>4. loop'[w] \in Loop /\ loop'[w].op = loop[w].op /\ loop'[w].old = loop[w].old
        /\ loop'[w].drained = loop[w].drained /\ loop'[w].owed = S
    BY <2>1, <2>2, <2>3 DEF Loop
  <2> QED  BY <2>1, <2>4 DEF S
<1>4. loop' \in [Calls -> Loop]  BY <1>3 DEF Pay
<1>5. ASSUME NEW w \in Calls, NEW r \in loop'[w].owed
      PROVE  r \in DueRows(loop[w].op)'
  <2>1. r \in loop[w].owed /\ still(r)  BY <1>3
  <2>2. r \in DueRows(loop[w].op)  BY <2>1 DEF IInv, LoopsOK
  <2>3. CASE loop[w].op = "dispatch_due"
    <3>1. r \in Commands /\ r \notin Invitations
      BY <2>2, <2>3, BatchesAssumption DEF DueRows, DueCommands
    <3>2. r \in DueCommands'  BY <2>1, <3>1 DEF DueCommands, Unsettled
    <3> QED  BY <1>3, <2>3, <3>2 DEF DueRows
  <2>4. CASE loop[w].op # "dispatch_due"
    <3>1. r \in Invitations /\ r \notin Commands
      BY <2>2, <2>4, BatchesAssumption DEF DueRows, LateInvitations
    <3>2. r \in LateInvitations'  BY <2>1, <3>1 DEF LateInvitations
    <3> QED  BY <1>3, <2>4, <3>2 DEF DueRows
  <2> QED  BY <2>3, <2>4
<1> QED  BY <1>3, <1>4, <1>5

--------------------------------------------------------------------------------
(* Everybody else: reservations stay as they are, and calls but for their rows *)

\* Loops keep their promises while rows are paid for and answers stay the same.
LEMMA LoopsFrame ==
    ASSUME IInv, UNCHANGED <<reservation, call>>, Pay
    PROVE  LoopsOK'
BY PayFacts DEF IInv, LoopsOK, Sweeping

LEMMA KeysFrame ==
    ASSUME IInv, UNCHANGED <<reservation, call>>,
           \A w \in Calls : loop'[w].op = loop[w].op \/ call[w].at = "idle"
    PROVE  KeysOK'
BY Stages DEF IInv, KeysOK, Dispatching, Sweeping

LEMMA CountsFrame ==
    ASSUME IInv, UNCHANGED <<reservation, call>>,
           \A c \in Commands \ Memberships : ~Unsettled(c) => ~Unsettled(c)'
    PROVE  CountsOK'
BY DEF IInv, CountsOK, Counted, Counting

LEMMA LockRowStep == \A r \in Rows : IInv /\ LockRow(r) => IInv'
<1> SUFFICES ASSUME IInv, NEW r \in Rows, LockRow(r) PROVE IInv'  OBVIOUS
<1>1. UNCHANGED <<invitation, command, reservation, call, loop>>
      /\ busy' = busy \cup {r}  BY DEF LockRow
<1>2. Typing'  BY <1>1 DEF IInv, Typing
<1>3. KeysOK'  BY <1>1, KeysFrame
<1>4. CountsOK'  BY <1>1, CountsFrame DEF Unsettled
<1>5. SweepsOK'
  <2>1. \A w \in Calls : Sweeping(w) => r \notin call[w].answer.items
    BY DEF LockRow, LockedRows
  <2> QED  BY <1>1, <2>1 DEF IInv, SweepsOK, Sweeping, SweptBy, LateInvitations
<1>6. LoopsOK'
  BY <1>1 DEF IInv, LoopsOK, Sweeping, DueRows, DueCommands, LateInvitations, Unsettled
<1> QED  BY <1>2, <1>3, <1>4, <1>5, <1>6 DEF IInv

LEMMA ReleaseRowStep == \A r \in Rows : IInv /\ ReleaseRow(r) => IInv'
<1> SUFFICES ASSUME IInv, NEW r \in Rows, ReleaseRow(r) PROVE IInv'  OBVIOUS
<1>1. UNCHANGED <<reservation, call>> /\ busy' = busy \ {r} /\ Pay /\ r \in busy
  BY DEF ReleaseRow
<1>2. \/ UNCHANGED <<invitation, command>>
      \/ /\ r \in Invitations
         /\ invitation' = [invitation EXCEPT ![r] = "ended"] /\ UNCHANGED command
      \/ /\ r \in Commands \ Memberships
         /\ command' = [command EXCEPT ![r] =
                [state |-> "superseded", lease |-> NULL, due |-> FALSE]]
         /\ UNCHANGED invitation
  BY DEF ReleaseRow
<1>3. Typing
  BY DEF IInv
<1>4. invitation' \in [Invitations -> {"open", "late", "ended"}]
  BY <1>2, <1>3 DEF Typing
<1>5. command' \in [Commands -> Command]
  <2>1. [state |-> "superseded", lease |-> NULL, due |-> FALSE] \in Command
    BY DEF Command
  <2> QED  BY <1>2, <1>3, <2>1 DEF Typing
<1>6. Typing'  BY <1>1, <1>3, <1>4, <1>5, PayFacts DEF Typing
<1>7. KeysOK'  BY <1>1, PayFacts, KeysFrame
<1>8. CountsOK'
  <2>1. ASSUME NEW c \in Commands \ Memberships, ~Unsettled(c) PROVE ~Unsettled(c)'
    BY <1>2, <1>3, <2>1 DEF Unsettled, Typing
  <2> QED  BY <1>1, <2>1, CountsFrame
<1>9. SweepsOK'
  <2>1. \A w \in Calls : Sweeping(w) => r \notin call[w].answer.items
    BY <1>1 DEF IInv, SweepsOK
  <2>2. \A i \in Invitations : /\ i # r => invitation'[i] = invitation[i]
                               /\ invitation[i] = "ended" => invitation'[i] = "ended"
    BY <1>2, <1>3 DEF Typing
  <2>3. \A w \in Calls : Sweeping(w)' <=> Sweeping(w)  BY <1>1 DEF Sweeping
  <2>4. \A k \in Keys : SweptBy(k)' <=> SweptBy(k)  BY <1>1 DEF SweptBy
  <2>5. \A w \in Calls : Sweeping(w) => call[w].answer.items \subseteq LateInvitations'
    BY <2>1, <2>2 DEF IInv, SweepsOK, LateInvitations
  <2> QED  BY <1>1, <2>2, <2>3, <2>4, <2>5 DEF IInv, SweepsOK
<1>10. LoopsOK'  BY <1>1, LoopsFrame
<1> QED  BY <1>6, <1>7, <1>8, <1>9, <1>10 DEF IInv

\* A new deadline takes the row from what sweeps count as late and callers are owed.
LEMMA ResendRowStep == \A r \in Rows : IInv /\ ResendRow(r) => IInv'
<1> SUFFICES ASSUME IInv, NEW r \in Rows, ResendRow(r) PROVE IInv'  OBVIOUS
<1>1. /\ r \in busy /\ r \in Invitations /\ invitation[r] # "ended"
      /\ busy' = busy \ {r}
      /\ invitation' = [invitation EXCEPT ![r] = "open"]
      /\ call' = [w \in Calls |-> [call[w] EXCEPT !.todo = @ \ {r}]]
      /\ UNCHANGED <<command, reservation>> /\ Pay
  BY DEF ResendRow
<1>2. Typing  BY DEF IInv
<1>3. \A w \in Calls : /\ call'[w] \in CallRecord
                       /\ call'[w].at = call[w].at /\ call'[w].key = call[w].key
                       /\ call'[w].answer = call[w].answer
                       /\ call'[w].todo = call[w].todo \ {r}
  <2> SUFFICES ASSUME NEW w \in Calls
               PROVE  /\ call'[w] \in CallRecord
                      /\ call'[w].at = call[w].at /\ call'[w].key = call[w].key
                      /\ call'[w].answer = call[w].answer
                      /\ call'[w].todo = call[w].todo \ {r}
    OBVIOUS
  <2> DEFINE rest == call[w].todo \ {r}
  <2>1. call[w] \in CallRecord  BY <1>2 DEF Typing
  <2>2. call'[w] = [call[w] EXCEPT !.todo = rest]  BY <1>1
  <2>3. rest \in SUBSET Rows  BY <2>1 DEF CallRecord
  <2> HIDE DEF rest
  <2>4. call'[w] \in CallRecord /\ call'[w].at = call[w].at /\ call'[w].key = call[w].key
        /\ call'[w].answer = call[w].answer /\ call'[w].todo = rest
    BY <2>1, <2>2, <2>3 DEF CallRecord
  <2> QED  BY <2>4 DEF rest
<1>4. \A w \in Calls : call[w].at = "idle" => call'[w] = Idle
  <2> SUFFICES ASSUME NEW w \in Calls, call[w].at = "idle" PROVE call'[w] = Idle
    OBVIOUS
  <2>1. call[w] = Idle  BY DEF IInv, KeysOK
  <2>2. call'[w] = [Idle EXCEPT !.todo = {}]  BY <1>1, <2>1, IdleFields
  <2> QED  BY <2>2, IdleFields DEF Idle
<1>5. \A w \in Calls : (Sweeping(w)' <=> Sweeping(w)) /\ (Dispatching(w)' <=> Dispatching(w))
  BY <1>3 DEF Sweeping, Dispatching
<1>6. /\ invitation' \in [Invitations -> {"open", "late", "ended"}]
      /\ \A i \in Invitations : i # r => invitation'[i] = invitation[i]
  BY <1>1, <1>2 DEF Typing
<1>7. call' \in [Calls -> CallRecord]  BY <1>1, <1>3
<1>8. Typing'  BY <1>1, <1>2, <1>6, <1>7, PayFacts DEF Typing
<1>9. KeysOK'
  BY <1>1, <1>3, <1>4, <1>5, PayFacts DEF IInv, KeysOK
<1>10. CountsOK'
  BY <1>1, <1>3 DEF IInv, CountsOK, Counted, Counting, Unsettled
<1>11. SweepsOK'
  <2>1. \A w \in Calls : Sweeping(w) => r \notin call[w].answer.items
    BY <1>1 DEF IInv, SweepsOK
  <2>2. \A w \in Calls : Sweeping(w) => call[w].answer.items \subseteq LateInvitations'
    BY <1>6, <2>1 DEF IInv, SweepsOK, LateInvitations
  <2>3. \A k \in Keys : SweptBy(k)' <=> SweptBy(k)  BY <1>1 DEF SweptBy
  <2> QED  BY <1>1, <1>3, <1>5, <1>6, <2>2, <2>3 DEF IInv, SweepsOK
<1>12. LoopsOK'
  <2>1. \A w \in Calls : r \notin loop'[w].owed
    <3>1. r \notin LateInvitations' /\ r \notin DueCommands'
      BY <1>1, <1>2, BatchesAssumption DEF LateInvitations, DueCommands, Typing
    <3> QED  BY <1>1, <3>1, PayFacts DEF DueRows
  <2> QED  BY <1>1, <1>3, <1>5, <2>1, PayFacts DEF IInv, LoopsOK
<1> QED  BY <1>8, <1>9, <1>10, <1>11, <1>12 DEF IInv

LEMMA ComesDueStep == \A r \in Rows : IInv /\ ComesDue(r) => IInv'
<1> SUFFICES ASSUME IInv, NEW r \in Rows, ComesDue(r) PROVE IInv'  OBVIOUS
<1>1. UNCHANGED <<busy, reservation, call, loop>>
  BY DEF ComesDue
<1>2. \/ /\ r \in Invitations /\ invitation[r] = "open"
         /\ invitation' = [invitation EXCEPT ![r] = "late"] /\ UNCHANGED command
      \/ /\ r \in Commands /\ Unsettled(r)
         /\ command' = [command EXCEPT ![r].due = TRUE] /\ UNCHANGED invitation
  BY DEF ComesDue
<1>3. Typing  BY DEF IInv
<1>4. invitation' \in [Invitations -> {"open", "late", "ended"}]
  BY <1>2, <1>3 DEF Typing
<1>5. /\ command' \in [Commands -> Command]
      /\ \A c \in Commands : /\ command'[c].state = command[c].state
                             /\ command[c].due => command'[c].due
  <2>1. CASE UNCHANGED command  BY <1>3, <2>1 DEF Typing
  <2>2. CASE r \in Commands /\ command' = [command EXCEPT ![r].due = TRUE]
    <3> DEFINE row == [command[r] EXCEPT !.due = TRUE]
    <3>1. command[r] \in Command  BY <1>3, <2>2 DEF Typing
    <3>2. row \in Command /\ row.state = command[r].state /\ row.due
      BY <3>1 DEF Command
    <3>3. command' = [command EXCEPT ![r] = row]  BY <2>2
    <3> HIDE DEF row
    <3> QED  BY <1>3, <2>2, <3>2, <3>3 DEF Typing
  <2> QED  BY <1>2, <2>1, <2>2
<1>6. Typing'  BY <1>1, <1>3, <1>4, <1>5 DEF Typing
<1>7. KeysOK'  BY <1>1, KeysFrame
<1>8. CountsOK'  BY <1>1, <1>5, CountsFrame DEF Unsettled
<1>9. \A i \in Invitations : /\ invitation[i] = "late" => invitation'[i] = "late"
                             /\ invitation[i] = "ended" => invitation'[i] = "ended"
  BY <1>2, <1>3 DEF Typing
<1>10. SweepsOK'
  <2>1. LateInvitations \subseteq LateInvitations'  BY <1>9 DEF LateInvitations
  <2> QED  BY <1>1, <1>9, <2>1 DEF IInv, SweepsOK, Sweeping, SweptBy
<1>11. LoopsOK'
  <2>1. \A op : DueRows(op) \subseteq DueRows(op)'
    BY <1>5, <1>9 DEF DueRows, DueCommands, LateInvitations, Unsettled
  <2> QED  BY <1>1, <2>1 DEF IInv, LoopsOK, Sweeping
<1> QED  BY <1>6, <1>7, <1>8, <1>10, <1>11 DEF IInv

--------------------------------------------------------------------------------
(* Callers, and calls that end *)

LEMMA StartLoopStep == \A w \in Calls, op \in Operations : IInv /\ StartLoop(w, op) => IInv'
<1> SUFFICES ASSUME IInv, NEW w \in Calls, NEW op \in Operations, StartLoop(w, op)
             PROVE  IInv'
  OBVIOUS
<1> DEFINE old == {k \in Keys : reservation[k] # Vacant \/ \E v \in Calls : call[v].key = k}
           l == [op |-> op, owed |-> DueRows(op), old |-> old, drained |-> FALSE]
<1>1. /\ UNCHANGED <<invitation, command, busy, reservation, call>>
      /\ loop' = [loop EXCEPT ![w] = l] /\ call[w] = Idle
  BY DEF StartLoop
<1>2. DueRows(op) \in SUBSET Rows
  BY DEF DueRows, DueCommands, LateInvitations, Rows
<1>3. /\ \A k \in Keys \ old : reservation[k] = Vacant /\ \A v \in Calls : call[v].key # k
      /\ old \in SUBSET Keys
  OBVIOUS
<1> HIDE DEF old
<1>4. l \in Loop /\ l.op = op /\ l.owed = DueRows(op) /\ l.old = old /\ l.drained = FALSE
  BY <1>2, <1>3 DEF Loop
<1> HIDE DEF l
<1>5. /\ loop' \in [Calls -> Loop] /\ loop'[w] = l
      /\ \A v \in Calls \ {w} : loop'[v] = loop[v]
  BY <1>1, <1>4 DEF IInv, Typing
<1>6. Typing'  BY <1>1, <1>5 DEF IInv, Typing
<1>7. KeysOK'  BY <1>1, <1>5, KeysFrame, IdleFields
<1>8. CountsOK'  BY <1>1, CountsFrame DEF Unsettled
<1>9. SweepsOK'
  BY <1>1 DEF IInv, SweepsOK, Sweeping, SweptBy, LateInvitations
<1>10. LoopsOK'
  <2>2. \A v \in Calls \ {w} : (loop[v].owed \subseteq DueRows(loop[v].op))'
    BY <1>1, <1>5 DEF IInv, LoopsOK, DueRows, DueCommands, LateInvitations, Unsettled
  <2>3. (loop[w].owed \subseteq DueRows(loop[w].op))'
    BY <1>1, <1>4, <1>5 DEF DueRows, DueCommands, LateInvitations, Unsettled
  <2>4. \A k \in Keys \ loop'[w].old :
           reservation'[k].status # "completed" /\ \A v \in Calls : call'[v].key # k
    BY <1>1, <1>3, <1>4, <1>5, VacantFields
  <2> QED
    BY <1>1, <1>4, <1>5, <2>2, <2>3, <2>4 DEF IInv, LoopsOK, Sweeping
<1> QED  BY <1>6, <1>7, <1>8, <1>9, <1>10 DEF IInv

\* What an answer does to the loops: it sets whether its caller is done.
LEMMA AnsweredFacts ==
    ASSUME Typing, NEW w \in Calls, NEW key, NEW answer \in Answer, Answered(w, key, answer)
    PROVE  /\ loop' \in [Calls -> Loop]
           /\ \A v \in Calls : /\ loop'[v].op = loop[v].op /\ loop'[v].old = loop[v].old
                               /\ loop'[v].owed = loop[v].owed
           /\ \A v \in Calls \ {w} : loop'[v].drained = loop[v].drained
           /\ loop'[w].drained = (~answer.has_more /\ key \notin loop[w].old)
<1> DEFINE d == ~answer.has_more /\ key \notin loop[w].old
           l == [loop[w] EXCEPT !.drained = d]
<1>1. /\ loop' = [v \in Calls |-> IF v = w THEN [loop[v] EXCEPT !.drained = d] ELSE loop[v]]
      /\ loop \in [Calls -> Loop]
  BY DEF Answered, Typing
<1>2. d \in BOOLEAN  BY DEF Answer
<1> HIDE DEF d
<1>3. loop[w] \in Loop  BY <1>1
<1>4. l \in Loop /\ l.op = loop[w].op /\ l.old = loop[w].old /\ l.owed = loop[w].owed
      /\ l.drained = d
  BY <1>2, <1>3 DEF Loop
<1>5. loop'[w] = l /\ \A v \in Calls \ {w} : loop'[v] = loop[v]  BY <1>1
<1> HIDE DEF l
<1>6. loop' \in [Calls -> Loop]  BY <1>1, <1>4, <1>5
<1> QED  BY <1>4, <1>5, <1>6 DEF d

LEMMA ReplayStep == \A w \in Calls, key \in Keys : IInv /\ Replay(w, key) => IInv'
<1> SUFFICES ASSUME IInv, NEW w \in Calls, NEW key \in Keys, Replay(w, key) PROVE IInv'
  OBVIOUS
<1> DEFINE answer == reservation[key].answer
<1>1. /\ UNCHANGED <<invitation, command, busy, reservation, call>>
      /\ reservation[key].status = "completed" /\ answer.op = loop[w].op
      /\ Answered(w, key, answer)
  BY DEF Replay
<1>2. answer \in Answer
  <2>1. reservation[key] \in Reservation /\ answer # NULL
    BY <1>1 DEF IInv, Typing, KeysOK
  <2> QED  BY <2>1 DEF Reservation
<1>3. /\ loop' \in [Calls -> Loop]
      /\ \A v \in Calls : /\ loop'[v].op = loop[v].op /\ loop'[v].old = loop[v].old
                          /\ loop'[v].owed = loop[v].owed
      /\ \A v \in Calls \ {w} : loop'[v].drained = loop[v].drained
      /\ loop'[w].drained = (~answer.has_more /\ key \notin loop[w].old)
  BY <1>1, <1>2, AnsweredFacts DEF IInv
<1>4. Typing'  BY <1>1, <1>3 DEF IInv, Typing
<1>5. KeysOK'  BY <1>1, <1>3, KeysFrame
<1>6. CountsOK'  BY <1>1, CountsFrame DEF Unsettled
<1>7. SweepsOK'
  BY <1>1 DEF IInv, SweepsOK, Sweeping, SweptBy, LateInvitations
<1>8. LoopsOK'
  <2>1. loop'[w].drained => loop[w].owed = {}
    BY <1>1, <1>3 DEF IInv, LoopsOK
  <2>2. \A v \in Calls : (loop[v].owed \subseteq DueRows(loop[v].op))'
    BY <1>1, <1>3 DEF IInv, LoopsOK, DueRows, DueCommands, LateInvitations, Unsettled
  <2> QED  BY <1>1, <1>3, <2>1, <2>2 DEF IInv, LoopsOK, Sweeping
<1> QED  BY <1>4, <1>5, <1>6, <1>7, <1>8 DEF IInv

LEMMA EndsEarlyStep == \A w \in Calls : IInv /\ EndsEarly(w) => IInv'
<1> SUFFICES ASSUME IInv, NEW w \in Calls, EndsEarly(w) PROVE IInv'  OBVIOUS
<1>1. /\ UNCHANGED <<invitation, command, busy, reservation, loop>>
      /\ call' = [call EXCEPT ![w] = Idle]
  BY DEF EndsEarly
<1>2. /\ call' \in [Calls -> CallRecord] /\ call'[w] = Idle
      /\ \A v \in Calls \ {w} : call'[v] = call[v]
  BY <1>1, IdleFields, CallSet DEF IInv
<1>3. Typing'  BY <1>1, <1>2 DEF IInv, Typing
<1>4. NULL \notin Keys  BY BatchesAssumption
<1>5. KeysOK'
  <2>1. ~Dispatching(w)' /\ ~Sweeping(w)'
    BY <1>2, IdleFields DEF Dispatching, Sweeping
  <2>2. \A v \in Calls \ {w} : /\ Dispatching(v)' <=> Dispatching(v)
                               /\ Sweeping(v)' <=> Sweeping(v)
    BY <1>2 DEF Dispatching, Sweeping
  <2> QED  BY <1>1, <1>2, <1>4, <2>1, <2>2, IdleFields DEF IInv, KeysOK
<1>6. CountsOK'
  <2>1. \A c : ~Counting(w, c)'  BY <1>2, IdleFields DEF Counting
  <2>2. \A v \in Calls \ {w} : \A c : Counting(v, c)' <=> Counting(v, c)  BY <1>2 DEF Counting
  <2>3. \A k, c : Counted(k, c)' <=> Counted(k, c)  BY <1>1 DEF Counted
  <2> QED  BY <1>1, <2>1, <2>2, <2>3 DEF IInv, CountsOK, Unsettled
<1>7. SweepsOK'
  <2>1. ~Sweeping(w)'  BY <1>2, IdleFields DEF Sweeping
  <2>2. \A v \in Calls \ {w} : Sweeping(v)' <=> Sweeping(v)  BY <1>2 DEF Sweeping
  <2> QED  BY <1>1, <1>2, <2>1, <2>2 DEF IInv, SweepsOK, SweptBy, LateInvitations
<1>8. LoopsOK'
  <2>1. ~Sweeping(w)' /\ call'[w].at = "idle"  BY <1>2, IdleFields DEF Sweeping
  <2>2. \A v \in Calls \ {w} : Sweeping(v)' <=> Sweeping(v)  BY <1>2 DEF Sweeping
  <2> QED
    BY <1>1, <1>2, <2>1, <2>2
       DEF IInv, LoopsOK, DueRows, DueCommands, LateInvitations, Unsettled
<1> QED  BY <1>3, <1>5, <1>6, <1>7, <1>8 DEF IInv

--------------------------------------------------------------------------------
(* dispatch_due *)

\* The reservation with a batch begun for it, if there was none before.
LEMMA BegunFacts ==
    ASSUME IInv, NEW key \in Keys, reservation[key].status = "vacant",
           NEW status \in {"vacant", "started", "completed"}
    PROVE  /\ Begun(key, status) \in Reservation
           /\ Begun(key, status).status = status /\ Begun(key, status).batches = 1
           /\ Begun(key, status).answer = NULL
<1>1. reservation[key] = Vacant  BY DEF IInv, KeysOK
<1> DEFINE b == [Vacant EXCEPT !.status = status, !.batches = 1]
<1>2. Begun(key, status) = b  BY <1>1, VacantFields DEF Begun
<1>3. b \in Reservation /\ b.status = status /\ b.batches = 1 /\ b.answer = NULL
  <2>1. 1 \in 0..2  OBVIOUS
  <2>2. \A r \in Reservation :
           LET n == [r EXCEPT !.status = status, !.batches = 1] IN
           n \in Reservation /\ n.status = status /\ n.batches = 1 /\ n.answer = r.answer
    BY <2>1 DEF Reservation
  <2> QED  BY <2>2, VacantFields
<1> HIDE DEF b
<1> QED  BY <1>2, <1>3

LEMMA BeginDispatchStep == \A w \in Calls, key \in Keys : IInv /\ BeginDispatch(w, key) => IInv'
<1> SUFFICES ASSUME IInv, NEW w \in Calls, NEW key \in Keys, BeginDispatch(w, key) PROVE IInv'
  OBVIOUS
<1> DEFINE b == Begun(key, "started")
           n == [Idle EXCEPT !.at = "claim", !.key = key]
<1>1. /\ UNCHANGED <<invitation, command, busy, loop>>
      /\ reservation[key].status = "vacant" /\ ~Undecided(key)
      /\ call[w] = Idle /\ loop[w].op = "dispatch_due"
      /\ reservation' = [reservation EXCEPT ![key] = b]
      /\ call' = [call EXCEPT ![w] = n]
  BY DEF BeginDispatch, New
<1>2. b \in Reservation /\ b.status = "started" /\ b.batches = 1 /\ b.answer = NULL
  BY <1>1, BegunFacts
<1>3. /\ n \in CallRecord /\ n.at = "claim" /\ n.key = key /\ n.answer = Idle.answer
  BY IdleFields DEF CallRecord
<1> HIDE DEF b, n
<1>4. /\ call' \in [Calls -> CallRecord] /\ call'[w] = n
      /\ \A v \in Calls \ {w} : call'[v] = call[v]
  BY <1>1, <1>3, CallSet DEF IInv
<1>5. /\ reservation' \in [Keys -> Reservation] /\ reservation'[key] = b
      /\ \A k \in Keys \ {key} : reservation'[k] = reservation[k]
  BY <1>1, <1>2, ReservationSet DEF IInv
<1>6. Typing'  BY <1>1, <1>4, <1>5 DEF IInv, Typing
<1>7. Dispatching(w)' /\ ~Sweeping(w)' /\ call'[w].at = "claim"
  BY <1>3, <1>4 DEF Dispatching, Sweeping
<1>8. \A v \in Calls \ {w} : /\ Dispatching(v)' <=> Dispatching(v)
                             /\ Sweeping(v)' <=> Sweeping(v)
  BY <1>4 DEF Dispatching, Sweeping
<1>9. \A v \in Calls \ {w} : call[v].key # key
  <2> SUFFICES ASSUME NEW v \in Calls \ {w}, call[v].key = key PROVE FALSE  OBVIOUS
  <2>1. NULL \notin Keys  BY BatchesAssumption
  <2>2. Dispatching(v) \/ Sweeping(v)
    BY <2>1, IdleFields DEF IInv, KeysOK
  <2> QED  BY <1>1, <2>2 DEF IInv, KeysOK, Undecided
<1>10. KeysOK'
  <2>1. \A k \in Keys : /\ reservation'[k].status = "vacant" => reservation'[k] = Vacant
                        /\ reservation'[k].batches <= 1
                        /\ reservation'[k].answer = NULL <=> reservation'[k].status # "completed"
    BY <1>2, <1>5 DEF IInv, KeysOK
  <2>2. \A v \in Calls \ {w} : call[v].key \in Keys =>
            reservation'[call[v].key] = reservation[call[v].key]
    BY <1>5, <1>9
  <2>3. ASSUME NEW v \in Calls
        PROVE  /\ call'[v].at = "idle" => call'[v] = Idle
               /\ call'[v].at = "idle" \/ Dispatching(v)' \/ Sweeping(v)'
               /\ Dispatching(v)' => /\ call'[v].key \in Keys
                                     /\ reservation'[call'[v].key].status = "started"
                                     /\ call'[v].answer.op = "dispatch_due"
                                     /\ loop'[v].op = "dispatch_due"
               /\ Sweeping(v)' => /\ call'[v].key \in Keys
                                  /\ reservation'[call'[v].key].status = "vacant"
                                  /\ call'[v].answer.op = "expire_due"
                                  /\ call'[v].answer.completed \cup call'[v].answer.failed = {}
                                  /\ loop'[v].op = "expire_due"
    <3>1. CASE v = w
      BY <1>1, <1>2, <1>3, <1>4, <1>5, <1>7, <3>1, IdleFields
    <3>2. CASE v # w
      BY <1>1, <1>4, <1>8, <2>2, <3>2 DEF IInv, KeysOK
    <3> QED  BY <3>1, <3>2
  <2>4. \A v, u \in Calls : v # u /\ call'[v].key \in Keys => call'[v].key # call'[u].key
    BY <1>3, <1>4, <1>9 DEF IInv, KeysOK
  <2> QED  BY <2>1, <2>3, <2>4 DEF KeysOK
<1>11. CountsOK'
  <2>1. \A c : ~Counting(w, c)'  BY <1>3, <1>4, IdleFields DEF Counting
  <2>2. \A v \in Calls \ {w} : \A c : Counting(v, c)' <=> Counting(v, c)  BY <1>4 DEF Counting
  <2>3. \A k \in Keys : \A c : Counted(k, c)' => Counted(k, c)  BY <1>2, <1>5 DEF Counted
  <2> QED  BY <1>1, <2>1, <2>2, <2>3 DEF IInv, CountsOK, Unsettled
<1>12. SweepsOK'
  <2>1. \A k \in Keys : SweptBy(k)' => SweptBy(k) /\ reservation'[k] = reservation[k]
    BY <1>2, <1>5 DEF SweptBy
  <2> QED  BY <1>1, <1>4, <1>7, <1>8, <2>1 DEF IInv, SweepsOK, LateInvitations
<1>13. LoopsOK'
  <2>1. \A k \in Keys : reservation'[k].status = "completed" => reservation'[k] = reservation[k]
    BY <1>2, <1>5
  <2>2. \A v \in Calls : (loop[v].owed \subseteq DueRows(loop[v].op))'
    BY <1>1 DEF IInv, LoopsOK, DueRows, DueCommands, LateInvitations, Unsettled
  <2> QED  BY <1>1, <1>4, <1>7, <1>8, <2>1, <2>2 DEF IInv, LoopsOK
<1> QED  BY <1>6, <1>10, <1>11, <1>12, <1>13 DEF IInv

\* A call goes on under its key.
LEMMA KeysGoOn ==
    ASSUME IInv, NEW w \in Calls, UNCHANGED reservation,
           \A v \in Calls : loop'[v].op = loop[v].op,
           \A v \in Calls \ {w} : call'[v] = call[v],
           call'[w].key = call[w].key, call'[w].answer.op = call[w].answer.op,
           \/ Dispatching(w) /\ Dispatching(w)'
           \/ /\ Sweeping(w) /\ Sweeping(w)'
              /\ call'[w].answer.completed = call[w].answer.completed
              /\ call'[w].answer.failed = call[w].answer.failed
    PROVE  KeysOK'
<1>1. \A v \in Calls \ {w} : /\ Dispatching(v)' <=> Dispatching(v)
                             /\ Sweeping(v)' <=> Sweeping(v)
  BY DEF Dispatching, Sweeping
<1>2. ASSUME NEW v \in Calls
      PROVE  /\ call'[v].at = "idle" => call'[v] = Idle
             /\ call'[v].at = "idle" \/ Dispatching(v)' \/ Sweeping(v)'
             /\ Dispatching(v)' => /\ call'[v].key \in Keys
                                   /\ reservation'[call'[v].key].status = "started"
                                   /\ call'[v].answer.op = "dispatch_due"
                                   /\ loop'[v].op = "dispatch_due"
             /\ Sweeping(v)' => /\ call'[v].key \in Keys
                                /\ reservation'[call'[v].key].status = "vacant"
                                /\ call'[v].answer.op = "expire_due"
                                /\ call'[v].answer.completed \cup call'[v].answer.failed = {}
                                /\ loop'[v].op = "expire_due"
  <2>1. CASE v = w
    <3>1. CASE Dispatching(w) /\ Dispatching(w)'
      <4>1. ~Sweeping(w)' /\ call'[w].at # "idle"  BY <3>1 DEF Dispatching, Sweeping
      <4> QED  BY <2>1, <3>1, <4>1 DEF IInv, KeysOK
    <3>2. CASE Sweeping(w) /\ Sweeping(w)' /\ ~Dispatching(w)
      <4>1. ~Dispatching(w)' /\ call'[w].at # "idle"  BY <3>2 DEF Dispatching, Sweeping
      <4>2. /\ call'[w].answer.completed = call[w].answer.completed
            /\ call'[w].answer.failed = call[w].answer.failed
        BY <3>2
      <4> QED  BY <2>1, <3>2, <4>1, <4>2 DEF IInv, KeysOK
    <3> QED  BY <3>1, <3>2, Stages
  <2>2. CASE v # w  BY <1>1, <2>2 DEF IInv, KeysOK
  <2> QED  BY <2>1, <2>2
<1>3. \A v, u \in Calls : v # u /\ call'[v].key \in Keys => call'[v].key # call'[u].key
  <2>1. \A v \in Calls : call'[v].key = call[v].key  OBVIOUS
  <2> QED  BY <2>1 DEF IInv, KeysOK
<1> QED  BY <1>2, <1>3 DEF IInv, KeysOK

\* Nothing that sweeps care about has changed.
LEMMA SweepsFrame ==
    ASSUME IInv, NEW w \in Calls, UNCHANGED <<invitation, busy>>,
           \A v \in Calls \ {w} : call'[v] = call[v],
           Sweeping(w)' => Sweeping(w) /\ call'[w].answer.items = call[w].answer.items,
           \A k \in Keys : SweptBy(k)' => SweptBy(k) /\ reservation'[k] = reservation[k]
    PROVE  SweepsOK'
<1>1. \A v \in Calls : Sweeping(v)' => Sweeping(v) /\ call'[v].answer.items = call[v].answer.items
  BY DEF Sweeping
<1>2. LateInvitations' = LateInvitations  BY DEF LateInvitations
<1> QED  BY <1>1, <1>2 DEF IInv, SweepsOK

\* Promises are kept while callers are owed less and no answer is better.
LEMMA LoopsGoOn ==
    ASSUME IInv, NEW w \in Calls, UNCHANGED reservation,
           \A v \in Calls : /\ loop'[v].op = loop[v].op /\ loop'[v].old = loop[v].old
                            /\ loop'[v].drained = loop[v].drained
                            /\ loop'[v].owed \subseteq loop[v].owed
                            /\ (loop[v].owed \subseteq DueRows(loop[v].op))',
           \A v \in Calls \ {w} : call'[v] = call[v],
           call'[w].key = call[w].key, call'[w].answer.op = call[w].answer.op,
           Dispatching(w), Dispatching(w)',
           call'[w].at = "record" /\ ~call'[w].answer.has_more =>
               \A v \in Calls : loop'[v].op = "dispatch_due" => loop'[v].owed = {}
    PROVE  LoopsOK'
<1>1. \A v \in Calls \ {w} : Sweeping(v)' <=> Sweeping(v)
  BY DEF Sweeping
<1>2. ~Sweeping(w)' /\ call'[w].at # "commit" /\ call'[w].answer.op = "dispatch_due"
  BY Stages DEF Dispatching, Sweeping, IInv, KeysOK
<1>3. ASSUME NEW v \in Calls, NEW k \in Keys \ loop'[v].old, NEW u \in Calls,
             call'[u].key = k, call'[u].answer.op = loop'[v].op
      PROVE  /\ call'[u].at = "record" /\ ~call'[u].answer.has_more => loop'[v].owed = {}
             /\ Sweeping(u)' => loop'[v].owed \subseteq call'[u].todo
             /\ call'[u].at = "commit" /\ ~call'[u].answer.has_more =>
                   loop'[v].owed \subseteq call'[u].answer.items
  <2>1. CASE u = w  BY <1>2, <1>3, <2>1
  <2>2. CASE u # w
    <3>1. call'[u] = call[u] /\ (Sweeping(u)' <=> Sweeping(u))  BY <1>1, <2>2
    <3>2. /\ call[u].at = "record" /\ ~call[u].answer.has_more => loop[v].owed = {}
          /\ Sweeping(u) => loop[v].owed \subseteq call[u].todo
          /\ call[u].at = "commit" /\ ~call[u].answer.has_more =>
                loop[v].owed \subseteq call[u].answer.items
      BY <1>3, <3>1 DEF IInv, LoopsOK
    <3>3. loop'[v].owed \subseteq loop[v].owed  OBVIOUS
    <3> QED  BY <3>1, <3>2, <3>3
  <2> QED  BY <2>1, <2>2
<1>4. \A v \in Calls : /\ loop'[v].drained => loop'[v].owed = {}
                       /\ \A k \in Keys \ loop'[v].old :
                             reservation'[k].status = "completed"
                               /\ reservation'[k].answer.op = loop'[v].op
                               /\ ~reservation'[k].answer.has_more => loop'[v].owed = {}
  BY DEF IInv, LoopsOK
<1> QED  BY <1>3, <1>4 DEF LoopsOK

LEMMA ClaimStep == \A w \in Calls : IInv /\ ClaimDueCommands(w) => IInv'
<1> SUFFICES ASSUME IInv, NEW w \in Calls, ClaimDueCommands(w) PROVE IInv'  OBVIOUS
<1>1. PICK S \in Batch(DueCommands) :
          /\ command' = [c \in Commands |->
                IF c \in S THEN [state |-> "in_flight", lease |-> w, due |-> FALSE]
                ELSE command[c]]
          /\ call' = [call EXCEPT ![w].at = "execute", ![w].todo = S,
                                  ![w].answer.items = S]
  BY DEF ClaimDueCommands
<1>2. /\ UNCHANGED <<invitation, busy, reservation>> /\ Pay /\ call[w].at = "claim"
      /\ Typing
  BY DEF ClaimDueCommands, IInv
<1>3. S \subseteq DueCommands /\ S \subseteq Rows
  BY DEF Batch, DueCommands, Rows
<1> DEFINE a == [call[w].answer EXCEPT !.items = S]
           n == [call[w] EXCEPT !.at = "execute", !.todo = S, !.answer = a]
<1>4. /\ n \in CallRecord /\ n.at = "execute" /\ n.key = call[w].key
      /\ n.answer.op = call[w].answer.op
      /\ n.answer.completed = call[w].answer.completed
      /\ n.answer.failed = call[w].answer.failed
  <2>1. call[w] \in CallRecord  BY <1>2 DEF Typing
  <2>2. call[w].answer \in Answer  BY <2>1 DEF CallRecord
  <2>3. a \in Answer /\ a.op = call[w].answer.op /\ a.completed = call[w].answer.completed
        /\ a.failed = call[w].answer.failed
    BY <1>3, <2>2 DEF Answer
  <2> HIDE DEF a
  <2> QED  BY <1>3, <2>1, <2>3 DEF CallRecord
<1>5. call' = [call EXCEPT ![w] = n]
  BY <1>1, <1>2 DEF Typing, CallRecord
<1> HIDE DEF n
<1>6. /\ call' \in [Calls -> CallRecord] /\ call'[w] = n
      /\ \A v \in Calls \ {w} : call'[v] = call[v]
  BY <1>2, <1>4, <1>5, CallSet
<1>7. command' \in [Commands -> Command]
  <2>1. [state |-> "in_flight", lease |-> w, due |-> FALSE] \in Command  BY DEF Command
  <2> QED  BY <1>1, <1>2, <2>1 DEF Typing
<1>8. Typing'  BY <1>2, <1>6, <1>7, PayFacts DEF Typing
<1>9. Dispatching(w) /\ Dispatching(w)' /\ call'[w].at = "execute" /\ ~Sweeping(w)'
  BY <1>2, <1>4, <1>6 DEF Dispatching, Sweeping
<1>10. KeysOK'  BY <1>2, <1>4, <1>6, <1>9, PayFacts, KeysGoOn
<1>11. CountsOK'
  <2>1. \A v \in Calls : \A c : Counting(v, c)' <=> Counting(v, c)
    BY <1>4, <1>6 DEF Counting
  <2>2. \A k, c : Counted(k, c)' <=> Counted(k, c)  BY <1>2 DEF Counted
  <2>3. \A c \in Commands : ~Unsettled(c) => ~Unsettled(c)'
    BY <1>1, <1>3 DEF Unsettled, DueCommands
  <2> QED  BY <2>1, <2>2, <2>3 DEF IInv, CountsOK
<1>12. SweepsOK'
  <2>1. \A k \in Keys : SweptBy(k)' => SweptBy(k)  BY <1>2 DEF SweptBy
  <2> QED  BY <1>2, <1>6, <1>9, <2>1, SweepsFrame
<1>13. LoopsOK'
  BY <1>2, <1>4, <1>6, <1>9, PayFacts, LoopsGoOn
<1> QED  BY <1>8, <1>10, <1>11, <1>12, <1>13 DEF IInv

LEMMA ExecuteStep == \A w \in Calls, c \in Commands : IInv /\ Execute(w, c) => IInv'
<1> SUFFICES ASSUME IInv, NEW w \in Calls, NEW c \in Commands, Execute(w, c) PROVE IInv'
  OBVIOUS
<1>1. PICK row \in {[state |-> s, lease |-> NULL, due |-> FALSE] :
                        s \in {"pending", "completed", "failed", "superseded"}} :
          LET counts == [call[w].answer EXCEPT
                  !.completed = IF row.state \in {"completed", "superseded"}
                                THEN @ \cup {c} ELSE @,
                  !.retried = IF row.state = "pending" THEN @ \cup {c} ELSE @,
                  !.failed = IF row.state = "failed" THEN @ \cup {c} ELSE @]
          IN /\ \/ Holds(w, c) /\ command' = [command EXCEPT ![c] = row]
                \/ /\ c \in Memberships
                   /\ command[c].state = "completed"
                   /\ row.state = "completed"
                   /\ UNCHANGED command
             /\ call' = [call EXCEPT ![w].todo = @ \ {c}, ![w].answer = counts]
  BY Zenon DEF Execute
<1> DEFINE p == IF row.state \in {"completed", "superseded"} THEN call[w].answer.completed \cup {c}
                ELSE call[w].answer.completed
           q == IF row.state = "pending" THEN call[w].answer.retried \cup {c}
                ELSE call[w].answer.retried
           f == IF row.state = "failed" THEN call[w].answer.failed \cup {c}
                ELSE call[w].answer.failed
           a == [call[w].answer EXCEPT !.completed = p, !.retried = q, !.failed = f]
<1>2. /\ UNCHANGED <<invitation, busy, reservation>> /\ Pay /\ call[w].at = "execute"
      /\ Typing
  BY DEF Execute, IInv
<1>3. row \in Command /\ row.state \in {"pending", "completed", "failed", "superseded"}
  <2>1. PICK s \in {"pending", "completed", "failed", "superseded"} :
            row = [state |-> s, lease |-> NULL, due |-> FALSE]
    OBVIOUS
  <2> HIDE DEF p, q, f, a
  <2> QED  BY <2>1 DEF Command
<1>4. call[w] \in CallRecord /\ call[w].answer \in Answer
  BY <1>2 DEF Typing, CallRecord
<1>5. /\ \/ Holds(w, c) /\ command' = [command EXCEPT ![c] = row]
         \/ c \in Memberships /\ UNCHANGED command
      /\ call' = [call EXCEPT ![w].todo = @ \ {c}, ![w].answer = a]
  BY <1>1, Zenon
<1>6. /\ a \in Answer /\ a.op = call[w].answer.op
      /\ a.completed \subseteq call[w].answer.completed \cup {c}
      /\ a.failed \subseteq call[w].answer.failed \cup {c}
      /\ row.state = "pending" => /\ a.completed = call[w].answer.completed
                                  /\ a.failed = call[w].answer.failed
  <2>1. p \in SUBSET Rows /\ q \in SUBSET Rows /\ f \in SUBSET Rows
    BY <1>4 DEF Answer, Rows
  <2>3. /\ p \subseteq call[w].answer.completed \cup {c}
        /\ f \subseteq call[w].answer.failed \cup {c}
        /\ row.state = "pending" => p = call[w].answer.completed /\ f = call[w].answer.failed
    OBVIOUS
  <2> HIDE DEF p, q, f
  <2>4. a \in Answer /\ a.op = call[w].answer.op /\ a.completed = p /\ a.failed = f
    BY <1>4, <2>1 DEF Answer
  <2> QED  BY <2>3, <2>4
<1> HIDE DEF a
<1> DEFINE n == [call[w] EXCEPT !.todo = call[w].todo \ {c}, !.answer = a]
<1>7. /\ n \in CallRecord /\ n.at = "execute" /\ n.key = call[w].key /\ n.answer = a
  <2>1. call[w].todo \ {c} \in SUBSET Rows  BY <1>4 DEF CallRecord
  <2> QED  BY <1>2, <1>4, <1>6, <2>1 DEF CallRecord
<1>8. call' = [call EXCEPT ![w] = n]
  BY <1>2, <1>4, <1>5 DEF Typing, CallRecord
<1> HIDE DEF n
<1>9. /\ call' \in [Calls -> CallRecord] /\ call'[w] = n
      /\ \A v \in Calls \ {w} : call'[v] = call[v]
  BY <1>2, <1>7, <1>8, CallSet
<1>10. /\ command' \in [Commands -> Command]
       /\ \A d \in Commands \ {c} : command'[d] = command[d]
  BY <1>2, <1>3, <1>5 DEF Typing
<1>11. Typing'  BY <1>2, <1>9, <1>10, PayFacts DEF Typing
<1>12. Dispatching(w) /\ Dispatching(w)' /\ call'[w].at = "execute" /\ ~Sweeping(w)'
  BY <1>2, <1>7, <1>9 DEF Dispatching, Sweeping
<1>13. KeysOK'  BY <1>2, <1>6, <1>7, <1>9, <1>12, PayFacts, KeysGoOn
<1>14. CountsOK'
  <2>1. \A k, d : Counted(k, d)' <=> Counted(k, d)  BY <1>2 DEF Counted
  <2>2. \A v \in Calls \ {w} : \A d : Counting(v, d)' <=> Counting(v, d)  BY <1>9 DEF Counting
  <2>3. \A d \in Commands \ {c} : /\ Unsettled(d)' <=> Unsettled(d)
                                  /\ Counting(w, d)' => Counting(w, d)
    BY <1>6, <1>7, <1>9, <1>10 DEF Unsettled, Counting
  <2>4. ASSUME c \notin Memberships
        PROVE  /\ Unsettled(c)
               /\ Counting(w, c)' => ~Unsettled(c)' \/ Counting(w, c)
    <3>1. Holds(w, c) /\ command'[c] = row
      BY <1>2, <1>5, <2>4 DEF Typing
    <3>2. Unsettled(c)  BY <3>1 DEF Holds, Unsettled
    <3>3. CASE row.state = "pending"
      BY <1>6, <1>7, <1>9, <3>2, <3>3 DEF Counting
    <3>4. CASE row.state # "pending"
      BY <1>3, <3>1, <3>2, <3>4 DEF Unsettled
    <3> QED  BY <3>2, <3>3, <3>4
  <2> QED  BY <2>1, <2>2, <2>3, <2>4 DEF IInv, CountsOK
<1>15. SweepsOK'
  <2>1. \A k \in Keys : SweptBy(k)' => SweptBy(k)  BY <1>2 DEF SweptBy
  <2> QED  BY <1>2, <1>9, <1>12, <2>1, SweepsFrame
<1>16. LoopsOK'
  BY <1>2, <1>6, <1>7, <1>9, <1>12, PayFacts, LoopsGoOn
<1> QED  BY <1>11, <1>13, <1>14, <1>15, <1>16 DEF IInv

LEMMA CountDueStep == \A w \in Calls : IInv /\ CountDueCommands(w) => IInv'
<1> SUFFICES ASSUME IInv, NEW w \in Calls, CountDueCommands(w) PROVE IInv'  OBVIOUS
<1> DEFINE more == HasMore(w, DueCommands)
<1>1. /\ UNCHANGED <<invitation, command, busy, reservation, loop>>
      /\ call[w].at = "execute" /\ Typing
      /\ call' = [call EXCEPT ![w].at = "record", ![w].answer.has_more = more]
  BY DEF CountDueCommands, IInv
<1>2. more \in BOOLEAN /\ (~more => DueCommands = {})
  BY DEF HasMore
<1> HIDE DEF more
<1>3. call[w] \in CallRecord /\ call[w].answer \in Answer
  BY <1>1 DEF Typing, CallRecord
<1> DEFINE a == [call[w].answer EXCEPT !.has_more = more]
           n == [call[w] EXCEPT !.at = "record", !.answer = a]
<1>4. /\ a \in Answer /\ a.op = call[w].answer.op /\ a.has_more = more
      /\ a.completed = call[w].answer.completed /\ a.failed = call[w].answer.failed
  BY <1>2, <1>3 DEF Answer
<1>5. call' = [call EXCEPT ![w] = n]
  BY <1>1, <1>3 DEF Typing, CallRecord
<1> HIDE DEF a
<1>6. n \in CallRecord /\ n.at = "record" /\ n.key = call[w].key /\ n.answer = a
  BY <1>3, <1>4 DEF CallRecord
<1> HIDE DEF n
<1>7. /\ call' \in [Calls -> CallRecord] /\ call'[w] = n
      /\ \A v \in Calls \ {w} : call'[v] = call[v]
  BY <1>1, <1>5, <1>6, CallSet
<1>8. Typing'  BY <1>1, <1>7 DEF Typing
<1>9. Dispatching(w) /\ Dispatching(w)' /\ ~Sweeping(w)'
  BY <1>1, <1>6, <1>7 DEF Dispatching, Sweeping
<1>10. KeysOK'  BY <1>1, <1>4, <1>6, <1>7, <1>9, KeysGoOn
<1>11. CountsOK'
  <2>1. \A v \in Calls : \A c : Counting(v, c)' <=> Counting(v, c)
    BY <1>4, <1>6, <1>7 DEF Counting
  <2>2. \A k, c : Counted(k, c)' <=> Counted(k, c)  BY <1>1 DEF Counted
  <2> QED  BY <1>1, <2>1, <2>2 DEF IInv, CountsOK, Unsettled
<1>12. SweepsOK'
  <2>1. \A k \in Keys : SweptBy(k)' => SweptBy(k)  BY <1>1 DEF SweptBy
  <2> QED  BY <1>1, <1>7, <1>9, <2>1, SweepsFrame
<1>13. LoopsOK'
  <2>1. \A v \in Calls : (loop[v].owed \subseteq DueRows(loop[v].op))'
    BY <1>1 DEF IInv, LoopsOK, DueRows, DueCommands, LateInvitations, Unsettled
  <2>2. ~more => \A v \in Calls : loop[v].op = "dispatch_due" => loop[v].owed = {}
    BY <1>2 DEF IInv, LoopsOK, DueRows
  <2>3. ~call'[w].answer.has_more =>
            \A v \in Calls : loop'[v].op = "dispatch_due" => loop'[v].owed = {}
    BY <1>1, <1>4, <1>6, <1>7, <2>2
  <2> QED  BY <1>1, <1>4, <1>6, <1>7, <1>9, <2>1, <2>3, LoopsGoOn
<1> QED  BY <1>8, <1>10, <1>11, <1>12, <1>13 DEF IInv

\* A call ends and its answer is stored under its key.
LEMMA StoredFacts ==
    ASSUME IInv, NEW w \in Calls, call[w].key \in Keys, UNCHANGED command,
           NEW b \in Reservation, b.status = "completed", b.answer = call[w].answer,
           b.batches <= 1,
           reservation' = [reservation EXCEPT ![call[w].key] = b],
           call' = [call EXCEPT ![w] = Idle],
           \A v \in Calls : loop'[v].op = loop[v].op
    PROVE  /\ reservation' \in [Keys -> Reservation] /\ reservation'[call[w].key] = b
           /\ \A k \in Keys \ {call[w].key} : reservation'[k] = reservation[k]
           /\ call' \in [Calls -> CallRecord] /\ call'[w] = Idle
           /\ \A v \in Calls \ {w} : call'[v] = call[v]
           /\ KeysOK' /\ CountsOK'
<1>1. PICK key \in Keys : key = call[w].key  OBVIOUS
<1>2. /\ reservation' \in [Keys -> Reservation] /\ reservation'[key] = b
      /\ \A k \in Keys \ {key} : reservation'[k] = reservation[k]
  BY <1>1, ReservationSet DEF IInv
<1>3. /\ call' \in [Calls -> CallRecord] /\ call'[w] = Idle
      /\ \A v \in Calls \ {w} : call'[v] = call[v]
  BY IdleFields, CallSet DEF IInv
<1>4. b.answer # NULL
  BY NoAnswerIsNull DEF IInv, Typing, CallRecord
<1>5. ~Dispatching(w)' /\ ~Sweeping(w)'
  BY <1>3, IdleFields DEF Dispatching, Sweeping
<1>6. \A v \in Calls \ {w} : /\ Dispatching(v)' <=> Dispatching(v)
                             /\ Sweeping(v)' <=> Sweeping(v)
  BY <1>3 DEF Dispatching, Sweeping
<1>7. \A v \in Calls \ {w} : call[v].key \in Keys => call[v].key # key
  BY <1>1 DEF IInv, KeysOK
<1>8. NULL \notin Keys  BY BatchesAssumption
<1>9. KeysOK'
  <2>1. \A k \in Keys : /\ reservation'[k].status = "vacant" => reservation'[k] = Vacant
                        /\ reservation'[k].batches <= 1
                        /\ reservation'[k].answer = NULL <=> reservation'[k].status # "completed"
    BY <1>2, <1>4 DEF IInv, KeysOK
  <2>2. \A v \in Calls \ {w} : call[v].key \in Keys =>
            reservation'[call[v].key] = reservation[call[v].key]
    BY <1>2, <1>7
  <2>3. ASSUME NEW v \in Calls
        PROVE  /\ call'[v].at = "idle" => call'[v] = Idle
               /\ call'[v].at = "idle" \/ Dispatching(v)' \/ Sweeping(v)'
               /\ Dispatching(v)' => /\ call'[v].key \in Keys
                                     /\ reservation'[call'[v].key].status = "started"
                                     /\ call'[v].answer.op = "dispatch_due"
                                     /\ loop'[v].op = "dispatch_due"
               /\ Sweeping(v)' => /\ call'[v].key \in Keys
                                  /\ reservation'[call'[v].key].status = "vacant"
                                  /\ call'[v].answer.op = "expire_due"
                                  /\ call'[v].answer.completed \cup call'[v].answer.failed = {}
                                  /\ loop'[v].op = "expire_due"
    <3>1. CASE v = w  BY <1>3, <1>5, <3>1, IdleFields
    <3>2. CASE v # w  BY <1>3, <1>6, <2>2, <3>2 DEF IInv, KeysOK
    <3> QED  BY <3>1, <3>2
  <2>4. \A v, u \in Calls : v # u /\ call'[v].key \in Keys => call'[v].key # call'[u].key
    BY <1>3, <1>8, IdleFields DEF IInv, KeysOK
  <2> QED  BY <2>1, <2>3, <2>4 DEF KeysOK
<1>10. CountsOK'
  <2>1. \A c : ~Counting(w, c)'  BY <1>3, IdleFields DEF Counting
  <2>2. \A v \in Calls \ {w} : \A c : Counting(v, c)' <=> Counting(v, c)  BY <1>3 DEF Counting
  <2>3. \A k \in Keys \ {key} : \A c : Counted(k, c)' <=> Counted(k, c)  BY <1>2 DEF Counted
  <2>4. \A c : Counted(key, c)' <=> Counting(w, c)  BY <1>1, <1>2 DEF Counted, Counting
  <2>5. \A c \in Commands : Unsettled(c)' <=> Unsettled(c)  BY DEF Unsettled
  <2> QED  BY <2>1, <2>2, <2>3, <2>4, <2>5 DEF IInv, CountsOK
<1> QED  BY <1>1, <1>2, <1>3, <1>9, <1>10

LEMMA CompleteDispatchStep == \A w \in Calls : IInv /\ CompleteDispatch(w) => IInv'
<1> SUFFICES ASSUME IInv, NEW w \in Calls, CompleteDispatch(w) PROVE IInv'  OBVIOUS
<1>1. PICK key : key = call[w].key  OBVIOUS
<1>2. PICK answer : answer = call[w].answer  OBVIOUS
<1> DEFINE b == [reservation[key] EXCEPT !.status = "completed", !.answer = answer]
<1>3. /\ UNCHANGED <<invitation, command, busy>>
      /\ call[w].at = "record" /\ Typing
      /\ reservation' = [reservation EXCEPT ![key].status = "completed", ![key].answer = answer]
      /\ call' = [call EXCEPT ![w] = Idle]
      /\ Answered(w, key, answer)
  BY <1>1, <1>2 DEF CompleteDispatch, IInv
<1>4. /\ key \in Keys /\ answer \in Answer /\ answer.op = "dispatch_due"
      /\ loop[w].op = "dispatch_due"
  <2>1. Dispatching(w)  BY <1>3 DEF Dispatching
  <2> QED  BY <1>1, <1>2, <2>1 DEF IInv, Typing, CallRecord, KeysOK
<1>5. b \in Reservation /\ b.status = "completed" /\ b.answer = answer /\ b.batches <= 1
  <2>1. reservation[key] \in Reservation /\ reservation[key].batches <= 1
    BY <1>3, <1>4 DEF IInv, KeysOK, Typing
  <2> QED  BY <1>4, <2>1 DEF Reservation
<1>6. reservation' = [reservation EXCEPT ![key] = b]
  BY <1>3, <1>4 DEF Typing, Reservation
<1> HIDE DEF b
<1>7. /\ loop' \in [Calls -> Loop]
      /\ \A v \in Calls : /\ loop'[v].op = loop[v].op /\ loop'[v].old = loop[v].old
                          /\ loop'[v].owed = loop[v].owed
      /\ \A v \in Calls \ {w} : loop'[v].drained = loop[v].drained
      /\ loop'[w].drained = (~answer.has_more /\ key \notin loop[w].old)
  BY <1>3, <1>4, AnsweredFacts
<1>8. /\ reservation' \in [Keys -> Reservation] /\ reservation'[key] = b
      /\ \A k \in Keys \ {key} : reservation'[k] = reservation[k]
      /\ call' \in [Calls -> CallRecord] /\ call'[w] = Idle
      /\ \A v \in Calls \ {w} : call'[v] = call[v]
      /\ KeysOK' /\ CountsOK'
  <2>1. /\ call[w].key \in Keys /\ UNCHANGED command
        /\ b \in Reservation /\ b.status = "completed" /\ b.answer = call[w].answer
        /\ b.batches <= 1
    BY <1>1, <1>2, <1>3, <1>4, <1>5
  <2>2. /\ reservation' = [reservation EXCEPT ![call[w].key] = b]
        /\ call' = [call EXCEPT ![w] = Idle]
    BY <1>1, <1>3, <1>6
  <2>3. \A v \in Calls : loop'[v].op = loop[v].op  BY <1>7
  <2> QED  BY <1>1, <2>1, <2>2, <2>3, StoredFacts
<1>9. Typing'  BY <1>3, <1>7, <1>8 DEF Typing
<1>10. ~Sweeping(w)' /\ call'[w].at = "idle"  BY <1>8, IdleFields DEF Sweeping
<1>11. SweepsOK'
  <2>1. \A k \in Keys : SweptBy(k)' => SweptBy(k) /\ reservation'[k] = reservation[k]
    BY <1>4, <1>5, <1>8 DEF SweptBy
  <2> QED  BY <1>3, <1>8, <1>10, <2>1, SweepsFrame
<1>12. LoopsOK'
  <2>1. \A v \in Calls : (loop[v].owed \subseteq DueRows(loop[v].op))'
    BY <1>3, <1>7 DEF IInv, LoopsOK, DueRows, DueCommands, LateInvitations, Unsettled
  <2>2. \A v \in Calls : key \notin loop[v].old /\ answer.op = loop[v].op /\ ~answer.has_more
            => loop[v].owed = {}
    BY <1>1, <1>2, <1>3, <1>4 DEF IInv, LoopsOK
  <2>3. \A v \in Calls : loop'[v].drained => loop'[v].owed = {}
    BY <1>4, <1>7, <2>2 DEF IInv, LoopsOK
  <2>4. \A v \in Calls : \A k \in Keys \ loop'[v].old :
            reservation'[k].status = "completed" /\ reservation'[k].answer.op = loop'[v].op
              /\ ~reservation'[k].answer.has_more => loop'[v].owed = {}
    BY <1>5, <1>7, <1>8, <2>2 DEF IInv, LoopsOK
  <2>5. \A u \in Calls \ {w} : Sweeping(u)' <=> Sweeping(u)  BY <1>8 DEF Sweeping
  <2> QED  BY <1>7, <1>8, <1>10, <2>1, <2>3, <2>4, <2>5 DEF IInv, LoopsOK
<1> QED  BY <1>8, <1>9, <1>11, <1>12 DEF IInv

--------------------------------------------------------------------------------
(* expire_due *)

LEMMA BeginSweepStep == \A w \in Calls, key \in Keys : IInv /\ BeginSweep(w, key) => IInv'
<1> SUFFICES ASSUME IInv, NEW w \in Calls, NEW key \in Keys, BeginSweep(w, key) PROVE IInv'
  OBVIOUS
<1>1. PICK S \in Batch(LateInvitations) :
          call' = [call EXCEPT ![w] = [at |-> "more", key |-> key, todo |-> LateInvitations,
                       answer |-> [NoAnswer("expire_due") EXCEPT !.items = S]]]
  BY DEF BeginSweep
<1> DEFINE a == [NoAnswer("expire_due") EXCEPT !.items = S]
           n == [at |-> "more", key |-> key, todo |-> LateInvitations, answer |-> a]
<1>2. /\ UNCHANGED <<invitation, command, busy, reservation, loop>>
      /\ reservation[key].status = "vacant" /\ ~Undecided(key)
      /\ call[w] = Idle /\ loop[w].op = "expire_due"
      /\ call' = [call EXCEPT ![w] = n]
  BY <1>1 DEF BeginSweep, New
<1>3. S \subseteq LateInvitations \ LockedRows /\ LateInvitations \subseteq Rows
  BY DEF Batch, LateInvitations, Rows
<1>4. /\ a \in Answer /\ a.op = "expire_due" /\ a.items = S /\ a.completed = {}
      /\ a.failed = {}
  <2>1. S \in SUBSET Rows  BY <1>3
  <2>2. \A r \in Answer : LET m == [r EXCEPT !.items = S] IN
            /\ m \in Answer /\ m.op = r.op /\ m.items = S /\ m.completed = r.completed
            /\ m.failed = r.failed
    BY <2>1 DEF Answer
  <2> QED  BY <2>2, IdleFields DEF Operations
<1> HIDE DEF a
<1>5. /\ n \in CallRecord /\ n.at = "more" /\ n.key = key /\ n.answer = a
      /\ n.todo = LateInvitations
  BY <1>3, <1>4 DEF CallRecord
<1> HIDE DEF n
<1>6. /\ call' \in [Calls -> CallRecord] /\ call'[w] = n
      /\ \A v \in Calls \ {w} : call'[v] = call[v]
  BY <1>2, <1>5, CallSet DEF IInv
<1>7. Typing'  BY <1>2, <1>6 DEF IInv, Typing
<1>8. ~Dispatching(w)' /\ Sweeping(w)' /\ call'[w].at = "more"
  BY <1>5, <1>6 DEF Dispatching, Sweeping
<1>9. \A v \in Calls \ {w} : /\ Dispatching(v)' <=> Dispatching(v)
                             /\ Sweeping(v)' <=> Sweeping(v)
  BY <1>6 DEF Dispatching, Sweeping
<1>10. \A v \in Calls \ {w} : call[v].key # key
  <2> SUFFICES ASSUME NEW v \in Calls \ {w}, call[v].key = key PROVE FALSE  OBVIOUS
  <2>1. NULL \notin Keys  BY BatchesAssumption
  <2>2. Dispatching(v) \/ Sweeping(v)  BY <2>1, IdleFields DEF IInv, KeysOK
  <2> QED  BY <1>2, <2>2 DEF IInv, KeysOK, Undecided
<1>11. KeysOK'
  <2>1. ASSUME NEW v \in Calls
        PROVE  /\ call'[v].at = "idle" => call'[v] = Idle
               /\ call'[v].at = "idle" \/ Dispatching(v)' \/ Sweeping(v)'
               /\ Dispatching(v)' => /\ call'[v].key \in Keys
                                     /\ reservation'[call'[v].key].status = "started"
                                     /\ call'[v].answer.op = "dispatch_due"
                                     /\ loop'[v].op = "dispatch_due"
               /\ Sweeping(v)' => /\ call'[v].key \in Keys
                                  /\ reservation'[call'[v].key].status = "vacant"
                                  /\ call'[v].answer.op = "expire_due"
                                  /\ call'[v].answer.completed \cup call'[v].answer.failed = {}
                                  /\ loop'[v].op = "expire_due"
    <3>1. CASE v = w  BY <1>2, <1>4, <1>5, <1>6, <1>8, <3>1
    <3>2. CASE v # w  BY <1>2, <1>6, <1>9, <3>2 DEF IInv, KeysOK
    <3> QED  BY <3>1, <3>2
  <2>2. \A v, u \in Calls : v # u /\ call'[v].key \in Keys => call'[v].key # call'[u].key
    BY <1>5, <1>6, <1>10 DEF IInv, KeysOK
  <2> QED  BY <1>2, <2>1, <2>2 DEF IInv, KeysOK
<1>12. CountsOK'
  <2>1. \A c : ~Counting(w, c)'  BY <1>4, <1>5, <1>6 DEF Counting
  <2>2. \A v \in Calls \ {w} : \A c : Counting(v, c)' <=> Counting(v, c)  BY <1>6 DEF Counting
  <2>3. \A k, c : Counted(k, c)' <=> Counted(k, c)  BY <1>2 DEF Counted
  <2> QED  BY <1>2, <2>1, <2>2, <2>3 DEF IInv, CountsOK, Unsettled
<1>13. SweepsOK'
  <2>1. \A v \in Calls : Sweeping(v) => call[v].answer.items \subseteq LockedRows
    BY DEF LockedRows
  <2>2. busy \subseteq LockedRows  BY DEF LockedRows
  <2>3. LateInvitations' = LateInvitations  BY <1>2 DEF LateInvitations
  <2>4. call'[w].answer.items = S  BY <1>4, <1>5, <1>6
  <2>5. \A v \in Calls : Sweeping(v)' =>
            /\ call'[v].answer.items \subseteq LateInvitations'
            /\ call'[v].answer.items \cap busy' = {}
    BY <1>2, <1>3, <1>6, <1>9, <2>2, <2>3, <2>4 DEF IInv, SweepsOK
  <2>6. \A v, u \in Calls : v # u /\ Sweeping(v)' /\ Sweeping(u)' =>
            call'[v].answer.items \cap call'[u].answer.items = {}
    <3>1. \A v \in Calls \ {w} : Sweeping(v)' =>
              call'[v].answer.items \cap S = {}
      BY <1>3, <1>6, <1>9, <2>1
    <3> QED  BY <1>6, <1>9, <2>4, <3>1 DEF IInv, SweepsOK
  <2> QED  BY <1>2, <2>5, <2>6 DEF IInv, SweepsOK, SweptBy
<1>14. LoopsOK'
  <2>1. \A v \in Calls : (loop[v].owed \subseteq DueRows(loop[v].op))'
    BY <1>2 DEF IInv, LoopsOK, DueRows, DueCommands, LateInvitations, Unsettled
  <2>2. \A v \in Calls : loop[v].op = "expire_due" => loop[v].owed \subseteq LateInvitations
    BY DEF IInv, LoopsOK, DueRows
  <2> QED
    BY <1>2, <1>4, <1>5, <1>6, <1>8, <1>9, <2>1, <2>2 DEF IInv, LoopsOK
<1> QED  BY <1>7, <1>11, <1>12, <1>13, <1>14 DEF IInv

LEMMA CountLateStep == \A w \in Calls : IInv /\ CountLateInvitations(w) => IInv'
<1> SUFFICES ASSUME IInv, NEW w \in Calls, CountLateInvitations(w) PROVE IInv'  OBVIOUS
<1> DEFINE left == (LateInvitations \cap call[w].todo) \ call[w].answer.items
           more == HasMore(w, left)
<1>1. /\ UNCHANGED <<invitation, command, busy, reservation, loop>>
      /\ call[w].at = "more" /\ Typing
      /\ call' = [call EXCEPT ![w].at = "commit", ![w].answer.has_more = more]
  BY DEF CountLateInvitations, IInv
<1>2. /\ more \in BOOLEAN
      /\ ~more => LateInvitations \cap call[w].todo \subseteq call[w].answer.items
  BY DEF HasMore
<1> HIDE DEF more
<1>3. call[w] \in CallRecord /\ call[w].answer \in Answer
  BY <1>1 DEF Typing, CallRecord
<1> DEFINE a == [call[w].answer EXCEPT !.has_more = more]
           n == [call[w] EXCEPT !.at = "commit", !.answer = a]
<1>4. /\ a \in Answer /\ a.op = call[w].answer.op /\ a.has_more = more
      /\ a.completed = call[w].answer.completed /\ a.failed = call[w].answer.failed
      /\ a.items = call[w].answer.items
  BY <1>2, <1>3 DEF Answer
<1>5. call' = [call EXCEPT ![w] = n]
  BY <1>1, <1>3 DEF Typing, CallRecord
<1> HIDE DEF a
<1>6. /\ n \in CallRecord /\ n.at = "commit" /\ n.key = call[w].key /\ n.answer = a
      /\ n.todo = call[w].todo
  BY <1>3, <1>4 DEF CallRecord
<1> HIDE DEF n
<1>7. /\ call' \in [Calls -> CallRecord] /\ call'[w] = n
      /\ \A v \in Calls \ {w} : call'[v] = call[v]
  BY <1>1, <1>5, <1>6, CallSet
<1>8. Typing'  BY <1>1, <1>7 DEF Typing
<1>9. Sweeping(w) /\ Sweeping(w)'
  BY <1>1, <1>6, <1>7 DEF Sweeping
<1>10. KeysOK'  BY <1>1, <1>4, <1>6, <1>7, <1>9, KeysGoOn
<1>11. CountsOK'
  <2>1. \A v \in Calls : \A c : Counting(v, c)' <=> Counting(v, c)
    BY <1>4, <1>6, <1>7 DEF Counting
  <2>2. \A k, c : Counted(k, c)' <=> Counted(k, c)  BY <1>1 DEF Counted
  <2> QED  BY <1>1, <2>1, <2>2 DEF IInv, CountsOK, Unsettled
<1>12. SweepsOK'
  <2>1. \A k \in Keys : SweptBy(k)' => SweptBy(k)  BY <1>1 DEF SweptBy
  <2> QED  BY <1>1, <1>4, <1>6, <1>7, <1>9, <2>1, SweepsFrame
<1>13. LoopsOK'
  <2>1. \A v \in Calls : (loop[v].owed \subseteq DueRows(loop[v].op))'
    BY <1>1 DEF IInv, LoopsOK, DueRows, DueCommands, LateInvitations, Unsettled
  <2>2. call[w].answer.op = "expire_due"
    BY <1>9 DEF IInv, KeysOK
  <2>3. ASSUME NEW v \in Calls, NEW k \in Keys \ loop[v].old, call[w].key = k,
               loop[v].op = "expire_due"
        PROVE  /\ loop[v].owed \subseteq call[w].todo
               /\ ~more => loop[v].owed \subseteq call[w].answer.items
    <3>1. loop[v].owed \subseteq LateInvitations  BY <2>3 DEF IInv, LoopsOK, DueRows
    <3>2. loop[v].owed \subseteq call[w].todo  BY <1>9, <2>2, <2>3 DEF IInv, LoopsOK
    <3> QED  BY <1>2, <3>1, <3>2
  <2>4. ASSUME NEW v \in Calls, NEW k \in Keys \ loop'[v].old, NEW u \in Calls,
               call'[u].key = k, call'[u].answer.op = loop'[v].op
        PROVE  /\ call'[u].at = "record" /\ ~call'[u].answer.has_more => loop'[v].owed = {}
               /\ Sweeping(u)' => loop'[v].owed \subseteq call'[u].todo
               /\ call'[u].at = "commit" /\ ~call'[u].answer.has_more =>
                     loop'[v].owed \subseteq call'[u].answer.items
    <3>1. CASE u = w  BY <1>1, <1>4, <1>6, <1>7, <2>2, <2>3, <2>4, <3>1
    <3>2. CASE u # w
      <4>1. call'[u] = call[u] /\ (Sweeping(u)' <=> Sweeping(u)) /\ loop'[v] = loop[v]
        BY <1>1, <1>7, <3>2 DEF Sweeping
      <4>2. /\ call[u].at = "record" /\ ~call[u].answer.has_more => loop[v].owed = {}
            /\ Sweeping(u) => loop[v].owed \subseteq call[u].todo
            /\ call[u].at = "commit" /\ ~call[u].answer.has_more =>
                  loop[v].owed \subseteq call[u].answer.items
        BY <2>4, <4>1 DEF IInv, LoopsOK
      <4> QED  BY <4>1, <4>2
    <3> QED  BY <3>1, <3>2
  <2>5. ASSUME NEW v \in Calls
        PROVE  /\ loop'[v].drained => loop'[v].owed = {}
               /\ \A k \in Keys \ loop'[v].old :
                     /\ reservation'[k].status = "completed"
                     /\ reservation'[k].answer.op = loop'[v].op
                     /\ ~reservation'[k].answer.has_more
                     => loop'[v].owed = {}
    BY <1>1 DEF IInv, LoopsOK
  <2> QED  BY <2>1, <2>4, <2>5 DEF LoopsOK
<1> QED  BY <1>8, <1>10, <1>11, <1>12, <1>13 DEF IInv

LEMMA CommitSweepStep == \A w \in Calls : IInv /\ CommitSweep(w) => IInv'
<1> SUFFICES ASSUME IInv, NEW w \in Calls, CommitSweep(w) PROVE IInv'  OBVIOUS
<1>1. PICK key : key = call[w].key  OBVIOUS
<1>2. PICK answer : answer = call[w].answer  OBVIOUS
<1> DEFINE b == [Begun(key, "completed") EXCEPT !.answer = answer]
           d(v) == ~answer.has_more /\ key \notin loop[v].old
<1>3. /\ UNCHANGED <<command, busy>>
      /\ call[w].at = "commit" /\ Typing
      /\ invitation' = Expired(w)
      /\ reservation' = [reservation EXCEPT ![key] = b]
      /\ call' = [call EXCEPT ![w] = Idle]
      /\ loop' = [v \in Calls |-> [loop[v] EXCEPT
             !.owed = @ \ answer.items, !.drained = IF v = w THEN d(v) ELSE @]]
  BY <1>1, <1>2 DEF CommitSweep, IInv
<1>4. Sweeping(w)  BY <1>3 DEF Sweeping
<1>5. /\ key \in Keys /\ answer \in Answer /\ answer.op = "expire_due"
      /\ loop[w].op = "expire_due" /\ reservation[key].status = "vacant"
      /\ answer.items \subseteq LateInvitations
  BY <1>1, <1>2, <1>3, <1>4 DEF IInv, Typing, CallRecord, KeysOK, SweepsOK
<1>6. b \in Reservation /\ b.status = "completed" /\ b.answer = answer /\ b.batches <= 1
  <2>1. /\ Begun(key, "completed") \in Reservation
        /\ Begun(key, "completed").status = "completed" /\ Begun(key, "completed").batches = 1
    BY <1>5, BegunFacts
  <2> QED  BY <1>5, <2>1 DEF Reservation
<1> HIDE DEF b
<1>7. /\ loop' \in [Calls -> Loop]
      /\ \A v \in Calls : /\ loop'[v].op = loop[v].op /\ loop'[v].old = loop[v].old
                          /\ loop'[v].owed = loop[v].owed \ answer.items
      /\ \A v \in Calls \ {w} : loop'[v].drained = loop[v].drained
      /\ loop'[w].drained = d(w)
  <2>1. ASSUME NEW v \in Calls
        PROVE  /\ loop'[v] \in Loop
               /\ loop'[v].op = loop[v].op /\ loop'[v].old = loop[v].old
               /\ loop'[v].owed = loop[v].owed \ answer.items
               /\ loop'[v].drained = IF v = w THEN d(v) ELSE loop[v].drained
    <3> DEFINE e == IF v = w THEN d(v) ELSE loop[v].drained
               o == loop[v].owed \ answer.items
    <3>1. loop[v] \in Loop  BY <1>3 DEF Typing
    <3>2. e \in BOOLEAN /\ o \in SUBSET Rows  BY <1>5, <3>1 DEF Loop, Answer
    <3>3. loop'[v] = [loop[v] EXCEPT !.owed = o, !.drained = e]
      BY <1>3, <3>1 DEF Loop
    <3> HIDE DEF e, o
    <3>4. /\ loop'[v] \in Loop /\ loop'[v].op = loop[v].op /\ loop'[v].old = loop[v].old
          /\ loop'[v].owed = o /\ loop'[v].drained = e
      BY <3>1, <3>2, <3>3 DEF Loop
    <3> QED  BY <3>4 DEF e, o
  <2> HIDE DEF d
  <2>2. loop' \in [Calls -> Loop]  BY <1>3, <2>1
  <2> QED  BY <2>1, <2>2
<1>8. /\ reservation' \in [Keys -> Reservation] /\ reservation'[key] = b
      /\ \A k \in Keys \ {key} : reservation'[k] = reservation[k]
      /\ call' \in [Calls -> CallRecord] /\ call'[w] = Idle
      /\ \A v \in Calls \ {w} : call'[v] = call[v]
      /\ KeysOK' /\ CountsOK'
  <2>1. /\ call[w].key \in Keys /\ UNCHANGED command
        /\ b \in Reservation /\ b.status = "completed" /\ b.answer = call[w].answer
        /\ b.batches <= 1
    BY <1>1, <1>2, <1>3, <1>5, <1>6
  <2>2. /\ reservation' = [reservation EXCEPT ![call[w].key] = b]
        /\ call' = [call EXCEPT ![w] = Idle]
    BY <1>1, <1>3
  <2>3. \A v \in Calls : loop'[v].op = loop[v].op  BY <1>7
  <2> QED  BY <1>1, <2>1, <2>2, <2>3, StoredFacts
<1>9. /\ invitation' \in [Invitations -> {"open", "late", "ended"}]
      /\ \A i \in Invitations : invitation'[i] = IF i \in answer.items THEN "ended"
                                                 ELSE invitation[i]
  BY <1>2, <1>3 DEF Typing, Expired
<1>10. Typing'  BY <1>3, <1>7, <1>8, <1>9 DEF Typing
<1>11. ~Sweeping(w)' /\ call'[w].at = "idle"  BY <1>8, IdleFields DEF Sweeping
<1>12. \A v \in Calls \ {w} : Sweeping(v)' <=> Sweeping(v)  BY <1>8 DEF Sweeping
<1>13. LateInvitations' = LateInvitations \ answer.items
  BY <1>9 DEF LateInvitations
<1>14. SweepsOK'
  <2>1. \A v \in Calls : Sweeping(v)' =>
            /\ call'[v].answer.items \subseteq LateInvitations'
            /\ call'[v].answer.items \cap busy' = {}
    <3>1. \A v \in Calls \ {w} : Sweeping(v) => call[v].answer.items \cap answer.items = {}
      BY <1>2, <1>4 DEF IInv, SweepsOK
    <3> QED  BY <1>3, <1>8, <1>11, <1>12, <1>13, <3>1 DEF IInv, SweepsOK
  <2>2. \A v, u \in Calls : v # u /\ Sweeping(v)' /\ Sweeping(u)' =>
            call'[v].answer.items \cap call'[u].answer.items = {}
    BY <1>8, <1>11, <1>12 DEF IInv, SweepsOK
  <2>3. \A k \in Keys \ {key} : /\ SweptBy(k)' <=> SweptBy(k)
                                /\ reservation'[k] = reservation[k]
    BY <1>8 DEF SweptBy
  <2>4. \A k \in Keys \ {key} : SweptBy(k) =>
            \A i \in Invitations : i \in reservation[k].answer.items =>
                invitation[i] = "ended" /\ i \notin answer.items
    BY <1>5 DEF IInv, SweepsOK, LateInvitations
  <2>5. ASSUME NEW k \in Keys, NEW i \in Invitations, SweptBy(k)',
               i \in reservation'[k].answer.items
        PROVE  /\ invitation'[i] = "ended"
               /\ \A j \in Keys : j # k /\ SweptBy(j)' => i \notin reservation'[j].answer.items
    <3>1. CASE k = key
      BY <1>6, <1>8, <1>9, <2>3, <2>4, <2>5, <3>1
    <3>2. CASE k # key
      BY <1>6, <1>8, <1>9, <2>3, <2>4, <2>5, <3>2 DEF IInv, SweepsOK
    <3> QED  BY <3>1, <3>2
  <2> QED  BY <2>1, <2>2, <2>5 DEF SweepsOK
<1>15. LoopsOK'
  <2>1. ASSUME NEW v \in Calls PROVE (loop[v].owed \subseteq DueRows(loop[v].op))'
    <3>1. loop[v].owed \subseteq DueRows(loop[v].op)  BY DEF IInv, LoopsOK
    <3>2. DueCommands' = DueCommands  BY <1>3 DEF DueCommands, Unsettled
    <3>3. \A i \in answer.items : i \notin DueCommands
      BY <1>5, BatchesAssumption DEF DueCommands, LateInvitations
    <3> QED  BY <1>7, <1>13, <3>1, <3>2, <3>3 DEF DueRows
  <2>2. \A v \in Calls : key \notin loop[v].old /\ answer.op = loop[v].op /\ ~answer.has_more
            => loop[v].owed \subseteq answer.items
    BY <1>1, <1>2, <1>3, <1>5 DEF IInv, LoopsOK
  <2>3. \A v \in Calls : loop'[v].drained => loop'[v].owed = {}
    <3>1. loop'[w].drained => loop'[w].owed = {}  BY <1>5, <1>7, <2>2
    <3>2. \A v \in Calls \ {w} : loop'[v].drained => loop'[v].owed = {}
      BY <1>7 DEF IInv, LoopsOK
    <3> QED  BY <3>1, <3>2
  <2>4. \A v \in Calls : \A k \in Keys \ loop'[v].old :
            reservation'[k].status = "completed" /\ reservation'[k].answer.op = loop'[v].op
              /\ ~reservation'[k].answer.has_more => loop'[v].owed = {}
    <3> SUFFICES ASSUME NEW v \in Calls, NEW k \in Keys \ loop'[v].old,
                        reservation'[k].status = "completed",
                        reservation'[k].answer.op = loop'[v].op,
                        ~reservation'[k].answer.has_more
                 PROVE  loop'[v].owed = {}
      OBVIOUS
    <3>1. CASE k = key  BY <1>6, <1>7, <1>8, <2>2, <3>1
    <3>2. CASE k # key
      <4>1. loop[v].owed = {}  BY <1>7, <1>8, <3>2 DEF IInv, LoopsOK
      <4> QED  BY <1>7, <4>1
    <3> QED  BY <3>1, <3>2
  <2>5. ASSUME NEW v \in Calls, NEW k \in Keys \ loop'[v].old, NEW u \in Calls,
               call'[u].key = k, call'[u].answer.op = loop'[v].op
        PROVE  /\ call'[u].at = "record" /\ ~call'[u].answer.has_more => loop'[v].owed = {}
               /\ Sweeping(u)' => loop'[v].owed \subseteq call'[u].todo
               /\ call'[u].at = "commit" /\ ~call'[u].answer.has_more =>
                     loop'[v].owed \subseteq call'[u].answer.items
    <3>1. CASE u = w  BY <1>11, <3>1
    <3>2. CASE u # w
      <4>1. call'[u] = call[u] /\ (Sweeping(u)' <=> Sweeping(u))  BY <1>8, <1>12, <3>2
      <4>2. /\ call[u].at = "record" /\ ~call[u].answer.has_more => loop[v].owed = {}
            /\ Sweeping(u) => loop[v].owed \subseteq call[u].todo
            /\ call[u].at = "commit" /\ ~call[u].answer.has_more =>
                  loop[v].owed \subseteq call[u].answer.items
        BY <1>7, <2>5, <4>1 DEF IInv, LoopsOK
      <4> QED  BY <1>7, <4>1, <4>2
    <3> QED  BY <3>1, <3>2
  <2> QED  BY <2>1, <2>3, <2>4, <2>5 DEF LoopsOK
<1> QED  BY <1>8, <1>10, <1>14, <1>15 DEF IInv
--------------------------------------------------------------------------------
(* The inductive invariant holds *)

LEMMA InitIInv == Init => IInv
<1> SUFFICES ASSUME Init PROVE IInv  OBVIOUS
<1>1. /\ invitation = [i \in Invitations |-> "open"]
      /\ command = [c \in Commands |-> [state |-> "pending", lease |-> NULL, due |-> TRUE]]
      /\ busy = {}
      /\ reservation = [k \in Keys |-> Vacant]
      /\ call = [w \in Calls |-> Idle]
      /\ loop \in [Calls -> {[op |-> op, owed |-> {}, old |-> {}, drained |-> FALSE] :
                                op \in Operations}]
  BY DEF Init
<1>2. \A w \in Calls : loop[w] \in Loop /\ loop[w].owed = {} /\ loop[w].drained = FALSE
  <2> SUFFICES ASSUME NEW w \in Calls
               PROVE  loop[w] \in Loop /\ loop[w].owed = {} /\ loop[w].drained = FALSE
    OBVIOUS
  <2>1. PICK op \in Operations :
            loop[w] = [op |-> op, owed |-> {}, old |-> {}, drained |-> FALSE]
    BY <1>1
  <2> QED  BY <2>1 DEF Loop
<1>3. Typing
  <2>1. [state |-> "pending", lease |-> NULL, due |-> TRUE] \in Command  BY DEF Command
  <2>2. loop \in [Calls -> Loop]  BY <1>1, <1>2
  <2> QED  BY <1>1, <2>1, <2>2, IdleFields, VacantFields DEF Typing
<1>4. \A w \in Calls : call[w] = Idle /\ ~Dispatching(w) /\ ~Sweeping(w)
  BY <1>1, IdleFields DEF Dispatching, Sweeping
<1>5. NULL \notin Keys  BY BatchesAssumption
<1>6. KeysOK  BY <1>1, <1>4, <1>5, IdleFields, VacantFields DEF KeysOK
<1>7. CountsOK  BY <1>1, <1>4, IdleFields, VacantFields DEF CountsOK, Counted, Counting
<1>8. SweepsOK  BY <1>1, <1>4, VacantFields DEF SweepsOK, SweptBy
<1>9. LoopsOK  BY <1>1, <1>2, <1>4, <1>5, IdleFields, VacantFields DEF LoopsOK
<1> QED  BY <1>3, <1>6, <1>7, <1>8, <1>9 DEF IInv

LEMMA NextIInv == IInv /\ [Next]_vars => IInv'
<1> SUFFICES ASSUME IInv, [Next]_vars PROVE IInv'  OBVIOUS
<1>1. CASE UNCHANGED vars
  BY <1>1 DEF vars, IInv, Typing, KeysOK, CountsOK, SweepsOK, LoopsOK, Dispatching, Sweeping,
              Counted, Counting, SweptBy, Unsettled, DueRows, DueCommands, LateInvitations
<1>2. ASSUME NEW w \in Calls, CallStep(w) PROVE IInv'
  BY <1>2, StartLoopStep, ReplayStep, BeginDispatchStep, BeginSweepStep, ClaimStep,
     ExecuteStep, CountDueStep, CompleteDispatchStep, CountLateStep, CommitSweepStep,
     EndsEarlyStep
     DEF CallStep
<1>3. ASSUME NEW r \in Rows, LockRow(r) \/ ReleaseRow(r) \/ ResendRow(r) \/ ComesDue(r)
      PROVE IInv'
  BY <1>3, LockRowStep, ReleaseRowStep, ResendRowStep, ComesDueStep
<1> QED  BY <1>1, <1>2, <1>3 DEF Next

LEMMA Invariance == Spec => []IInv
<1> QED  BY InitIInv, NextIInv, PTL DEF Spec

--------------------------------------------------------------------------------
(* What callers may rely on *)

\* A reservation has an answer exactly when it is completed, every call works under
\* a key and on rows of the two tables, and every loop is owed such rows.
THEOREM TypeCorrect == Spec => []TypeOK
<1>1. IInv => TypeOK
  <2> SUFFICES ASSUME IInv PROVE TypeOK  OBVIOUS
  <2>1. Typing /\ KeysOK  BY DEF IInv
  <2>2. \A k \in Keys : /\ reservation[k].status \in {"vacant", "started", "completed"}
                        /\ reservation[k].batches \in 0..2
    BY <2>1 DEF Typing, Reservation
  <2>3. \A k \in Keys : (reservation[k].answer = NULL) = (reservation[k].status # "completed")
    BY <2>1 DEF KeysOK
  <2>4. \A w \in Calls : call[w].key \in Keys \cup {NULL} /\ call[w].todo \subseteq Rows
    BY <2>1 DEF Typing, CallRecord
  <2>5. \A w \in Calls : loop[w].owed \subseteq Rows /\ loop[w].old \subseteq Keys
    BY <2>1 DEF Typing, Loop
  <2> QED  BY <2>1, <2>2, <2>3, <2>4, <2>5 DEF TypeOK, Typing
<1> QED  BY <1>1, Invariance, PTL

\* A key begins one batch: neither a call repeated while the first is in progress,
\* nor one made after an answer, nor one made after the first ended early, claims or
\* sweeps a second time.
THEOREM OneBatch == Spec => []KeyBeginsOneBatch
<1>1. IInv => KeyBeginsOneBatch  BY DEF IInv, KeysOK, KeyBeginsOneBatch
<1> QED  BY <1>1, Invariance, PTL

\* A caller that goes on under new keys until has_more is false leaves no row behind
\* that was due when it began: not even one that others had locked meanwhile.
THEOREM DrainedTaken == Spec => []DrainedMeansTaken
<1>1. IInv => DrainedMeansTaken  BY DEF IInv, LoopsOK, DrainedMeansTaken
<1> QED  BY <1>1, Invariance, PTL

\* A notification command is counted as completed or failed in one answer, and an
\* invitation is listed as expired in one answer, which ended it.
THEOREM CountedOnce == Spec => []RowsAreCountedOnce
<1>1. IInv => RowsAreCountedOnce
  <2> SUFFICES ASSUME IInv PROVE RowsAreCountedOnce  OBVIOUS
  <2> DEFINE Completed == {k \in Keys : reservation[k].status = "completed"}
             In(c) == {k \in Completed : c \in reservation[k].answer.completed
                                                   \cup reservation[k].answer.failed}
  <2>1. ASSUME NEW c \in Commands \ Memberships PROVE Cardinality(In(c)) <= 1
    <3>1. \A k, j \in In(c) : k = j  BY DEF IInv, CountsOK, Counted
    <3> HIDE DEF In
    <3>2. CASE In(c) = {}  BY <3>2, FS_EmptySet
    <3>3. CASE In(c) # {}
      <4>1. PICK k : In(c) = {k}  BY <3>1, <3>3
      <4> QED  BY <4>1, FS_Singleton
    <3> QED  BY <3>2, <3>3
  <2>2. \A k \in Keys, i \in Invitations :
            SweptBy(k) /\ i \in reservation[k].answer.items =>
                /\ invitation[i] = "ended"
                /\ \A j \in Keys : j # k /\ SweptBy(j) => i \notin reservation[j].answer.items
    BY DEF IInv, SweepsOK
  <2> QED  BY <2>1, <2>2 DEF RowsAreCountedOnce, SweptBy
<1> QED  BY <1>1, Invariance, PTL
================================================================================
