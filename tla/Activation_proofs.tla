--------------------------- MODULE Activation_proofs ---------------------------
(***************************************************************************)
(* That a link opens the invitation, for any number of processes, secrets  *)
(* and resends, within the two exceptions LinksGivenOutAreGood names.  A   *)
(* call keeps the pair it took a snapshot of, a plugin serves with one     *)
(* pair until it is activated anew, and the row's generation only grows:   *)
(* what a call has read of it is the row or older than it.                 *)
(***************************************************************************)
EXTENDS Activation, TLAPS

(* The inductive invariant *)

\* Both secrets of a pair in use were judged together.
PairsAreSound ==
    \A p \in Processes :
        /\ prepared[p] # NULL => Sound(prepared[p])
        /\ call[p].snapshot # NULL => Sound(call[p].snapshot)

\* Unless it is activated anew, a plugin that serves at all serves with the pair of the
\* call's snapshot.
CallsKeepTheirPair ==
    \A p \in Processes : call[p].at # "idle" =>
        /\ call[p].at # "begun" => call[p].snapshot # NULL
        /\ call[p].snapshot # NULL /\ prepared[p] # NULL /\ call[p].life = "current"
              => call[p].snapshot = prepared[p]

\* The hash is of no generation to come, and of a pair that is sound.
HashIsSound ==
    row # NULL =>
        /\ row.hash.token.generation <= row.generation
        /\ Sound([pepper |-> row.hash.pepper, derivation |-> row.hash.token.key])

\* Where a call is, by what it is for.
CallsAreInOrder ==
    \A p \in Processes :
        LET c == call[p] IN
        /\ c.at # "idle" => c.op \in {"invite", "resend", "deliver"}
        /\ c.at # "idle" /\ c.op # "invite" => row # NULL
        /\ c.at = "read" => c.op # "invite"
        /\ c.at \in {"store", "writing"} => c.op \in {"invite", "resend"}
        /\ c.at = "writing" => phase[p] \in {"active", "closing"}
        /\ c.at = "mail" => c.op = "deliver"

\* What a call has read of the row, or has written, is the row or has passed.
ReadsAreOfTheRow ==
    \A p \in Processes :
        LET c == call[p] IN
        /\ c.at \in {"store", "writing"} =>
              /\ c.generation >= 1
              /\ c.op = "invite" => c.generation = 1
              /\ c.op = "resend" => c.generation <= row.generation + 1
        /\ c.at = "respond" =>
              /\ row # NULL /\ c.generation >= 1 /\ c.generation <= row.generation
              /\ c.generation = row.generation => row.hash.token.key = c.snapshot.derivation
        /\ c.at = "mail" =>
              /\ row # NULL /\ c.generation >= 1 /\ c.generation <= row.generation
              /\ c.generation = row.generation => c.hash = row.hash

\* LinksGivenOutAreGood, and no link is of a generation to come.
GivenIsGood ==
    given # NULL =>
        /\ row # NULL
        /\ given.token.generation <= row.generation
        /\ LinksGivenOutAreGood

IInv ==
    /\ TypeOK
    /\ PairsAreSound
    /\ CallsKeepTheirPair
    /\ HashIsSound
    /\ CallsAreInOrder
    /\ ReadsAreOfTheRow
    /\ GivenIsGood
--------------------------------------------------------------------------------
(* The initial states *)

LEMMA BoundIsPositive == MaxGeneration \in Nat /\ MaxGeneration >= 1
BY SecretsAssumption

LEMMA InitIsGood == Init => IInv
<1> SUFFICES ASSUME Init PROVE IInv
  OBVIOUS
<1>1. TypeOK
  BY BoundIsPositive DEF Init, TypeOK, Calls, Lives, Idle
<1>2. QED
  BY <1>1 DEF Init, IInv, PairsAreSound, CallsKeepTheirPair, HashIsSound, CallsAreInOrder,
              ReadsAreOfTheRow, GivenIsGood, Idle
--------------------------------------------------------------------------------
(* The processes: the row and the link stay as they are *)

LEMMA ActivateIsGood == \A p \in Processes : IInv /\ Activate(p) => IInv'
<1> SUFFICES ASSUME NEW p \in Processes, IInv, Activate(p)
             PROVE  IInv'
  OBVIOUS
<1>1. TypeOK'
  BY DEF IInv, TypeOK, Activate
<1>2. PairsAreSound' /\ CallsKeepTheirPair'
  BY DEF IInv, TypeOK, PairsAreSound, CallsKeepTheirPair, Activate
<1>3. HashIsSound' /\ GivenIsGood'
  BY DEF IInv, HashIsSound, GivenIsGood, LinksGivenOutAreGood, Activate
<1>4. CallsAreInOrder' /\ ReadsAreOfTheRow'
  BY DEF IInv, TypeOK, CallsAreInOrder, ReadsAreOfTheRow, Activate
<1>5. QED
  BY <1>1, <1>2, <1>3, <1>4 DEF IInv

LEMMA PrepareIsGood == \A p \in Processes, pair \in [pepper : Secrets, derivation : Secrets] :
        IInv /\ Prepare(p, pair) => IInv'
<1> SUFFICES ASSUME NEW p \in Processes, NEW pair \in [pepper : Secrets, derivation : Secrets],
                    IInv, Prepare(p, pair)
             PROVE  IInv'
  OBVIOUS
<1>1. TypeOK'
  <2>1. pair \in Pairs /\ pair # NULL
    BY SecretsAssumption DEF Prepare, Sound, Pairs
  <2>2. /\ phase' \in [Processes -> {"off", "activating", "active", "closing"}]
        /\ prepared' \in [Processes -> Pairs \cup {NULL}]
        /\ \A q \in Processes : prepared'[q] # NULL <=> phase'[q] = "active"
    BY <2>1 DEF IInv, TypeOK, Prepare
  <2>3. call' \in [Processes -> Calls]
    <3> DEFINE life == IF call[p].snapshot = NULL THEN "current" ELSE "ended"
    <3>1. call' = [call EXCEPT ![p].life = life] /\ life \in Lives
      BY DEF Prepare, Lives
    <3> HIDE DEF life
    <3>2. QED
      BY <3>1 DEF IInv, TypeOK, Calls
  <2>4. QED
    BY <2>2, <2>3 DEF IInv, TypeOK, Prepare
<1>2. PairsAreSound' /\ CallsKeepTheirPair'
  BY DEF IInv, TypeOK, PairsAreSound, CallsKeepTheirPair, Prepare, Calls
<1>3. HashIsSound' /\ GivenIsGood'
  BY DEF IInv, HashIsSound, GivenIsGood, LinksGivenOutAreGood, Prepare
<1>4. CallsAreInOrder' /\ ReadsAreOfTheRow'
  BY DEF IInv, TypeOK, CallsAreInOrder, ReadsAreOfTheRow, Prepare, Calls
<1>5. QED
  BY <1>1, <1>2, <1>3, <1>4 DEF IInv

LEMMA ActivationFailsIsGood == \A p \in Processes : IInv /\ ActivationFails(p) => IInv'
<1> SUFFICES ASSUME NEW p \in Processes, IInv, ActivationFails(p)
             PROVE  IInv'
  OBVIOUS
<1>1. TypeOK'
  BY DEF IInv, TypeOK, ActivationFails
<1>2. PairsAreSound' /\ CallsKeepTheirPair'
  BY DEF IInv, TypeOK, PairsAreSound, CallsKeepTheirPair, ActivationFails
<1>3. HashIsSound' /\ GivenIsGood'
  BY DEF IInv, HashIsSound, GivenIsGood, LinksGivenOutAreGood, ActivationFails
<1>4. CallsAreInOrder' /\ ReadsAreOfTheRow'
  BY DEF IInv, TypeOK, CallsAreInOrder, ReadsAreOfTheRow, ActivationFails
<1>5. QED
  BY <1>1, <1>2, <1>3, <1>4 DEF IInv

LEMMA DeactivateIsGood == \A p \in Processes : IInv /\ Deactivate(p) => IInv'
<1> SUFFICES ASSUME NEW p \in Processes, IInv, Deactivate(p)
             PROVE  IInv'
  OBVIOUS
<1>1. TypeOK'
  BY DEF IInv, TypeOK, Deactivate
<1>2. PairsAreSound' /\ CallsKeepTheirPair'
  BY DEF IInv, TypeOK, PairsAreSound, CallsKeepTheirPair, Deactivate
<1>3. HashIsSound' /\ GivenIsGood'
  BY DEF IInv, HashIsSound, GivenIsGood, LinksGivenOutAreGood, Deactivate
<1>4. CallsAreInOrder' /\ ReadsAreOfTheRow'
  BY DEF IInv, TypeOK, CallsAreInOrder, ReadsAreOfTheRow, Deactivate
<1>5. QED
  BY <1>1, <1>2, <1>3, <1>4 DEF IInv

LEMMA PoolClosedIsGood == \A p \in Processes : IInv /\ PoolClosed(p) => IInv'
<1> SUFFICES ASSUME NEW p \in Processes, IInv, PoolClosed(p)
             PROVE  IInv'
  OBVIOUS
<1>1. TypeOK'
  BY DEF IInv, TypeOK, PoolClosed
<1>2. PairsAreSound' /\ CallsKeepTheirPair'
  BY DEF IInv, TypeOK, PairsAreSound, CallsKeepTheirPair, PoolClosed
<1>3. HashIsSound' /\ GivenIsGood'
  BY DEF IInv, HashIsSound, GivenIsGood, LinksGivenOutAreGood, PoolClosed
<1>4. CallsAreInOrder' /\ ReadsAreOfTheRow'
  BY DEF IInv, TypeOK, CallsAreInOrder, ReadsAreOfTheRow, PoolClosed
<1>5. QED
  BY <1>1, <1>2, <1>3, <1>4 DEF IInv

LEMMA RestartIsGood == \A p \in Processes : IInv /\ Restart(p) => IInv'
<1> SUFFICES ASSUME NEW p \in Processes, IInv, Restart(p)
             PROVE  IInv'
  OBVIOUS
<1>1. TypeOK'
  BY BoundIsPositive DEF IInv, TypeOK, Restart, Calls, Lives, Idle
<1>2. PairsAreSound' /\ CallsKeepTheirPair'
  BY DEF IInv, TypeOK, PairsAreSound, CallsKeepTheirPair, Restart, Idle
<1>3. HashIsSound' /\ GivenIsGood'
  BY DEF IInv, HashIsSound, GivenIsGood, LinksGivenOutAreGood, Restart
<1>4. CallsAreInOrder' /\ ReadsAreOfTheRow'
  BY DEF IInv, TypeOK, CallsAreInOrder, ReadsAreOfTheRow, Restart, Idle
<1>5. QED
  BY <1>1, <1>2, <1>3, <1>4 DEF IInv
--------------------------------------------------------------------------------
(* The calls *)

\* A call that moves stays typed if the place it moves to is.
LEMMA MovesAreTyped ==
    ASSUME TypeOK, NEW p \in Processes, NEW c \in Calls, Move(p, c),
           row' \in Rows \cup {NULL}, given' \in Links \cup {NULL}
    PROVE  /\ TypeOK'
           /\ \A q \in Processes : call'[q] = IF q = p THEN c ELSE call[q]
BY DEF TypeOK, Move, node

\* Before anything is written, the row and the link stay as they are, too.
LEMMA ReadingKeeps ==
    ASSUME IInv, NEW p \in Processes, NEW c \in Calls, Move(p, c), UNCHANGED <<row, given>>
    PROVE  /\ TypeOK' /\ HashIsSound' /\ GivenIsGood'
           /\ UNCHANGED <<phase, prepared>>
           /\ \A q \in Processes : call'[q] = IF q = p THEN c ELSE call[q]
<1>1. TypeOK' /\ \A q \in Processes : call'[q] = IF q = p THEN c ELSE call[q]
  BY MovesAreTyped DEF IInv, TypeOK
<1>2. HashIsSound' /\ GivenIsGood'
  BY DEF IInv, HashIsSound, GivenIsGood, LinksGivenOutAreGood
<1>3. UNCHANGED <<phase, prepared>>
  BY DEF Move, node
<1>4. QED
  BY <1>1, <1>2, <1>3

LEMMA BeginIsGood == \A p \in Processes, op \in {"invite", "resend", "deliver"} :
        IInv /\ Begin(p, op) => IInv'
<1> SUFFICES ASSUME NEW p \in Processes, NEW op \in {"invite", "resend", "deliver"},
                    IInv, Begin(p, op) PROVE IInv'
  OBVIOUS
<1> DEFINE c == [Idle EXCEPT !.op = op, !.at = "begun"]
<1>1. c \in Calls
  <2>1. 0 \in 0..(MaxGeneration + 1)
    BY BoundIsPositive
  <2>2. QED
    BY <2>1 DEF Calls, Lives, Idle
<1>2. /\ TypeOK' /\ HashIsSound' /\ GivenIsGood'
      /\ UNCHANGED <<phase, prepared, row>>
      /\ \A q \in Processes : call'[q] = IF q = p THEN c ELSE call[q]
  BY <1>1, ReadingKeeps DEF Begin
<1>3. c.op = op /\ c.at = "begun" /\ c.snapshot = NULL
  BY DEF Idle
<1> HIDE DEF c
<1>4. PairsAreSound' /\ CallsKeepTheirPair'
  BY <1>2, <1>3 DEF IInv, PairsAreSound, CallsKeepTheirPair, Begin
<1>5. CallsAreInOrder'
  BY <1>2, <1>3 DEF IInv, TypeOK, CallsAreInOrder, Begin, PoolOpen
<1>6. ReadsAreOfTheRow'
  BY <1>2, <1>3 DEF IInv, TypeOK, Rows, Generations, CallsAreInOrder, ReadsAreOfTheRow, Begin
<1>7. QED
  BY <1>2, <1>4, <1>5, <1>6 DEF IInv

LEMMA FailsIsGood == \A p \in Processes : IInv /\ Fails(p) => IInv'
<1> SUFFICES ASSUME NEW p \in Processes, IInv, Fails(p) PROVE IInv'
  OBVIOUS
<1> DEFINE c == Idle
<1>1. c \in Calls
  BY BoundIsPositive DEF Calls, Lives, Idle
<1>2. /\ TypeOK' /\ HashIsSound' /\ GivenIsGood'
      /\ UNCHANGED <<phase, prepared, row>>
      /\ \A q \in Processes : call'[q] = IF q = p THEN c ELSE call[q]
  BY <1>1, ReadingKeeps DEF Fails
<1>3. c.at = "idle" /\ c.snapshot = NULL
  BY DEF Idle
<1> HIDE DEF c
<1>4. PairsAreSound' /\ CallsKeepTheirPair'
  BY <1>2, <1>3 DEF IInv, PairsAreSound, CallsKeepTheirPair, Fails
<1>5. CallsAreInOrder'
  BY <1>2, <1>3 DEF IInv, TypeOK, CallsAreInOrder, Fails, PoolOpen
<1>6. ReadsAreOfTheRow'
  BY <1>2, <1>3 DEF IInv, TypeOK, Rows, Generations, CallsAreInOrder, ReadsAreOfTheRow, Fails
<1>7. QED
  BY <1>2, <1>4, <1>5, <1>6 DEF IInv

LEMMA TakeSnapshotIsGood == \A p \in Processes : IInv /\ TakeSnapshot(p) => IInv'
<1> SUFFICES ASSUME NEW p \in Processes, IInv, TakeSnapshot(p) PROVE IInv'
  OBVIOUS
<1> DEFINE c == [call[p] EXCEPT !.at = IF call[p].op = "invite" THEN "store" ELSE "read",
                              !.snapshot = prepared[p],
                              !.generation = IF call[p].op = "invite" THEN 1 ELSE 0]
<1>1. c \in Calls
  <2>1. 0 \in 0..(MaxGeneration + 1) /\ 1 \in 0..(MaxGeneration + 1)
    BY BoundIsPositive
  <2>2. call[p] \in Calls /\ prepared[p] \in Pairs
    BY DEF IInv, TypeOK, TakeSnapshot
  <2>3. CASE call[p].op = "invite"
    BY <2>1, <2>2, <2>3 DEF Calls
  <2>4. CASE call[p].op # "invite"
    BY <2>1, <2>2, <2>4 DEF Calls
  <2>5. QED
    BY <2>3, <2>4
<1>2. /\ TypeOK' /\ HashIsSound' /\ GivenIsGood'
      /\ UNCHANGED <<phase, prepared, row>>
      /\ \A q \in Processes : call'[q] = IF q = p THEN c ELSE call[q]
  BY <1>1, ReadingKeeps DEF TakeSnapshot
<1>3. /\ c.op = call[p].op /\ c.at = IF call[p].op = "invite" THEN "store" ELSE "read"
      /\ c.snapshot = prepared[p]
      /\ c.generation = IF call[p].op = "invite" THEN 1 ELSE 0
  BY DEF IInv, TypeOK, Calls
<1> HIDE DEF c
<1>4. PairsAreSound' /\ CallsKeepTheirPair'
  BY <1>2, <1>3 DEF IInv, PairsAreSound, CallsKeepTheirPair, TakeSnapshot
<1>5. CallsAreInOrder'
  BY <1>2, <1>3 DEF IInv, TypeOK, CallsAreInOrder, TakeSnapshot, PoolOpen
<1>6. ReadsAreOfTheRow'
  BY <1>2, <1>3 DEF IInv, TypeOK, Rows, Generations, CallsAreInOrder, ReadsAreOfTheRow, TakeSnapshot
<1>7. QED
  BY <1>2, <1>4, <1>5, <1>6 DEF IInv

LEMMA ReadForResendIsGood == \A p \in Processes : IInv /\ ReadForResend(p) => IInv'
<1> SUFFICES ASSUME NEW p \in Processes, IInv, ReadForResend(p) PROVE IInv'
  OBVIOUS
<1> DEFINE c == [call[p] EXCEPT !.at = "store", !.generation = row.generation + 1]
<1>1. c \in Calls
  <2>1. row.generation + 1 \in 0..(MaxGeneration + 1)
    BY BoundIsPositive DEF IInv, TypeOK, CallsAreInOrder, ReadForResend, Rows, Generations
  <2>2. QED
    BY <2>1 DEF IInv, TypeOK, Calls
<1>2. /\ TypeOK' /\ HashIsSound' /\ GivenIsGood'
      /\ UNCHANGED <<phase, prepared, row>>
      /\ \A q \in Processes : call'[q] = IF q = p THEN c ELSE call[q]
  BY <1>1, ReadingKeeps DEF ReadForResend
<1>3. /\ c.snapshot = call[p].snapshot /\ c.life = call[p].life /\ c.op = call[p].op
      /\ c.at = "store" /\ c.generation = row.generation + 1
  BY DEF IInv, TypeOK, Calls
<1> HIDE DEF c
<1>4. PairsAreSound' /\ CallsKeepTheirPair'
  BY <1>2, <1>3 DEF IInv, PairsAreSound, CallsKeepTheirPair, ReadForResend
<1>5. CallsAreInOrder'
  BY <1>2, <1>3 DEF IInv, TypeOK, CallsAreInOrder, ReadForResend, PoolOpen
<1>6. ReadsAreOfTheRow'
  BY <1>2, <1>3 DEF IInv, TypeOK, Rows, Generations, CallsAreInOrder, ReadsAreOfTheRow, ReadForResend
<1>7. QED
  BY <1>2, <1>4, <1>5, <1>6 DEF IInv

LEMMA ReadForMailIsGood == \A p \in Processes : IInv /\ ReadForMail(p) => IInv'
<1> SUFFICES ASSUME NEW p \in Processes, IInv, ReadForMail(p) PROVE IInv'
  OBVIOUS
<1> DEFINE c == [call[p] EXCEPT !.at = "mail", !.generation = row.generation, !.hash = row.hash]
<1>1. c \in Calls
  <2>1. row.generation \in 0..(MaxGeneration + 1) /\ row.hash \in Hashes
    BY BoundIsPositive DEF IInv, TypeOK, CallsAreInOrder, ReadForMail, Rows, Generations
  <2>2. QED
    BY <2>1 DEF IInv, TypeOK, Calls
<1>2. /\ TypeOK' /\ HashIsSound' /\ GivenIsGood'
      /\ UNCHANGED <<phase, prepared, row>>
      /\ \A q \in Processes : call'[q] = IF q = p THEN c ELSE call[q]
  BY <1>1, ReadingKeeps DEF ReadForMail
<1>3. /\ c.snapshot = call[p].snapshot /\ c.life = call[p].life /\ c.op = call[p].op
      /\ c.at = "mail" /\ c.generation = row.generation /\ c.hash = row.hash
  BY DEF IInv, TypeOK, Calls
<1> HIDE DEF c
<1>4. PairsAreSound' /\ CallsKeepTheirPair'
  BY <1>2, <1>3 DEF IInv, PairsAreSound, CallsKeepTheirPair, ReadForMail
<1>5. CallsAreInOrder'
  BY <1>2, <1>3 DEF IInv, TypeOK, CallsAreInOrder, ReadForMail, PoolOpen
<1>6. ReadsAreOfTheRow'
  BY <1>2, <1>3 DEF IInv, TypeOK, Rows, Generations, CallsAreInOrder, ReadsAreOfTheRow, ReadForMail
<1>7. QED
  BY <1>2, <1>4, <1>5, <1>6 DEF IInv

LEMMA BeginTransactionIsGood == \A p \in Processes : IInv /\ BeginTransaction(p) => IInv'
<1> SUFFICES ASSUME NEW p \in Processes, IInv, BeginTransaction(p) PROVE IInv'
  OBVIOUS
<1> DEFINE c == [call[p] EXCEPT !.at = "writing"]
<1>1. c \in Calls
  BY DEF IInv, TypeOK, Calls
<1>2. /\ TypeOK' /\ HashIsSound' /\ GivenIsGood'
      /\ UNCHANGED <<phase, prepared, row>>
      /\ \A q \in Processes : call'[q] = IF q = p THEN c ELSE call[q]
  BY <1>1, ReadingKeeps DEF BeginTransaction
<1>3. /\ c.snapshot = call[p].snapshot /\ c.life = call[p].life /\ c.op = call[p].op
      /\ c.at = "writing" /\ c.generation = call[p].generation
  BY DEF IInv, TypeOK, Calls
<1> HIDE DEF c
<1>4. PairsAreSound' /\ CallsKeepTheirPair'
  BY <1>2, <1>3 DEF IInv, PairsAreSound, CallsKeepTheirPair, BeginTransaction
<1>5. CallsAreInOrder'
  BY <1>2, <1>3 DEF IInv, TypeOK, CallsAreInOrder, BeginTransaction, PoolOpen
<1>6. ReadsAreOfTheRow'
  BY <1>2, <1>3 DEF IInv, TypeOK, Rows, Generations, CallsAreInOrder, ReadsAreOfTheRow, BeginTransaction
<1>7. QED
  BY <1>2, <1>4, <1>5, <1>6 DEF IInv

\* A transaction that stores a newer generation, hashed from the call's own pair for
\* that generation or an older one, leaves every other call and every link behind.
LEMMA StoringKeeps ==
    ASSUME IInv, NEW p \in Processes, call[p].at = "writing",
           Move(p, [call[p] EXCEPT !.at = "respond", !.generation = row'.generation]),
           UNCHANGED given,
           row' \in Rows, row' # NULL,
           row # NULL => row'.generation = row.generation + 1,
           row'.hash = Hashed(call[p]),
           call[p].generation <= row'.generation
    PROVE  IInv'
<1> DEFINE c == [call[p] EXCEPT !.at = "respond", !.generation = row'.generation]
<1>1. /\ call[p] \in Calls /\ call[p].snapshot \in Pairs /\ Sound(call[p].snapshot)
      /\ row'.generation \in 1..MaxGeneration
  BY DEF IInv, TypeOK, CallsKeepTheirPair, PairsAreSound, Calls, Rows, Generations
<1>2. c \in Calls
  <2>1. row'.generation \in 0..(MaxGeneration + 1)
    BY <1>1, BoundIsPositive
  <2>2. QED
    BY <1>1, <2>1 DEF Calls
<1>3. /\ TypeOK'
      /\ \A q \in Processes : call'[q] = IF q = p THEN c ELSE call[q]
  BY <1>2, MovesAreTyped DEF IInv, TypeOK
<1>4. /\ c.op = call[p].op /\ c.at = "respond" /\ c.generation = row'.generation
      /\ c.snapshot = call[p].snapshot /\ c.life = call[p].life
  BY <1>1 DEF Calls
<1>5. UNCHANGED <<phase, prepared>>
  BY DEF Move, node
<1>6. /\ row'.hash.token.key = call[p].snapshot.derivation
      /\ row'.hash.token.generation = call[p].generation
      /\ row'.hash.pepper = call[p].snapshot.pepper
  BY DEF Hashed, HashToken, DeriveToken
<1> HIDE DEF c
<1>7. PairsAreSound' /\ CallsKeepTheirPair'
  BY <1>3, <1>4, <1>5 DEF IInv, PairsAreSound, CallsKeepTheirPair
<1>8. HashIsSound'
  BY <1>1, <1>6 DEF HashIsSound, Sound
<1>9. CallsAreInOrder'
  BY <1>3, <1>4, <1>5 DEF IInv, CallsAreInOrder
<1>10. ReadsAreOfTheRow'
  <2> SUFFICES ASSUME NEW q \in Processes
               PROVE  LET d == call'[q] IN
                      /\ d.at \in {"store", "writing"} =>
                            /\ d.generation >= 1
                            /\ d.op = "invite" => d.generation = 1
                            /\ d.op = "resend" => d.generation <= row'.generation + 1
                      /\ d.at = "respond" =>
                            /\ row' # NULL /\ d.generation >= 1 /\ d.generation <= row'.generation
                            /\ d.generation = row'.generation => row'.hash.token.key = d.snapshot.derivation
                      /\ d.at = "mail" =>
                            /\ row' # NULL /\ d.generation >= 1 /\ d.generation <= row'.generation
                            /\ d.generation = row'.generation => d.hash = row'.hash
    BY DEF ReadsAreOfTheRow
  <2>1. CASE q = p
    BY <2>1, <1>1, <1>3, <1>4, <1>6
  <2>2. CASE q # p
    <3>1. call'[q] = call[q] /\ call[q].generation \in 0..(MaxGeneration + 1)
      BY <2>2, <1>3 DEF IInv, TypeOK, Calls
    <3>2. row # NULL => row.generation \in 1..MaxGeneration
      BY DEF IInv, TypeOK, Rows, Generations
    <3>3. call[q].at # "idle" /\ call[q].op # "invite" => row # NULL
      BY DEF IInv, CallsAreInOrder
    <3>4. QED
      BY <3>1, <3>2, <3>3, <1>1, BoundIsPositive DEF IInv, ReadsAreOfTheRow
  <2>3. QED
    BY <2>1, <2>2
<1>11. GivenIsGood'
  <2>1. given # NULL => given.token.generation \in 1..MaxGeneration
    BY DEF IInv, TypeOK, Links, Tokens, Generations
  <2>2. row # NULL => row.generation \in 1..MaxGeneration
    BY DEF IInv, TypeOK, Rows, Generations
  <2>3. QED
    BY <2>1, <2>2, <1>1, BoundIsPositive DEF IInv, GivenIsGood, LinksGivenOutAreGood
<1>12. QED
  BY <1>3, <1>7, <1>8, <1>9, <1>10, <1>11 DEF IInv

LEMMA StoreInviteIsGood == \A p \in Processes : IInv /\ StoreInvite(p) => IInv'
<1> SUFFICES ASSUME NEW p \in Processes, IInv, StoreInvite(p) PROVE IInv'
  OBVIOUS
<1>1. call[p] \in Calls /\ call[p].snapshot \in Pairs /\ Sound(call[p].snapshot)
  BY DEF IInv, TypeOK, CallsKeepTheirPair, PairsAreSound, StoreInvite, Calls
<1>2. call[p].at = "writing" /\ call[p].op = "invite" /\ call[p].generation = 1 /\ row = NULL
  BY DEF IInv, ReadsAreOfTheRow, StoreInvite
<1>3. /\ row' = [generation |-> 1, hash |-> Hashed(call[p])]
      /\ Move(p, [call[p] EXCEPT !.at = "respond", !.generation = row'.generation])
      /\ UNCHANGED given
  BY DEF StoreInvite
<1>4. row' \in Rows /\ row' # NULL
  BY <1>1, <1>2, <1>3, SecretsAssumption
     DEF Hashed, HashToken, DeriveToken, Rows, Hashes, Tokens, Pairs, Generations
<1>5. /\ row'.generation = 1 /\ row'.hash = Hashed(call[p])
      /\ call[p].generation <= row'.generation
  BY <1>2, <1>3
<1>6. QED
  BY <1>2, <1>3, <1>4, <1>5, StoringKeeps

LEMMA StoreResendIsGood ==
    \A p \in Processes, expected \in Generations : IInv /\ StoreResend(p, expected) => IInv'
<1> SUFFICES ASSUME NEW p \in Processes, NEW expected \in Generations,
                    IInv, StoreResend(p, expected)
             PROVE  IInv'
  OBVIOUS
<1>1. call[p] \in Calls /\ call[p].snapshot \in Pairs /\ Sound(call[p].snapshot)
  BY DEF IInv, TypeOK, CallsKeepTheirPair, PairsAreSound, StoreResend, Calls
<1>2. call[p].at = "writing" /\ call[p].op = "resend" /\ row # NULL
  BY DEF IInv, CallsAreInOrder, StoreResend
<1>3. row \in Rows /\ row.generation \in 1..(MaxGeneration - 1)
  BY <1>2, BoundIsPositive DEF IInv, TypeOK, Rows, Generations, StoreResend
<1>4. call[p].generation \in 1..(row.generation + 1)
  BY <1>1, <1>2, <1>3 DEF IInv, ReadsAreOfTheRow, Calls
<1>5. /\ row' = [generation |-> row.generation + 1, hash |-> Hashed(call[p])]
      /\ Move(p, [call[p] EXCEPT !.at = "respond", !.generation = row'.generation])
      /\ UNCHANGED given
  BY DEF StoreResend
<1>6. row.generation + 1 \in Generations /\ call[p].generation \in Generations
  BY <1>3, <1>4, BoundIsPositive DEF Generations
<1>7. row' \in Rows /\ row' # NULL
  BY <1>1, <1>5, <1>6, SecretsAssumption
     DEF Hashed, HashToken, DeriveToken, Rows, Hashes, Tokens, Pairs
<1>8. /\ row'.generation = row.generation + 1 /\ row'.hash = Hashed(call[p])
      /\ call[p].generation <= row'.generation
  BY <1>4, <1>5
<1>9. QED
  BY <1>2, <1>5, <1>7, <1>8, StoringKeeps

\* A link is given out: it is typed, and the call is over.
LEMMA GivingKeeps ==
    ASSUME IInv, NEW p \in Processes, NEW link \in Links, Give(link), Move(p, Idle),
           UNCHANGED row, row # NULL, link.token.generation <= row.generation,
           /\ link.token.generation = row.generation
           /\ link.by = "mail" \/ (row.hash.token.generation = row.generation /\ link.life = "current")
           => link.token = row.hash.token
    PROVE  IInv'
<1>1. Idle \in Calls
  BY BoundIsPositive DEF Calls, Lives, Idle
<1>2. /\ TypeOK'
      /\ \A q \in Processes : call'[q] = IF q = p THEN Idle ELSE call[q]
  BY <1>1, MovesAreTyped DEF IInv, TypeOK, Give
<1>3. UNCHANGED <<phase, prepared>>
  BY DEF Move, node
<1>4. PairsAreSound' /\ CallsKeepTheirPair' /\ HashIsSound'
  BY <1>2, <1>3 DEF IInv, PairsAreSound, CallsKeepTheirPair, HashIsSound, Idle
<1>5. CallsAreInOrder' /\ ReadsAreOfTheRow'
  BY <1>2, <1>3 DEF IInv, CallsAreInOrder, ReadsAreOfTheRow, Idle
<1>6. GivenIsGood'
  BY DEF IInv, GivenIsGood, LinksGivenOutAreGood, Give
<1>7. QED
  BY <1>2, <1>4, <1>5, <1>6 DEF IInv

LEMMA RespondIsGood == \A p \in Processes : IInv /\ Respond(p) => IInv'
<1> SUFFICES ASSUME NEW p \in Processes, IInv, Respond(p) PROVE IInv'
  OBVIOUS
<1> DEFINE link == [by |-> "response", life |-> call[p].life,
                    token |-> DeriveToken(prepared[p], call[p].generation)]
<1>1. /\ call[p] \in Calls /\ prepared[p] \in Pairs /\ row \in Rows
      /\ row # NULL /\ call[p].generation \in 1..row.generation
  BY DEF IInv, TypeOK, Respond, ReadsAreOfTheRow, Calls, Rows, Generations
<1>2. call[p].generation \in Generations
  BY <1>1, BoundIsPositive DEF Rows, Generations
<1>3. link \in Links
  BY <1>1, <1>2 DEF Links, Tokens, DeriveToken, Pairs, Calls, Lives
<1>4. link.token.generation = row.generation /\ row.hash.token.generation = row.generation
      /\ link.life = "current" => link.token = row.hash.token
  <2> SUFFICES ASSUME link.token.generation = row.generation, link.life = "current",
                      row.hash.token.generation = row.generation
               PROVE  link.token = row.hash.token
    OBVIOUS
  <2>1. call[p].generation = row.generation /\ call[p].life = "current"
    BY DEF DeriveToken
  <2>2. prepared[p] = call[p].snapshot
    BY <1>1, <2>1 DEF IInv, CallsKeepTheirPair, Respond
  <2>3. row.hash.token.key = call[p].snapshot.derivation
    BY <2>1 DEF IInv, ReadsAreOfTheRow, Respond
  <2>4. row.hash.token \in Tokens
    BY <1>1 DEF Rows, Hashes
  <2>5. QED
    BY <2>1, <2>2, <2>3, <2>4 DEF DeriveToken, Tokens
<1>5. /\ link.by = "response" /\ link.token.generation <= row.generation
      /\ Give(link) /\ Move(p, Idle) /\ UNCHANGED row
  BY <1>1 DEF Respond, DeriveToken, Rows, Generations
<1> HIDE DEF link
<1>6. QED
  BY <1>1, <1>3, <1>4, <1>5, GivingKeeps

LEMMA MailIsGood == \A p \in Processes : IInv /\ Mail(p) => IInv'
<1> SUFFICES ASSUME NEW p \in Processes, IInv, Mail(p) PROVE IInv'
  OBVIOUS
<1> DEFINE token == DeriveToken(call[p].snapshot, call[p].generation)
           link == [by |-> "mail", life |-> call[p].life, token |-> token]
<1>1. /\ call[p] \in Calls /\ call[p].snapshot \in Pairs /\ row \in Rows
      /\ row # NULL /\ call[p].generation \in 1..row.generation
  BY DEF IInv, TypeOK, Mail, CallsKeepTheirPair, ReadsAreOfTheRow, Calls, Rows, Generations
<1>2. call[p].generation \in Generations
  BY <1>1, BoundIsPositive DEF Rows, Generations
<1>3. link \in Links /\ link.token.generation = call[p].generation
  BY <1>1, <1>2 DEF Links, Tokens, DeriveToken, Pairs, Calls
<1>4. link.token.generation = row.generation => link.token = row.hash.token
  BY <1>3 DEF IInv, ReadsAreOfTheRow, Mail, VerifyToken, HashToken
<1>5. /\ link.token.generation <= row.generation
      /\ Give(link) /\ Move(p, Idle) /\ UNCHANGED row
  BY <1>1, <1>3 DEF Mail
<1> HIDE DEF link
<1>6. QED
  BY <1>1, <1>3, <1>4, <1>5, GivingKeeps
--------------------------------------------------------------------------------
(* The theorems *)

LEMMA StepsAreGood == IInv /\ [Next]_vars => IInv'
<1> SUFFICES ASSUME IInv, [Next]_vars PROVE IInv'
  OBVIOUS
<1>1. ASSUME NEW p \in Processes, NodeStep(p) PROVE IInv'
  BY <1>1, ActivateIsGood, PrepareIsGood, ActivationFailsIsGood, DeactivateIsGood,
     PoolClosedIsGood, RestartIsGood
     DEF NodeStep
<1>2. ASSUME NEW p \in Processes, CallStep(p) PROVE IInv'
  BY <1>2, BeginIsGood, FailsIsGood, TakeSnapshotIsGood, ReadForResendIsGood,
     ReadForMailIsGood, BeginTransactionIsGood, StoreInviteIsGood, StoreResendIsGood,
     RespondIsGood, MailIsGood
     DEF CallStep
<1>3. CASE UNCHANGED vars
  BY <1>3 DEF vars, IInv, TypeOK, PairsAreSound, CallsKeepTheirPair, HashIsSound,
              CallsAreInOrder, ReadsAreOfTheRow, GivenIsGood, LinksGivenOutAreGood
<1>4. QED
  BY <1>1, <1>2, <1>3 DEF Next

\* The invariant holds of every behaviour.
THEOREM Invariance == Spec => []IInv
BY InitIsGood, StepsAreGood, PTL DEF Spec

\* Type correctness, and that exactly an active process has a pair to serve with.
THEOREM TypeCorrect == Spec => []TypeOK
<1>1. IInv => TypeOK
  BY DEF IInv
<1>2. QED
  BY <1>1, Invariance, PTL

\* Links: the token of a mailed link of the row's generation is the one the row's hash was
\* made from, and so is that of a returned one but for a plugin activated anew in between
\* and a hash that a pipelined resend made for an older generation; for any number of
\* processes, rotations, restarts and resends.
THEOREM GivenLinksVerify == Spec => []LinksGivenOutAreGood
<1>1. IInv => LinksGivenOutAreGood
  BY DEF IInv, GivenIsGood, LinksGivenOutAreGood
<1>2. QED
  BY <1>1, Invariance, PTL

\* Secrets: no hash is of a pair that is short or that a rotation has torn into two equal
\* halves.
THEOREM HashesHaveSoundPairs == Spec => []HashesAreOfSoundPairs
<1>1. IInv => HashesAreOfSoundPairs
  BY DEF IInv, HashIsSound, HashesAreOfSoundPairs, Sound
<1>2. QED
  BY <1>1, Invariance, PTL

\* Shutdown: after deactivate, until another activation has succeeded, a process commits
\* nothing and shows no token of its own.
THEOREM StoppedStaysSilent == Spec => StoppedMeansSilent
<1>1. IInv /\ [Next]_vars =>
        [\A p \in Processes :
            phase[p] \notin {"active", "closing"} /\ call'[p] # call[p] =>
                /\ UNCHANGED row
                /\ given' # given => call[p].op = "deliver"]_vars
  <2> SUFFICES ASSUME IInv, [Next]_vars, NEW p \in Processes,
                      phase[p] \notin {"active", "closing"}, call'[p] # call[p]
               PROVE  UNCHANGED row /\ (given' # given => call[p].op = "deliver")
    OBVIOUS
  <2>1. prepared[p] = NULL /\ call[p].at # "writing" /\ (call[p].at = "mail" => call[p].op = "deliver")
    BY DEF IInv, TypeOK, CallsAreInOrder
  <2>2. ASSUME NEW q \in Processes, NodeStep(q)
        PROVE  UNCHANGED <<row, given>>
    BY <2>2 DEF NodeStep, Activate, Prepare, ActivationFails, Deactivate, PoolClosed, Restart
  <2>3. ASSUME NEW q \in Processes, CallStep(q)
        PROVE  UNCHANGED row /\ (given' # given => call[p].op = "deliver")
    <3>1. q = p
      BY <2>3 DEF CallStep, Begin, Fails, TakeSnapshot, ReadForResend, ReadForMail,
                  BeginTransaction, StoreInvite, StoreResend, Respond, Mail, Move, IInv, TypeOK
    <3>2. QED
      BY <3>1, <2>1, <2>3 DEF CallStep, Begin, Fails, TakeSnapshot, ReadForResend,
                              ReadForMail, BeginTransaction, StoreInvite, StoreResend,
                              Respond, Mail
  <2>4. ~UNCHANGED vars
    BY DEF vars
  <2>5. QED
    BY <2>2, <2>3, <2>4 DEF Next
<1>2. QED
  BY <1>1, Invariance, PTL DEF Spec, StoppedMeansSilent
================================================================================
