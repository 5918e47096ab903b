----------------------------- MODULE RowLocks_proofs -----------------------------
(***************************************************************************)
(* Proofs about RowLocks for any number of transactions, keys, invitations *)
(* and addresses: the locks a transaction holds are the ones its next      *)
(* statement says, no two hold the same row, and what a transaction has    *)
(* read is what is committed until it ends.  Everything else follows.      *)
(***************************************************************************)
EXTENDS RowLocks, TLAPS

--------------------------------------------------------------------------------
(* The inductive invariant *)

Calling == {"resend", "revoke", "accept"}
Deciding == {"complete", "refuse"}

\* The next statements a transaction of an operation can be at.
StagesOf(op) ==
    IF op = "invite" THEN {"reserve", "replay", "address", "number", "commit", "stop"}
    ELSE IF op \in Calling THEN {"reserve", "replay", "invitation", "note", "commit", "stop"}
    ELSE IF op = "sweep" THEN {"reserve", "replay", "sweep", "note", "commit", "stop"}
    ELSE IF op = "complete" THEN {"member", "invitation", "bound", "commit", "stop"}
    ELSE IF op = "refuse" THEN {"member", "invitation", "note", "bound", "commit", "stop"}
    ELSE IF op = "deliver" THEN {"note", "invitation", "commit", "stop"}
    ELSE IF op = "retry" THEN {"note", "commit", "stop"}
    ELSE IF op = "claim" THEN {"claim", "commit"}
    ELSE {"idle"}

\* What a transaction knows, at its next statement.
Shape(x) ==
    /\ x \in TxRecord
    /\ x.at \in StagesOf(x.op)
    /\ x.op = "none" => x = Unused
    /\ x.op \in Keyed => x.key \in Keys
    /\ x.op \in Deciding => (x.key \in Keys <=> x.at \in {"bound", "commit"})
    /\ x.op \notin Keyed \cup Deciding => x.key = NULL
    /\ x.op \in {"invite", "deliver", "retry"} \cup Calling \cup Deciding => x.id \in Invitations
    /\ x.op = "invite" => x.address \in Addresses
    /\ x.op = "sweep" /\ x.at = "note" => x.id \in Invitations /\ x.seen[x.id] # Absent
    /\ x.op = "sweep" => \A i \in x.todo : x.seen[i] # Absent

\* The rows it has read admit what it does.
Admitted(x) ==
    /\ \A i \in Invitations : x.seen[i] # Absent =>
           IF x.op = "sweep"
           THEN x.seen[i].state = "open" /\ <<i, x.seen[i].generation>> \in x.late
           ELSE x.op \in Calling \cup Deciding /\ i = x.id
    /\ x.op \in Calling /\ x.at \in {"note", "commit"} =>
           /\ x.seen[x.id].state = "open"
           /\ x.op = "resend" => x.seen[x.id].generation < MaxGeneration
    /\ x.op \in Deciding /\ x.at \in {"note", "bound", "commit"} =>
           x.seen[x.id].state = "accepting"

\* A lock it holds was taken by a statement before the next one, and for it.
Explained(x, h, l) ==
    /\ \A k \in Keys : l.row = KeyRow(k) =>
          /\ k = x.key
          /\ \/ x.op \in Keyed /\ l.mode = "write" /\ x.at \notin {"reserve", "replay"}
             \/ x.op \in Keyed /\ l.mode = "lock" /\ x.at = "stop"
             \/ x.op \in Deciding /\ x.at = "commit"
    /\ \A a \in Addresses : l.row = AddressRow(a) =>
          x.op = "invite" /\ x.at \in {"number", "commit", "stop"}
    /\ l.row = SequenceRow => x.op = "invite" /\ x.at = "commit"
    /\ \A i \in Invitations : l.row = MemberRow(i) =>
          \/ x.op \in Deciding /\ x.at # "member"
          \/ x.op = "claim" /\ x.at = "commit"
    /\ \A i \in Invitations : l.row = InvitationRow(i) =>
          \/ /\ x.op \in {"sweep"} \cup Calling \cup Deciding
             /\ x.at \in {"note", "bound", "commit", "stop"}
          \/ x.op = "deliver" /\ x.at = "commit"
    /\ \A i \in Invitations : l.row = NoteRow(i) =>
          \/ x.op \in {"claim", "retry"} /\ x.at = "commit"
          \/ x.op = "deliver" /\ x.at \in {"invitation", "commit"}
          \/ /\ x.op \in {"sweep"} \cup Calling \cup Deciding
             /\ x.at \in {"note", "bound", "commit"}
             /\ Lock(InvitationRow(i), "lock") \in h

\* It holds the locks that its reads and its next statement rest on.
Holding(x, h) ==
    /\ h \subseteq Locks
    /\ \A l \in h : l.mode \in {"write", "lock"} /\ Explained(x, h, l)
    /\ x.op \in Keyed /\ x.at \notin {"reserve", "replay", "stop"} =>
           Lock(KeyRow(x.key), "write") \in h
    /\ x.op \in Deciding /\ x.at = "commit" => Lock(KeyRow(x.key), "write") \in h
    /\ x.op \in Deciding /\ x.at \notin {"member", "stop"} => Lock(MemberRow(x.id), "lock") \in h
    /\ x.op = "invite" /\ x.at \in {"number", "commit"} =>
           Lock(AddressRow(x.address), "lock") \in h
    /\ x.op = "invite" /\ x.at = "commit" => Lock(SequenceRow, "write") \in h
    /\ \A i \in Invitations : x.seen[i] # Absent => Lock(InvitationRow(i), "lock") \in h

\* What it knows is what is committed.
KeyOK(x, h) ==
    /\ x.op \in Keyed /\ x.at \notin {"reserve", "replay", "stop"} =>
           mutation[x.key].status = "vacant"
    /\ x.op \in Deciding /\ x.at \in {"bound", "commit"} =>
           mutation[x.key] = [status |-> "started", id |-> x.id]
    /\ \A k \in Keys : Lock(KeyRow(k), "lock") \in h => mutation[k].status # "vacant"

SeenOK(x) == \A i \in Invitations : x.seen[i] # Absent => invitation[i] = x.seen[i]

InviteOK(x) ==
    x.op = "invite" =>
        /\ invitation[x.id] = Absent
        /\ x.at \in {"number", "commit"} => ~TakenAddress(x.address)
        /\ x.at = "commit" => x.number = next

LateOK(x) ==
    \A l \in x.late :
        /\ l[2] <= invitation[l[1]].generation
        /\ l[2] = invitation[l[1]].generation => l[1] \in due

Current(x, h) == KeyOK(x, h) /\ SeenOK(x) /\ InviteOK(x) /\ LateOK(x)

\* Nobody holds a row another holds, and nobody creates what another creates.
Exclusive == \A t, u \in Txns : t # u => \A l \in held[t], m \in held[u] : l.row # m.row
OwnInvites ==
    \A t, u \in Txns : t # u /\ tx[t].op = "invite" /\ tx[u].op = "invite" =>
        tx[t].id # tx[u].id

NumbersOK ==
    LET created == {i \in Invitations : invitation[i] # Absent} IN
    /\ {invitation[i].number : i \in created} = 1..(next - 1)
    /\ \A i, j \in created : invitation[i].number = invitation[j].number => i = j

TablesOK ==
    /\ invitation \in [Invitations -> InvitationRecord]
    /\ note \in [Invitations -> 0..MaxGeneration]
    /\ mutation \in [Keys -> MutationRecord]
    /\ next \in Nat \ {0}
    /\ due \subseteq {i \in Invitations : invitation[i] # Absent}

\* One transaction with its locks.
TxOK(x, h) == Shape(x) /\ Admitted(x) /\ Holding(x, h) /\ Current(x, h)

IInv ==
    /\ TablesOK
    /\ NumbersOK
    /\ StartedKeysAreBound
    /\ tx \in [Txns -> TxRecord]
    /\ held \in [Txns -> SUBSET Locks]
    /\ \A t \in Txns : TxOK(tx[t], held[t])
    /\ Exclusive
    /\ OwnInvites
--------------------------------------------------------------------------------
(* Rows, locks and stages *)

\* Rows of different kinds, and of different keys, are different.
LEMMA RowsDiffer ==
    /\ \A k, j : KeyRow(k) = KeyRow(j) => k = j
    /\ \A k, j : AddressRow(k) = AddressRow(j) => k = j
    /\ \A k, j : MemberRow(k) = MemberRow(j) => k = j
    /\ \A k, j : InvitationRow(k) = InvitationRow(j) => k = j
    /\ \A k, j : NoteRow(k) = NoteRow(j) => k = j
    /\ \A k, j : /\ KeyRow(k) # AddressRow(j) /\ KeyRow(k) # SequenceRow
                 /\ KeyRow(k) # MemberRow(j) /\ KeyRow(k) # InvitationRow(j)
                 /\ KeyRow(k) # NoteRow(j)
                 /\ AddressRow(k) # SequenceRow /\ AddressRow(k) # MemberRow(j)
                 /\ AddressRow(k) # InvitationRow(j) /\ AddressRow(k) # NoteRow(j)
                 /\ SequenceRow # MemberRow(j) /\ SequenceRow # InvitationRow(j)
                 /\ SequenceRow # NoteRow(j)
                 /\ MemberRow(k) # InvitationRow(j) /\ MemberRow(k) # NoteRow(j)
                 /\ InvitationRow(k) # NoteRow(j)
BY DEF KeyRow, AddressRow, SequenceRow, MemberRow, InvitationRow, NoteRow

LEMMA LockFields ==
    \A row, mode : Lock(row, mode).row = row /\ Lock(row, mode).mode = mode
BY DEF Lock

\* Locks of rows are locks, and every lock is of a row of one of the kinds.
LEMMA LockTypes ==
    /\ \A mode \in Modes :
          /\ \A k \in Keys : Lock(KeyRow(k), mode) \in Locks
          /\ \A a \in Addresses : Lock(AddressRow(a), mode) \in Locks
          /\ Lock(SequenceRow, mode) \in Locks
          /\ \A i \in Invitations : /\ Lock(MemberRow(i), mode) \in Locks
                                    /\ Lock(InvitationRow(i), mode) \in Locks
                                    /\ Lock(NoteRow(i), mode) \in Locks
    /\ \A l \in Locks :
          /\ \/ \E k \in Keys : l.row = KeyRow(k)
             \/ \E a \in Addresses : l.row = AddressRow(a)
             \/ l.row = SequenceRow
             \/ \E i \in Invitations : l.row = MemberRow(i)
             \/ \E i \in Invitations : l.row = InvitationRow(i)
             \/ \E i \in Invitations : l.row = NoteRow(i)
          /\ l = Lock(l.row, l.mode)
<1>1. \A r \in Rows, mode \in Modes : Lock(r, mode) \in Locks
  BY DEF Lock, Locks
<1>2. /\ \A k \in Keys : KeyRow(k) \in Rows
      /\ \A a \in Addresses : AddressRow(a) \in Rows
      /\ SequenceRow \in Rows
      /\ \A i \in Invitations : MemberRow(i) \in Rows /\ InvitationRow(i) \in Rows
                                /\ NoteRow(i) \in Rows
  BY DEF Rows
<1>3. \A l \in Locks : l.row \in Rows /\ l = Lock(l.row, l.mode)
  BY DEF Lock, Locks
<1>4. \A r \in Rows : \/ \E k \in Keys : r = KeyRow(k)
                      \/ \E a \in Addresses : r = AddressRow(a)
                      \/ r = SequenceRow
                      \/ \E i \in Invitations : r = MemberRow(i)
                      \/ \E i \in Invitations : r = InvitationRow(i)
                      \/ \E i \in Invitations : r = NoteRow(i)
  BY DEF Rows
<1> QED  BY <1>1, <1>2, <1>3, <1>4

\* Which operations can be at a statement.
LEMMA StageOps ==
    ASSUME NEW x, Shape(x)
    PROVE  /\ x.at = "idle" <=> x.op = "none"
           /\ x.at \in {"reserve", "replay"} => x.op \in Keyed
           /\ x.at \in {"address", "number"} => x.op = "invite"
           /\ x.at = "member" => x.op \in Deciding
           /\ x.at = "invitation" => x.op \in {"deliver"} \cup Calling \cup Deciding
           /\ x.at = "sweep" => x.op = "sweep"
           /\ x.at = "note" => x.op \in {"sweep", "refuse", "deliver", "retry"} \cup Calling
           /\ x.at = "bound" => x.op \in Deciding
           /\ x.at = "claim" => x.op = "claim"
           /\ x.at = "stop" => x.op \notin {"claim", "none"}
BY DEF Shape, TxRecord, StagesOf, Calling, Deciding, Keyed, Executing

\* What an unused transaction knows and holds.
LEMMA UnusedFields ==
    /\ Unused \in TxRecord
    /\ Unused.op = "none" /\ Unused.at = "idle" /\ Unused.key = NULL /\ Unused.id = NULL
    /\ Unused.address = NULL /\ Unused.todo = {} /\ Unused.late = {} /\ Unused.number = 0
    /\ \A i \in Invitations : Unused.seen[i] = Absent
BY DEF Unused, TxRecord, Statements, InvitationRecord

LEMMA UnusedOK == TxOK(Unused, {})
<1>1. Shape(Unused)
  BY UnusedFields, LocksAssumption DEF Shape, StagesOf, Calling, Deciding, Keyed
<1>2. Admitted(Unused)
  BY UnusedFields DEF Admitted, Calling, Deciding
<1>3. Holding(Unused, {})
  BY UnusedFields DEF Holding, Calling, Deciding, Keyed
<1>4. Current(Unused, {})
  BY UnusedFields DEF Current, KeyOK, SeenOK, InviteOK, LateOK, Calling, Deciding, Keyed
<1> QED  BY <1>1, <1>2, <1>3, <1>4 DEF TxOK

\* A transaction that has not begun holds nothing.
LEMMA UnusedHoldsNothing ==
    ASSUME NEW h, Holding(Unused, h)
    PROVE  h = {}
<1>1. \A l \in h : FALSE
  BY LockTypes, UnusedFields DEF Holding, Explained, Calling, Deciding, Keyed
<1> QED  BY <1>1

\* Whoever is granted an exclusive lock is the only one to hold the row.
LEMMA GrantedIsFree ==
    ASSUME IInv, NEW t \in Txns, NEW row, NEW mode \in {"write", "lock"},
           Wanted(t) = {Lock(row, mode)}, Granted(t)
    PROVE  \A u \in Txns \ {t} : \A l \in held[u] : l.row # row
<1> SUFFICES ASSUME NEW u \in Txns \ {t}, NEW l \in held[u], l.row = row PROVE FALSE
  OBVIOUS
<1>1. l.mode \in {"write", "lock"}  BY DEF IInv, TxOK, Holding
<1>2. Conflict(mode, l.mode)  BY <1>1 DEF Conflict
<1>3. WaitsFor(t, u)  BY <1>2, LockFields DEF WaitsFor, Blocks
<1> QED  BY <1>3 DEF Granted

\* A row that is available to SKIP LOCKED is held by nobody else.
LEMMA AvailableIsFree ==
    ASSUME NEW t \in Txns, NEW row, Available(t, row)
    PROVE  \A u \in Txns \ {t} : \A l \in held[u] : l.row # row
BY DEF Available, Blocks, Conflict

\* A step of one transaction that commits nothing.
LEMMA TxStep ==
    ASSUME IInv, NEW t \in Txns, NEW x, NEW h,
           tx' = [tx EXCEPT ![t] = x], held' = [held EXCEPT ![t] = h],
           UNCHANGED <<data, due>>,
           TxOK(x, h),
           \A u \in Txns \ {t} : \A l \in h, m \in held[u] : l.row # m.row,
           x.op = "invite" =>
               \A u \in Txns \ {t} : tx[u].op = "invite" => tx[u].id # x.id
    PROVE  IInv'
<1>1. x \in TxRecord /\ h \in SUBSET Locks  BY DEF TxOK, Shape, Holding
<1>2. tx' \in [Txns -> TxRecord] /\ held' \in [Txns -> SUBSET Locks]
  BY <1>1 DEF IInv
<1>3. /\ tx'[t] = x /\ held'[t] = h
      /\ \A u \in Txns \ {t} : tx'[u] = tx[u] /\ held'[u] = held[u]
  BY DEF IInv
<1>4. UNCHANGED <<invitation, note, mutation, next, due>>  BY DEF data
<1>5. \A y, g : TxOK(y, g)' <=> TxOK(y, g)
  BY <1>4 DEF TxOK, Current, KeyOK, SeenOK, InviteOK, LateOK, TakenAddress
<1>6. \A u \in Txns : TxOK(tx'[u], held'[u])
  BY <1>3 DEF IInv
<1>7. (\A u \in Txns : TxOK(tx[u], held[u]))'
  BY <1>5, <1>6
<1>8. Exclusive'  BY <1>3 DEF IInv, Exclusive
<1>9. OwnInvites'  BY <1>3 DEF IInv, OwnInvites
<1>10. TablesOK' /\ NumbersOK' /\ StartedKeysAreBound'
  BY <1>4 DEF IInv, TablesOK, NumbersOK, StartedKeysAreBound, BoundKeys
<1> QED  BY <1>2, <1>7, <1>8, <1>9, <1>10 DEF IInv

--------------------------------------------------------------------------------
(* Statements *)

\* The statement moves on: everything but the next statement is as before.
LEMMA Moves ==
    ASSUME NEW x \in TxRecord, NEW s \in Statements
    PROVE  LET y == [x EXCEPT !.at = s] IN
           /\ y \in TxRecord /\ y.at = s
           /\ y.op = x.op /\ y.key = x.key /\ y.id = x.id /\ y.address = x.address
           /\ y.todo = x.todo /\ y.late = x.late /\ y.number = x.number /\ y.seen = x.seen
BY DEF TxRecord

LEMMA EndStep ==
    ASSUME IInv, NEW t \in Txns, End(t), UNCHANGED <<data, due>>
    PROVE  IInv'
BY UnusedOK, UnusedFields, TxStep DEF End

LEMMA ReserveStep == \A t \in Txns : IInv /\ Reserve(t) => IInv'
<1> SUFFICES ASSUME IInv, NEW t \in Txns, Reserve(t) PROVE IInv'  OBVIOUS
<1> DEFINE x == tx[t]  h == held[t]
<1>1. TxOK(x, h) /\ x.at = "reserve" /\ x.op \in Keyed /\ x.key \in Keys /\ x \in TxRecord
  BY StageOps DEF IInv, TxOK, Shape, Reserve
<1>2. h = {}
  <2>1. ASSUME NEW l \in h PROVE FALSE
    BY <1>1, LockTypes DEF TxOK, Holding, Explained, Keyed, Calling, Deciding
  <2> QED  BY <2>1
<1>3. CASE mutation[x.key].status = "vacant"
  <2> DEFINE s == AfterReserve(t)
             y == [x EXCEPT !.at = s]
             g == {Lock(KeyRow(x.key), "write")}
  <2>1. tx' = [tx EXCEPT ![t] = y] /\ held' = [held EXCEPT ![t] = g] /\ UNCHANGED <<data, due>>
    BY <1>2, <1>3 DEF Reserve, Goto, ReservedWith, IInv
  <2>2. s \in StagesOf(x.op) \ {"reserve", "replay", "stop", "number", "note", "commit", "bound", "idle"}
        /\ s \in Statements
    BY <1>1 DEF AfterReserve, StagesOf, Keyed, Calling, Statements
  <2>3. /\ y \in TxRecord /\ y.at = s
        /\ y.op = x.op /\ y.key = x.key /\ y.id = x.id /\ y.address = x.address
        /\ y.todo = x.todo /\ y.late = x.late /\ y.number = x.number /\ y.seen = x.seen
    BY <1>1, <2>2, Moves
  <2> HIDE DEF y, s
  <2>4. \A i \in Invitations : x.seen[i] = Absent
    BY <1>1, <1>2 DEF TxOK, Holding
  <2>5. Shape(y)
    BY <1>1, <2>2, <2>3, <2>4 DEF TxOK, Shape, Keyed, Calling, Deciding
  <2>6. Admitted(y)
    BY <1>1, <2>2, <2>3, <2>4 DEF TxOK, Admitted, Keyed, Calling, Deciding
  <2>7. Holding(y, g)
    <3>1. g \subseteq Locks  BY <1>1, LockTypes DEF Modes
    <3>2. \A l \in g : l.row = KeyRow(x.key) /\ l.mode = "write"  BY LockFields
    <3>3. \A l \in g : Explained(y, g, l)
      BY <1>1, <2>2, <2>3, <3>2, RowsDiffer DEF Explained
    <3> QED  BY <1>1, <2>2, <2>3, <2>4, <3>1, <3>2, <3>3 DEF Holding, Keyed, Deciding
  <2>8. Current(y, g)
    <3>1. \A k \in Keys : Lock(KeyRow(k), "lock") \notin g  BY LockFields
    <3> QED
      BY <1>1, <1>3, <2>2, <2>3, <3>1
         DEF TxOK, Current, KeyOK, SeenOK, InviteOK, LateOK, Keyed, Deciding
  <2>9. \A u \in Txns \ {t} : \A l \in g, m \in held[u] : l.row # m.row
    <3> SUFFICES ASSUME NEW u \in Txns \ {t}, NEW m \in held[u], m.row = KeyRow(x.key)
                 PROVE  FALSE
      BY LockFields
    <3>1. Wanted(t) = {Lock(KeyRow(x.key), "probe")}  BY <1>1 DEF Wanted
    <3>2. m.mode # "write"
      BY <3>1, LockFields DEF Reserve, Granted, WaitsFor, Blocks, Conflict
    <3>3. m = Lock(KeyRow(x.key), "lock")
      BY <3>2, LockTypes DEF IInv, TxOK, Holding
    <3> QED  BY <1>1, <1>3, <3>3 DEF IInv, TxOK, Current, KeyOK
  <2>10. y.op = "invite" => \A u \in Txns \ {t} : tx[u].op = "invite" => tx[u].id # y.id
    BY <2>3 DEF IInv, OwnInvites
  <2> QED  BY <2>1, <2>5, <2>6, <2>7, <2>8, <2>9, <2>10, TxStep DEF TxOK
<1>4. CASE mutation[x.key].status # "vacant"
  <2> DEFINE y == [x EXCEPT !.at = "replay"]
  <2>1. tx' = [tx EXCEPT ![t] = y] /\ held' = [held EXCEPT ![t] = h] /\ UNCHANGED <<data, due>>
    BY <1>4 DEF Reserve, Goto, IInv
  <2>3. /\ y \in TxRecord /\ y.at = "replay"
        /\ y.op = x.op /\ y.key = x.key /\ y.id = x.id /\ y.address = x.address
        /\ y.todo = x.todo /\ y.late = x.late /\ y.number = x.number /\ y.seen = x.seen
    BY <1>1, Moves DEF Statements
  <2> HIDE DEF y
  <2>5. Shape(y)
    BY <1>1, <2>3 DEF TxOK, Shape, Keyed, Calling, Deciding, StagesOf
  <2>6. Admitted(y) /\ Holding(y, h)
    BY <1>1, <1>2, <2>3 DEF TxOK, Admitted, Holding, Keyed, Calling, Deciding
  <2>8. Current(y, h)
    BY <1>1, <1>2, <2>3 DEF TxOK, Current, KeyOK, SeenOK, InviteOK, LateOK, Keyed, Deciding
  <2>10. y.op = "invite" => \A u \in Txns \ {t} : tx[u].op = "invite" => tx[u].id # y.id
    BY <2>3 DEF IInv, OwnInvites
  <2> QED  BY <1>2, <2>1, <2>5, <2>6, <2>8, <2>10, TxStep DEF TxOK
<1> QED  BY <1>3, <1>4

\* A statement of one operation, which keeps what it holds.
LEMMA StatementStep ==
    ASSUME IInv, NEW t \in Txns, NEW y, NEW g,
           tx' = [tx EXCEPT ![t] = y], held' = [held EXCEPT ![t] = g],
           UNCHANGED <<data, due>>,
           y.op = tx[t].op, y.op = "invite" => y.id = tx[t].id,
           TxOK(y, g),
           \A u \in Txns \ {t} : \A l \in g \ held[t], m \in held[u] : l.row # m.row
    PROVE  IInv'
<1>1. \A u \in Txns \ {t} : \A l \in g, m \in held[u] : l.row # m.row
  BY DEF IInv, Exclusive
<1>2. y.op = "invite" => \A u \in Txns \ {t} : tx[u].op = "invite" => tx[u].id # y.id
  BY DEF IInv, OwnInvites
<1> QED  BY <1>1, <1>2, TxStep

\* A transaction that will end without a change may hold whatever it has taken.
LEMMA StopsOK ==
    ASSUME NEW x, NEW h, TxOK(x, h), x.op # "deliver",
           x.at \in {"replay", "address", "member", "invitation"},
           NEW y \in TxRecord, NEW g, y.at = "stop",
           y.op = x.op, y.key = x.key, y.id = x.id, y.address = x.address,
           y.todo = x.todo, y.late = x.late, y.number = x.number,
           \A i \in Invitations :
               \/ y.seen[i] = x.seen[i]
               \/ /\ x.op \in Calling \cup Deciding /\ i = x.id
                  /\ invitation[i] = y.seen[i]
                  /\ Lock(InvitationRow(i), "lock") \in g,
           h \subseteq g, g \subseteq Locks,
           \A l \in g \ h : /\ l.mode \in {"write", "lock"}
                            /\ Explained(y, g, l)
                            /\ \A k \in Keys : l = Lock(KeyRow(k), "lock") =>
                                                  mutation[k].status # "vacant"
    PROVE  TxOK(y, g)
<1>1. /\ x.op \in {"invite", "sweep"} \cup Calling \cup Deciding
      /\ x.op = "sweep" => x.at = "replay"
      /\ x.op \in Calling => x.at \in {"replay", "invitation"}
      /\ x.op \in Deciding => x.at \in {"member", "invitation"}
      /\ x.op = "invite" => x.at \in {"replay", "address"}
  BY DEF TxOK, Shape, StagesOf, TxRecord, Keyed, Executing, Calling, Deciding
<1>2. Shape(y)
  <2>1. "stop" \in StagesOf(x.op)
    BY <1>1 DEF Calling, Deciding, StagesOf
  <2>2. x.op \in Deciding => x.key \notin Keys
    BY <1>1 DEF TxOK, Shape
  <2>3. y.op = "sweep" => \A i \in y.todo : y.seen[i] # Absent
    <3>1. y.op = "sweep" => y.todo \subseteq Invitations /\ y.op \notin Calling \cup Deciding
      BY DEF TxRecord, Calling, Deciding
    <3> QED  BY <3>1 DEF TxOK, Shape
  <2>4. y.op # "none" /\ ~(y.at \in {"bound", "commit", "note"})
    BY <1>1 DEF Calling, Deciding
  <2> QED
    BY <2>1, <2>2, <2>3, <2>4 DEF TxOK, Shape
<1>3. Admitted(y)
  BY <1>1 DEF TxOK, Admitted, Calling, Deciding
<1>4. Holding(y, g)
  <2>1. \A l \in h : Explained(y, g, l)
    BY <1>1 DEF TxOK, Holding, Explained, Keyed, Calling, Deciding
  <2> QED  BY <1>1, <2>1 DEF TxOK, Holding, Keyed, Calling, Deciding
<1>5. Current(y, g)
  BY <1>1 DEF TxOK, Current, Holding, KeyOK, SeenOK, InviteOK, LateOK, Keyed, Calling, Deciding
<1> QED  BY <1>2, <1>3, <1>4, <1>5 DEF TxOK

LEMMA ReplayStep == \A t \in Txns : IInv /\ Replay(t) => IInv'
<1> SUFFICES ASSUME IInv, NEW t \in Txns, Replay(t) PROVE IInv'  OBVIOUS
<1> DEFINE x == tx[t]  h == held[t]
           y == [x EXCEPT !.at = "stop"]
           new == IF mutation[x.key].status = "vacant" THEN {} ELSE {Lock(KeyRow(x.key), "lock")}
           g == h \cup new
<1>1. TxOK(x, h) /\ x.at = "replay" /\ x.op \in Keyed /\ x.key \in Keys /\ x \in TxRecord
  BY StageOps DEF IInv, TxOK, Shape, Replay
<1>2. tx' = [tx EXCEPT ![t] = y] /\ UNCHANGED <<data, due>>
  BY DEF Replay, Goto
<1>3. held' = [held EXCEPT ![t] = g]
  <2>1. new = {Lock(row, "lock") : row \in IF mutation[x.key].status = "vacant" THEN {}
                                           ELSE {KeyRow(x.key)}}
    OBVIOUS
  <2> QED  BY <2>1 DEF Replay, Take
<1>4. /\ y \in TxRecord /\ y.at = "stop"
      /\ y.op = x.op /\ y.key = x.key /\ y.id = x.id /\ y.address = x.address
      /\ y.todo = x.todo /\ y.late = x.late /\ y.number = x.number /\ y.seen = x.seen
  BY <1>1, Moves DEF Statements
<1>5. \A l \in new : /\ l = Lock(KeyRow(x.key), "lock")
                     /\ l.row = KeyRow(x.key) /\ l.mode = "lock"
                     /\ mutation[x.key].status # "vacant"
  BY LockFields
<1>6. g \subseteq Locks
  BY <1>1, <1>5, LockTypes DEF Modes, TxOK, Holding
<1> HIDE DEF y
<1>7. \A l \in g \ h : Explained(y, g, l)
  <2> SUFFICES ASSUME NEW l \in new PROVE Explained(y, g, l)  OBVIOUS
  <2> HIDE DEF new, g
  <2> QED  BY <1>1, <1>4, <1>5, RowsDiffer DEF Explained
<1>8. \A l \in g \ h, k \in Keys :
          l = Lock(KeyRow(k), "lock") => mutation[k].status # "vacant"
  BY <1>5, RowsDiffer, LockFields
<1>9. TxOK(y, g)
  <2> HIDE DEF new
  <2>1. \A l \in g \ h : l.mode \in {"write", "lock"}  BY <1>5
  <2>2. x.op # "deliver"  BY <1>1 DEF Keyed
  <2>3. \A i \in Invitations : y.seen[i] = x.seen[i]  BY <1>4
  <2>4. h \subseteq g  OBVIOUS
  <2>5. x.at \in {"replay", "address", "member", "invitation"}  BY <1>1
  <2> HIDE DEF x, h, g
  <2> QED  BY <1>1, <1>4, <1>6, <1>7, <1>8, <2>1, <2>2, <2>3, <2>4, <2>5, StopsOK
<1>10. \A u \in Txns \ {t} : \A l \in g \ h, m \in held[u] : l.row # m.row
  <2>1. Wanted(t) = {Lock(KeyRow(x.key), "lock")}  BY <1>1 DEF Wanted
  <2>2. \A u \in Txns \ {t} : \A m \in held[u] : m.row # KeyRow(x.key)
    BY <2>1, GrantedIsFree DEF Replay
  <2> QED  BY <1>5, <2>2
<1> HIDE DEF g
<1> QED  BY <1>2, <1>3, <1>4, <1>9, <1>10, StatementStep DEF Keyed

\* A granted lock is added to those the transaction holds, and is of a free row.
LEMMA TakesGranted ==
    ASSUME IInv, NEW t \in Txns, NEW row, NEW mode \in {"write", "lock"},
           Wanted(t) = {Lock(row, mode)}, Granted(t), Take(t, {row}, mode)
    PROVE  /\ held' = [held EXCEPT ![t] = held[t] \cup {Lock(row, mode)}]
           /\ \A u \in Txns \ {t} :
                 \A l \in (held[t] \cup {Lock(row, mode)}) \ held[t], m \in held[u] : l.row # m.row
<1>1. {Lock(r, mode) : r \in {row}} = {Lock(row, mode)}  OBVIOUS
<1>2. held' = [held EXCEPT ![t] = held[t] \cup {Lock(row, mode)}]
  BY <1>1 DEF Take
<1>3. \A u \in Txns \ {t} : \A m \in held[u] : m.row # row
  BY GrantedIsFree
<1> QED  BY <1>2, <1>3, LockFields

LEMMA LockAddressStep == \A t \in Txns : IInv /\ LockAddress(t) => IInv'
<1> SUFFICES ASSUME IInv, NEW t \in Txns, LockAddress(t) PROVE IInv'  OBVIOUS
<1> DEFINE x == tx[t]  h == held[t]
           new == Lock(AddressRow(x.address), "lock")
           g == h \cup {new}
           s == IF TakenAddress(x.address) THEN "stop" ELSE "number"
           y == [x EXCEPT !.at = s]
<1>1. /\ TxOK(x, h) /\ x.at = "address" /\ x.op = "invite" /\ x.address \in Addresses
      /\ x \in TxRecord
  BY StageOps DEF IInv, TxOK, Shape, LockAddress
<1>2. tx' = [tx EXCEPT ![t] = y] /\ UNCHANGED <<data, due>>
  BY DEF LockAddress, Goto
<1>3. /\ held' = [held EXCEPT ![t] = g]
      /\ \A u \in Txns \ {t} : \A l \in g \ h, m \in held[u] : l.row # m.row
  <2>1. Wanted(t) = {new}  BY <1>1 DEF Wanted
  <2> QED  BY <2>1, TakesGranted DEF LockAddress
<1>4. /\ y \in TxRecord /\ y.at = s
      /\ y.op = x.op /\ y.key = x.key /\ y.id = x.id /\ y.address = x.address
      /\ y.todo = x.todo /\ y.late = x.late /\ y.number = x.number /\ y.seen = x.seen
  <2>1. s \in Statements  BY DEF Statements
  <2> HIDE DEF s
  <2> QED  BY <1>1, <2>1, Moves
<1>5. new \in Locks /\ new.row = AddressRow(x.address) /\ new.mode = "lock"
  BY <1>1, LockTypes, LockFields DEF Modes
<1> HIDE DEF y, new
<1>6. s \in {"stop", "number"} /\ (s = "number" => ~TakenAddress(x.address))
  OBVIOUS
<1> HIDE DEF s
<1>7. Explained(y, g, new)
  BY <1>1, <1>4, <1>5, <1>6, RowsDiffer DEF Explained
<1>8. \A k \in Keys : new # Lock(KeyRow(k), "lock")
  BY <1>5, RowsDiffer, LockFields
<1>9. TxOK(y, g)
  <2>1. CASE s = "stop"
    <3>1. g \subseteq Locks /\ h \subseteq g /\ g \ h \subseteq {new}
      BY <1>1, <1>5 DEF TxOK, Holding
    <3>2. \A i \in Invitations : y.seen[i] = x.seen[i]  BY <1>4
    <3> HIDE DEF x, h, g
    <3> QED  BY <1>1, <1>4, <1>5, <1>7, <1>8, <2>1, <3>1, <3>2, StopsOK
  <2>2. CASE s = "number"
    <3>1. Shape(y)
      BY <1>1, <1>4, <2>2 DEF TxOK, Shape, Keyed, Calling, Deciding, StagesOf
    <3>2. Admitted(y)
      BY <1>1, <1>4, <2>2 DEF TxOK, Admitted, Calling, Deciding
    <3>3. Holding(y, g)
      <4>1. \A l \in h : Explained(y, g, l)
        BY <1>1, <1>4, <2>2 DEF TxOK, Holding, Explained, Keyed, Calling, Deciding
      <4> QED
        BY <1>1, <1>4, <1>5, <1>7, <2>2, <4>1 DEF TxOK, Holding, Keyed, Calling, Deciding, new
    <3>4. Current(y, g)
      BY <1>1, <1>4, <1>6, <1>8, <2>2
         DEF TxOK, Current, KeyOK, SeenOK, InviteOK, LateOK, Keyed, Deciding
    <3> QED  BY <3>1, <3>2, <3>3, <3>4 DEF TxOK
  <2> QED  BY <1>6, <2>1, <2>2
<1> HIDE DEF g
<1> QED  BY <1>1, <1>2, <1>3, <1>4, <1>9, StatementStep

LEMMA AllocateNumberStep == \A t \in Txns : IInv /\ AllocateNumber(t) => IInv'
<1> SUFFICES ASSUME IInv, NEW t \in Txns, AllocateNumber(t) PROVE IInv'  OBVIOUS
<1> DEFINE x == tx[t]  h == held[t]
           new == Lock(SequenceRow, "write")
           g == h \cup {new}
           y == [x EXCEPT !.number = next, !.at = "commit"]
<1>1. TxOK(x, h) /\ x.at = "number" /\ x.op = "invite" /\ x \in TxRecord /\ next \in Nat
  BY StageOps DEF IInv, TablesOK, TxOK, Shape, AllocateNumber
<1>2. tx' = [tx EXCEPT ![t] = y] /\ UNCHANGED <<data, due>>
  BY DEF AllocateNumber
<1>3. /\ held' = [held EXCEPT ![t] = g]
      /\ \A u \in Txns \ {t} : \A l \in g \ h, m \in held[u] : l.row # m.row
  <2>1. Wanted(t) = {new}  BY <1>1 DEF Wanted
  <2> QED  BY <2>1, TakesGranted DEF AllocateNumber
<1>4. /\ y \in TxRecord /\ y.at = "commit" /\ y.number = next
      /\ y.op = x.op /\ y.key = x.key /\ y.id = x.id /\ y.address = x.address
      /\ y.todo = x.todo /\ y.late = x.late /\ y.seen = x.seen
  BY <1>1 DEF TxRecord, Statements
<1>5. new \in Locks /\ new.row = SequenceRow /\ new.mode = "write"
  BY LockTypes, LockFields DEF Modes
<1> HIDE DEF y, new
<1>7. Explained(y, g, new)
  BY <1>1, <1>4, <1>5, RowsDiffer DEF Explained
<1>8. \A k \in Keys : new # Lock(KeyRow(k), "lock")
  BY <1>5, RowsDiffer, LockFields
<1>9. TxOK(y, g)
  <2>1. Shape(y)
    BY <1>1, <1>4 DEF TxOK, Shape, Keyed, Calling, Deciding, StagesOf
  <2>2. Admitted(y)
    BY <1>1, <1>4 DEF TxOK, Admitted, Calling, Deciding
  <2>3. Holding(y, g)
    <3>1. \A l \in h : Explained(y, g, l)
      BY <1>1, <1>4 DEF TxOK, Holding, Explained, Keyed, Calling, Deciding
    <3> QED
      BY <1>1, <1>4, <1>5, <1>7, <3>1 DEF TxOK, Holding, Keyed, Calling, Deciding, new
  <2>4. Current(y, g)
    BY <1>1, <1>4, <1>8
       DEF TxOK, Current, KeyOK, SeenOK, InviteOK, LateOK, Keyed, Deciding
  <2> QED  BY <2>1, <2>2, <2>3, <2>4 DEF TxOK
<1> HIDE DEF g
<1> QED  BY <1>1, <1>2, <1>3, <1>4, <1>9, StatementStep

LEMMA LockMemberStep == \A t \in Txns : IInv /\ LockMember(t) => IInv'
<1> SUFFICES ASSUME IInv, NEW t \in Txns, LockMember(t) PROVE IInv'  OBVIOUS
<1>0. PICK s \in {"invitation", "stop"} : Goto(t, s)
  BY DEF LockMember
<1> DEFINE x == tx[t]  h == held[t]
           new == Lock(MemberRow(x.id), "lock")
           g == h \cup {new}
           y == [x EXCEPT !.at = s]
<1>1. /\ TxOK(x, h) /\ x.at = "member" /\ x.op \in Deciding /\ x \in TxRecord
      /\ x.id \in Invitations
  BY StageOps DEF IInv, TxOK, Shape, LockMember
<1>2. tx' = [tx EXCEPT ![t] = y] /\ UNCHANGED <<data, due>>
  BY <1>0 DEF LockMember, Goto
<1>3. /\ held' = [held EXCEPT ![t] = g]
      /\ \A u \in Txns \ {t} : \A l \in g \ h, m \in held[u] : l.row # m.row
  <2>1. Wanted(t) = {new}  BY <1>1 DEF Wanted
  <2> QED  BY <2>1, TakesGranted DEF LockMember
<1>4. /\ y \in TxRecord /\ y.at = s
      /\ y.op = x.op /\ y.key = x.key /\ y.id = x.id /\ y.address = x.address
      /\ y.todo = x.todo /\ y.late = x.late /\ y.number = x.number /\ y.seen = x.seen
  <2>1. s \in Statements  BY DEF Statements
  <2> QED  BY <1>1, <2>1, Moves
<1>5. new \in Locks /\ new.row = MemberRow(x.id) /\ new.mode = "lock"
  BY <1>1, LockTypes, LockFields DEF Modes
<1> HIDE DEF y, new
<1>7. Explained(y, g, new)
  BY <1>1, <1>4, <1>5, RowsDiffer DEF Explained
<1>8. \A k \in Keys : new # Lock(KeyRow(k), "lock")
  BY <1>5, RowsDiffer, LockFields
<1>9. TxOK(y, g)
  <2>1. CASE s = "stop"
    <3>1. g \subseteq Locks /\ h \subseteq g /\ g \ h \subseteq {new}
      BY <1>1, <1>5 DEF TxOK, Holding
    <3>2. \A i \in Invitations : y.seen[i] = x.seen[i]  BY <1>4
    <3>3. x.op # "deliver"  BY <1>1 DEF Deciding
    <3> HIDE DEF x, h, g
    <3> QED  BY <1>1, <1>4, <1>5, <1>7, <1>8, <2>1, <3>1, <3>2, <3>3, StopsOK
  <2>2. CASE s = "invitation"
    <3>1. Shape(y)
      BY <1>1, <1>4, <2>2 DEF TxOK, Shape, Keyed, Calling, Deciding, StagesOf
    <3>2. Admitted(y)
      BY <1>1, <1>4, <2>2 DEF TxOK, Admitted, Calling, Deciding
    <3>3. Holding(y, g)
      <4>1. \A l \in h : Explained(y, g, l)
        BY <1>1, <1>4, <2>2 DEF TxOK, Holding, Explained, Keyed, Calling, Deciding
      <4> QED
        BY <1>1, <1>4, <1>5, <1>7, <2>2, <4>1 DEF TxOK, Holding, Keyed, Calling, Deciding, new
    <3>4. Current(y, g)
      BY <1>1, <1>4, <1>8, <2>2
         DEF TxOK, Current, KeyOK, SeenOK, InviteOK, LateOK, Keyed, Deciding
    <3> QED  BY <3>1, <3>2, <3>3, <3>4 DEF TxOK
  <2> QED  BY <2>1, <2>2
<1> HIDE DEF g
<1>10. y.op # "invite"  BY <1>1, <1>4 DEF Deciding
<1> QED  BY <1>2, <1>3, <1>4, <1>9, <1>10, StatementStep

\* How a decided acceptance goes on to the key it is bound to.
LEMMA Binds ==
    ASSUME IInv, NEW x \in TxRecord, x.id \in Invitations,
           invitation[x.id].state = "accepting", NEW y \in BindKey(x)
    PROVE  /\ y \in TxRecord /\ y.at = "bound" /\ y.key \in Keys
           /\ mutation[y.key] = [status |-> "started", id |-> x.id]
           /\ y.op = x.op /\ y.id = x.id /\ y.address = x.address
           /\ y.todo = x.todo /\ y.late = x.late /\ y.number = x.number /\ y.seen = x.seen
<1>1. BoundKeys(x.id) # {}  BY DEF IInv, StartedKeysAreBound
<1>2. PICK k \in BoundKeys(x.id) : y = [x EXCEPT !.key = k, !.at = "bound"]
  BY <1>1 DEF BindKey
<1>3. k \in Keys /\ mutation[k] = [status |-> "started", id |-> x.id]
  BY DEF BoundKeys
<1> QED  BY <1>2, <1>3 DEF TxRecord, Statements

\* What follows once an invitation is locked.
LEMMA AfterLocked ==
    ASSUME IInv, NEW t \in Txns, tx[t].at = "invitation", tx[t].op # "deliver",
           NEW y \in AfterInvitation(t, invitation[tx[t].id])
    PROVE  LET x == tx[t]
               row == invitation[x.id] IN
           /\ y \in TxRecord
           /\ y.op = x.op /\ y.id = x.id /\ y.address = x.address
           /\ y.todo = x.todo /\ y.late = x.late /\ y.number = x.number
           /\ y.seen[x.id] = row
           /\ \A i \in Invitations \ {x.id} : y.seen[i] = x.seen[i]
           /\ \/ y.at = "stop" /\ y.key = x.key
              \/ /\ x.op \in Calling /\ y.key = x.key /\ y.at \in {"note", "commit"}
                 /\ row.state = "open"
                 /\ x.op = "resend" => row.generation < MaxGeneration
              \/ /\ x.op = "refuse" /\ y.key = x.key /\ y.at = "note"
                 /\ row.state = "accepting"
              \/ /\ x.op = "complete" /\ y.at = "bound" /\ y.key \in Keys
                 /\ mutation[y.key] = [status |-> "started", id |-> x.id]
                 /\ row.state = "accepting"
<1> DEFINE x == tx[t]
           row == invitation[x.id]
           z == [x EXCEPT !.seen[x.id] = row]
<1>1. /\ x \in TxRecord /\ x.op \in Calling \cup Deciding /\ x.id \in Invitations
      /\ row \in InvitationRecord
  BY StageOps DEF IInv, TxOK, Shape, TablesOK
<1>2. /\ z \in TxRecord
      /\ z.op = x.op /\ z.key = x.key /\ z.id = x.id /\ z.address = x.address
      /\ z.todo = x.todo /\ z.late = x.late /\ z.number = x.number
      /\ z.seen[x.id] = row
      /\ \A i \in Invitations \ {x.id} : z.seen[i] = x.seen[i]
  <2>1. x.seen \in [Invitations -> InvitationRecord]  BY <1>1 DEF TxRecord
  <2>2. [x.seen EXCEPT ![x.id] = row] \in [Invitations -> InvitationRecord]
    BY <1>1, <2>1
  <2>3. z = [x EXCEPT !.seen = [x.seen EXCEPT ![x.id] = row]]  OBVIOUS
  <2>4. z.seen = [x.seen EXCEPT ![x.id] = row]  BY <1>1, <2>3 DEF TxRecord
  <2>5. z \in TxRecord  BY <1>1, <2>2, <2>3 DEF TxRecord
  <2> QED  BY <1>1, <2>1, <2>3, <2>4, <2>5 DEF TxRecord
<1> HIDE DEF z
<1>3. \/ y = [z EXCEPT !.at = "stop"]
      \/ /\ Admits(t, row) /\ x.op = "complete" /\ y \in BindKey(z)
      \/ /\ Admits(t, row) /\ x.op = "accept" /\ y = [z EXCEPT !.at = "commit"]
      \/ /\ Admits(t, row) /\ x.op # "complete" /\ y = [z EXCEPT !.at = "note"]
  <2>1. \/ y = [z EXCEPT !.at = "stop"]
        \/ y \in CASE ~Admits(t, row) -> {}
                   [] Admits(t, row) /\ z.op = "complete" -> BindKey(z)
                   [] Admits(t, row) /\ z.op = "accept" /\ ~IsLate(z, row) ->
                         {[z EXCEPT !.at = "commit"]}
                   [] OTHER -> {[z EXCEPT !.at = "note"]}
    BY Zenon DEF AfterInvitation, z
  <2>2. CASE ~Admits(t, row)  BY <2>1, <2>2
  <2>3. CASE Admits(t, row) /\ z.op = "complete"
    BY <1>2, <2>1, <2>3
  <2>4. CASE Admits(t, row) /\ z.op = "accept" /\ ~IsLate(z, row)
    BY <1>2, <2>1, <2>4
  <2>5. CASE Admits(t, row) /\ z.op # "complete" /\ ~(z.op = "accept" /\ ~IsLate(z, row))
    BY <1>2, <2>1, <2>5
  <2> QED  BY <2>2, <2>3, <2>4, <2>5
<1>4. Admits(t, row) =>
          /\ x.op \in Calling => row.state = "open"
          /\ x.op = "resend" => row.generation < MaxGeneration
          /\ x.op \in Deciding => row.state = "accepting"
  <2>1. CASE x.op = "resend"  BY <2>1 DEF Admits, Calling, Deciding
  <2>2. CASE x.op \in {"revoke", "accept"}  BY <2>2 DEF Admits, Calling, Deciding
  <2>3. CASE x.op \in Deciding  BY <2>3 DEF Admits, Calling, Deciding
  <2> QED  BY <1>1, <2>1, <2>2, <2>3 DEF Calling
<1> HIDE DEF x, row
<1>5. \A s \in {"stop", "commit", "note"} :
          LET w == [z EXCEPT !.at = s] IN
           /\ w \in TxRecord /\ w.at = s
           /\ w.op = x.op /\ w.key = x.key /\ w.id = x.id /\ w.address = x.address
           /\ w.todo = x.todo /\ w.late = x.late /\ w.number = x.number /\ w.seen = z.seen
  <2>1. {"stop", "commit", "note"} \subseteq Statements  BY DEF Statements
  <2> QED  BY <1>2, <2>1, Moves
<1>6. CASE y = [z EXCEPT !.at = "stop"]
  BY <1>2, <1>5, <1>6 DEF x, row
<1>7. CASE Admits(t, row) /\ x.op = "complete" /\ y \in BindKey(z)
  <2>1. row.state = "accepting"  BY <1>4, <1>7 DEF Deciding
  <2>2. invitation[z.id].state = "accepting"  BY <1>2, <2>1 DEF row
  <2>3. /\ y \in TxRecord /\ y.at = "bound" /\ y.key \in Keys
        /\ mutation[y.key] = [status |-> "started", id |-> z.id]
        /\ y.op = z.op /\ y.id = z.id /\ y.address = z.address
        /\ y.todo = z.todo /\ y.late = z.late /\ y.number = z.number /\ y.seen = z.seen
    BY <1>1, <1>2, <1>7, <2>2, Binds
  <2> QED  BY <1>2, <1>7, <2>1, <2>3 DEF x, row
<1>8. CASE Admits(t, row) /\ x.op = "accept" /\ y = [z EXCEPT !.at = "commit"]
  BY <1>2, <1>4, <1>5, <1>8 DEF x, row, Calling
<1>9. CASE Admits(t, row) /\ x.op # "complete" /\ y = [z EXCEPT !.at = "note"]
  <2>1. CASE x.op \in Calling  BY <1>2, <1>4, <1>5, <1>9, <2>1 DEF x, row
  <2>2. CASE x.op = "refuse"  BY <1>2, <1>4, <1>5, <1>9, <2>2 DEF x, row, Deciding
  <2> QED  BY <1>1, <1>9, <2>1, <2>2 DEF Deciding
<1> QED  BY <1>3, <1>6, <1>7, <1>8, <1>9

LEMMA LockInvitationStep == \A t \in Txns : IInv /\ LockInvitation(t) => IInv'
<1> SUFFICES ASSUME IInv, NEW t \in Txns, LockInvitation(t) PROVE IInv'  OBVIOUS
<1> DEFINE x == tx[t]  h == held[t]
           row == invitation[x.id]
           new == Lock(InvitationRow(x.id), "lock")
           g == h \cup {new}
<1>1. /\ TxOK(x, h) /\ x.at = "invitation" /\ x.op \in Calling \cup Deciding /\ x \in TxRecord
      /\ x.id \in Invitations /\ x.op # "deliver"
  BY StageOps DEF IInv, TxOK, Shape, LockInvitation
<1>2. PICK y \in AfterInvitation(t, row) : tx' = [tx EXCEPT ![t] = y]
  BY DEF LockInvitation
<1>3. /\ held' = [held EXCEPT ![t] = g]
      /\ \A u \in Txns \ {t} : \A l \in g \ h, m \in held[u] : l.row # m.row
  <2>1. Wanted(t) = {new}  BY <1>1 DEF Wanted
  <2> QED  BY <2>1, TakesGranted DEF LockInvitation
<1>4. /\ y \in TxRecord
      /\ y.op = x.op /\ y.id = x.id /\ y.address = x.address
      /\ y.todo = x.todo /\ y.late = x.late /\ y.number = x.number
      /\ y.seen[x.id] = row
      /\ \A i \in Invitations \ {x.id} : y.seen[i] = x.seen[i]
      /\ \/ y.at = "stop" /\ y.key = x.key
         \/ /\ x.op \in Calling /\ y.key = x.key /\ y.at \in {"note", "commit"}
            /\ row.state = "open"
            /\ x.op = "resend" => row.generation < MaxGeneration
         \/ /\ x.op = "refuse" /\ y.key = x.key /\ y.at = "note"
            /\ row.state = "accepting"
         \/ /\ x.op = "complete" /\ y.at = "bound" /\ y.key \in Keys
            /\ mutation[y.key] = [status |-> "started", id |-> x.id]
            /\ row.state = "accepting"
  BY <1>1, AfterLocked
<1>5. new \in Locks /\ new.row = InvitationRow(x.id) /\ new.mode = "lock"
  BY <1>1, LockTypes, LockFields DEF Modes
<1>6. /\ UNCHANGED <<data, due>>
      /\ new = Lock(InvitationRow(x.id), "lock")
      /\ row = invitation[x.id]
      /\ Absent.state = "none"
  BY DEF LockInvitation, Absent
<1> HIDE DEF new, row
<1>7. Explained(y, g, new)
  BY <1>1, <1>4, <1>5, RowsDiffer DEF Explained
<1>8. \A k \in Keys : new # Lock(KeyRow(k), "lock")
  BY <1>5, RowsDiffer, LockFields
<1>9. TxOK(y, g)
  <2>0. g \subseteq Locks /\ h \subseteq g /\ g \ h \subseteq {new} /\ new \in g
    BY <1>1, <1>5 DEF TxOK, Holding
  <2>1. CASE y.at = "stop"
    <3>1. \A i \in Invitations :
             \/ y.seen[i] = x.seen[i]
             \/ /\ x.op \in Calling \cup Deciding /\ i = x.id
                /\ invitation[i] = y.seen[i]
                /\ Lock(InvitationRow(i), "lock") \in g
      BY <1>1, <1>4, <1>6, <2>0
    <3>2. y.key = x.key  BY <1>4, <2>1
    <3> HIDE DEF x, h, g
    <3> QED  BY <1>1, <1>4, <1>5, <1>7, <1>8, <2>0, <2>1, <3>1, <3>2, StopsOK
  <2>2. CASE y.at # "stop"
    <3>0. y.at \in {"note", "bound", "commit"}  BY <1>4, <2>2
    <3>1. Shape(y)
      <4>1. y.at \in StagesOf(y.op)
        BY <1>4, <2>2 DEF Calling, Deciding, StagesOf
      <4>2. y.op \in Deciding => (y.key \in Keys <=> y.at \in {"bound", "commit"})
        BY <1>1, <1>4, <2>2 DEF Calling, Deciding, TxOK, Shape
      <4> QED
        BY <1>1, <1>4, <4>1, <4>2 DEF TxOK, Shape, Keyed, Calling, Deciding
    <3>2. Admitted(y)
      BY <1>1, <1>4, <1>6, <2>2 DEF TxOK, Admitted, Calling, Deciding
    <3>3. Holding(y, g)
      <4>1. \A l \in h : Explained(y, g, l)
        BY <1>1, <1>4, <3>0 DEF TxOK, Holding, Explained, Keyed, Calling, Deciding
      <4>2. \A i \in Invitations : y.seen[i] # Absent => Lock(InvitationRow(i), "lock") \in g
        BY <1>1, <1>4, <1>6, <2>0 DEF TxOK, Holding
      <4>3. y.op \in Deciding => y.at # "commit"
        BY <1>4, <2>2 DEF Calling, Deciding
      <4>4. y.op \in Deciding => Lock(MemberRow(y.id), "lock") \in g
        BY <1>1, <1>4, <2>0 DEF TxOK, Holding
      <4>5. y.op \in Keyed => Lock(KeyRow(y.key), "write") \in g
        BY <1>1, <1>4, <2>0, <2>2 DEF TxOK, Holding, Keyed, Calling
      <4>6. y.op # "invite"  BY <1>1, <1>4 DEF Calling, Deciding
      <4> QED
        BY <1>1, <1>5, <1>7, <2>0, <4>1, <4>2, <4>3, <4>4, <4>5, <4>6 DEF TxOK, Holding
    <3>4. Current(y, g)
      <4>1. KeyOK(y, g)
        BY <1>1, <1>4, <1>8, <2>0, <2>2 DEF TxOK, Current, KeyOK, Keyed, Calling, Deciding
      <4>2. SeenOK(y)
        BY <1>1, <1>4, <1>6 DEF TxOK, Current, SeenOK
      <4>3. InviteOK(y) /\ LateOK(y)
        BY <1>1, <1>4 DEF TxOK, Current, InviteOK, LateOK, Calling, Deciding
      <4> QED  BY <4>1, <4>2, <4>3 DEF Current
    <3> QED  BY <3>1, <3>2, <3>3, <3>4 DEF TxOK
  <2> QED  BY <2>1, <2>2
<1> HIDE DEF g
<1>10. y.op # "invite"  BY <1>1, <1>4 DEF Calling, Deciding
<1> QED  BY <1>2, <1>3, <1>4, <1>6, <1>9, <1>10, StatementStep


LEMMA WriteBoundKeyStep == \A t \in Txns : IInv /\ WriteBoundKey(t) => IInv'
<1> SUFFICES ASSUME IInv, NEW t \in Txns, WriteBoundKey(t) PROVE IInv'  OBVIOUS
<1> DEFINE x == tx[t]  h == held[t]
           new == Lock(KeyRow(x.key), "write")
           g == h \cup {new}
           y == [x EXCEPT !.at = "commit"]
<1>1. /\ TxOK(x, h) /\ x.at = "bound" /\ x.op \in Deciding /\ x \in TxRecord
      /\ x.key \in Keys
  BY StageOps DEF IInv, TxOK, Shape, WriteBoundKey
<1>2. tx' = [tx EXCEPT ![t] = y] /\ UNCHANGED <<data, due>>
  BY DEF WriteBoundKey, Goto
<1>3. /\ held' = [held EXCEPT ![t] = g]
      /\ \A u \in Txns \ {t} : \A l \in g \ h, m \in held[u] : l.row # m.row
  <2> DEFINE row == KeyRow(x.key)
  <2>1. Wanted(t) = {Lock(row, "write")}  BY <1>1 DEF Wanted
  <2>2. Granted(t) /\ Take(t, {row}, "write")  BY DEF WriteBoundKey
  <2> HIDE DEF row
  <2>3. /\ held' = [held EXCEPT ![t] = held[t] \cup {Lock(row, "write")}]
        /\ \A u \in Txns \ {t} :
              \A l \in (held[t] \cup {Lock(row, "write")}) \ held[t], m \in held[u] : l.row # m.row
    BY <2>1, <2>2, TakesGranted
  <2> QED  BY <2>3 DEF row
<1>4. /\ y \in TxRecord /\ y.at = "commit"
      /\ y.op = x.op /\ y.key = x.key /\ y.id = x.id /\ y.address = x.address
      /\ y.todo = x.todo /\ y.late = x.late /\ y.number = x.number /\ y.seen = x.seen
  BY <1>1, Moves DEF Statements
<1>5. new \in Locks /\ new.row = KeyRow(x.key) /\ new.mode = "write"
  BY <1>1, LockTypes, LockFields DEF Modes
<1> HIDE DEF y, new
<1>7. Explained(y, g, new)
  BY <1>1, <1>4, <1>5, RowsDiffer DEF Explained
<1>8. \A k \in Keys : new # Lock(KeyRow(k), "lock")
  BY <1>5, LockFields
<1>9. TxOK(y, g)
  <2>1. Shape(y)
    BY <1>1, <1>4 DEF TxOK, Shape, Keyed, Calling, Deciding, StagesOf
  <2>2. Admitted(y)
    BY <1>1, <1>4 DEF TxOK, Admitted, Calling, Deciding
  <2>3. Holding(y, g)
    <3>1. \A l \in h : Explained(y, g, l)
      BY <1>1, <1>4 DEF TxOK, Holding, Explained, Keyed, Calling, Deciding
    <3> QED
      BY <1>1, <1>4, <1>5, <1>7, <3>1 DEF TxOK, Holding, Keyed, Calling, Deciding, new
  <2>4. Current(y, g)
    BY <1>1, <1>4, <1>8
       DEF TxOK, Current, KeyOK, SeenOK, InviteOK, LateOK, Keyed, Deciding
  <2> QED  BY <2>1, <2>2, <2>3, <2>4 DEF TxOK
<1> HIDE DEF g
<1>10. y.op # "invite"  BY <1>1, <1>4 DEF Deciding
<1> QED  BY <1>2, <1>3, <1>4, <1>9, <1>10, StatementStep

\* A granted lock that may turn out not to be needed.
LEMMA TakesAtMost ==
    ASSUME IInv, NEW t \in Txns, NEW row, NEW mode \in {"write", "lock"}, NEW rows,
           rows \subseteq {row},
           Wanted(t) = {Lock(row, mode)}, Granted(t), Take(t, rows, mode)
    PROVE  \E new \in SUBSET {Lock(row, mode)} :
              /\ rows = {} => new = {}
              /\ held' = [held EXCEPT ![t] = held[t] \cup new]
              /\ \A u \in Txns \ {t} :
                    \A l \in (held[t] \cup new) \ held[t], m \in held[u] : l.row # m.row
<1> DEFINE new == {Lock(r, mode) : r \in rows}
<1>1. new \in SUBSET {Lock(row, mode)} /\ (rows = {} => new = {})  OBVIOUS
<1>2. held' = [held EXCEPT ![t] = held[t] \cup new]  BY DEF Take
<1>3. \A u \in Txns \ {t} : \A m \in held[u] : m.row # row
  BY GrantedIsFree
<1>4. \A u \in Txns \ {t} :
          \A l \in (held[t] \cup new) \ held[t], m \in held[u] : l.row # m.row
  BY <1>1, <1>3, LockFields
<1> HIDE DEF new
<1> QED  BY <1>1, <1>2, <1>4

LEMMA RecordDeliveryStep == \A t \in Txns : IInv /\ RecordDelivery(t) => IInv'
<1> SUFFICES ASSUME IInv, NEW t \in Txns, RecordDelivery(t) PROVE IInv'  OBVIOUS
<1> DEFINE x == tx[t]  h == held[t]
           y == [x EXCEPT !.at = "commit"]
<1>1. /\ TxOK(x, h) /\ x.at = "invitation" /\ x.op = "deliver" /\ x \in TxRecord
      /\ x.id \in Invitations
  BY DEF IInv, TxOK, Shape, RecordDelivery
<1>2. tx' = [tx EXCEPT ![t] = y] /\ UNCHANGED <<data, due>>
  BY DEF RecordDelivery, Goto
<1>3. PICK new \in SUBSET {Lock(InvitationRow(x.id), "write")} :
          /\ held' = [held EXCEPT ![t] = h \cup new]
          /\ \A u \in Txns \ {t} : \A l \in (h \cup new) \ h, m \in held[u] : l.row # m.row
  <2> DEFINE row == InvitationRow(x.id)
  <2>1. Wanted(t) = {Lock(row, "write")}  BY <1>1 DEF Wanted
  <2>2. Granted(t) /\ \E rows \in SUBSET {row} : Take(t, rows, "write")
    BY DEF RecordDelivery
  <2> HIDE DEF row
  <2>3. PICK rows \in SUBSET {row} : Take(t, rows, "write")  BY <2>2
  <2>4. PICK new \in SUBSET {Lock(row, "write")} :
           /\ held' = [held EXCEPT ![t] = held[t] \cup new]
           /\ \A u \in Txns \ {t} :
                 \A l \in (held[t] \cup new) \ held[t], m \in held[u] : l.row # m.row
    BY <2>1, <2>2, <2>3, TakesAtMost
  <2> QED  BY <2>4 DEF row
<1>4. /\ y \in TxRecord /\ y.at = "commit"
      /\ y.op = x.op /\ y.key = x.key /\ y.id = x.id /\ y.address = x.address
      /\ y.todo = x.todo /\ y.late = x.late /\ y.number = x.number /\ y.seen = x.seen
  BY <1>1, Moves DEF Statements
<1>5. \A l \in new : l \in Locks /\ l.row = InvitationRow(x.id) /\ l.mode = "write"
  BY <1>1, <1>3, LockTypes, LockFields DEF Modes
<1> DEFINE g == h \cup new
<1> HIDE DEF y
<1>7. \A l \in new : Explained(y, g, l)
  BY <1>1, <1>4, <1>5, RowsDiffer DEF Explained
<1>8. \A k \in Keys : Lock(KeyRow(k), "lock") \notin new
  BY <1>5, LockFields
<1>9. TxOK(y, g)
  <2>1. Shape(y)
    BY <1>1, <1>4 DEF TxOK, Shape, Keyed, Calling, Deciding, StagesOf
  <2>2. Admitted(y)
    BY <1>1, <1>4 DEF TxOK, Admitted, Calling, Deciding
  <2>3. Holding(y, g)
    <3>1. \A l \in h : Explained(y, g, l)
      BY <1>1, <1>4 DEF TxOK, Holding, Explained, Keyed, Calling, Deciding
    <3> QED
      BY <1>1, <1>4, <1>5, <1>7, <3>1 DEF TxOK, Holding, Keyed, Calling, Deciding
  <2>4. Current(y, g)
    BY <1>1, <1>4, <1>8
       DEF TxOK, Current, KeyOK, SeenOK, InviteOK, LateOK, Keyed, Deciding
  <2> QED  BY <2>1, <2>2, <2>3, <2>4 DEF TxOK
<1> HIDE DEF g
<1> QED  BY <1>1, <1>2, <1>3, <1>4, <1>9, StatementStep DEF g

\* What follows once a notification is written.
LEMMA AfterNote ==
    ASSUME IInv, NEW t \in Txns, tx[t].at = "note", WriteNote(t)
    PROVE  LET x == tx[t] IN \E y \in TxRecord :
           /\ tx' = [tx EXCEPT ![t] = y]
           /\ y.op = x.op /\ y.address = x.address
           /\ y.late = x.late /\ y.number = x.number /\ y.seen = x.seen
           /\ \/ /\ x.op \in {"deliver", "retry"} /\ note[x.id] = 0 /\ y.at = "stop"
                 /\ y.key = x.key /\ y.id = x.id /\ y.todo = x.todo
              \/ /\ x.op = "deliver" /\ y.at = "invitation"
                 /\ y.key = x.key /\ y.id = x.id /\ y.todo = x.todo
              \/ /\ x.op \in {"retry", "sweep"} \cup Calling /\ y.at = "commit"
                 /\ y.key = x.key /\ y.id = x.id /\ y.todo = x.todo
              \/ /\ x.op = "refuse" /\ y.at = "bound" /\ y.key \in Keys
                 /\ y.id = x.id /\ y.todo = x.todo
                 /\ mutation[y.key] = [status |-> "started", id |-> x.id]
              \/ /\ x.op = "sweep" /\ y.at = "note" /\ y.id \in x.todo
                 /\ y.todo \subseteq x.todo /\ y.key = x.key
<1> DEFINE x == tx[t]
<1>1. /\ TxOK(x, held[t]) /\ x \in TxRecord /\ x.at = "note"
      /\ x.op \in {"sweep", "refuse", "deliver", "retry"} \cup Calling
  BY StageOps DEF IInv, TxOK, Shape
<1>2. PICK y \in CASE x.op = "deliver" ->
                        {[x EXCEPT !.at = IF note[x.id] = 0 THEN "stop" ELSE "invitation"]}
                  [] x.op = "retry" ->
                        {[x EXCEPT !.at = IF note[x.id] = 0 THEN "stop" ELSE "commit"]}
                  [] x.op = "refuse" -> BindKey(x)
                  [] x.op = "sweep" -> NextInvitation(x)
                  [] OTHER -> {[x EXCEPT !.at = "commit"]} :
              tx' = [tx EXCEPT ![t] = y]
  BY Zenon DEF WriteNote
<1> HIDE DEF x
<1>3. \A s \in {"stop", "commit", "invitation"} :
          LET w == [x EXCEPT !.at = s] IN
           /\ w \in TxRecord /\ w.at = s
           /\ w.op = x.op /\ w.key = x.key /\ w.id = x.id /\ w.address = x.address
           /\ w.todo = x.todo /\ w.late = x.late /\ w.number = x.number /\ w.seen = x.seen
  <2>1. {"stop", "commit", "invitation"} \subseteq Statements  BY DEF Statements
  <2> QED  BY <1>1, <2>1, Moves
<1> SUFFICES
      /\ y \in TxRecord
      /\ y.op = x.op /\ y.address = x.address
      /\ y.late = x.late /\ y.number = x.number /\ y.seen = x.seen
      /\ \/ /\ x.op \in {"deliver", "retry"} /\ note[x.id] = 0 /\ y.at = "stop"
            /\ y.key = x.key /\ y.id = x.id /\ y.todo = x.todo
         \/ /\ x.op = "deliver" /\ y.at = "invitation"
            /\ y.key = x.key /\ y.id = x.id /\ y.todo = x.todo
         \/ /\ x.op \in {"retry", "sweep"} \cup Calling /\ y.at = "commit"
            /\ y.key = x.key /\ y.id = x.id /\ y.todo = x.todo
         \/ /\ x.op = "refuse" /\ y.at = "bound" /\ y.key \in Keys
            /\ y.id = x.id /\ y.todo = x.todo
            /\ mutation[y.key] = [status |-> "started", id |-> x.id]
         \/ /\ x.op = "sweep" /\ y.at = "note" /\ y.id \in x.todo
            /\ y.todo \subseteq x.todo /\ y.key = x.key
  BY <1>2 DEF x
<1>4. CASE x.op = "deliver"
  <2>1. y = [x EXCEPT !.at = IF note[x.id] = 0 THEN "stop" ELSE "invitation"]
    BY <1>2, <1>4
  <2> QED  BY <1>3, <1>4, <2>1
<1>5. CASE x.op = "retry"
  <2>1. y = [x EXCEPT !.at = IF note[x.id] = 0 THEN "stop" ELSE "commit"]
    BY <1>2, <1>5
  <2> QED  BY <1>3, <1>5, <2>1
<1>6. CASE x.op = "refuse"
  <2>1. y \in BindKey(x)  BY <1>2, <1>6
  <2>2. x.id \in Invitations /\ invitation[x.id].state = "accepting"
    BY <1>1, <1>6 DEF TxOK, Shape, Admitted, Current, SeenOK, Absent, Deciding
  <2> QED  BY <1>1, <1>6, <2>1, <2>2, Binds
<1>7. CASE x.op = "sweep"
  <2>1. y \in NextInvitation(x)  BY <1>2, <1>7
  <2>2. CASE x.todo = {}
    <3>1. y = [x EXCEPT !.at = "commit"]  BY <2>1, <2>2 DEF NextInvitation
    <3> QED  BY <1>3, <1>7, <3>1
  <2>3. CASE x.todo # {}
    <3>1. PICK i \in x.todo : y = [x EXCEPT !.id = i, !.todo = @ \ {i}, !.at = "note"]
      BY <2>1, <2>3 DEF NextInvitation
    <3>2. i \in Invitations /\ x.todo \ {i} \in SUBSET Invitations /\ "note" \in Statements
      BY <1>1 DEF TxRecord, Statements
    <3> QED  BY <1>1, <1>7, <3>1, <3>2 DEF TxRecord
  <2> QED  BY <2>2, <2>3
<1>8. CASE x.op \in Calling
  <2>1. y = [x EXCEPT !.at = "commit"]  BY <1>2, <1>8 DEF Calling
  <2> QED  BY <1>3, <1>8, <2>1
<1> QED  BY <1>1, <1>4, <1>5, <1>6, <1>7, <1>8

LEMMA WriteNoteStep == \A t \in Txns : IInv /\ WriteNote(t) => IInv'
<1> SUFFICES ASSUME IInv, NEW t \in Txns, WriteNote(t) PROVE IInv'  OBVIOUS
<1> DEFINE x == tx[t]  h == held[t]
<1>1. /\ TxOK(x, h) /\ x.at = "note" /\ x \in TxRecord
      /\ x.op \in {"sweep", "refuse", "deliver", "retry"} \cup Calling
      /\ x.id \in Invitations
  BY StageOps DEF IInv, TxOK, Shape, WriteNote, Deciding
<1>2. PICK y \in TxRecord :
           /\ tx' = [tx EXCEPT ![t] = y]
           /\ y.op = x.op /\ y.address = x.address
           /\ y.late = x.late /\ y.number = x.number /\ y.seen = x.seen
           /\ \/ /\ x.op \in {"deliver", "retry"} /\ note[x.id] = 0 /\ y.at = "stop"
                 /\ y.key = x.key /\ y.id = x.id /\ y.todo = x.todo
              \/ /\ x.op = "deliver" /\ y.at = "invitation"
                 /\ y.key = x.key /\ y.id = x.id /\ y.todo = x.todo
              \/ /\ x.op \in {"retry", "sweep"} \cup Calling /\ y.at = "commit"
                 /\ y.key = x.key /\ y.id = x.id /\ y.todo = x.todo
              \/ /\ x.op = "refuse" /\ y.at = "bound" /\ y.key \in Keys
                 /\ y.id = x.id /\ y.todo = x.todo
                 /\ mutation[y.key] = [status |-> "started", id |-> x.id]
              \/ /\ x.op = "sweep" /\ y.at = "note" /\ y.id \in x.todo
                 /\ y.todo \subseteq x.todo /\ y.key = x.key
  BY <1>1, AfterNote
<1>3. PICK new \in SUBSET {Lock(NoteRow(x.id), "write")} :
          /\ note[x.id] = 0 => new = {}
          /\ held' = [held EXCEPT ![t] = h \cup new]
          /\ \A u \in Txns \ {t} : \A l \in (h \cup new) \ h, m \in held[u] : l.row # m.row
  <2> DEFINE row == NoteRow(x.id)
  <2>1. Wanted(t) = {Lock(row, "write")}  BY <1>1 DEF Wanted
  <2>2. Take(t, IF note[x.id] = 0 THEN {} ELSE {row}, "write")
    BY Zenon DEF WriteNote
  <2>5. Granted(t)  BY DEF WriteNote
  <2> HIDE DEF row
  <2>3. PICK rows \in SUBSET {row} :
             Take(t, rows, "write") /\ (note[x.id] = 0 => rows = {})
    BY <2>2
  <2>4. PICK new \in SUBSET {Lock(row, "write")} :
           /\ rows = {} => new = {}
           /\ held' = [held EXCEPT ![t] = held[t] \cup new]
           /\ \A u \in Txns \ {t} :
                 \A l \in (held[t] \cup new) \ held[t], m \in held[u] : l.row # m.row
    BY <2>1, <2>3, <2>5, TakesAtMost
  <2> QED  BY <2>3, <2>4 DEF row
<1>4. UNCHANGED <<data, due>>  BY DEF WriteNote
<1>5. \A l \in new : l \in Locks /\ l.row = NoteRow(x.id) /\ l.mode = "write"
  BY <1>1, <1>3, LockTypes, LockFields DEF Modes
<1> DEFINE g == h \cup new
<1>6. x.op \in {"sweep", "refuse"} \cup Calling => Lock(InvitationRow(x.id), "lock") \in h
  BY <1>1 DEF TxOK, Shape, Admitted, Holding, Deciding, Absent
<1>7. \A l \in new : Explained(y, g, l)
  <2> SUFFICES ASSUME NEW l \in new PROVE Explained(y, g, l)  OBVIOUS
  <2>1. \/ y.op \in {"retry"} /\ y.at = "commit"
        \/ y.op = "deliver" /\ y.at \in {"invitation", "commit"}
        \/ /\ y.op \in {"sweep"} \cup Calling \cup Deciding
           /\ y.at \in {"note", "bound", "commit"}
           /\ Lock(InvitationRow(x.id), "lock") \in g
    BY <1>1, <1>2, <1>3, <1>6 DEF Deciding
  <2> HIDE DEF g
  <2> QED  BY <1>1, <1>5, <2>1, RowsDiffer DEF Explained
<1>8. \A k \in Keys : Lock(KeyRow(k), "lock") \notin new
  BY <1>5, LockFields
<1>9. TxOK(y, g)
  <2>1. Shape(y)
    <3>1. y.at \in StagesOf(y.op)
      BY <1>1, <1>2 DEF Calling, Deciding, StagesOf
    <3>2. y.op \in Deciding => (y.key \in Keys <=> y.at \in {"bound", "commit"})
      BY <1>1, <1>2 DEF Calling, Deciding
    <3>3. y.op = "sweep" => /\ \A i \in y.todo : y.seen[i] # Absent
                            /\ y.at = "note" => y.id \in Invitations /\ y.seen[y.id] # Absent
      BY <1>1, <1>2 DEF TxOK, Shape, TxRecord, Calling
    <3>4. y.op \notin Deciding => y.key = x.key
      BY <1>2 DEF Calling, Deciding
    <3>5. y.op # "sweep" => y.id = x.id
      BY <1>2 DEF Calling, Deciding
    <3>6. y.op \in Keyed <=> x.op \in {"sweep"} \cup Calling
      BY <1>1, <1>2 DEF Keyed, Calling
    <3> QED
      BY <1>1, <1>2, <3>1, <3>2, <3>3, <3>4, <3>5, <3>6 DEF TxOK, Shape, Keyed, Calling, Deciding
  <2>2. Admitted(y)
    BY <1>1, <1>2 DEF TxOK, Admitted, Calling, Deciding
  <2>3. Holding(y, g)
    <3>1. \A l \in h : Explained(y, g, l)
      BY <1>1, <1>2 DEF TxOK, Holding, Explained, Keyed, Calling, Deciding
    <3> QED
      BY <1>1, <1>2, <1>5, <1>7, <3>1 DEF TxOK, Holding, Keyed, Calling, Deciding
  <2>4. Current(y, g)
    BY <1>1, <1>2, <1>8
       DEF TxOK, Current, KeyOK, SeenOK, InviteOK, LateOK, Keyed, Calling, Deciding
  <2> QED  BY <2>1, <2>2, <2>3, <2>4 DEF TxOK
<1> HIDE DEF g
<1>10. y.op # "invite"  BY <1>1, <1>2 DEF Calling
<1> QED  BY <1>2, <1>3, <1>4, <1>9, <1>10, StatementStep DEF g

LEMMA SweepStep == \A t \in Txns : IInv /\ Sweep(t) => IInv'
<1> SUFFICES ASSUME IInv, NEW t \in Txns, Sweep(t) PROVE IInv'  OBVIOUS
<1> DEFINE x == tx[t]  h == held[t]
           Read(S) == [i \in Invitations |-> IF i \in S THEN invitation[i] ELSE Absent]
<1>1. /\ TxOK(x, h) /\ x.at = "sweep" /\ x.op = "sweep" /\ x \in TxRecord
      /\ x.key \in Keys
  BY StageOps DEF IInv, TxOK, Shape, Sweep, Keyed
<1>2. PICK S \in SUBSET Sweepable(t) :
          /\ Take(t, {InvitationRow(i) : i \in S}, "lock")
          /\ \E y \in NextInvitation([x EXCEPT !.todo = S, !.seen = Read(S)]) :
                tx' = [tx EXCEPT ![t] = y]
  BY Zenon DEF Sweep
<1>3. \A i \in S : /\ i \in Invitations /\ invitation[i].state = "open"
                   /\ <<i, invitation[i].generation>> \in x.late
                   /\ Available(t, InvitationRow(i))
  BY DEF Sweepable
<1> DEFINE z == [x EXCEPT !.todo = S, !.seen = Read(S)]
           new == {Lock(InvitationRow(i), "lock") : i \in S}
           g == h \cup new
<1>4. /\ z \in TxRecord /\ z.todo = S /\ z.seen = Read(S)
      /\ z.op = x.op /\ z.key = x.key /\ z.id = x.id /\ z.address = x.address
      /\ z.late = x.late /\ z.number = x.number
  <2>1. Read(S) \in [Invitations -> InvitationRecord]
    BY DEF IInv, TablesOK, InvitationRecord
  <2>2. S \in SUBSET Invitations  BY <1>3
  <2> HIDE DEF Read
  <2> QED  BY <1>1, <2>1, <2>2 DEF TxRecord
<1>5. PICK y \in NextInvitation(z) : tx' = [tx EXCEPT ![t] = y]
  BY <1>2
<1> HIDE DEF z
<1>6. /\ y \in TxRecord /\ y.seen = Read(S)
      /\ y.op = x.op /\ y.key = x.key /\ y.address = x.address
      /\ y.late = x.late /\ y.number = x.number
      /\ y.todo \subseteq S
      /\ y.at = "commit" \/ (y.at = "note" /\ y.id \in S)
  <2>0. {"note", "commit"} \subseteq Statements  BY DEF Statements
  <2> HIDE DEF Read
  <2>1. CASE z.todo = {}
    <3>1. y = [z EXCEPT !.at = "commit"]  BY <2>1 DEF NextInvitation
    <3> QED  BY <1>4, <2>0, <3>1, Moves
  <2>2. CASE z.todo # {}
    <3>1. PICK i \in z.todo : y = [z EXCEPT !.id = i, !.todo = @ \ {i}, !.at = "note"]
      BY <2>2 DEF NextInvitation
    <3>2. i \in Invitations /\ z.todo \ {i} \in SUBSET Invitations
      BY <1>3, <1>4
    <3> QED  BY <1>4, <2>0, <3>1, <3>2 DEF TxRecord
  <2> QED  BY <2>1, <2>2
<1>7. held' = [held EXCEPT ![t] = g] /\ UNCHANGED <<data, due>>
  <2>1. {Lock(row, "lock") : row \in {InvitationRow(i) : i \in S}} = new  OBVIOUS
  <2> HIDE DEF new
  <2> QED  BY <1>2, <2>1 DEF Take, Sweep
<1>8. /\ \A i \in S : Lock(InvitationRow(i), "lock") \in g
      /\ \A l \in new : /\ l \in Locks /\ l.mode = "lock"
                        /\ \E i \in S : l.row = InvitationRow(i)
  <2>1. ASSUME NEW i \in S
        PROVE  LET l == Lock(InvitationRow(i), "lock")
               IN l \in Locks /\ l.mode = "lock" /\ l.row = InvitationRow(i)
    BY <1>3, LockTypes, LockFields DEF Modes
  <2>2. \A l \in new : \E i \in S : l = Lock(InvitationRow(i), "lock")
    OBVIOUS
  <2> QED  BY <2>1, <2>2
<1> HIDE DEF new
<1>9. \A u \in Txns \ {t} : \A l \in g \ h, m \in held[u] : l.row # m.row
  <2> SUFFICES ASSUME NEW u \in Txns \ {t}, NEW l \in new, NEW m \in held[u]
               PROVE  l.row # m.row
    OBVIOUS
  <2>1. PICK i \in S : l.row = InvitationRow(i)  BY <1>8
  <2>2. Available(t, l.row)  BY <1>3, <2>1
  <2> QED  BY <2>2, AvailableIsFree
<1>10. \A i \in Invitations : y.seen[i] # Absent =>
          i \in S /\ y.seen[i] = invitation[i]
  BY <1>6
<1>11. \A i \in S : y.seen[i] = invitation[i] /\ y.seen[i] # Absent
  <2> SUFFICES ASSUME NEW i \in S PROVE y.seen[i] = invitation[i] /\ invitation[i] # Absent
    OBVIOUS
  <2>1. i \in Invitations /\ invitation[i].state = "open"  BY <1>3
  <2>2. invitation[i] # Absent  BY <2>1 DEF Absent
  <2> QED  BY <1>6, <2>1, <2>2
<1> HIDE DEF Read
<1>12. TxOK(y, g)
  <2>1. Shape(y)
    BY <1>1, <1>3, <1>6, <1>11 DEF TxOK, Shape, Keyed, Calling, Deciding, StagesOf
  <2>2. Admitted(y)
    BY <1>1, <1>3, <1>6, <1>10 DEF Admitted, Calling, Deciding
  <2>3. Holding(y, g)
    <3>1. \A l \in h : Explained(y, g, l)
      BY <1>1, <1>6 DEF TxOK, Holding, Explained, Keyed, Calling, Deciding
    <3>2. ASSUME NEW l \in new PROVE Explained(y, g, l)
      <4>1. PICK i \in S : l.row = InvitationRow(i)  BY <1>8
      <4> HIDE DEF g
      <4> QED  BY <1>1, <1>6, <4>1, RowsDiffer DEF Explained
    <3> QED
      BY <1>1, <1>6, <1>8, <1>10, <3>1, <3>2 DEF TxOK, Holding, Keyed, Calling, Deciding
  <2>4. Current(y, g)
    <3>1. ASSUME NEW k \in Keys, Lock(KeyRow(k), "lock") \in new PROVE FALSE
      <4>1. PICK i \in S : KeyRow(k) = InvitationRow(i)  BY <1>8, <3>1, LockFields
      <4> QED  BY <4>1, RowsDiffer
    <3>2. KeyOK(y, g)
      BY <1>1, <1>6, <3>1 DEF TxOK, Current, KeyOK, Keyed, Deciding
    <3> QED
      BY <1>1, <1>6, <1>10, <3>2 DEF TxOK, Current, SeenOK, InviteOK, LateOK
  <2> QED  BY <2>1, <2>2, <2>3, <2>4 DEF TxOK
<1> HIDE DEF g
<1>13. y.op # "invite"  BY <1>1, <1>6
<1> QED  BY <1>5, <1>6, <1>7, <1>9, <1>12, <1>13, StatementStep

LEMMA ClaimStep == \A t \in Txns : IInv /\ Claim(t) => IInv'
<1> SUFFICES ASSUME IInv, NEW t \in Txns, Claim(t) PROVE IInv'  OBVIOUS
<1> DEFINE x == tx[t]  h == held[t]
           y == [x EXCEPT !.at = "commit"]
<1>1. TxOK(x, h) /\ x.at = "claim" /\ x.op = "claim" /\ x \in TxRecord
  BY StageOps DEF IInv, TxOK, Shape, Claim
<1>2. tx' = [tx EXCEPT ![t] = y] /\ UNCHANGED <<data, due>>
  BY DEF Claim, Goto
<1>3. PICK S \in SUBSET {i \in Invitations : note[i] # 0 /\ Available(t, NoteRow(i))},
           T \in SUBSET {i \in Invitations : /\ invitation[i].state = "accepting"
                                             /\ Available(t, MemberRow(i))} :
          Take(t, {NoteRow(i) : i \in S} \cup {MemberRow(i) : i \in T}, "lock")
  BY Zenon DEF Claim
<1> DEFINE rows == {NoteRow(i) : i \in S} \cup {MemberRow(i) : i \in T}
           new == {Lock(row, "lock") : row \in rows}
           g == h \cup new
<1>4. /\ y \in TxRecord /\ y.at = "commit"
      /\ y.op = x.op /\ y.key = x.key /\ y.id = x.id /\ y.address = x.address
      /\ y.todo = x.todo /\ y.late = x.late /\ y.number = x.number /\ y.seen = x.seen
  BY <1>1, Moves DEF Statements
<1>5. /\ \A row \in rows : Available(t, row)
      /\ \A row \in rows : \/ \E i \in Invitations : row = NoteRow(i)
                           \/ \E i \in Invitations : row = MemberRow(i)
  BY <1>3
<1> HIDE DEF rows, y
<1>6. held' = [held EXCEPT ![t] = g]
  BY <1>3 DEF Take, rows
<1>7. \A l \in new : /\ l \in Locks /\ l.mode = "lock" /\ l.row \in rows
  BY <1>5, LockTypes, LockFields DEF Modes
<1> HIDE DEF new
<1>8. \A u \in Txns \ {t} : \A l \in g \ h, m \in held[u] : l.row # m.row
  <2> SUFFICES ASSUME NEW u \in Txns \ {t}, NEW l \in new, NEW m \in held[u]
               PROVE  l.row # m.row
    OBVIOUS
  <2>1. Available(t, l.row)  BY <1>5, <1>7
  <2> QED  BY <2>1, AvailableIsFree
<1>9. TxOK(y, g)
  <2>1. Shape(y)
    BY <1>1, <1>4 DEF TxOK, Shape, Keyed, Calling, Deciding, StagesOf
  <2>2. Admitted(y)
    BY <1>1, <1>4 DEF TxOK, Admitted, Calling, Deciding
  <2>3. Holding(y, g)
    <3>1. \A l \in h : Explained(y, g, l)
      BY <1>1, <1>4 DEF TxOK, Holding, Explained, Keyed, Calling, Deciding
    <3>2. ASSUME NEW l \in new PROVE Explained(y, g, l)
      <4>1. PICK i \in Invitations : l.row = NoteRow(i) \/ l.row = MemberRow(i)
        BY <1>5, <1>7
      <4> HIDE DEF g
      <4>2. /\ \A k : l.row # KeyRow(k) /\ l.row # AddressRow(k) /\ l.row # InvitationRow(k)
            /\ l.row # SequenceRow
        BY <4>1, RowsDiffer
      <4>3. y.op = "claim" /\ y.at = "commit"  BY <1>1, <1>4
      <4> QED  BY <4>2, <4>3 DEF Explained
    <3> QED
      BY <1>1, <1>4, <1>7, <3>1, <3>2 DEF TxOK, Holding, Keyed, Calling, Deciding
  <2>4. Current(y, g)
    <3>1. \A k \in Keys : Lock(KeyRow(k), "lock") \notin new
      BY <1>5, <1>7, RowsDiffer, LockFields
    <3> QED
      BY <1>1, <1>4, <3>1 DEF TxOK, Current, KeyOK, SeenOK, InviteOK, LateOK, Keyed, Deciding
  <2> QED  BY <2>1, <2>2, <2>3, <2>4 DEF TxOK
<1> HIDE DEF g
<1>10. y.op # "invite"  BY <1>1, <1>4
<1> QED  BY <1>2, <1>4, <1>6, <1>8, <1>9, <1>10, StatementStep

--------------------------------------------------------------------------------
(* Beginnings *)

\* The deadlines a transaction finds passed when it begins are those that are.
LEMMA LateRows ==
    ASSUME TablesOK
    PROVE  \A l \in Late : /\ l \in Invitations \X (1..MaxGeneration)
                           /\ l[2] = invitation[l[1]].generation
                           /\ l[1] \in due
<1> SUFFICES ASSUME NEW i \in due
             PROVE  i \in Invitations /\ invitation[i].generation \in 1..MaxGeneration
  BY DEF Late
<1>1. i \in Invitations /\ invitation[i] # Absent /\ invitation[i] \in InvitationRecord
  BY DEF TablesOK
<1> QED  BY <1>1 DEF InvitationRecord

LEMMA BeginKeyedStep == \A t \in Txns : IInv /\ BeginKeyed(t) => IInv'
<1> SUFFICES ASSUME IInv, NEW t \in Txns, BeginKeyed(t) PROVE IInv'  OBVIOUS
<1>1. PICK op \in Keyed, k \in Keys, i \in Invitations, a \in Addresses :
        /\ op = "invite" => /\ invitation[i] = Absent
                            /\ \A u \in Txns : tx[u].op = "invite" => tx[u].id # i
        /\ Begin(t, [Unused EXCEPT !.op = op, !.key = k,
                        !.id = IF op = "sweep" THEN NULL ELSE i,
                        !.address = IF op = "invite" THEN a ELSE NULL,
                        !.at = "reserve",
                        !.late = {l \in Late : op = "sweep" \/ (op = "accept" /\ l[1] = i)}])
  BY Zenon DEF BeginKeyed
<1> DEFINE late == {l \in Late : op = "sweep" \/ (op = "accept" /\ l[1] = i)}
           id == IF op = "sweep" THEN NULL ELSE i
           address == IF op = "invite" THEN a ELSE NULL
           x == [Unused EXCEPT !.op = op, !.key = k, !.id = id, !.address = address,
                        !.at = "reserve", !.late = late]
<1>2. /\ tx[t] = Unused /\ tx' = [tx EXCEPT ![t] = x] /\ UNCHANGED <<data, due, held>>
  BY <1>1 DEF Begin
<1>3. held[t] = {}
  BY <1>2, UnusedHoldsNothing DEF IInv, TxOK
<1>4. held' = [held EXCEPT ![t] = {}]
  BY <1>2, <1>3 DEF IInv
<1>5. \A l \in late : /\ l \in Invitations \X (1..MaxGeneration)
                      /\ l[2] = invitation[l[1]].generation
                      /\ l[1] \in due
  BY LateRows DEF IInv
<1> HIDE DEF late
<1>6. /\ x.op = op /\ x.key = k /\ x.at = "reserve" /\ x.todo = {} /\ x.late = late
      /\ op # "sweep" => x.id = i
      /\ op = "invite" => x.address = a
      /\ x.seen = Unused.seen
      /\ x \in TxRecord
  <2>1. op \in Keyed \cup Executing \cup {"none"} /\ "reserve" \in Statements
        /\ late \in SUBSET (Invitations \X (1..MaxGeneration))
    BY <1>5 DEF Statements
  <2>2. Unused \in TxRecord /\ Unused.todo = {}  BY UnusedFields
  <2>3. /\ id \in Invitations \cup {NULL} /\ address \in Addresses \cup {NULL}
        /\ op # "sweep" => id = i
        /\ op = "invite" => address = a
    OBVIOUS
  <2> HIDE DEF id, address
  <2>4. /\ x.op = op /\ x.key = k /\ x.at = "reserve" /\ x.todo = {} /\ x.late = late
        /\ x.id = id /\ x.address = address /\ x.seen = Unused.seen
    BY <2>2 DEF TxRecord
  <2>5. x \in TxRecord
    BY <2>1, <2>2, <2>3 DEF TxRecord
  <2> HIDE DEF x
  <2> QED  BY <2>3, <2>4, <2>5
<1> HIDE DEF x
<1>7. \A j \in Invitations : x.seen[j] = Absent
  BY <1>6, UnusedFields
<1>8. TxOK(x, {})
  <2>1. Shape(x)
    BY <1>6, <1>7 DEF Shape, StagesOf, Keyed, Calling, Deciding
  <2>2. Admitted(x)
    BY <1>6, <1>7 DEF Admitted, Calling, Deciding
  <2>3. Holding(x, {})
    BY <1>6, <1>7 DEF Holding, Keyed, Calling, Deciding
  <2>4. KeyOK(x, {})
    BY <1>6 DEF KeyOK, Keyed, Deciding
  <2>5. SeenOK(x) /\ InviteOK(x)
    BY <1>1, <1>6, <1>7 DEF SeenOK, InviteOK
  <2>6. LateOK(x)
    <3>1. \A l \in late : invitation[l[1]].generation \in Nat
      BY <1>5
    <3> QED  BY <1>5, <1>6, <3>1 DEF LateOK
  <2> QED  BY <2>1, <2>2, <2>3, <2>4, <2>5, <2>6 DEF TxOK, Current
<1>9. x.op = "invite" => \A u \in Txns \ {t} : tx[u].op = "invite" => tx[u].id # x.id
  BY <1>1, <1>6
<1> QED  BY <1>2, <1>4, <1>8, <1>9, TxStep

LEMMA BeginExecutingStep == \A t \in Txns : IInv /\ BeginExecuting(t) => IInv'
<1> SUFFICES ASSUME IInv, NEW t \in Txns, BeginExecuting(t) PROVE IInv'  OBVIOUS
<1>0. /\ Unused \in TxRecord
      /\ \A op \in Executing : op \in Keyed \cup Executing \cup {"none"}
      /\ {"member", "note", "claim"} \subseteq Statements
  BY UnusedFields DEF Statements
<1>1. \E x \in TxRecord :
          /\ Begin(t, x)
          /\ x.op \in Executing /\ x.key = NULL /\ x.todo = {} /\ x.late = {}
          /\ x.seen = Unused.seen
          /\ x.op \in Deciding => x.at = "member" /\ x.id \in Invitations
          /\ x.op \in {"deliver", "retry"} => x.at = "note" /\ x.id \in Invitations
          /\ x.op = "claim" => x.at = "claim"
  <2>1. CASE \E op \in {"complete", "refuse"}, i \in Invitations :
                Begin(t, [Unused EXCEPT !.op = op, !.id = i, !.at = "member"])
    <3>1. PICK op \in {"complete", "refuse"}, i \in Invitations :
                Begin(t, [Unused EXCEPT !.op = op, !.id = i, !.at = "member"])
      BY <2>1
    <3> DEFINE x == [Unused EXCEPT !.op = op, !.id = i, !.at = "member"]
    <3>2. /\ x \in TxRecord /\ x.op = op /\ x.id = i /\ x.at = "member"
          /\ x.key = NULL /\ x.todo = {} /\ x.late = {} /\ x.seen = Unused.seen
      BY <1>0, UnusedFields DEF TxRecord, Executing
    <3> HIDE DEF x
    <3> QED  BY <3>1, <3>2 DEF Executing, Deciding, x
  <2>2. CASE \E op \in {"deliver", "retry"}, i \in Invitations :
                Begin(t, [Unused EXCEPT !.op = op, !.id = i, !.at = "note"])
    <3>1. PICK op \in {"deliver", "retry"}, i \in Invitations :
                Begin(t, [Unused EXCEPT !.op = op, !.id = i, !.at = "note"])
      BY <2>2
    <3> DEFINE x == [Unused EXCEPT !.op = op, !.id = i, !.at = "note"]
    <3>2. /\ x \in TxRecord /\ x.op = op /\ x.id = i /\ x.at = "note"
          /\ x.key = NULL /\ x.todo = {} /\ x.late = {} /\ x.seen = Unused.seen
      BY <1>0, UnusedFields DEF TxRecord, Executing
    <3> HIDE DEF x
    <3> QED  BY <3>1, <3>2 DEF Executing, Deciding, x
  <2>3. CASE Begin(t, [Unused EXCEPT !.op = "claim", !.at = "claim"])
    <3> DEFINE x == [Unused EXCEPT !.op = "claim", !.at = "claim"]
    <3>2. /\ x \in TxRecord /\ x.op = "claim" /\ x.at = "claim"
          /\ x.key = NULL /\ x.todo = {} /\ x.late = {} /\ x.seen = Unused.seen
      BY <1>0, UnusedFields DEF TxRecord, Executing
    <3> HIDE DEF x
    <3> QED  BY <2>3, <3>2 DEF Executing, Deciding, x
  <2> QED  BY <2>1, <2>2, <2>3 DEF BeginExecuting
<1>2. PICK x \in TxRecord :
          /\ Begin(t, x)
          /\ x.op \in Executing /\ x.key = NULL /\ x.todo = {} /\ x.late = {}
          /\ x.seen = Unused.seen
          /\ x.op \in Deciding => x.at = "member" /\ x.id \in Invitations
          /\ x.op \in {"deliver", "retry"} => x.at = "note" /\ x.id \in Invitations
          /\ x.op = "claim" => x.at = "claim"
  BY <1>1
<1>3. tx[t] = Unused /\ tx' = [tx EXCEPT ![t] = x] /\ UNCHANGED <<data, due, held>>
  BY <1>2 DEF Begin
<1>4. held[t] = {}
  BY <1>3, UnusedHoldsNothing DEF IInv, TxOK
<1>5. held' = [held EXCEPT ![t] = {}]
  BY <1>3, <1>4 DEF IInv
<1>7. \A j \in Invitations : x.seen[j] = Absent
  BY <1>2, UnusedFields
<1>8. NULL \notin Keys  BY LocksAssumption
<1>9. TxOK(x, {})
  <2>1. Shape(x)
    BY <1>2, <1>7, <1>8 DEF Shape, StagesOf, Keyed, Executing, Calling, Deciding
  <2>2. Admitted(x)
    <3>1. x.op \notin Calling /\ (x.op \in Deciding => x.at = "member")
      BY <1>2 DEF Executing, Calling, Deciding
    <3> QED  BY <1>7, <3>1 DEF Admitted
  <2>3. x.op \notin Keyed /\ x.op # "invite"
    BY <1>2 DEF Executing, Keyed
  <2>4. Holding(x, {})
    BY <1>2, <1>7, <2>3 DEF Holding, Deciding
  <2>5. Current(x, {})
    BY <1>2, <1>7, <2>3 DEF Current, KeyOK, SeenOK, InviteOK, LateOK, Deciding
  <2> QED  BY <2>1, <2>2, <2>4, <2>5 DEF TxOK
<1>10. x.op # "invite"  BY <1>2 DEF Executing
<1> QED  BY <1>3, <1>5, <1>9, <1>10, TxStep

LEMMA TokenComesDueStep == \A i \in Invitations : IInv /\ TokenComesDue(i) => IInv'
<1> SUFFICES ASSUME IInv, NEW i \in Invitations, TokenComesDue(i) PROVE IInv'  OBVIOUS
<1>1. /\ UNCHANGED <<invitation, note, mutation, next, tx, held>>
      /\ due' = due \cup {i} /\ invitation[i] # Absent
  BY DEF TokenComesDue, data, Absent
<1>2. \A x, h : TxOK(x, h) => TxOK(x, h)'
  BY <1>1 DEF TxOK, Current, KeyOK, SeenOK, InviteOK, LateOK, TakenAddress
<1>3. (\A t \in Txns : TxOK(tx[t], held[t]))'
  BY <1>1, <1>2 DEF IInv
<1>4. TablesOK' /\ NumbersOK' /\ StartedKeysAreBound'
  BY <1>1 DEF IInv, TablesOK, NumbersOK, StartedKeysAreBound, BoundKeys
<1>5. Exclusive' /\ OwnInvites'
  BY <1>1 DEF IInv, Exclusive, OwnInvites
<1> QED  BY <1>1, <1>3, <1>4, <1>5 DEF IInv

--------------------------------------------------------------------------------
(* Commits *)

\* Rows that are there, and what an update makes of them.
LEMMA RowFields ==
    ASSUME NEW row \in InvitationRecord, row # Absent
    PROVE  /\ row.state \in Invited /\ row.generation \in 1..MaxGeneration
           /\ row.number \in Nat \ {0} /\ row.address \in Addresses
           /\ \A s \in Invited :
                 LET w == [row EXCEPT !.state = s] IN
                 /\ w \in InvitationRecord /\ w # Absent
                 /\ w.state = s /\ w.generation = row.generation
                 /\ w.number = row.number /\ w.address = row.address
           /\ row.generation < MaxGeneration =>
                 LET w == [row EXCEPT !.generation = @ + 1] IN
                 /\ w \in InvitationRecord /\ w # Absent
                 /\ w.state = row.state /\ w.generation = row.generation + 1
                 /\ w.number = row.number /\ w.address = row.address
<1>1. row \in [state : Invited, generation : 1..MaxGeneration,
               number : Nat \ {0}, address : Addresses]
  BY DEF InvitationRecord
<1>2. MaxGeneration \in Nat  BY LocksAssumption
<1>3. Absent.state \notin Invited  BY DEF Absent, Invited
<1>4. ASSUME NEW s \in Invited
      PROVE  LET w == [row EXCEPT !.state = s] IN
             /\ w \in InvitationRecord /\ w # Absent
             /\ w.state = s /\ w.generation = row.generation
             /\ w.number = row.number /\ w.address = row.address
  <2> DEFINE w == [row EXCEPT !.state = s]
  <2>1. /\ w \in InvitationRecord /\ w.state = s /\ w.generation = row.generation
        /\ w.number = row.number /\ w.address = row.address
    BY <1>1 DEF InvitationRecord
  <2>2. w # Absent  BY <1>3, <2>1
  <2> QED  BY <2>1, <2>2
<1>5. ASSUME row.generation < MaxGeneration
      PROVE  LET w == [row EXCEPT !.generation = @ + 1] IN
             /\ w \in InvitationRecord /\ w # Absent
             /\ w.state = row.state /\ w.generation = row.generation + 1
             /\ w.number = row.number /\ w.address = row.address
  <2> DEFINE w == [row EXCEPT !.generation = @ + 1]
  <2>1. row.generation + 1 \in 1..MaxGeneration  BY <1>1, <1>2, <1>5
  <2>2. /\ w \in InvitationRecord /\ w.state = row.state /\ w.generation = row.generation + 1
        /\ w.number = row.number /\ w.address = row.address
    BY <1>1, <2>1 DEF InvitationRecord
  <2>3. w # Absent  BY <1>1, <1>3, <2>2
  <2> QED  BY <2>2, <2>3
<1> QED  BY <1>1, <1>4, <1>5

\* How a committing transaction changes a row it read under its lock.
Updates(x, row, new) ==
    /\ new \in InvitationRecord /\ new # Absent
    /\ new.number = row.number /\ new.address = row.address
    /\ IF x.op = "resend" THEN new.generation = row.generation + 1
       ELSE new.generation = row.generation
    /\ CASE x.op = "resend" -> row.state = "open" /\ new.state = "open"
         [] x.op = "accept" -> row.state = "open" /\ new.state \in {"accepting", "expired"}
         [] x.op = "revoke" -> row.state = "open" /\ new.state = "revoked"
         [] x.op = "sweep" -> row.state = "open" /\ new.state = "expired"
         [] OTHER -> row.state = "accepting" /\ new.state \in {"accepted", "expired"}

\* What a transaction that is about to commit knows.
LEMMA AtCommit ==
    ASSUME IInv, NEW t \in Txns, tx[t].at = "commit"
    PROVE  LET x == tx[t]  h == held[t] IN
           /\ x \in TxRecord /\ TxOK(x, h)
           /\ x.op \in {"invite", "sweep", "deliver", "retry", "claim"} \cup Calling \cup Deciding
           /\ x.op \in {"invite", "sweep"} \cup Calling =>
                 x.key \in Keys /\ mutation[x.key].status = "vacant"
           /\ x.op \in Deciding =>
                 x.key \in Keys /\ mutation[x.key] = [status |-> "started", id |-> x.id]
           /\ x.op \in {"deliver", "retry", "claim"} => x.key \notin Keys
           /\ x.key \in Keys => Lock(KeyRow(x.key), "write") \in h
           /\ x.op \in {"invite", "deliver", "retry"} \cup Calling \cup Deciding =>
                 x.id \in Invitations
           /\ x.op \in Calling \cup Deciding => x.seen[x.id] # Absent
           /\ \A i \in Invitations : x.seen[i] # Absent =>
                 /\ x.seen[i] = invitation[i] /\ Lock(InvitationRow(i), "lock") \in h
                 /\ x.op \in {"sweep"} \cup Calling \cup Deciding
                 /\ x.op # "sweep" => i = x.id
<1> DEFINE x == tx[t]  h == held[t]
<1>1. x \in TxRecord /\ TxOK(x, h)  BY DEF IInv
<1>2. x.op \in {"invite", "sweep", "deliver", "retry", "claim"} \cup Calling \cup Deciding
  BY <1>1 DEF TxOK, Shape, StagesOf, TxRecord, Keyed, Executing, Calling, Deciding
<1>3. x.op \in {"invite", "sweep"} \cup Calling =>
         x.key \in Keys /\ mutation[x.key].status = "vacant"
  BY <1>1 DEF TxOK, Shape, Current, KeyOK, Keyed, Calling
<1>4. x.op \in Deciding =>
         x.key \in Keys /\ mutation[x.key] = [status |-> "started", id |-> x.id]
  BY <1>1 DEF TxOK, Shape, Current, KeyOK
<1>5. x.op \in {"deliver", "retry", "claim"} => x.key \notin Keys
  <2>1. NULL \notin Keys  BY LocksAssumption
  <2> QED  BY <1>1, <2>1 DEF TxOK, Shape, Keyed, Deciding
<1>6. x.key \in Keys => Lock(KeyRow(x.key), "write") \in h
  BY <1>1, <1>2, <1>5 DEF TxOK, Holding, Keyed, Calling
<1>7. x.op \in {"invite", "deliver", "retry"} \cup Calling \cup Deciding =>
         x.id \in Invitations
  BY <1>1 DEF TxOK, Shape
<1>8. x.op \in Calling \cup Deciding => x.seen[x.id] # Absent
  BY <1>1 DEF TxOK, Admitted, Absent
<1>9. \A i \in Invitations : x.seen[i] # Absent =>
         /\ x.seen[i] = invitation[i] /\ Lock(InvitationRow(i), "lock") \in h
         /\ x.op \in {"sweep"} \cup Calling \cup Deciding
         /\ x.op # "sweep" => i = x.id
  BY <1>1 DEF TxOK, Admitted, Holding, Current, SeenOK
<1> QED  BY <1>1, <1>2, <1>3, <1>4, <1>5, <1>6, <1>7, <1>8, <1>9

\* A row it read is updated as its operation says.
LEMMA NewRows ==
    ASSUME IInv, NEW t \in Txns, tx[t].at = "commit",
           NEW i \in Invitations, tx[t].seen[i] # Absent
    PROVE  Updates(tx[t], invitation[i], NewRow(t, i))
<1> DEFINE x == tx[t]
           row == x.seen[i]
<1>1. /\ x.op \in {"sweep"} \cup Calling \cup Deciding
      /\ x.op # "sweep" => i = x.id
      /\ row = invitation[i] /\ row # Absent /\ row \in InvitationRecord
      /\ TxOK(x, held[t])
  <2>1. \A j \in Invitations :
           invitation[j] = Absent \/ invitation[j] \in InvitationRecord
    BY DEF IInv, TablesOK
  <2>2. /\ row = invitation[i]
        /\ x.op \in {"sweep"} \cup Calling \cup Deciding
        /\ x.op # "sweep" => i = x.id
    BY AtCommit
  <2>3. TxOK(x, held[t])  BY AtCommit
  <2> QED  BY <2>1, <2>2, <2>3
<1>2. /\ x.op \in Calling \cup {"sweep"} => row.state = "open"
      /\ x.op = "resend" => row.generation < MaxGeneration
      /\ x.op \in Deciding => row.state = "accepting"
  BY <1>1 DEF TxOK, Admitted, Calling, Deciding
<1>3. \A s \in {"revoked", "accepting", "accepted", "expired"} : \A w :
          w = [row EXCEPT !.state = s] =>
             /\ w \in InvitationRecord /\ w # Absent /\ w.state = s
             /\ w.generation = row.generation
             /\ w.number = row.number /\ w.address = row.address
  <2>1. {"revoked", "accepting", "accepted", "expired"} \subseteq Invited  BY DEF Invited
  <2> HIDE DEF row
  <2> SUFFICES ASSUME NEW s \in Invited
               PROVE  LET w == [row EXCEPT !.state = s] IN
                      /\ w \in InvitationRecord /\ w # Absent /\ w.state = s
                      /\ w.generation = row.generation
                      /\ w.number = row.number /\ w.address = row.address
    BY <2>1
  <2> QED  BY <1>1, RowFields
<1> SUFFICES Updates(x, row, NewRow(t, i))  BY <1>1
<1>4. CASE x.op = "resend"
  <2>1. NewRow(t, i) = [row EXCEPT !.generation = @ + 1]  BY <1>4 DEF NewRow
  <2>2. row.state = "open" /\ row.generation < MaxGeneration  BY <1>2, <1>4 DEF Calling
  <2> HIDE DEF row
  <2> QED  BY <1>1, <1>4, <2>1, <2>2, RowFields DEF Updates
<1>5. CASE x.op = "revoke"
  <2>1. NewRow(t, i) = [row EXCEPT !.state = "revoked"]  BY <1>5 DEF NewRow
  <2>2. row.state = "open"  BY <1>2, <1>5 DEF Calling
  <2> HIDE DEF row
  <2>3. /\ NewRow(t, i) \in InvitationRecord /\ NewRow(t, i) # Absent
        /\ NewRow(t, i).generation = row.generation
        /\ NewRow(t, i).number = row.number /\ NewRow(t, i).address = row.address
        /\ NewRow(t, i).state = "revoked"
    BY <1>3, <2>1
  <2> QED  BY <1>5, <2>2, <2>3 DEF Updates
<1>6. CASE x.op = "accept"
  <2>1. PICK s \in {"accepting", "expired"} : NewRow(t, i) = [row EXCEPT !.state = s]
    <3>1. CASE IsLate(x, row)  BY <1>6, <3>1 DEF NewRow
    <3>2. CASE ~IsLate(x, row)  BY <1>6, <3>2 DEF NewRow
    <3> QED  BY <3>1, <3>2
  <2>2. row.state = "open"  BY <1>2, <1>6 DEF Calling
  <2> HIDE DEF row
  <2>3. /\ NewRow(t, i) \in InvitationRecord /\ NewRow(t, i) # Absent
        /\ NewRow(t, i).generation = row.generation
        /\ NewRow(t, i).number = row.number /\ NewRow(t, i).address = row.address
        /\ NewRow(t, i).state \in {"accepting", "expired"}
    BY <1>3, <2>1
  <2> QED  BY <1>6, <2>2, <2>3 DEF Updates
<1>7. CASE x.op = "complete"
  <2>1. NewRow(t, i) = [row EXCEPT !.state = "accepted"]  BY <1>7 DEF NewRow
  <2>2. row.state = "accepting"  BY <1>2, <1>7 DEF Deciding
  <2> HIDE DEF row
  <2>3. /\ NewRow(t, i) \in InvitationRecord /\ NewRow(t, i) # Absent
        /\ NewRow(t, i).generation = row.generation
        /\ NewRow(t, i).number = row.number /\ NewRow(t, i).address = row.address
        /\ NewRow(t, i).state = "accepted"
    BY <1>3, <2>1
  <2> QED  BY <1>7, <2>2, <2>3 DEF Updates
<1>8. CASE x.op \in {"sweep", "refuse"}
  <2>1. NewRow(t, i) = [row EXCEPT !.state = "expired"]  BY <1>8 DEF NewRow
  <2>2. row.state = IF x.op = "sweep" THEN "open" ELSE "accepting"
    BY <1>2, <1>8 DEF Deciding
  <2> HIDE DEF row
  <2>3. /\ NewRow(t, i) \in InvitationRecord /\ NewRow(t, i) # Absent
        /\ NewRow(t, i).generation = row.generation
        /\ NewRow(t, i).number = row.number /\ NewRow(t, i).address = row.address
        /\ NewRow(t, i).state = "expired"
    BY <1>3, <2>1
  <2> QED  BY <1>8, <2>2, <2>3 DEF Updates
<1> QED  BY <1>1, <1>4, <1>5, <1>6, <1>7, <1>8 DEF Calling, Deciding

\* What becomes of each row when a transaction commits.
LEMMA RowChanges ==
    ASSUME IInv, NEW t \in Txns, Commit(t), NEW i \in Invitations
    PROVE  LET x == tx[t] IN
           \/ /\ invitation'[i] = invitation[i]
              /\ x.seen[i] = Absent
              /\ ~(x.op = "invite" /\ i = x.id)
           \/ /\ x.op = "invite" /\ i = x.id /\ invitation[i] = Absent
              /\ invitation'[i] = [state |-> "open", generation |-> 1,
                                   number |-> x.number, address |-> x.address]
           \/ /\ x.op # "invite" /\ x.seen[i] # Absent /\ invitation[i] # Absent
              /\ Lock(InvitationRow(i), "lock") \in held[t]
              /\ Updates(x, invitation[i], invitation'[i])
<1> DEFINE x == tx[t]
<1>0. tx[t].at = "commit"  BY DEF Commit
<1>1. invitation'[i] = IF i \in Written(t) THEN NewRow(t, i) ELSE invitation[i]
  BY DEF Commit
<1>2. \A j \in Invitations : x.seen[j] # Absent =>
         /\ x.seen[j] = invitation[j] /\ Lock(InvitationRow(j), "lock") \in held[t]
         /\ x.op \in {"sweep"} \cup Calling \cup Deciding
  BY <1>0, AtCommit
<1>3. CASE x.op = "invite"
  <2>1. i \in Written(t) <=> i = x.id  BY <1>3 DEF Written
  <2>2. x.seen[i] = Absent  BY <1>2, <1>3 DEF Calling, Deciding
  <2>3. invitation[x.id] = Absent
    BY <1>3 DEF IInv, TxOK, Current, InviteOK
  <2>4. NewRow(t, i) = [state |-> "open", generation |-> 1,
                        number |-> x.number, address |-> x.address]
    BY <1>3 DEF NewRow
  <2> QED  BY <1>1, <1>3, <2>1, <2>2, <2>3, <2>4
<1>4. CASE x.op # "invite"
  <2>1. i \in Written(t) <=> x.seen[i] # Absent
    BY <1>2, <1>4 DEF Written, Calling, Deciding
  <2>2. CASE x.seen[i] = Absent  BY <1>1, <1>4, <2>1, <2>2
  <2>3. CASE x.seen[i] # Absent
    <3>1. Updates(x, invitation[i], NewRow(t, i))  BY <1>0, <2>3, NewRows
    <3> QED  BY <1>1, <1>2, <1>4, <2>1, <2>3, <3>1
  <2> QED  BY <2>2, <2>3
<1> QED  BY <1>3, <1>4

\* The cases of an update, for whoever needs one of them.
LEMMA UpdateCases ==
    ASSUME NEW x, NEW row, NEW new, Updates(x, row, new),
           x.op \in {"sweep"} \cup Calling \cup Deciding
    PROVE  /\ x.op = "resend" => row.state = "open" /\ new.state = "open"
           /\ x.op = "accept" => row.state = "open" /\ new.state \in {"accepting", "expired"}
           /\ x.op = "revoke" => row.state = "open" /\ new.state = "revoked"
           /\ x.op = "sweep" => row.state = "open" /\ new.state = "expired"
           /\ x.op \in Deciding => row.state = "accepting" /\ new.state \in {"accepted", "expired"}
           /\ row.state \in {"open", "accepting"}
<1>1. CASE x.op = "resend"  BY <1>1 DEF Updates, Deciding
<1>2. CASE x.op = "accept"  BY <1>2 DEF Updates, Deciding
<1>3. CASE x.op = "revoke"  BY <1>3 DEF Updates, Deciding
<1>4. CASE x.op = "sweep"  BY <1>4 DEF Updates, Deciding
<1>5. CASE x.op \in Deciding  BY <1>5 DEF Updates, Deciding
<1> QED  BY <1>1, <1>2, <1>3, <1>4, <1>5 DEF Calling

\* A transaction that commits leaves typed tables behind.
LEMMA CommitTables ==
    ASSUME IInv, NEW t \in Txns, Commit(t)
    PROVE  TablesOK'
<1> DEFINE x == tx[t]
<1>0. x.at = "commit"  BY DEF Commit
<1>1. /\ x \in TxRecord /\ TxOK(x, held[t])
      /\ x.op \in {"invite", "sweep", "deliver", "retry", "claim"} \cup Calling \cup Deciding
      /\ x.op \in {"invite", "deliver", "retry"} \cup Calling \cup Deciding => x.id \in Invitations
  BY <1>0, AtCommit
<1>2. TablesOK  BY DEF IInv
<1>3. MaxGeneration \in Nat \ {0}  BY LocksAssumption
<1>4. \A i \in Invitations : /\ invitation'[i] \in InvitationRecord
                             /\ invitation[i] # Absent => invitation'[i] # Absent
                             /\ invitation'[i] # Absent => invitation'[i].generation \in 1..MaxGeneration
  <2> SUFFICES ASSUME NEW i \in Invitations
               PROVE  /\ invitation'[i] \in InvitationRecord
                      /\ invitation[i] # Absent => invitation'[i] # Absent
    BY RowFields
  <2>1. CASE invitation'[i] = invitation[i]  BY <1>2, <2>1 DEF TablesOK
  <2>2. CASE /\ x.op = "invite" /\ invitation[i] = Absent
             /\ invitation'[i] = [state |-> "open", generation |-> 1,
                                  number |-> x.number, address |-> x.address]
    <3>1. x.number = next /\ x.address \in Addresses
      BY <1>0, <1>1, <2>2 DEF TxOK, Shape, Current, InviteOK
    <3>2. next \in Nat \ {0}  BY <1>2 DEF TablesOK
    <3>3. 1 \in 1..MaxGeneration /\ "open" \in Invited  BY <1>3 DEF Invited
    <3> QED  BY <2>2, <3>1, <3>2, <3>3 DEF InvitationRecord
  <2>3. CASE Updates(x, invitation[i], invitation'[i])  BY <2>3 DEF Updates
  <2> QED  BY <2>1, <2>2, <2>3, RowChanges
<1>5. invitation' \in [Invitations -> InvitationRecord]
  BY <1>4 DEF Commit
<1>6. note' \in [Invitations -> 0..MaxGeneration]
  <2>1. note \in [Invitations -> 0..MaxGeneration] /\ 0 \in 0..MaxGeneration
    BY <1>2, <1>3 DEF TablesOK
  <2>2. CASE note' = [i \in Invitations |->
                      IF i \in Written(t) THEN NewNote(t, i)
                      ELSE IF tx[t].op = "deliver" /\ i = tx[t].id THEN 0 ELSE note[i]]
    <3>1. \A i \in Invitations : i \in Written(t) => NewNote(t, i) \in 0..MaxGeneration
      <4> SUFFICES ASSUME NEW i \in Invitations, i \in Written(t)
                   PROVE  NewNote(t, i) \in 0..MaxGeneration
        OBVIOUS
      <4>1. NewRow(t, i) = invitation'[i]  BY DEF Commit
      <4>2. CASE x.op \in {"invite", "resend"}
        <5>1. invitation'[i] # Absent /\ invitation'[i].state = "open"
          <6>1. CASE x.op = "invite"
            <7>1. i = x.id  BY <6>1 DEF Written
            <7>2. invitation'[i] = [state |-> "open", generation |-> 1,
                                    number |-> x.number, address |-> x.address]
              BY <6>1, <7>1, RowChanges
            <7> QED  BY <7>2 DEF Absent
          <6>2. CASE x.op = "resend"
            <7>1. x.seen[i] # Absent  BY <6>2 DEF Written
            <7>2. Updates(x, invitation[i], invitation'[i])  BY <6>2, <7>1, RowChanges
            <7>3. invitation'[i].state = "open"  BY <6>2, <7>2, UpdateCases DEF Calling
            <7> QED  BY <7>2, <7>3 DEF Updates
          <6> QED  BY <4>2, <6>1, <6>2
        <5>2. NewNote(t, i) = invitation'[i].generation
          BY <4>1, <4>2, <5>1 DEF NewNote
        <5> QED  BY <1>3, <1>4, <4>1, <5>1, <5>2
      <4>3. CASE x.op \notin {"invite", "resend"}
        <5>1. NewNote(t, i) = note[i] \/ NewNote(t, i) = 0  BY <4>3 DEF NewNote
        <5> QED  BY <2>1, <5>1
      <4> QED  BY <4>2, <4>3
    <3> QED  BY <2>1, <2>2, <3>1
  <2>3. CASE note' = [note EXCEPT ![tx[t].id] = 0]  BY <2>1, <2>3
  <2> QED  BY <2>2, <2>3 DEF Commit
<1>7. mutation' \in [Keys -> MutationRecord]
  <2>1. mutation \in [Keys -> MutationRecord]  BY <1>2 DEF TablesOK
  <2>2. ASSUME x.key \in Keys PROVE NewKey(t) \in MutationRecord
    <3>1. x.id \in Invitations \cup {NULL}  BY <1>1 DEF TxRecord
    <3>2. \/ NewKey(t) = [status |-> "started", id |-> x.id]
          \/ NewKey(t) = Free
          \/ NewKey(t) = [status |-> "completed", id |-> NULL]
          \/ NewKey(t) = [status |-> "completed", id |-> x.id]
      BY Zenon DEF NewKey
    <3> QED  BY <3>1, <3>2 DEF MutationRecord, Free
  <2>3. mutation' = [k \in Keys |-> IF k = x.key THEN NewKey(t) ELSE mutation[k]]
    BY DEF Commit
  <2> QED  BY <2>1, <2>2, <2>3
<1>8. next' \in Nat \ {0}
  BY <1>1, <1>2 DEF Commit, TablesOK, TxRecord
<1>9. due' \subseteq {i \in Invitations : invitation'[i] # Absent}
  <2>1. due' \subseteq due  BY DEF Commit
  <2> QED  BY <1>2, <1>4, <2>1 DEF TablesOK
<1> QED  BY <1>5, <1>6, <1>7, <1>8, <1>9 DEF TablesOK

\* A creation takes the next number, and no other commit touches a number.
LEMMA CommitNumbers ==
    ASSUME IInv, NEW t \in Txns, Commit(t)
    PROVE  NumbersOK'
<1> DEFINE x == tx[t]
           created == {i \in Invitations : invitation[i] # Absent}
           made == {i \in Invitations : invitation'[i] # Absent}
<1>0. x.at = "commit"  BY DEF Commit
<1>1. NumbersOK /\ next \in Nat \ {0}  BY DEF IInv, TablesOK
<1> SUFFICES /\ {invitation'[i].number : i \in made} = 1..(next' - 1)
             /\ \A i, j \in made : invitation'[i].number = invitation'[j].number => i = j
  BY DEF NumbersOK
<1>2. /\ {invitation[i].number : i \in created} = 1..(next - 1)
      /\ \A i, j \in created : invitation[i].number = invitation[j].number => i = j
  BY <1>1 DEF NumbersOK
<1>3. \A i \in Invitations :
         ~(x.op = "invite" /\ i = x.id) =>
            /\ invitation'[i].number = invitation[i].number
            /\ i \in made <=> i \in created
  BY RowChanges DEF Updates
<1>4. CASE x.op = "invite"
  <2>1. /\ x.id \in Invitations /\ x.number = next
        /\ next' = next + 1
        /\ invitation[x.id] = Absent
    BY <1>0, <1>4, AtCommit DEF Commit, TxOK, Current, InviteOK
  <2>2. invitation'[x.id] = [state |-> "open", generation |-> 1,
                             number |-> x.number, address |-> x.address]
    BY <1>4, <2>1, RowChanges
  <2>3. invitation'[x.id].number = next /\ invitation'[x.id] # Absent
    BY <2>1, <2>2 DEF Absent
  <2>4. made = created \cup {x.id} /\ x.id \notin created
    BY <1>3, <2>1, <2>3
  <2>5. \A i \in created : invitation'[i].number = invitation[i].number
                           /\ invitation[i].number \in 1..(next - 1)
    BY <1>2, <1>3, <2>4
  <2>6. {invitation'[i].number : i \in made} = {invitation[i].number : i \in created} \cup {next}
    BY <2>3, <2>4, <2>5
  <2>7. 1..(next' - 1) = 1..(next - 1) \cup {next}  BY <1>1, <2>1
  <2>8. ASSUME NEW i \in made, NEW j \in made, invitation'[i].number = invitation'[j].number
        PROVE  i = j
    <3>1. next \notin 1..(next - 1)  BY <1>1
    <3> HIDE DEF made, created
    <3> QED  BY <1>2, <2>3, <2>4, <2>5, <2>8, <3>1
  <2> QED  BY <1>2, <2>6, <2>7, <2>8
<1>5. CASE x.op # "invite"
  <2>1. next' = next  BY <1>5 DEF Commit
  <2>2. made = created  BY <1>3, <1>5
  <2>3. \A i \in created : invitation'[i].number = invitation[i].number
    BY <1>3, <1>5
  <2>4. {invitation'[i].number : i \in made} = {invitation[i].number : i \in created}
    BY <2>2, <2>3
  <2> QED  BY <1>2, <2>1, <2>2, <2>3, <2>4
<1> QED  BY <1>4, <1>5

\* A key is bound when an acceptance starts, and let go when it is decided.
LEMMA CommitKeys ==
    ASSUME IInv, NEW t \in Txns, Commit(t)
    PROVE  StartedKeysAreBound'
<1> DEFINE x == tx[t]
           Bound(i) == {k \in Keys : mutation'[k] = [status |-> "started", id |-> i]}
<1>0. x.at = "commit"  BY DEF Commit
<1> SUFFICES ASSUME NEW i \in Invitations
             PROVE  IF invitation'[i].state = "accepting"
                    THEN \E k \in Keys : Bound(i) = {k}
                    ELSE Bound(i) = {}
  BY DEF StartedKeysAreBound, BoundKeys
<1>1. /\ x.op \in {"invite", "sweep", "deliver", "retry", "claim"} \cup Calling \cup Deciding
      /\ x.op \in {"invite", "sweep"} \cup Calling =>
            x.key \in Keys /\ mutation[x.key].status = "vacant"
      /\ x.op \in Deciding =>
            x.key \in Keys /\ mutation[x.key] = [status |-> "started", id |-> x.id]
      /\ x.op \in {"deliver", "retry", "claim"} => x.key \notin Keys
      /\ x.op \in Calling \cup Deciding => x.id \in Invitations /\ x.seen[x.id] # Absent
      /\ \A j \in Invitations : x.seen[j] # Absent =>
            /\ x.op \in {"sweep"} \cup Calling \cup Deciding
            /\ x.op # "sweep" => j = x.id
  BY <1>0, AtCommit
<1>2. IF invitation[i].state = "accepting"
      THEN \E k \in Keys : BoundKeys(i) = {k} ELSE BoundKeys(i) = {}
  BY DEF IInv, StartedKeysAreBound
<1>3. \A k \in Keys : mutation'[k] = IF k = x.key THEN NewKey(t) ELSE mutation[k]
  BY DEF Commit
<1>4. /\ x.seen[i] = Absent /\ ~(x.op = "invite" /\ i = x.id) => invitation'[i] = invitation[i]
      /\ x.op = "invite" /\ i = x.id =>
            invitation[i].state # "accepting" /\ invitation'[i].state # "accepting"
      /\ x.seen[i] # Absent => Updates(x, invitation[i], invitation'[i])
  <2>1. CASE x.op = "invite" /\ i = x.id
    <3>1. /\ invitation[i] = Absent
          /\ invitation'[i] = [state |-> "open", generation |-> 1,
                               number |-> x.number, address |-> x.address]
      BY <2>1, RowChanges
    <3>2. x.seen[i] = Absent  BY <1>1, <2>1 DEF Calling, Deciding
    <3> QED  BY <2>1, <3>1, <3>2 DEF Absent
  <2>2. CASE ~(x.op = "invite" /\ i = x.id)
    <3>1. \/ invitation'[i] = invitation[i] /\ x.seen[i] = Absent
          \/ x.seen[i] # Absent /\ Updates(x, invitation[i], invitation'[i])
      BY <2>2, RowChanges
    <3> QED  BY <2>2, <3>1
  <2> QED  BY <2>1, <2>2
<1>5. CASE x.op \in {"deliver", "retry", "claim"}
  <2>1. invitation'[i] = invitation[i]
    BY <1>1, <1>4, <1>5 DEF Calling, Deciding
  <2>2. Bound(i) = BoundKeys(i)  BY <1>1, <1>3, <1>5 DEF BoundKeys
  <2> QED  BY <1>2, <2>1, <2>2
<1>6. CASE \/ x.op \in {"invite", "sweep", "resend", "revoke"}
           \/ x.op = "accept" /\ invitation'[x.id].state # "accepting"
  <2>1. invitation'[i].state = "accepting" <=> invitation[i].state = "accepting"
    <3>1. CASE x.seen[i] # Absent
      <4>1. Updates(x, invitation[i], invitation'[i])  BY <1>4, <3>1
      <4>2. x.op \in {"sweep"} \cup Calling \cup Deciding  BY <1>1, <3>1
      <4>3. x.op = "accept" => i = x.id  BY <1>1, <3>1
      <4>4. x.op = "accept" => invitation'[i].state # "accepting"
        BY <1>6, <4>3
      <4>5. CASE x.op = "accept"  BY <4>1, <4>2, <4>4, <4>5, UpdateCases
      <4>6. CASE x.op \in {"sweep", "resend", "revoke"}
        BY <4>1, <4>2, <4>6, UpdateCases
      <4>7. x.op # "invite"  BY <4>2 DEF Calling, Deciding
      <4> QED  BY <1>6, <4>5, <4>6, <4>7
    <3>2. CASE x.seen[i] = Absent  BY <1>4, <3>2
    <3> QED  BY <3>1, <3>2
  <2>2. NewKey(t).status # "started"
    <3>1. CASE x.op = "accept"
      <4>1. NewRow(t, x.id) = invitation'[x.id]
        <5>1. x.id \in Written(t) /\ x.id \in Invitations
          BY <1>1, <3>1 DEF Written, Calling
        <5> QED  BY <5>1 DEF Commit
      <4> QED  BY <1>6, <3>1, <4>1 DEF NewKey, Free
    <3>2. CASE x.op = "sweep"  BY <3>2 DEF NewKey
    <3>3. CASE x.op \in {"invite", "resend", "revoke"}  BY <3>3 DEF NewKey
    <3> QED  BY <1>6, <3>1, <3>2, <3>3
  <2>3. mutation[x.key].status # "started"  BY <1>1, <1>6 DEF Calling
  <2>4. Bound(i) = BoundKeys(i)  BY <1>3, <2>2, <2>3 DEF BoundKeys
  <2> QED  BY <1>2, <2>1, <2>4
<1>7. CASE x.op = "accept" /\ invitation'[x.id].state = "accepting"
  <2>1. x.key \in Keys /\ mutation[x.key].status = "vacant"
        /\ x.id \in Invitations /\ x.seen[x.id] # Absent
    BY <1>1, <1>7 DEF Calling
  <2>2. NewKey(t) = [status |-> "started", id |-> x.id]
    <3>1. NewRow(t, x.id) = invitation'[x.id]
      <4>1. x.id \in Written(t)  BY <1>7, <2>1 DEF Written
      <4> QED  BY <2>1, <4>1 DEF Commit
    <3>2. x.op = "accept" /\ NewRow(t, x.id).state = "accepting"  BY <1>7, <3>1
    <3> QED  BY <3>2 DEF NewKey
  <2>3. CASE i = x.id
    <3>1. invitation[i].state = "open"
      BY <1>4, <1>7, <2>1, <2>3, UpdateCases DEF Calling
    <3>2. BoundKeys(i) = {}  BY <1>2, <3>1
    <3>3. Bound(i) = {x.key}  BY <1>3, <2>1, <2>2, <2>3, <3>2 DEF BoundKeys
    <3> QED  BY <1>7, <2>1, <2>3, <3>3
  <2>4. CASE i # x.id
    <3>1. invitation'[i] = invitation[i]  BY <1>1, <1>4, <1>7, <2>4
    <3>2. Bound(i) = BoundKeys(i)  BY <1>3, <2>1, <2>2, <2>4 DEF BoundKeys
    <3> QED  BY <1>2, <3>1, <3>2
  <2> QED  BY <2>3, <2>4
<1>8. CASE x.op \in Deciding
  <2>1. /\ x.key \in Keys /\ mutation[x.key] = [status |-> "started", id |-> x.id]
        /\ x.id \in Invitations /\ x.seen[x.id] # Absent
    BY <1>1, <1>8
  <2>2. NewKey(t).status # "started"
    <3>1. CASE x.op = "complete"  BY <3>1 DEF NewKey
    <3>2. CASE x.op = "refuse"  BY <3>2 DEF NewKey, Free
    <3> QED  BY <1>8, <3>1, <3>2 DEF Deciding
  <2>3. CASE i = x.id
    <3>1. invitation[i].state = "accepting" /\ invitation'[i].state # "accepting"
      BY <1>4, <1>8, <2>1, <2>3, UpdateCases
    <3>2. BoundKeys(i) = {x.key}
      <4>1. PICK k \in Keys : BoundKeys(i) = {k}  BY <1>2, <3>1
      <4>2. x.key \in BoundKeys(i)  BY <2>1, <2>3 DEF BoundKeys
      <4> QED  BY <4>1, <4>2
    <3>3. Bound(i) = {}
      <4> SUFFICES ASSUME NEW k \in Bound(i) PROVE FALSE  OBVIOUS
      <4>1. k # x.key  BY <1>3, <2>2
      <4>2. k \in BoundKeys(i)  BY <1>3, <4>1 DEF BoundKeys
      <4> QED  BY <3>2, <4>1, <4>2
    <3> QED  BY <3>1, <3>3
  <2>4. CASE i # x.id
    <3>1. invitation'[i] = invitation[i]
      BY <1>1, <1>4, <1>8, <2>4 DEF Deciding
    <3>2. Bound(i) = BoundKeys(i)  BY <1>3, <2>1, <2>2, <2>4 DEF BoundKeys
    <3> QED  BY <1>2, <3>1, <3>2
  <2> QED  BY <2>3, <2>4
<1> QED  BY <1>1, <1>5, <1>6, <1>7, <1>8 DEF Calling

\* A commit changes nothing that another transaction rests on: what it changes it
\* holds the row of, and so the other does not.
LEMMA CommitOthers ==
    ASSUME IInv, NEW t \in Txns, Commit(t), NEW u \in Txns \ {t}
    PROVE  Current(tx[u], held[u])'
<1>d. PICK x, y, g : x = tx[t] /\ y = tx[u] /\ g = held[u]  OBVIOUS
<1>0. x.at = "commit" /\ tx'[u] = y /\ held'[u] = g
  BY <1>d DEF Commit, End, IInv
<1>1. /\ x \in TxRecord /\ TxOK(x, held[t])
      /\ x.op \in {"invite", "sweep", "deliver", "retry", "claim"} \cup Calling \cup Deciding
      /\ x.op \in {"invite", "sweep"} \cup Calling =>
            x.key \in Keys /\ mutation[x.key].status = "vacant"
      /\ x.op \in Deciding =>
            x.key \in Keys /\ mutation[x.key] = [status |-> "started", id |-> x.id]
      /\ x.op \in {"deliver", "retry", "claim"} => x.key \notin Keys
      /\ x.key \in Keys => Lock(KeyRow(x.key), "write") \in held[t]
      /\ x.op \in Calling \cup Deciding => x.id \in Invitations /\ x.seen[x.id] # Absent
  BY <1>0, <1>d, AtCommit
<1>2. y \in TxRecord /\ Shape(y) /\ Holding(y, g) /\ Current(y, g)
  BY <1>d DEF IInv, TxOK
<1>3. \A l \in held[t], m \in g : l.row # m.row
  BY <1>d DEF IInv, Exclusive
<1>4. \A k \in Keys : k # x.key => mutation'[k] = mutation[k]
  BY <1>d DEF Commit
<1>5. \A i \in Invitations : Lock(InvitationRow(i), "lock") \in g =>
          x.seen[i] = Absent
  BY <1>0, <1>3, <1>d, AtCommit
<1>6. KeyOK(y, g)'
  <2>1. ASSUME NEW k \in Keys, NEW mode, Lock(KeyRow(k), mode) \in g
        PROVE  k # x.key
    <3>1. x.key \in Keys => Lock(KeyRow(x.key), "write").row # Lock(KeyRow(k), mode).row
      BY <1>1, <1>3, <2>1
    <3> QED  BY <3>1, LockFields
  <2>2. y.op \in Keyed /\ y.at \notin {"reserve", "replay", "stop"} =>
            mutation'[y.key].status = "vacant"
    BY <1>2, <1>4, <2>1 DEF Shape, Holding, Current, KeyOK
  <2>3. y.op \in Deciding /\ y.at \in {"bound", "commit"} =>
            mutation'[y.key] = [status |-> "started", id |-> y.id]
    <3> SUFFICES ASSUME y.op \in Deciding, y.at \in {"bound", "commit"}
                 PROVE  mutation'[y.key] = [status |-> "started", id |-> y.id]
      OBVIOUS
    <3>1. /\ y.key \in Keys /\ mutation[y.key] = [status |-> "started", id |-> y.id]
          /\ Lock(MemberRow(y.id), "lock") \in g
      BY <1>2 DEF Shape, Holding, Current, KeyOK
    <3>2. y.key # x.key
      <4> SUFFICES ASSUME y.key = x.key PROVE FALSE  OBVIOUS
      <4>1. x.op \in Deciding /\ x.id = y.id
        BY <1>1, <3>1
      <4>2. Lock(MemberRow(x.id), "lock") \in held[t]
        BY <1>0, <1>1, <4>1 DEF TxOK, Holding
      <4> QED  BY <1>3, <3>1, <4>1, <4>2
    <3> QED  BY <1>4, <3>1, <3>2
  <2>4. \A k \in Keys : Lock(KeyRow(k), "lock") \in g => mutation'[k].status # "vacant"
    BY <1>2, <1>4, <2>1 DEF Current, KeyOK
  <2> QED  BY <2>2, <2>3, <2>4 DEF KeyOK
<1>7. SeenOK(y)'
  <2> SUFFICES ASSUME NEW i \in Invitations, y.seen[i] # Absent
               PROVE  invitation'[i] = y.seen[i]
    BY DEF SeenOK
  <2>1. invitation[i] = y.seen[i] /\ Lock(InvitationRow(i), "lock") \in g
    BY <1>2 DEF Current, SeenOK, Holding
  <2>2. x.seen[i] = Absent /\ invitation[i] # Absent  BY <1>5, <2>1
  <2>3. invitation'[i] = invitation[i]
    BY <2>2, RowChanges, <1>d
  <2> QED  BY <2>1, <2>3
<1>8. InviteOK(y)'
  <2> SUFFICES ASSUME y.op = "invite"
               PROVE  /\ invitation'[y.id] = Absent
                      /\ y.at \in {"number", "commit"} => ~TakenAddress(y.address)'
                      /\ y.at = "commit" => y.number = next'
    BY DEF InviteOK
  <2>1. /\ invitation[y.id] = Absent /\ y.id \in Invitations
        /\ y.at \in {"number", "commit"} => ~TakenAddress(y.address)
        /\ y.at = "commit" => y.number = next
    BY <1>2 DEF Current, InviteOK, Shape
  <2>2. x.op = "invite" => x.id # y.id
    BY <1>d DEF IInv, OwnInvites
  <2>3. invitation'[y.id] = Absent
    BY <2>1, <2>2, RowChanges, <1>d
  <2>4. ASSUME y.at \in {"number", "commit"}, TakenAddress(y.address)' PROVE FALSE
    <3>1. PICK i \in Invitations : invitation'[i].address = y.address
                                   /\ invitation'[i].state \in {"open", "accepting"}
      BY <2>4 DEF TakenAddress
    <3>2. ~(invitation[i].address = y.address
              /\ invitation[i].state \in {"open", "accepting"})
      BY <2>1, <2>4 DEF TakenAddress
    <3>3. CASE invitation'[i] = invitation[i]  BY <3>1, <3>2, <3>3
    <3>4. CASE /\ x.op = "invite"
               /\ invitation'[i] = [state |-> "open", generation |-> 1,
                                    number |-> x.number, address |-> x.address]
      <4>1. x.address = y.address  BY <3>1, <3>4
      <4>2. Lock(AddressRow(x.address), "lock") \in held[t]
        BY <1>0, <1>1, <3>4 DEF TxOK, Holding
      <4>3. Lock(AddressRow(y.address), "lock") \in g
        BY <1>2, <2>4 DEF Holding
      <4> QED  BY <1>3, <4>1, <4>2, <4>3
    <3>5. CASE x.seen[i] # Absent /\ Updates(x, invitation[i], invitation'[i])
      <4>1. x.op \in {"sweep"} \cup Calling \cup Deciding
        BY <1>0, <3>5, AtCommit, <1>d
      <4>2. invitation[i].state \in {"open", "accepting"}
        BY <3>5, <4>1, UpdateCases
      <4>3. invitation[i].address = y.address  BY <3>1, <3>5 DEF Updates
      <4> QED  BY <3>2, <4>2, <4>3
    <3> QED  BY <3>3, <3>4, <3>5, RowChanges, <1>d
  <2>5. ASSUME y.at = "commit" PROVE y.number = next'
    <3>1. Lock(SequenceRow, "write") \in g
      BY <1>2, <2>5 DEF Holding
    <3>2. x.op # "invite"
      <4>1. x.op = "invite" => Lock(SequenceRow, "write") \in held[t]
        BY <1>0, <1>1 DEF TxOK, Holding
      <4> QED  BY <1>3, <3>1, <4>1
    <3>3. next' = next  BY <1>d, <3>2 DEF Commit
    <3> QED  BY <2>1, <2>5, <3>3
  <2> QED  BY <2>3, <2>4, <2>5
<1>9. LateOK(y)'
  <2> SUFFICES ASSUME NEW l \in y.late
               PROVE  /\ l[2] <= invitation'[l[1]].generation
                      /\ l[2] = invitation'[l[1]].generation => l[1] \in due'
    BY DEF LateOK
  <2> DEFINE i == l[1]
  <2>1. /\ i \in Invitations /\ l[2] \in 1..MaxGeneration
        /\ l[2] <= invitation[i].generation
        /\ l[2] = invitation[i].generation => i \in due
    BY <1>2 DEF TxRecord, Current, LateOK
  <2>2. invitation[i] \in InvitationRecord  BY <2>1 DEF IInv, TablesOK
  <2>3. MaxGeneration \in Nat  BY LocksAssumption
  <2>4. due' = IF x.op = "resend" THEN due \ {x.id} ELSE due
    BY <1>d DEF Commit
  <2> HIDE DEF i
  <2>5. invitation[i] # Absent
    BY <2>1, <2>3 DEF Absent
  <2>6. invitation[i].generation \in Nat
    BY <2>2, <2>3, <2>5 DEF InvitationRecord
  <2>7. CASE x.seen[i] # Absent /\ Updates(x, invitation[i], invitation'[i])
    <3>1. CASE x.op = "resend"
      <4>1. invitation'[i].generation = invitation[i].generation + 1
        BY <2>7, <3>1 DEF Updates
      <4> QED  BY <2>1, <2>3, <2>6, <4>1 DEF i
    <3>2. CASE x.op # "resend"
      <4>1. invitation'[i].generation = invitation[i].generation
        BY <2>7, <3>2 DEF Updates
      <4> QED  BY <2>1, <2>4, <3>2, <4>1 DEF i
    <3> QED  BY <3>1, <3>2
  <2>8. CASE x.seen[i] = Absent /\ invitation'[i] = invitation[i]
    <3>1. x.op = "resend" => i # x.id
      BY <1>1, <2>8 DEF Calling
    <3> QED  BY <2>1, <2>4, <2>8, <3>1 DEF i
  <2> QED  BY <2>1, <2>5, <2>7, <2>8, RowChanges, <1>d
<1>10. Current(y, g)'  BY <1>6, <1>7, <1>8, <1>9 DEF Current
<1> QED  BY <1>0, <1>10 DEF Current, KeyOK, SeenOK, InviteOK, LateOK, TakenAddress

LEMMA CommitStep == \A t \in Txns : IInv /\ Commit(t) => IInv'
<1> SUFFICES ASSUME IInv, NEW t \in Txns, Commit(t) PROVE IInv'  OBVIOUS
<1>1. /\ tx'[t] = Unused /\ held'[t] = {}
      /\ \A u \in Txns \ {t} : tx'[u] = tx[u] /\ held'[u] = held[u]
      /\ tx' \in [Txns -> TxRecord] /\ held' \in [Txns -> SUBSET Locks]
  BY UnusedFields DEF Commit, End, IInv
<1>2. TxOK(tx[t], held[t])'
  <2>1. Shape(Unused)
    BY UnusedFields, LocksAssumption DEF Shape, StagesOf, Calling, Deciding, Keyed
  <2>2. Admitted(Unused)
    BY UnusedFields DEF Admitted, Calling, Deciding
  <2>3. Holding(Unused, {})
    BY UnusedFields DEF Holding, Calling, Deciding, Keyed
  <2>4. Current(tx[t], held[t])'
    BY <1>1, UnusedFields DEF Current, KeyOK, SeenOK, InviteOK, LateOK, Calling, Deciding, Keyed
  <2> QED  BY <1>1, <2>1, <2>2, <2>3, <2>4 DEF TxOK
<1>3. ASSUME NEW u \in Txns \ {t} PROVE TxOK(tx[u], held[u])'
  <2>1. Current(tx[u], held[u])'  BY CommitOthers
  <2>2. Shape(tx[u]) /\ Admitted(tx[u]) /\ Holding(tx[u], held[u])  BY DEF IInv, TxOK
  <2> QED  BY <1>1, <2>1, <2>2 DEF TxOK
<1>4. (\A u \in Txns : TxOK(tx[u], held[u]))'  BY <1>2, <1>3
<1>5. Exclusive'  BY <1>1 DEF IInv, Exclusive
<1>6. OwnInvites'  BY <1>1, UnusedFields DEF IInv, OwnInvites
<1> QED
  BY <1>1, <1>4, <1>5, <1>6, CommitTables, CommitNumbers, CommitKeys DEF IInv

--------------------------------------------------------------------------------
(* Every behaviour *)

LEMMA InitIInv == Init => IInv
<1> SUFFICES ASSUME Init PROVE IInv  OBVIOUS
<1>0. Absent \in InvitationRecord /\ Free \in MutationRecord /\ 0 \in 0..MaxGeneration
      /\ Absent.state = "none" /\ Free.status = "vacant"
  BY LocksAssumption DEF InvitationRecord, MutationRecord, Absent, Free
<1>1. TablesOK
  BY <1>0 DEF Init, TablesOK
<1>2. NumbersOK
  BY DEF Init, NumbersOK
<1>3. StartedKeysAreBound
  BY <1>0 DEF Init, StartedKeysAreBound, BoundKeys
<1>4. /\ tx \in [Txns -> TxRecord] /\ held \in [Txns -> SUBSET Locks]
      /\ \A t \in Txns : TxOK(tx[t], held[t])
  BY UnusedFields, UnusedOK DEF Init
<1>5. Exclusive /\ OwnInvites
  BY UnusedFields DEF Init, Exclusive, OwnInvites
<1> QED  BY <1>1, <1>2, <1>3, <1>4, <1>5 DEF IInv

LEMMA NextIInv == IInv /\ [Next]_vars => IInv'
<1> SUFFICES ASSUME IInv, [Next]_vars PROVE IInv'  OBVIOUS
<1>1. CASE UNCHANGED vars
  <2>1. UNCHANGED <<invitation, note, mutation, next, due, tx, held>>
    BY <1>1 DEF vars
  <2>2. \A x, h : TxOK(x, h)' <=> TxOK(x, h)
    BY <2>1 DEF TxOK, Current, KeyOK, SeenOK, InviteOK, LateOK, TakenAddress
  <2>3. (\A t \in Txns : TxOK(tx[t], held[t]))'  BY <2>1, <2>2 DEF IInv
  <2>4. TablesOK' /\ NumbersOK' /\ StartedKeysAreBound' /\ Exclusive' /\ OwnInvites'
    BY <2>1 DEF IInv, TablesOK, NumbersOK, StartedKeysAreBound, BoundKeys, Exclusive, OwnInvites
  <2> QED  BY <2>1, <2>3, <2>4 DEF IInv
<1>2. ASSUME NEW i \in Invitations, TokenComesDue(i) PROVE IInv'
  BY <1>2, TokenComesDueStep
<1>3. ASSUME NEW t \in Txns,
             BeginKeyed(t) \/ BeginExecuting(t) \/ Step(t) \/ LeaseLost(t) \/ DeadlockAbort(t)
      PROVE  IInv'
  <2>1. CASE BeginKeyed(t)  BY <2>1, BeginKeyedStep
  <2>2. CASE BeginExecuting(t)  BY <2>2, BeginExecutingStep
  <2>3. CASE Statement(t)
    BY <2>3, ReserveStep, ReplayStep, LockAddressStep, AllocateNumberStep, LockMemberStep,
       LockInvitationStep, SweepStep, WriteNoteStep, RecordDeliveryStep, WriteBoundKeyStep,
       ClaimStep
       DEF Statement
  <2>4. CASE Commit(t)  BY <2>4, CommitStep
  <2>5. CASE Stop(t)  BY <2>5, EndStep DEF Stop
  <2>6. CASE LeaseLost(t)  BY <2>6, EndStep DEF LeaseLost
  <2>7. CASE DeadlockAbort(t)  BY <2>7, EndStep DEF DeadlockAbort
  <2> QED  BY <1>3, <2>1, <2>2, <2>3, <2>4, <2>5, <2>6, <2>7 DEF Step
<1> QED  BY <1>1, <1>2, <1>3 DEF Next

\* The invariant holds in every reachable state.
LEMMA Invariance == Spec => []IInv
BY InitIInv, NextIInv, PTL DEF Spec

--------------------------------------------------------------------------------
(* Waiting *)

Waiting == {"reserve", "replay", "address", "number", "member", "invitation", "note", "bound"}

\* A transaction waits at a statement for the row of that statement, which another
\* holds for a reason.
LEMMA WaitsForRow ==
    ASSUME IInv, NEW t \in Txns, NEW u \in Txns, WaitsFor(t, u)
    PROVE  /\ t # u /\ tx[t].at \in Waiting
           /\ \E l \in held[u] :
                 /\ Explained(tx[u], held[u], l)
                 /\ tx[t].at \in {"reserve", "replay", "bound"} => l.row = KeyRow(tx[t].key)
                 /\ tx[t].at = "address" => l.row = AddressRow(tx[t].address)
                 /\ tx[t].at = "number" => l.row = SequenceRow
                 /\ tx[t].at = "member" => l.row = MemberRow(tx[t].id)
                 /\ tx[t].at = "invitation" => l.row = InvitationRow(tx[t].id)
                 /\ tx[t].at = "note" => l.row = NoteRow(tx[t].id)
<1>1. PICK w \in Wanted(t), l \in held[u] : t # u /\ l.row = w.row
  BY DEF WaitsFor, Blocks
<1>2. Explained(tx[u], held[u], l)  BY DEF IInv, TxOK, Holding
<1> DEFINE s == tx[t].at
<1>3. s \in Waiting
  <2>1. s \notin Waiting => Wanted(t) = {}  BY DEF Wanted, Waiting
  <2> QED  BY <1>1, <2>1
<1>4. CASE s \in {"reserve", "replay", "bound"}
  <2>1. CASE s = "reserve"
    <3>1. Wanted(t) = {Lock(KeyRow(tx[t].key), "probe")}  BY <2>1 DEF Wanted
    <3> QED  BY <1>1, <1>2, <1>3, <2>1, <3>1, LockFields
  <2>2. CASE s = "replay"
    <3>1. Wanted(t) = {Lock(KeyRow(tx[t].key), "lock")}  BY <2>2 DEF Wanted
    <3> QED  BY <1>1, <1>2, <1>3, <2>2, <3>1, LockFields
  <2>3. CASE s = "bound"
    <3>1. Wanted(t) = {Lock(KeyRow(tx[t].key), "write")}  BY <2>3 DEF Wanted
    <3> QED  BY <1>1, <1>2, <1>3, <2>3, <3>1, LockFields
  <2> QED  BY <1>4, <2>1, <2>2, <2>3
<1>5. CASE s = "address"
  <2>1. Wanted(t) = {Lock(AddressRow(tx[t].address), "lock")}  BY <1>5 DEF Wanted
  <2> QED  BY <1>1, <1>2, <1>3, <1>5, <2>1, LockFields
<1>6. CASE s = "number"
  <2>1. Wanted(t) = {Lock(SequenceRow, "write")}  BY <1>6 DEF Wanted
  <2> QED  BY <1>1, <1>2, <1>3, <1>6, <2>1, LockFields
<1>7. CASE s = "member"
  <2>1. Wanted(t) = {Lock(MemberRow(tx[t].id), "lock")}  BY <1>7 DEF Wanted
  <2> QED  BY <1>1, <1>2, <1>3, <1>7, <2>1, LockFields
<1>8. CASE s = "invitation"
  <2>1. \E m : Wanted(t) = {Lock(InvitationRow(tx[t].id), m)}  BY <1>8 DEF Wanted
  <2> QED  BY <1>1, <1>2, <1>3, <1>8, <2>1, LockFields
<1>9. CASE s = "note"
  <2>1. Wanted(t) = {Lock(NoteRow(tx[t].id), "write")}  BY <1>9 DEF Wanted
  <2> QED  BY <1>1, <1>2, <1>3, <1>9, <2>1, LockFields
<1> QED  BY <1>3, <1>4, <1>5, <1>6, <1>7, <1>8, <1>9 DEF Waiting

\* In a cycle without deliveries nobody can wait at the last statements, so nobody
\* can wait at the ones before them, and so on: there is no such cycle.
LEMMA NoCycle ==
    ASSUME IInv, NEW C \in SUBSET {t \in Txns : tx[t].op # "deliver"}, Cycle(C)
    PROVE  C = {}
<1>1. ASSUME NEW t \in C
      PROVE  /\ t \in Txns /\ tx[t].op # "deliver" /\ tx[t].at \in Waiting
             /\ TxOK(tx[t], held[t])
             /\ \E u \in C : WaitsFor(t, u)
  BY WaitsForRow DEF Cycle, IInv
<1>2. ASSUME NEW t \in C PROVE tx[t].at # "bound"
  <2> SUFFICES ASSUME tx[t].at = "bound" PROVE FALSE  OBVIOUS
  <2>1. PICK u \in C : WaitsFor(t, u)  BY <1>1
  <2>2. tx[t].key \in Keys /\ mutation[tx[t].key].status = "started"
    <3>1. tx[t].op \in Deciding  BY <1>1, StageOps DEF TxOK
    <3>2. mutation[tx[t].key] = [status |-> "started", id |-> tx[t].id]
      BY <1>1, <3>1 DEF TxOK, Current, KeyOK
    <3> QED  BY <1>1, <3>1, <3>2 DEF TxOK, Shape
  <2>3. PICK l \in held[u] : Explained(tx[u], held[u], l) /\ l.row = KeyRow(tx[t].key)
    BY <1>1, <2>1, WaitsForRow
  <2>4. tx[u].at \in Waiting  BY <1>1
  <2>5. /\ tx[t].key = tx[u].key /\ tx[u].op \in Keyed
        /\ tx[u].at \notin {"reserve", "replay", "stop"}
    BY <2>2, <2>3, <2>4 DEF Explained, Waiting
  <2>6. mutation[tx[u].key].status = "vacant"
    BY <1>1, <2>5 DEF TxOK, Current, KeyOK
  <2> QED  BY <2>2, <2>5, <2>6
<1>3. ASSUME NEW t \in C, tx[t].at = "note", NEW u \in C, WaitsFor(t, u)
      PROVE  /\ tx[u].at = "note" /\ tx[u].op # "retry"
             /\ Lock(InvitationRow(tx[t].id), "lock") \in held[u]
  <2>1. tx[t].id \in Invitations
    BY <1>1, <1>3, StageOps DEF TxOK, Shape, Deciding
  <2>2. PICK l \in held[u] : Explained(tx[u], held[u], l) /\ l.row = NoteRow(tx[t].id)
    BY <1>1, <1>3, WaitsForRow
  <2>3. tx[u].at \in Waiting /\ tx[u].op # "deliver" /\ tx[u].at # "bound"
    BY <1>1, <1>2
  <2> QED  BY <2>1, <2>2, <2>3 DEF Explained, Waiting, Calling, Deciding
<1>4. ASSUME NEW t \in C PROVE tx[t].at # "note" \/ tx[t].op = "retry"
  <2> SUFFICES ASSUME tx[t].at = "note", tx[t].op # "retry" PROVE FALSE  OBVIOUS
  <2>1. PICK u \in C : WaitsFor(t, u)  BY <1>1
  <2>2. Lock(InvitationRow(tx[t].id), "lock") \in held[u]  BY <1>3, <2>1
  <2>3. tx[t].op \in {"sweep", "refuse"} \cup Calling  BY <1>1, StageOps DEF TxOK
  <2>4. Lock(InvitationRow(tx[t].id), "lock") \in held[t]
    <3>1. tx[t].id \in Invitations
      BY <1>1, <2>3 DEF TxOK, Shape, Deciding
    <3>2. tx[t].seen[tx[t].id] # Absent
      <4>1. CASE tx[t].op = "sweep"  BY <1>1, <4>1 DEF TxOK, Shape
      <4>2. CASE tx[t].op \in {"refuse"} \cup Calling
        <5>1. tx[t].seen[tx[t].id].state \in {"open", "accepting"}
          BY <1>1, <4>2 DEF TxOK, Admitted, Deciding
        <5> QED  BY <5>1 DEF Absent
      <4> QED  BY <2>3, <4>1, <4>2
    <3> QED  BY <1>1, <3>1, <3>2 DEF TxOK, Holding
  <2>5. t # u /\ t \in Txns /\ u \in Txns  BY <1>1, <2>1, WaitsForRow
  <2> QED  BY <2>2, <2>4, <2>5 DEF IInv, Exclusive
<1>5. ASSUME NEW t \in C PROVE tx[t].at # "note"
  BY <1>1, <1>3, <1>4
<1>6. ASSUME NEW t \in C PROVE tx[t].at # "invitation"
  <2> SUFFICES ASSUME tx[t].at = "invitation" PROVE FALSE  OBVIOUS
  <2>1. PICK u \in C : WaitsFor(t, u)  BY <1>1
  <2>2. tx[t].id \in Invitations
    BY <1>1, StageOps DEF TxOK, Shape
  <2>3. PICK l \in held[u] : Explained(tx[u], held[u], l) /\ l.row = InvitationRow(tx[t].id)
    BY <1>1, <2>1, WaitsForRow
  <2>4. tx[u].at \in Waiting \ {"note", "bound"} /\ tx[u].op # "deliver"
    BY <1>1, <1>2, <1>5
  <2> QED  BY <2>2, <2>3, <2>4 DEF Explained, Waiting
<1>7. ASSUME NEW t \in C PROVE tx[t].at # "number"
  <2> SUFFICES ASSUME tx[t].at = "number" PROVE FALSE  OBVIOUS
  <2>1. PICK u \in C : WaitsFor(t, u)  BY <1>1
  <2>2. PICK l \in held[u] : Explained(tx[u], held[u], l) /\ l.row = SequenceRow
    BY <1>1, <2>1, WaitsForRow
  <2> QED  BY <1>1, <2>2 DEF Explained, Waiting
<1>8. ASSUME NEW t \in C PROVE tx[t].at # "address"
  <2> SUFFICES ASSUME tx[t].at = "address" PROVE FALSE  OBVIOUS
  <2>1. PICK u \in C : WaitsFor(t, u)  BY <1>1
  <2>2. tx[t].address \in Addresses
    BY <1>1, StageOps DEF TxOK, Shape
  <2>3. PICK l \in held[u] : Explained(tx[u], held[u], l) /\ l.row = AddressRow(tx[t].address)
    BY <1>1, <2>1, WaitsForRow
  <2>4. tx[u].at \in Waiting \ {"number"}  BY <1>1, <1>7
  <2> QED  BY <2>2, <2>3, <2>4 DEF Explained, Waiting
<1>9. ASSUME NEW t \in C PROVE tx[t].at # "member"
  <2> SUFFICES ASSUME tx[t].at = "member" PROVE FALSE  OBVIOUS
  <2>1. PICK u \in C : WaitsFor(t, u)  BY <1>1
  <2>2. tx[t].id \in Invitations
    BY <1>1, StageOps DEF TxOK, Shape
  <2>3. PICK l \in held[u] : Explained(tx[u], held[u], l) /\ l.row = MemberRow(tx[t].id)
    BY <1>1, <2>1, WaitsForRow
  <2>4. tx[u].op \in Deciding /\ tx[u].at # "member"
    BY <1>1, <2>2, <2>3 DEF Explained, Waiting
  <2>5. tx[u].at \in {"invitation", "note", "bound"}
    BY <1>1, <2>4 DEF TxOK, Shape, StagesOf, Waiting, Calling, Deciding
  <2> QED  BY <1>2, <1>5, <1>6, <2>5
<1>10. ASSUME NEW t \in C PROVE FALSE
  <2>1. PICK u \in C : WaitsFor(t, u)  BY <1>1
  <2>2. tx[t].at \in {"reserve", "replay"}
    BY <1>1, <1>2, <1>5, <1>6, <1>7, <1>8, <1>9 DEF Waiting
  <2>3. tx[t].key \in Keys
    BY <1>1, <2>2, StageOps DEF TxOK, Shape
  <2>4. PICK l \in held[u] : Explained(tx[u], held[u], l) /\ l.row = KeyRow(tx[t].key)
    BY <1>1, <2>1, <2>2, WaitsForRow
  <2>5. tx[u].at \in {"reserve", "replay"}
    BY <1>1, <1>2, <1>5, <1>6, <1>7, <1>8, <1>9 DEF Waiting
  <2> QED  BY <2>3, <2>4, <2>5 DEF Explained
<1> QED  BY <1>10

--------------------------------------------------------------------------------
(* Theorems *)

\* The type invariant, for any number of transactions, keys, invitations and addresses.
THEOREM TypeCorrect == Spec => []TypeOK
<1>1. IInv => TypeOK  BY DEF IInv, TablesOK, TypeOK
<1> QED  BY <1>1, Invariance, PTL

\* What a transaction of storage.rs read under FOR UPDATE is the committed row when
\* it commits, so that InvitationStore may take the transaction for one step.
THEOREM ReadsCurrent == Spec => []ReadsStayCurrent
<1>1. IInv => ReadsStayCurrent
  BY DEF IInv, TxOK, Current, SeenOK, ReadsStayCurrent
<1> QED  BY <1>1, Invariance, PTL

\* However many creations overlap and roll back, the advisory lock of the address
\* and the upsert of the sequence keep both unique indexes from refusing one.
THEOREM IndexesRefuseNothing == Spec => []UniqueIndexesRefuseNothing
<1>1. IInv => UniqueIndexesRefuseNothing
  <2> SUFFICES ASSUME IInv PROVE UniqueIndexesRefuseNothing  OBVIOUS
  <2>1. \A t \in Txns : tx[t].op = "invite" /\ tx[t].at \in {"number", "commit"}
                           => ~TakenAddress(tx[t].address)
    BY DEF IInv, TxOK, Current, InviteOK
  <2>2. NumbersOK  BY DEF IInv
  <2> QED  BY <2>1, <2>2 DEF NumbersOK, UniqueIndexesRefuseNothing
<1> QED  BY <1>1, Invariance, PTL

\* Each acceptance in progress has exactly one unanswered idempotency key, and each
\* unanswered key one acceptance, in every order of locks, waits and rollbacks.
THEOREM StartedKeysBound == Spec => []StartedKeysAreBound
<1>1. IInv => StartedKeysAreBound  BY DEF IInv
<1> QED  BY <1>1, Invariance, PTL

\* However many transactions there are, every cycle of waiting ones has a delivery
\* in it: the deferred foreign keys and the lock order of public calls, sweeps and
\* decided acceptances leave no other.
THEOREM OnlyDeliveries == Spec => []OnlyDeliveriesDeadlock
<1>1. IInv => OnlyDeliveriesDeadlock
  BY NoCycle DEF OnlyDeliveriesDeadlock
<1> QED  BY <1>1, Invariance, PTL

\* A commit that expires an open invitation does so of one whose deadline has passed,
\* although it judged the deadline by the clock at its start.
LEMMA CommitExpires ==
    ASSUME IInv, NEW t \in Txns, Commit(t), NEW i \in Invitations,
           invitation[i].state = "open", invitation'[i].state = "expired"
    PROVE  i \in due
<1> DEFINE x == tx[t]
<1>0. x.at = "commit" /\ TxOK(x, held[t])  BY DEF Commit, IInv, TxOK
<1>1. x.seen[i] # Absent /\ Updates(x, invitation[i], invitation'[i])
  <2>1. invitation[i] # Absent  BY DEF Absent
  <2> QED  BY <2>1, RowChanges
<1>2. /\ x.op \in {"sweep"} \cup Calling \cup Deciding
      /\ x.op # "sweep" => i = x.id
      /\ x.seen[i] = invitation[i]
  BY <1>0, <1>1, AtCommit
<1>3. x.op \in {"sweep", "accept"}
  <2>1. x.op \notin {"resend", "revoke"} \cup Deciding
    BY <1>1, <1>2, UpdateCases
  <2> QED  BY <1>2, <2>1 DEF Calling
<1>4. <<i, invitation[i].generation>> \in x.late
  <2>1. CASE x.op = "sweep"
    BY <1>0, <1>1, <1>2, <2>1 DEF TxOK, Admitted
  <2>2. CASE x.op = "accept"
    <3> SUFFICES ASSUME ~IsLate(x, invitation[i]) PROVE FALSE
      BY <1>2, <2>2 DEF IsLate
    <3>1. i \in Written(t)  BY <1>1, <2>2 DEF Written
    <3>2. invitation'[i] = NewRow(t, i)  BY <3>1 DEF Commit
    <3>3. NewRow(t, i) = [invitation[i] EXCEPT !.state = "accepting"]
      BY <1>2, <2>2 DEF NewRow
    <3>4. invitation[i] \in InvitationRecord /\ invitation[i] # Absent /\ "accepting" \in Invited
      BY <1>1, <1>2 DEF IInv, TablesOK, Invited
    <3>5. NewRow(t, i).state = "accepting"  BY <3>3, <3>4, RowFields
    <3> QED  BY <3>2, <3>5
  <2> QED  BY <1>3, <2>1, <2>2
<1> QED  BY <1>0, <1>4 DEF TxOK, Current, LateOK

\* Nothing expires whose deadline a resend has moved while the sweep or the
\* acceptance that found it late was waiting.
THEOREM DueExpires == Spec => OnlyDueExpires
<1> DEFINE A == \A i \in Invitations :
                   invitation[i].state = "open" /\ invitation'[i].state = "expired" => i \in due
<1>1. IInv /\ [Next]_vars => [A]_vars
  <2> SUFFICES ASSUME IInv, Next,
                      NEW i \in Invitations, invitation[i].state = "open",
                      invitation'[i].state = "expired"
               PROVE  i \in due
    BY DEF vars
  <2>1. invitation' # invitation  OBVIOUS
  <2>2. ASSUME NEW t \in Txns, Statement(t) PROVE FALSE
    <3>1. data' = data
      BY <2>2 DEF Statement, Reserve, Replay, LockAddress, AllocateNumber, LockMember,
         LockInvitation, Sweep, WriteNote, RecordDelivery, WriteBoundKey, Claim
    <3> QED  BY <2>1, <3>1 DEF data
  <2>3. ASSUME NEW t \in Txns,
               \/ BeginKeyed(t) \/ BeginExecuting(t) \/ Stop(t) \/ LeaseLost(t)
               \/ DeadlockAbort(t)
        PROVE  FALSE
    <3>1. data' = data
      BY <2>3 DEF BeginKeyed, BeginExecuting, Begin, Stop, LeaseLost, DeadlockAbort
    <3> QED  BY <2>1, <3>1 DEF data
  <2>4. ASSUME NEW i1 \in Invitations, TokenComesDue(i1) PROVE FALSE
    BY <2>1, <2>4 DEF TokenComesDue, data
  <2>5. PICK t \in Txns : Commit(t)
    BY <2>2, <2>3, <2>4 DEF Next, Step
  <2> QED  BY <2>5, CommitExpires
<1> QED  BY <1>1, Invariance, PTL DEF Spec, OnlyDueExpires

--------------------------------------------------------------------------------
(* Each transaction is one step *)

\* The tables of the atomic transactions are the committed tables, under the same names.
LEMMA SameRows ==
    /\ Transactions!Absent = Absent
    /\ Transactions!Free = Free
    /\ \A status, i : Transactions!Bound(status, i) = [status |-> status, id |-> i]
    /\ \A a : Transactions!Pending(a) <=> TakenAddress(a)
BY DEF Transactions!Absent, Absent, Transactions!Free, Free, Transactions!Bound,
       Transactions!Pending, TakenAddress

\* A key without a status is a key that is not there.
LEMMA VacantIsFree ==
    ASSUME IInv, NEW k \in Keys, mutation[k].status = "vacant"
    PROVE  mutation[k] = Free
<1>1. mutation[k] \in MutationRecord  BY DEF IInv, TablesOK
<1> QED  BY <1>1 DEF MutationRecord

\* A transaction that finds its key free answers it, in the atomic transaction as well.
LEMMA KeyAnswered ==
    ASSUME IInv, NEW t \in Txns, Commit(t), tx[t].op \in {"invite", "sweep"} \cup Calling,
           NEW entry, NewKey(t) = entry
    PROVE  tx[t].key \in Keys /\ Transactions!Answer(tx[t].key, entry)
<1>1. tx[t].at = "commit"  BY DEF Commit
<1>2. tx[t].key \in Keys /\ mutation[tx[t].key].status = "vacant"  BY <1>1, AtCommit
<1>3. mutation[tx[t].key] = Transactions!Free  BY <1>2, VacantIsFree, SameRows
<1>4. mutation \in [Keys -> MutationRecord]  BY DEF IInv, TablesOK
<1>5. mutation' = [k \in Keys |-> IF k = tx[t].key THEN NewKey(t) ELSE mutation[k]]
  BY DEF Commit
<1>6. mutation' = [mutation EXCEPT ![tx[t].key] = entry]  BY <1>2, <1>4, <1>5
<1> QED  BY <1>2, <1>3, <1>6 DEF Transactions!Answer

\* Calls and decisions write the one invitation they are about, which is as they read it.
LEMMA OneWritten ==
    ASSUME IInv, NEW t \in Txns, Commit(t),
           tx[t].op \in {"invite"} \cup Calling \cup Deciding
    PROVE  LET i == tx[t].id IN
           /\ i \in Invitations
           /\ invitation' = [invitation EXCEPT ![i] = NewRow(t, i)]
           /\ note' = [note EXCEPT ![i] = NewNote(t, i)]
           /\ tx[t].op # "invite" => /\ tx[t].seen[i] = invitation[i]
                                     /\ invitation[i] # Absent
                                     /\ next' = next
           /\ tx[t].op # "resend" => due' = due
<1> DEFINE x == tx[t]
           i == x.id
<1>1. x.at = "commit"  BY DEF Commit
<1>2. /\ i \in Invitations
      /\ x.op \in Calling \cup Deciding => x.seen[i] # Absent
      /\ \A j \in Invitations : x.seen[j] # Absent =>
            /\ x.seen[j] = invitation[j]
            /\ x.op \in {"sweep"} \cup Calling \cup Deciding
            /\ x.op # "sweep" => j = i
  BY <1>1, AtCommit
<1>3. Written(t) = {i}
  <2>1. CASE x.op = "invite"  BY <2>1 DEF Written
  <2>2. CASE x.op \in Calling \cup Deciding
    <3>1. x.op \notin {"invite", "deliver", "retry", "claim", "sweep"}
      BY <2>2 DEF Calling, Deciding
    <3>2. Written(t) = {j \in Invitations : x.seen[j] # Absent}
      BY <3>1 DEF Written
    <3> QED  BY <1>2, <2>2, <3>1, <3>2
  <2> QED  BY <2>1, <2>2
<1>4. x.op \notin {"retry", "deliver"}  BY DEF Calling, Deciding
<1>5. invitation \in [Invitations -> InvitationRecord] /\ note \in [Invitations -> 0..MaxGeneration]
  BY DEF IInv, TablesOK
<1>6. invitation' = [j \in Invitations |-> IF j \in Written(t) THEN NewRow(t, j) ELSE invitation[j]]
  BY DEF Commit
<1>7. note' = [j \in Invitations |-> IF j \in Written(t) THEN NewNote(t, j)
                                     ELSE IF x.op = "deliver" /\ j = i THEN 0 ELSE note[j]]
  BY <1>4 DEF Commit
<1>8. invitation' = [invitation EXCEPT ![i] = NewRow(t, i)]
  BY <1>3, <1>5, <1>6
<1>9. note' = [note EXCEPT ![i] = NewNote(t, i)]
  BY <1>3, <1>4, <1>5, <1>7
<1>10. x.op # "invite" => /\ x.seen[i] = invitation[i]
                          /\ invitation[i] # Absent
                          /\ next' = next
  BY <1>2 DEF Commit
<1>11. x.op # "resend" => due' = due  BY DEF Commit
<1> QED  BY <1>2, <1>8, <1>9, <1>10, <1>11

LEMMA CommitInvites ==
    ASSUME IInv, NEW t \in Txns, Commit(t), tx[t].op = "invite"
    PROVE  Transactions!Next
<1> DEFINE x == tx[t]
           i == x.id
<1>1. x.at = "commit" /\ TxOK(x, held[t])  BY DEF Commit, IInv
<1>2. i \in Invitations /\ invitation' = [invitation EXCEPT ![i] = NewRow(t, i)]
      /\ note' = [note EXCEPT ![i] = NewNote(t, i)] /\ due' = due
  BY OneWritten
<1>3. /\ invitation[i] = Absent /\ ~TakenAddress(x.address)
      /\ x.number = next /\ x.address \in Addresses
  BY <1>1 DEF TxOK, Shape, Current, InviteOK
<1>4. NewRow(t, i) = [state |-> "open", generation |-> 1,
                      number |-> next, address |-> x.address]
  BY <1>3 DEF NewRow
<1>5. NewNote(t, i) = 1  BY <1>4 DEF NewNote
<1>6. NewKey(t) = Transactions!Bound("completed", i)
  BY SameRows DEF NewKey
<1>7. x.key \in Keys /\ Transactions!Answer(x.key, Transactions!Bound("completed", i))
  BY <1>6, KeyAnswered
<1>8. next' = next + 1  BY <1>3 DEF Commit
<1>9. Transactions!Invite(x.key, i, x.address)
  BY <1>2, <1>3, <1>4, <1>5, <1>7, <1>8, SameRows
     DEF Transactions!Invite, Transactions!Created
<1> QED  BY <1>2, <1>3, <1>7, <1>9 DEF Transactions!Next

LEMMA CommitResends ==
    ASSUME IInv, NEW t \in Txns, Commit(t), tx[t].op = "resend"
    PROVE  Transactions!Next
<1> DEFINE x == tx[t]
           i == x.id
<1>1. x.at = "commit" /\ TxOK(x, held[t]) /\ x.op \in Calling
  BY DEF Commit, IInv, Calling
<1>2. /\ i \in Invitations /\ invitation' = [invitation EXCEPT ![i] = NewRow(t, i)]
      /\ note' = [note EXCEPT ![i] = NewNote(t, i)] /\ next' = next
      /\ x.seen[i] = invitation[i] /\ invitation[i] # Absent
  BY <1>1, OneWritten
<1>3. invitation[i].state = "open" /\ invitation[i].generation < MaxGeneration
  BY <1>1, <1>2 DEF TxOK, Admitted
<1>4. NewRow(t, i) = [invitation[i] EXCEPT !.generation = @ + 1]
  BY <1>2 DEF NewRow
<1>5. NewNote(t, i) = invitation[i].generation + 1
  <2>1. /\ NewRow(t, i).generation = invitation[i].generation + 1
        /\ NewRow(t, i).state = "open"
    <3>1. Updates(x, invitation[i], NewRow(t, i))  BY <1>1, <1>2, NewRows
    <3> QED  BY <3>1 DEF Updates
  <2> QED  BY <2>1 DEF NewNote
<1>6. NewKey(t) = Transactions!Bound("completed", i)
  BY SameRows DEF NewKey
<1>7. x.key \in Keys /\ Transactions!Answer(x.key, Transactions!Bound("completed", i))
  BY <1>1, <1>6, KeyAnswered
<1>8. due' = due \ {i}  BY DEF Commit
<1>9. invitation' = [invitation EXCEPT ![i].generation = @ + 1]
  BY <1>2, <1>4
<1>10. Transactions!Resend(x.key, i)
  BY <1>2, <1>3, <1>5, <1>7, <1>8, <1>9 DEF Transactions!Resend
<1> QED  BY <1>2, <1>7, <1>10 DEF Transactions!Next

LEMMA CommitRevokes ==
    ASSUME IInv, NEW t \in Txns, Commit(t), tx[t].op = "revoke"
    PROVE  Transactions!Next
<1> DEFINE x == tx[t]
           i == x.id
<1>1. x.at = "commit" /\ TxOK(x, held[t]) /\ x.op \in Calling
  BY DEF Commit, IInv, Calling
<1>2. /\ i \in Invitations /\ invitation' = [invitation EXCEPT ![i] = NewRow(t, i)]
      /\ note' = [note EXCEPT ![i] = NewNote(t, i)] /\ next' = next
      /\ x.seen[i] = invitation[i] /\ invitation[i] # Absent /\ due' = due
  BY <1>1, OneWritten
<1>3. invitation[i].state = "open"
  BY <1>1, <1>2 DEF TxOK, Admitted
<1>4. NewRow(t, i) = [invitation[i] EXCEPT !.state = "revoked"]
  BY <1>2 DEF NewRow
<1>5. NewNote(t, i) = 0
  <2>1. invitation[i] \in InvitationRecord /\ "revoked" \in Invited
    BY <1>2 DEF IInv, TablesOK, Invited
  <2>2. NewRow(t, i).state = "revoked"
    BY <1>2, <1>4, <2>1, RowFields
  <2> QED  BY <2>2 DEF NewNote
<1>6. NewKey(t) = Transactions!Bound("completed", i)
  BY SameRows DEF NewKey
<1>7. x.key \in Keys /\ Transactions!Answer(x.key, Transactions!Bound("completed", i))
  BY <1>1, <1>6, KeyAnswered
<1>9. invitation' = [invitation EXCEPT ![i].state = "revoked"]
  BY <1>2, <1>4
<1>10. Transactions!Revoke(x.key, i)
  BY <1>2, <1>3, <1>5, <1>7, <1>9
     DEF Transactions!Revoke, Transactions!Enters, Transactions!Silence
<1> QED  BY <1>2, <1>7, <1>10 DEF Transactions!Next

LEMMA CommitAccepts ==
    ASSUME IInv, NEW t \in Txns, Commit(t), tx[t].op = "accept"
    PROVE  Transactions!Next
<1> DEFINE x == tx[t]
           i == x.id
<1>1. x.at = "commit" /\ TxOK(x, held[t]) /\ x.op \in Calling
  BY DEF Commit, IInv, Calling
<1>2. /\ i \in Invitations /\ invitation' = [invitation EXCEPT ![i] = NewRow(t, i)]
      /\ note' = [note EXCEPT ![i] = NewNote(t, i)] /\ next' = next
      /\ x.seen[i] = invitation[i] /\ invitation[i] # Absent /\ due' = due
  BY <1>1, OneWritten
<1>3. invitation[i].state = "open" /\ invitation[i] \in InvitationRecord
  BY <1>1, <1>2 DEF TxOK, Admitted, IInv, TablesOK
<1>4. "accepting" \in Invited /\ "expired" \in Invited  BY DEF Invited
<1>5. note \in [Invitations -> 0..MaxGeneration]  BY DEF IInv, TablesOK
<1>6. CASE ~IsLate(x, x.seen[i])
  <2>1. NewRow(t, i) = [invitation[i] EXCEPT !.state = "accepting"]
    BY <1>2, <1>6 DEF NewRow
  <2>2. NewRow(t, i).state = "accepting"
    BY <1>2, <1>3, <1>4, <2>1, RowFields
  <2>3. NewNote(t, i) = note[i]  BY <2>2 DEF NewNote
  <2>4. NewKey(t) = Transactions!Bound("started", i)
    BY <2>2, SameRows DEF NewKey
  <2>5. x.key \in Keys /\ Transactions!Answer(x.key, Transactions!Bound("started", i))
    BY <1>1, <2>4, KeyAnswered
  <2>6. note' = note  BY <1>2, <1>5, <2>3
  <2>7. invitation' = [invitation EXCEPT ![i].state = "accepting"]
    BY <1>2, <2>1
  <2>8. Transactions!Accept(x.key, i)
    BY <1>2, <1>3, <2>5, <2>6, <2>7 DEF Transactions!Accept, Transactions!Enters
  <2> QED  BY <1>2, <2>5, <2>8 DEF Transactions!Next
<1>7. CASE IsLate(x, x.seen[i])
  <2>1. NewRow(t, i) = [invitation[i] EXCEPT !.state = "expired"]
    BY <1>2, <1>7 DEF NewRow
  <2>2. NewRow(t, i).state = "expired"
    BY <1>2, <1>3, <1>4, <2>1, RowFields
  <2>3. NewNote(t, i) = 0  BY <2>2 DEF NewNote
  <2>4. NewKey(t) = Free  BY <2>2 DEF NewKey
  <2>5. x.key \in Keys /\ Transactions!Answer(x.key, Free)
    BY <1>1, <2>4, KeyAnswered
  <2>6. UNCHANGED mutation
    <3>1. mutation \in [Keys -> MutationRecord]  BY DEF IInv, TablesOK
    <3> QED  BY <2>5, <3>1, SameRows DEF Transactions!Answer
  <2>7. i \in due
    <3>1. invitation'[i].state = "expired"
      BY <1>2, <2>2 DEF IInv, TablesOK
    <3> QED  BY <1>2, <1>3, <3>1, CommitExpires
  <2>8. invitation' = [j \in Invitations |->
                          IF j \in {i} THEN [invitation[j] EXCEPT !.state = "expired"]
                          ELSE invitation[j]]
    <3>1. invitation \in [Invitations -> InvitationRecord]  BY DEF IInv, TablesOK
    <3> QED  BY <1>2, <2>1, <3>1
  <2>9. note' = [j \in Invitations |-> IF j \in {i} THEN 0 ELSE note[j]]
    BY <1>2, <1>5, <2>3
  <2>10. Transactions!AcceptLate(i)
    BY <1>2, <1>3, <2>6, <2>7, <2>8, <2>9 DEF Transactions!AcceptLate, Transactions!ExpireAll
  <2> QED  BY <1>2, <2>10 DEF Transactions!Next
<1> QED  BY <1>6, <1>7

\* A decided acceptance is the only one its key is bound to.
LEMMA DecisionRebinds ==
    ASSUME IInv, NEW t \in Txns, Commit(t), tx[t].op \in Deciding,
           NEW entry, NewKey(t) = entry
    PROVE  Transactions!Rebind(tx[t].id, entry)
<1> DEFINE x == tx[t]
           i == x.id
<1>1. x.at = "commit"  BY DEF Commit
<1>2. /\ x.key \in Keys /\ mutation[x.key] = [status |-> "started", id |-> i]
      /\ i \in Invitations /\ x.seen[i] # Absent
  BY <1>1, AtCommit
<1>3. \A k \in Keys : mutation[k] = [status |-> "started", id |-> i] <=> k = x.key
  <2>1. x.key \in BoundKeys(i)  BY <1>2 DEF BoundKeys
  <2>2. PICK k \in Keys : BoundKeys(i) = {k}
    BY <1>2, <2>1 DEF IInv, StartedKeysAreBound
  <2>3. BoundKeys(i) = {x.key}  BY <2>1, <2>2
  <2>4. \A j \in Keys : j \in BoundKeys(i) <=> mutation[j] = [status |-> "started", id |-> i]
    BY DEF BoundKeys
  <2> QED  BY <2>3, <2>4
<1>4. mutation' = [k \in Keys |-> IF k = x.key THEN entry ELSE mutation[k]]
  BY DEF Commit
<1>5. mutation' = [k \in Keys |-> IF mutation[k] = [status |-> "started", id |-> i] THEN entry
                                  ELSE mutation[k]]
  BY <1>3, <1>4
<1> QED  BY <1>5, SameRows DEF Transactions!Rebind

LEMMA CommitDecides ==
    ASSUME IInv, NEW t \in Txns, Commit(t), tx[t].op \in Deciding
    PROVE  Transactions!Next
<1> DEFINE x == tx[t]
           i == x.id
<1>1. x.at = "commit" /\ TxOK(x, held[t])  BY DEF Commit, IInv
<1>2. /\ i \in Invitations /\ invitation' = [invitation EXCEPT ![i] = NewRow(t, i)]
      /\ note' = [note EXCEPT ![i] = NewNote(t, i)] /\ next' = next
      /\ x.seen[i] = invitation[i] /\ invitation[i] # Absent /\ due' = due
  BY OneWritten DEF Deciding
<1>3. invitation[i].state = "accepting" /\ invitation[i] \in InvitationRecord
  BY <1>1, <1>2 DEF TxOK, Admitted, IInv, TablesOK
<1>4. "accepted" \in Invited /\ "expired" \in Invited  BY DEF Invited
<1>5. CASE x.op = "complete"
  <2>1. NewRow(t, i) = [invitation[i] EXCEPT !.state = "accepted"]
    BY <1>2, <1>5 DEF NewRow
  <2>2. NewRow(t, i).state = "accepted"
    BY <1>2, <1>3, <1>4, <2>1, RowFields
  <2>3. NewNote(t, i) = note[i]  BY <1>5, <2>2 DEF NewNote
  <2>4. note' = note
    BY <1>2, <2>3 DEF IInv, TablesOK
  <2>5. NewKey(t) = Transactions!Bound("completed", i)
    BY <1>5, SameRows DEF NewKey
  <2>6. Transactions!Rebind(i, Transactions!Bound("completed", i))
    BY <2>5, DecisionRebinds
  <2>7. invitation' = [invitation EXCEPT ![i].state = "accepted"]
    BY <1>2, <2>1
  <2>8. Transactions!Complete(i)
    BY <1>2, <1>3, <2>4, <2>6, <2>7 DEF Transactions!Complete, Transactions!Enters
  <2> QED  BY <1>2, <2>8 DEF Transactions!Next
<1>6. CASE x.op = "refuse"
  <2>1. NewRow(t, i) = [invitation[i] EXCEPT !.state = "expired"]
    BY <1>2, <1>6 DEF NewRow
  <2>2. NewRow(t, i).state = "expired"
    BY <1>2, <1>3, <1>4, <2>1, RowFields
  <2>3. NewNote(t, i) = 0  BY <1>6, <2>2 DEF NewNote
  <2>4. NewKey(t) = Transactions!Free
    BY <1>6, SameRows DEF NewKey
  <2>5. Transactions!Rebind(i, Transactions!Free)
    BY <2>4, DecisionRebinds
  <2>6. invitation' = [invitation EXCEPT ![i].state = "expired"]
    BY <1>2, <2>1
  <2>7. Transactions!Refuse(i)
    BY <1>2, <1>3, <2>3, <2>5, <2>6
       DEF Transactions!Refuse, Transactions!Enters, Transactions!Silence
  <2> QED  BY <1>2, <2>7 DEF Transactions!Next
<1> QED  BY <1>5, <1>6 DEF Deciding

LEMMA CommitSweeps ==
    ASSUME IInv, NEW t \in Txns, Commit(t), tx[t].op = "sweep"
    PROVE  Transactions!Next
<1> DEFINE x == tx[t]
           S == {i \in Invitations : x.seen[i] # Absent}
<1>1. x.at = "commit" /\ TxOK(x, held[t])  BY DEF Commit, IInv
<1>2. Written(t) = S  BY DEF Written
<1>3. ASSUME NEW i \in S
      PROVE  /\ NewRow(t, i) = [invitation[i] EXCEPT !.state = "expired"]
             /\ NewRow(t, i).state = "expired"
             /\ NewNote(t, i) = 0
             /\ invitation[i].state = "open"
             /\ i \in due
  <2>1. i \in Invitations /\ x.seen[i] = invitation[i] /\ invitation[i] # Absent
    BY <1>1, AtCommit
  <2>2. NewRow(t, i) = [invitation[i] EXCEPT !.state = "expired"]
    BY <2>1 DEF NewRow
  <2>3. invitation[i] \in InvitationRecord /\ "expired" \in Invited
    BY <2>1 DEF IInv, TablesOK, Invited
  <2>4. NewRow(t, i).state = "expired"
    BY <2>1, <2>2, <2>3, RowFields
  <2>5. NewNote(t, i) = 0  BY <2>4 DEF NewNote
  <2>6. invitation[i].state = "open"
    BY <1>1, <2>1 DEF TxOK, Admitted
  <2>7. invitation'[i] = NewRow(t, i)
    BY <1>2, <2>1 DEF Commit
  <2>8. i \in due
    BY <2>1, <2>4, <2>6, <2>7, CommitExpires
  <2> QED  BY <2>2, <2>4, <2>5, <2>6, <2>8
<1> HIDE DEF S
<1>4. invitation' = [i \in Invitations |->
                        IF i \in S THEN [invitation[i] EXCEPT !.state = "expired"]
                        ELSE invitation[i]]
  <2>1. invitation' = [i \in Invitations |-> IF i \in S THEN NewRow(t, i) ELSE invitation[i]]
    BY <1>2 DEF Commit
  <2> QED  BY <1>3, <2>1
<1>5. note' = [i \in Invitations |-> IF i \in S THEN 0 ELSE note[i]]
  <2>1. note' = [i \in Invitations |->
                    IF i \in S THEN NewNote(t, i)
                    ELSE IF x.op = "deliver" /\ i = x.id THEN 0 ELSE note[i]]
    BY <1>2 DEF Commit
  <2> QED  BY <1>3, <2>1
<1>6. UNCHANGED <<next, due>>  BY DEF Commit
<1>7. S \in SUBSET Invitations  BY DEF S
<1>8. Transactions!ExpireAll(S)
  BY <1>3, <1>4, <1>5, <1>6 DEF Transactions!ExpireAll
<1>9. NewKey(t) = Transactions!Bound("completed", NULL)
  BY SameRows DEF NewKey
<1>10. x.key \in Keys /\ Transactions!Answer(x.key, Transactions!Bound("completed", NULL))
  BY <1>9, KeyAnswered
<1>11. Transactions!Sweep(S)  BY <1>8, <1>10 DEF Transactions!Sweep
<1> QED  BY <1>7, <1>11 DEF Transactions!Next

\* Executors of notifications and claims settle at most one notification.
LEMMA CommitSettles ==
    ASSUME IInv, NEW t \in Txns, Commit(t), tx[t].op \in {"deliver", "retry", "claim"}
    PROVE  Transactions!Next \/ UNCHANGED Transactions!vars
<1> DEFINE x == tx[t]
           i == x.id
<1>1. x.at = "commit"  BY DEF Commit
<1>2. x.key \notin Keys /\ (x.op # "claim" => i \in Invitations)
  BY <1>1, AtCommit
<1>3. /\ invitation \in [Invitations -> InvitationRecord]
      /\ note \in [Invitations -> 0..MaxGeneration]
      /\ mutation \in [Keys -> MutationRecord]
  BY DEF IInv, TablesOK
<1>4. Written(t) = {}
  BY DEF Written
<1>5. UNCHANGED <<invitation, mutation, next, due>>
  BY <1>2, <1>3, <1>4 DEF Commit
<1>6. note' = note \/ (i \in Invitations /\ note' = [note EXCEPT ![i] = 0])
  <2>1. CASE x.op = "deliver"
    BY <1>2, <1>3, <1>4, <2>1 DEF Commit
  <2>2. CASE x.op # "deliver"
    BY <1>2, <1>3, <1>4, <2>2 DEF Commit
  <2> QED  BY <2>1, <2>2
<1>7. CASE note' = note
  BY <1>5, <1>7 DEF Transactions!vars
<1>8. CASE i \in Invitations /\ note' = [note EXCEPT ![i] = 0] /\ note' # note
  <2>1. note[i] # 0  BY <1>3, <1>8
  <2>2. Transactions!Settle(i)
    BY <1>5, <1>8, <2>1 DEF Transactions!Settle, Transactions!Silence
  <2> QED  BY <1>8, <2>2 DEF Transactions!Next
<1> QED  BY <1>6, <1>7, <1>8

\* Every statement of a transaction but the last leaves the committed tables alone, and
\* the last does what the operation does as one step.
LEMMA StepIsAtomic ==
    ASSUME IInv, [Next]_vars
    PROVE  Transactions!Next \/ UNCHANGED Transactions!vars
<1>1. CASE UNCHANGED vars
  BY <1>1 DEF vars, Transactions!vars
<1>2. ASSUME NEW t \in Txns,
             \/ BeginKeyed(t) \/ BeginExecuting(t) \/ Stop(t) \/ LeaseLost(t)
             \/ DeadlockAbort(t)
      PROVE  UNCHANGED Transactions!vars
  <2>1. data' = data /\ due' = due
    BY <1>2 DEF BeginKeyed, BeginExecuting, Begin, Stop, LeaseLost, DeadlockAbort
  <2> QED  BY <2>1 DEF data, Transactions!vars
<1>3. ASSUME NEW t \in Txns, Statement(t)
      PROVE  UNCHANGED Transactions!vars
  <2>1. data' = data /\ due' = due
    BY <1>3 DEF Statement, Reserve, Replay, LockAddress, AllocateNumber, LockMember,
       LockInvitation, Sweep, WriteNote, RecordDelivery, WriteBoundKey, Claim
  <2> QED  BY <2>1 DEF data, Transactions!vars
<1>4. ASSUME NEW t \in Txns, Commit(t)
      PROVE  Transactions!Next \/ UNCHANGED Transactions!vars
  <2>1. tx[t].op \in {"invite", "sweep", "deliver", "retry", "claim"} \cup Calling \cup Deciding
    BY <1>4, AtCommit DEF Commit
  <2> QED
    BY <1>4, <2>1, CommitInvites, CommitResends, CommitRevokes, CommitAccepts, CommitDecides,
       CommitSweeps, CommitSettles DEF Calling
<1>5. ASSUME NEW i \in Invitations, TokenComesDue(i)
      PROVE  Transactions!Next
  <2>1. Transactions!TokenComesDue(i)
    BY <1>5 DEF TokenComesDue, Transactions!TokenComesDue, data
  <2> QED  BY <2>1 DEF Transactions!Next
<1> QED  BY <1>1, <1>2, <1>3, <1>4, <1>5 DEF Next, Step

\* The transactions of storage.rs, statement by statement under PostgreSQL's locks,
\* implement their atomic versions: however many overlap, whoever waits for whom and
\* whoever is rolled back, each commit finds what its operation requires and changes
\* what its operation says.  So InvitationStore may take each for one step.
THEOREM TransactionsAreAtomic == Spec => CommitsAreAtomic
<1>1. Init => Transactions!Init
  BY SameRows DEF Init, Transactions!Init
<1>2. IInv /\ [Next]_vars => [Transactions!Next]_Transactions!vars
  BY StepIsAtomic
<1> QED
  BY <1>1, <1>2, Invariance, PTL DEF Spec, CommitsAreAtomic, Transactions!Spec
================================================================================
