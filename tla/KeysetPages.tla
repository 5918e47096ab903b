------------------------------ MODULE KeysetPages ------------------------------
(***************************************************************************)
(* list_invitations read page by page while invitations are created, sent  *)
(* again and ended: the keyset cursor (created_at, invitation_id), the one *)
(* row read beyond the limit, and what a client that follows next_cursor   *)
(* to the end has seen of rows that come and go meanwhile.                 *)
(***************************************************************************)
EXTENDS Naturals, FiniteSets

CONSTANTS
    Ids,                  \* invitation_ids, in the order of uuid
    Emails,               \* normalized addresses
    EmailOf,              \* the address of each invitation
    MaxTime,              \* bound on the clock
    MaxLimit,             \* the greatest limit of a request
    NULL

ASSUME PagesAssumption ==
    /\ Ids \subseteq Nat /\ IsFiniteSet(Ids)
    /\ EmailOf \in [Ids -> Emails]
    /\ MaxTime \in Nat
    /\ MaxLimit \in 1..100
    /\ NULL \notin Emails \cup {"pending", "ended"}
    /\ NULL \notin [created : Nat, id : Ids]

VARIABLES
    now,                  \* the clock transactions take CURRENT_TIMESTAMP from
    row,                  \* "absent", "uncommitted", or the state of the row
    created,              \* created_at: when the transaction began
    filters,              \* state and email of the request, NULL for any
    cursor,               \* the cursor of the next page, NULL for the first
    listing,              \* "idle", "open" while there is a next page, "done"
    listed, twice,        \* rows the client was given, once or more; more than once
    stayed                \* rows that matched at every moment since the first page

pagesVars == <<now, row, created, filters, cursor, listing, listed, twice, stayed>>
--------------------------------------------------------------------------------
(* The query *)

States == {"pending", "ended"}
Filters == [state : States \cup {NULL}, email : Emails \cup {NULL}]
Key(i) == [created |-> created[i], id |-> i]

\* The order of the rows, ascending.
SortsBefore(k, l) == k.created < l.created \/ (k.created = l.created /\ k.id < l.id)

IsRead(i) == row[i] \in States

Matches(i, f) ==
    /\ IsRead(i)
    /\ f.state = NULL \/ row[i] = f.state
    /\ f.email = NULL \/ EmailOf[i] = f.email

\* Mutant: the identifier does not break ties.
BehindTime(k) == k.created < cursor.created

\* Mutant: the comparison is not strict.
BehindOrAt(k) == k = cursor \/ SortsBefore(k, cursor)

\* (created_at, invitation_id) < (created_at, invitation_id) of the cursor.
Behind(k) == SortsBefore(k, cursor)

\* The committed rows the WHERE clause keeps.
Remaining == {i \in Ids : Matches(i, filters) /\ (cursor = NULL \/ Behind(Key(i)))}

\* The first of them in descending order: limit + 1 are read and the last is
\* dropped, so that more are left exactly when the page is not all of them.
FirstPage(M, S, limit) ==
    /\ S \subseteq M
    /\ \A i \in S, j \in M \ S : SortsBefore(Key(j), Key(i))
    /\ \/ S = M /\ Cardinality(S) <= limit
       \/ S # M /\ Cardinality(S) = limit
--------------------------------------------------------------------------------
(* The client *)

Start(f) ==
    /\ listing = "idle"
    /\ filters' = f
    /\ listing' = "open"
    /\ stayed' = {i \in Ids : Matches(i, f)}
    /\ UNCHANGED <<now, row, created, cursor, listed, twice>>

\* next_cursor is the key of the last row of the page, or null if nothing is left.
ReadPage ==
    /\ listing = "open"
    /\ \E limit \in 1..MaxLimit, S \in SUBSET Remaining :
          /\ FirstPage(Remaining, S, limit)
          /\ listed' = listed \cup S
          /\ twice' = twice \cup (S \cap listed)
          /\ IF S = Remaining
             THEN listing' = "done" /\ cursor' = NULL
             ELSE /\ listing' = "open"
                  /\ \E i \in S : /\ \A j \in S \ {i} : SortsBefore(Key(i), Key(j))
                                  /\ cursor' = Key(i)
    /\ UNCHANGED <<now, row, created, filters, stayed>>
--------------------------------------------------------------------------------
(* Everybody else *)

Tick ==
    /\ now < MaxTime
    /\ now' = now + 1
    /\ UNCHANGED <<row, created, filters, cursor, listing, listed, twice, stayed>>

\* A transaction begins and will insert the row: its created_at is fixed from now on.
BeginCreate(i) ==
    /\ row[i] = "absent"
    /\ row' = [row EXCEPT ![i] = "uncommitted"]
    /\ created' = [created EXCEPT ![i] = now]
    /\ UNCHANGED <<now, filters, cursor, listing, listed, twice, stayed>>

CommitCreate(i) ==
    /\ row[i] = "uncommitted"
    /\ row' = [row EXCEPT ![i] = "pending"]
    /\ UNCHANGED <<now, created, filters, cursor, listing, listed, twice, stayed>>

\* Accepted, revoked or expired.  Rows are never deleted, and no UPDATE of the code
\* writes created_at: resend and accept leave a pending row where it is.
EndInvitation(i) ==
    /\ row[i] = "pending"
    /\ row' = [row EXCEPT ![i] = "ended"]
    /\ stayed' = {j \in stayed : j # i \/ filters.state # "pending"}
    /\ UNCHANGED <<now, created, filters, cursor, listing, listed, twice>>

PagesInit ==
    /\ now = 0
    /\ row = [i \in Ids |-> "absent"]
    /\ created = [i \in Ids |-> 0]
    /\ filters = [state |-> NULL, email |-> NULL]
    /\ cursor = NULL
    /\ listing = "idle"
    /\ listed = {}
    /\ twice = {}
    /\ stayed = {}

PagesNext ==
    \/ \E f \in Filters : Start(f)
    \/ ReadPage
    \/ Tick
    \/ \E i \in Ids : BeginCreate(i) \/ CommitCreate(i) \/ EndInvitation(i)

PagesSpec == PagesInit /\ [][PagesNext]_pagesVars
--------------------------------------------------------------------------------
(* Properties *)

\* The type invariant.
PagesTypeOK ==
    /\ now \in Nat
    /\ row \in [Ids -> States \cup {"absent", "uncommitted"}]
    /\ created \in [Ids -> Nat]
    /\ filters \in Filters
    /\ cursor \in [created : Nat, id : Ids] \cup {NULL}
    /\ listing \in {"idle", "open", "done"}
    /\ listed \subseteq {i \in Ids : row[i] \in States}
    /\ twice \subseteq listed /\ stayed \subseteq Ids

\* No invitation comes on two pages, though invitations are created, sent again and
\* ended between the pages.
NothingIsListedTwice == twice = {}

\* A client that read up to the page without next_cursor has seen every invitation
\* that was committed before its first page and matched its filters throughout.
StayersAreListed == listing = "done" => stayed \subseteq listed
================================================================================
