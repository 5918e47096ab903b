------------------------------ MODULE RequestText ------------------------------
(***************************************************************************)
(* The text of requests, typed one character at a time: e-mail addresses   *)
(* and their normal form, opaque identifiers, and the key of the advisory  *)
(* lock that is put together from an organization_id and a normalized      *)
(* address.                                                                *)
(***************************************************************************)
EXTENDS Naturals, Sequences, SequencesExt

CONSTANTS
    MaxText,              \* bound on what is typed
    MaxLocal, MaxLabel, MaxDomain, MaxAddress,    \* 64, 63, 255 and 320 in the code
    None

ASSUME LimitsAssumption == {MaxText, MaxLocal, MaxLabel, MaxDomain, MaxAddress} \subseteq Nat

VARIABLE text
--------------------------------------------------------------------------------
(* Characters: one or two for each class the code tells apart.  A letter in   *)
(* lower and in upper case, the punctuation of the two halves of an address,  *)
(* and the separator \u{1f}, which stands for every control character.        *)

Letters == {"a", "A"}
Separator == "\\u{1f}"
Characters == Letters \cup {".", "-", "@", "/", " ", Separator}

Lower(c) == IF c = "A" THEN "a" ELSE c
Upper(c) == IF c = "a" THEN "A" ELSE c
Map(f(_), s) == [i \in 1..Len(s) |-> f(s[i])]

StartsWith(s, c) == Len(s) > 0 /\ s[1] = c
EndsWith(s, c) == Len(s) > 0 /\ s[Len(s)] = c
Doubled(s, c) == \E i \in 1..Len(s) - 1 : s[i] = c /\ s[i + 1] = c
AllIn(s, C) == \A i \in 1..Len(s) : s[i] \in C

\* The non-empty pieces of s between the characters c: where s has no empty piece,
\* these are all of its pieces.
Pieces(s, c) ==
    {SubSeq(s, p[1], p[2]) : p \in
        {q \in (1..Len(s)) \X (1..Len(s)) :
            /\ q[1] <= q[2]
            /\ q[1] = 1 \/ s[q[1] - 1] = c
            /\ q[2] = Len(s) \/ s[q[2] + 1] = c
            /\ \A k \in q[1]..q[2] : s[k] # c}}
--------------------------------------------------------------------------------
(* normalize_email *)

Trim(s) ==
    LET ink == {i \in 1..Len(s) : s[i] # " "} IN
    IF ink = {} THEN <<>>
    ELSE SubSeq(s, CHOOSE i \in ink : \A j \in ink : i <= j,
                   CHOOSE i \in ink : \A j \in ink : j <= i)

ValidLocal(local) ==
    /\ Len(local) \in 1..MaxLocal
    /\ ~StartsWith(local, ".") /\ ~EndsWith(local, ".") /\ ~Doubled(local, ".")
    /\ AllIn(local, Letters \cup {".", "-"})

\* Mutant: a label may end with a hyphen.
LabelEnds(label) ==
    /\ Len(label) <= MaxLabel
    /\ ~StartsWith(label, "-")
    /\ AllIn(label, Letters \cup {"-"})

ValidLabel(label) ==
    /\ Len(label) <= MaxLabel
    /\ ~StartsWith(label, "-") /\ ~EndsWith(label, "-")
    /\ AllIn(label, Letters \cup {"-"})

\* No label is empty.
ValidDomain(domain) ==
    /\ domain # <<>> /\ Len(domain) <= MaxDomain /\ ~Contains(domain, "@")
    /\ ~StartsWith(domain, ".") /\ ~EndsWith(domain, ".") /\ ~Doubled(domain, ".")
    /\ \A label \in Pieces(domain, ".") : ValidLabel(label)

\* Trimmed, split at the first @, checked and written in lower case; or None.
NormalizeEmail(value) ==
    LET s == Trim(value)
        ats == {i \in 1..Len(s) : s[i] = "@"}
        at == CHOOSE i \in ats : \A j \in ats : i <= j
    IN  IF /\ Len(s) \in 3..MaxAddress
           /\ ats # {}
           /\ ValidLocal(SubSeq(s, 1, at - 1))
           /\ ValidDomain(SubSeq(s, at + 1, Len(s)))
        THEN Map(Lower, s)
        ELSE None
--------------------------------------------------------------------------------
(* Identifiers and the key of the lock *)

ValidOpaqueId(s) == s # <<>> /\ AllIn(s, Letters \cup {".", "-", "/"})

\* Mutant: a separator that identifiers and addresses may hold.
DashedKey(organization, email) == organization \o <<"-">> \o email

LockKey(organization, email) == organization \o <<Separator>> \o email
--------------------------------------------------------------------------------
Type(c) == Len(text) < MaxText /\ text' = Append(text, c)

TextInit == text = <<>>
TextNext == \E c \in Characters : Type(c)
TextSpec == TextInit /\ [][TextNext]_text
--------------------------------------------------------------------------------
(* Properties *)

\* The ways in which s is put together from pieces joined by dots: the pieces between
\* neighbouring cuts, where some of its dots and its two ends are the cuts.
Dots(s) == {i \in 1..Len(s) : s[i] = "."}
Gaps(s, cuts) ==
    {g \in ({0} \cup cuts) \X (cuts \cup {Len(s) + 1}) :
        g[1] < g[2] /\ \A k \in cuts : k <= g[1] \/ g[2] <= k}
Cut(s, cuts) == {SubSeq(s, g[1] + 1, g[2] - 1) : g \in Gaps(s, cuts)}
Joins(s) == {Cut(s, cuts) : cuts \in SUBSET Dots(s)}

\* An address in lower case, as a grammar makes it: words of letters and hyphens
\* joined by dots, an @, and labels joined by dots.
IsWord(w) == w # <<>> /\ AllIn(w, {"a", "-"})
IsLabel(w) == IsWord(w) /\ Len(w) <= MaxLabel /\ w[1] # "-" /\ w[Len(w)] # "-"
IsLocal(s) == Len(s) <= MaxLocal /\ \E words \in Joins(s) : \A w \in words : IsWord(w)
IsDomain(s) ==
    /\ Len(s) <= MaxDomain
    /\ \E labels \in Joins(s) : \A w \in labels : IsLabel(w)
IsAddress(s) ==
    /\ Len(s) <= MaxAddress
    /\ \E at \in 1..Len(s) : /\ s[at] = "@"
                             /\ IsLocal(SubSeq(s, 1, at - 1))
                             /\ IsDomain(SubSeq(s, at + 1, Len(s)))

\* normalize_email accepts what the grammar makes, in either case and with blanks
\* around it, and nothing else.
AddressesAreTheGrammar ==
    LET plain == Map(Lower, Trim(text)) IN
    IF IsAddress(plain) THEN NormalizeEmail(text) = plain ELSE NormalizeEmail(text) = None

\* What two creations for one organization meet at is one mailbox, no less and no
\* more.  Two spellings of a mailbox that differ in case or in blanks have one normal
\* form, which is its own; and, as the comment at the lock key has it, no text is the
\* key of two pairs of an organization_id and a normal form.
LocksAreOfMailboxes ==
    LET form == NormalizeEmail(text) IN
    /\ NormalizeEmail(Map(Upper, text)) = form
    /\ NormalizeEmail(<<" ">> \o text) = form
    /\ form # None => NormalizeEmail(form) = form
    /\ \A i, j \in 0..Len(text) :
          LET Org(k) == SubSeq(text, 1, k)
              Rest(k) == SubSeq(text, k + 2, Len(text))
              IsKey(k) == /\ ValidOpaqueId(Org(k)) /\ Rest(k) # <<>>
                          /\ NormalizeEmail(Rest(k)) = Rest(k)
                          /\ text = LockKey(Org(k), Rest(k))
          IN  IsKey(i) /\ IsKey(j) => i = j
================================================================================
