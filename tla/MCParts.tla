-------------------------------- MODULE MCParts --------------------------------
(* Three parts of the plugin that share no state.  A behaviour follows one of     *)
(* them: the retries of a command, a listing read page by page, or a text of a    *)
(* request.                                                                       *)
EXTENDS RetryBackoff, KeysetPages, RequestText, TLC

CONSTANTS a, b

VARIABLE part

\* The least, the default and the greatest configuration, and those at which the
\* cap of a day begins to matter.
MCBases == {1, 21, 22, 30, 3600}
MCMaxima == {1, 8, 20}

\* Four invitations of two addresses, one or two to a page.
FourIds == 1..4
TwoEmails == {a, b}
MCEmailOf == 1 :> a @@ 2 :> b @@ 3 :> a @@ 4 :> a

\* The table is that of the powers of two.
ASSUME ShiftedAssumption == \A e \in 0..12 : Shifted[e + 1] = 2^e

Init ==
    /\ part \in {"retries", "listing", "text"}
    /\ BackoffInit /\ (part # "retries" => base = 1 /\ max = 1)
    /\ PagesInit
    /\ TextInit

Next ==
    /\ \/ part = "retries" /\ BackoffNext /\ UNCHANGED <<pagesVars, text>>
       \/ part = "listing" /\ PagesNext /\ UNCHANGED <<backoffVars, text>>
       \/ part = "text" /\ TextNext /\ UNCHANGED <<backoffVars, pagesVars>>
    /\ UNCHANGED part

Spec == Init /\ [][Next]_<<part, backoffVars, pagesVars, text>>
================================================================================
