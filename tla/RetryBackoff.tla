------------------------------ MODULE RetryBackoff ------------------------------
(***************************************************************************)
(* How long a durable command waits between two executions and when it is  *)
(* given up: the attempts every claim counts, the delay computed from them *)
(* in 64-bit arithmetic, and the answers that are retried for ever, up to  *)
(* max_command_attempts, or not at all.                                    *)
(***************************************************************************)
EXTENDS Naturals

CONSTANTS
    Bases,                \* values of retry_base_seconds
    Maxima,               \* values of max_command_attempts
    MaxI64,               \* i64::MAX, at which the multiplication saturates
    AttemptsBound         \* attempts counted; further ones behave alike

\* OrganizationInvitationConfig::validate refuses every other value.
ASSUME BackoffAssumption ==
    /\ Bases \subseteq 1..3600
    /\ Maxima \subseteq 1..20
    /\ MaxI64 \in Nat /\ MaxI64 > 14745600
    /\ AttemptsBound \in Nat /\ AttemptsBound > 20

VARIABLES
    base, max,            \* the configuration, which is immutable
    state,                \* of the command: "pending", "in_flight" or how it ended
    due,                  \* available_at has passed, or the lease has
    attempts,             \* the column of that name
    delay,                \* the last retry_after_seconds; 0 before the first
    unknowns              \* history: answers "unknown" so far

backoffVars == <<base, max, state, due, attempts, delay, unknowns>>
--------------------------------------------------------------------------------
(* The delay *)

DayInSeconds == 86400

Least(a, b) == IF a <= b THEN a ELSE b

\* 1 << exponent for the exponents there can be.
Shifted == <<1, 2, 4, 8, 16, 32, 64, 128, 256, 512, 1024, 2048, 4096>>

\* Mutant: the exponent wraps where it should stay at its greatest.
WrappedExponent(n) == IF n = 0 THEN 0 ELSE (n - 1) % 13

\* u32::try_from(attempts.saturating_sub(1)).unwrap_or(0).min(12)
Exponent(n) == IF n = 0 THEN 0 ELSE Least(n - 1, 12)

Multiplier(n) == Shifted[Exponent(n) + 1]

SaturatingMul(a, b) == Least(a * b, MaxI64)

Delay(b, n) == Least(SaturatingMul(b, Multiplier(n)), DayInSeconds)
--------------------------------------------------------------------------------
(* The command *)

Claim ==
    /\ due
    /\ state \in {"pending", "in_flight"}
    /\ state' = "in_flight"
    /\ due' = FALSE
    /\ attempts' = Least(attempts + 1, AttemptsBound)
    /\ UNCHANGED <<base, max, delay, unknowns>>

\* The executor died or its storage failed, and its lease runs out.
Lapse ==
    /\ state = "in_flight"
    /\ ~due
    /\ due' = TRUE
    /\ UNCHANGED <<base, max, state, attempts, delay, unknowns>>

\* The delay of a retry passes.
BecomeAvailable ==
    /\ state = "pending"
    /\ ~due
    /\ due' = TRUE
    /\ UNCHANGED <<base, max, state, attempts, delay, unknowns>>

\* schedule_command_retry: the row is pending again after a delay.
ScheduleRetry ==
    /\ state' = "pending"
    /\ due' = FALSE
    /\ delay' = Delay(base, attempts)
    /\ UNCHANGED <<base, max, attempts>>

End(outcome) ==
    /\ state' = outcome
    /\ due' = FALSE
    /\ UNCHANGED <<base, max, attempts, delay>>

\* A runtime failure of the provider is retried however often it was before.
Outage ==
    /\ state = "in_flight"
    /\ ScheduleRetry
    /\ UNCHANGED unknowns

\* Mutant: one attempt too many.
SpentLate == attempts > max

Spent == attempts >= max

\* retry_or_fail_command: an answer this version does not know is retried until
\* the attempts are spent, those that met an outage or a crash included.
Unknown ==
    /\ state = "in_flight"
    /\ unknowns' = Least(unknowns + 1, AttemptsBound)
    /\ IF Spent THEN End("given_up") ELSE ScheduleRetry

\* Any other domain error is final at once, and so is success.
Decided ==
    /\ state = "in_flight"
    /\ \E outcome \in {"completed", "rejected"} : End(outcome)
    /\ UNCHANGED unknowns

BackoffInit ==
    /\ base \in Bases
    /\ max \in Maxima
    /\ state = "pending"
    /\ due = TRUE
    /\ attempts = 0
    /\ delay = 0
    /\ unknowns = 0

BackoffNext == Claim \/ Lapse \/ BecomeAvailable \/ Outage \/ Unknown \/ Decided

BackoffSpec == BackoffInit /\ [][BackoffNext]_backoffVars
--------------------------------------------------------------------------------
(* Properties *)

\* The type invariant: in particular a retry waits for no less than the configured
\* base and no more than a day, and the product is what 64 bits hold.
BackoffTypeOK ==
    /\ base \in Bases
    /\ max \in Maxima
    /\ state \in {"pending", "in_flight", "completed", "rejected", "given_up"}
    /\ due \in BOOLEAN
    /\ attempts \in 0..AttemptsBound
    /\ delay \in {0} \cup base..DayInSeconds
    /\ unknowns \in 0..attempts

\* schedule_command_retry never lets a command wait less than the time before,
\* however many attempts it has behind it, nor less than the configured base or
\* more than a day.
DelaysGrowToADay ==
    [][/\ delay <= delay'
       /\ delay' # delay => delay' \in base..DayInSeconds]_backoffVars

\* A command is given up over unknown answers after exactly the configured number
\* of attempts if nothing else befell it, never before, and one with more attempts
\* behind it met an outage or a crash on the way.
PatienceIsExact ==
    /\ state = "given_up" => attempts >= max
    /\ state = "given_up" /\ unknowns = attempts => attempts = max
    /\ attempts > max => unknowns < attempts
================================================================================
