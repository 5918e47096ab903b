------------------------------ MODULE Parts_proofs ------------------------------
(***************************************************************************)
(* Proofs about the small parts, for every value of their constants.       *)
(*                                                                         *)
(* RetryBackoff, in every configuration validate accepts: the delay never  *)
(* overflows, is the base doubled per attempt up to 4096 times or a day,   *)
(* and unknown answers are borne exactly max times.                        *)
(*                                                                         *)
(* KeysetPages, for any number of invitations, any addresses, any time and *)
(* any limits: no row comes twice and no stayer is missed.                 *)
(*                                                                         *)
(* RequestText, for texts of every length: normal forms forget the case    *)
(* and the blanks around an address, the key of a lock is of one pair, and *)
(* what is accepted is what the grammar of addresses makes.                *)
(***************************************************************************)
EXTENDS RetryBackoff, KeysetPages, RequestText, SequenceTheorems, WellFoundedInduction, TLAPS

--------------------------------------------------------------------------------
(* The retry delay *)

\* Products of naturals grow with their factors.
LEMMA ProductGrows ==
    \A b, x, y \in Nat : x <= y => b * x \in Nat /\ b * y \in Nat /\ b * x <= b * y
<1>1. SUFFICES ASSUME NEW b \in Nat, NEW x \in Nat, NEW y \in Nat, x <= y
               PROVE  b * x \in Nat /\ b * y \in Nat /\ b * x <= b * y
  OBVIOUS
<1>2. PICK d \in Nat : y = x + d
  <2>1. y - x \in Nat /\ y = x + (y - x)  BY <1>1
  <2> QED  BY <2>1
<1>3. b * d \in Nat /\ b * x \in Nat  OBVIOUS
<1>4. b * y = b * x + b * d  BY <1>2
<1> QED  BY <1>3, <1>4

\* The table of powers is positive, bounded and increasing.
LEMMA ShiftedGrows ==
    \A e, f \in Nat : e <= f /\ f <= 12 =>
        /\ Shifted[e + 1] \in Nat /\ Shifted[f + 1] \in Nat
        /\ 1 <= Shifted[e + 1] /\ Shifted[e + 1] <= 4096
        /\ Shifted[e + 1] <= Shifted[f + 1]
<1>1. SUFFICES ASSUME NEW e \in Nat, NEW f \in Nat, e <= f, f <= 12
               PROVE  /\ Shifted[e + 1] \in Nat /\ Shifted[f + 1] \in Nat
                      /\ 1 <= Shifted[e + 1] /\ Shifted[e + 1] <= 4096
                      /\ Shifted[e + 1] <= Shifted[f + 1]
  OBVIOUS
<1>2. /\ Shifted[1] = 1 /\ Shifted[2] = 2 /\ Shifted[3] = 4 /\ Shifted[4] = 8
      /\ Shifted[5] = 16 /\ Shifted[6] = 32 /\ Shifted[7] = 64 /\ Shifted[8] = 128
      /\ Shifted[9] = 256 /\ Shifted[10] = 512 /\ Shifted[11] = 1024
      /\ Shifted[12] = 2048 /\ Shifted[13] = 4096
  BY SMT DEF Shifted
<1>3. \/ e + 1 = 1 \/ e + 1 = 2 \/ e + 1 = 3 \/ e + 1 = 4 \/ e + 1 = 5 \/ e + 1 = 6
      \/ e + 1 = 7 \/ e + 1 = 8 \/ e + 1 = 9 \/ e + 1 = 10 \/ e + 1 = 11
      \/ e + 1 = 12 \/ e + 1 = 13
  BY SMT, <1>1
<1>4. \/ f + 1 = 1 \/ f + 1 = 2 \/ f + 1 = 3 \/ f + 1 = 4 \/ f + 1 = 5 \/ f + 1 = 6
      \/ f + 1 = 7 \/ f + 1 = 8 \/ f + 1 = 9 \/ f + 1 = 10 \/ f + 1 = 11
      \/ f + 1 = 12 \/ f + 1 = 13
  BY SMT, <1>1
<1>5. Shifted[e + 1] \in Nat /\ 1 <= Shifted[e + 1] /\ Shifted[e + 1] <= 4096
  BY SMT, <1>2, <1>3
<1>6. Shifted[f + 1] \in Nat  BY SMT, <1>2, <1>4
<1>7. e + 1 <= f + 1  BY SMT, <1>1
<1>8. Shifted[e + 1] <= Shifted[f + 1]  BY SMT, <1>2, <1>3, <1>4, <1>7
<1> QED  BY SMT, <1>5, <1>6, <1>8

\* The multiplier stays in the table, whatever the number of attempts.
LEMMA MultiplierGrows ==
    \A m, n \in Nat : m <= n =>
        /\ Multiplier(m) \in Nat /\ Multiplier(n) \in Nat
        /\ 1 <= Multiplier(m) /\ Multiplier(m) <= 4096
        /\ Multiplier(m) <= Multiplier(n)
<1>1. SUFFICES ASSUME NEW m \in Nat, NEW n \in Nat, m <= n
               PROVE  /\ Multiplier(m) \in Nat /\ Multiplier(n) \in Nat
                      /\ 1 <= Multiplier(m) /\ Multiplier(m) <= 4096
                      /\ Multiplier(m) <= Multiplier(n)
  OBVIOUS
<1>2. PICK e \in Nat : e = Exponent(m) /\ e = IF m = 0 THEN 0 ELSE IF m - 1 <= 12 THEN m - 1 ELSE 12
  BY SMT DEF Exponent, Least
<1>3. PICK f \in Nat : f = Exponent(n) /\ f = IF n = 0 THEN 0 ELSE IF n - 1 <= 12 THEN n - 1 ELSE 12
  BY SMT DEF Exponent, Least
<1>4. e \in Nat /\ f \in Nat /\ e <= f /\ f <= 12  BY SMT, <1>1, <1>2, <1>3
<1>5. Multiplier(m) = Shifted[e + 1] /\ Multiplier(n) = Shifted[f + 1]
  BY SMT, <1>2, <1>3 DEF Multiplier
<1> QED  BY SMT, <1>4, <1>5, ShiftedGrows

\* The product is the exact one, so nothing saturates, and the delay lies between the
\* configured base and a day.
LEMMA DelayIsBounded ==
    \A b, n \in Nat : 1 <= b /\ b <= 3600 =>
        /\ SaturatingMul(b, Multiplier(n)) = b * Multiplier(n)
        /\ Delay(b, n) \in Nat /\ b <= Delay(b, n) /\ Delay(b, n) <= DayInSeconds
<1>1. SUFFICES ASSUME NEW b \in Nat, NEW n \in Nat, 1 <= b, b <= 3600
               PROVE  /\ SaturatingMul(b, Multiplier(n)) = b * Multiplier(n)
                      /\ Delay(b, n) \in Nat
                      /\ b <= Delay(b, n) /\ Delay(b, n) <= DayInSeconds
  OBVIOUS
<1>2. PICK s \in Nat : s = Multiplier(n) /\ 1 <= s /\ s <= 4096
  <2>1. n <= n  OBVIOUS
  <2> QED  BY SMT, <2>1, MultiplierGrows
<1>3. b * s \in Nat /\ b * s <= b * 4096 /\ b * 1 <= b * s
  <2>1. 1 \in Nat /\ 4096 \in Nat  BY SMT
  <2> QED  BY SMT, <1>2, <2>1, ProductGrows
<1>4. b <= b * s /\ b * s <= MaxI64
  <2>1. b * 4096 <= 14745600 /\ b * 1 = b  BY SMT, <1>1
  <2> QED  BY SMT, <1>3, <2>1, BackoffAssumption
<1>5. SaturatingMul(b, s) = b * s
  BY SMT, <1>3, <1>4 DEF SaturatingMul, Least
<1>6. Delay(b, n) = IF b * s <= 86400 THEN b * s ELSE 86400
  BY SMT, <1>2, <1>5 DEF Delay, Least, DayInSeconds
<1> QED  BY SMT, <1>1, <1>2, <1>3, <1>4, <1>5, <1>6 DEF DayInSeconds

\* The table doubles from one exponent to the next.
LEMMA ShiftedDoubles ==
    \A e \in 0..11 : Shifted[e + 1] \in Nat /\ Shifted[e + 2] = 2 * Shifted[e + 1]
<1> SUFFICES ASSUME NEW e \in 0..11
             PROVE  Shifted[e + 1] \in Nat /\ Shifted[e + 2] = 2 * Shifted[e + 1]
  OBVIOUS
<1>1. /\ Shifted[1] = 1 /\ Shifted[2] = 2 /\ Shifted[3] = 4 /\ Shifted[4] = 8
      /\ Shifted[5] = 16 /\ Shifted[6] = 32 /\ Shifted[7] = 64 /\ Shifted[8] = 128
      /\ Shifted[9] = 256 /\ Shifted[10] = 512 /\ Shifted[11] = 1024
      /\ Shifted[12] = 2048 /\ Shifted[13] = 4096
  BY SMT DEF Shifted
<1>2. \/ e = 0 \/ e = 1 \/ e = 2 \/ e = 3 \/ e = 4 \/ e = 5 \/ e = 6 \/ e = 7
      \/ e = 8 \/ e = 9 \/ e = 10 \/ e = 11
  BY SMT
<1>3. QED
  BY SMT, <1>1, <1>2

\* schedule_command_retry: the first delay is the configured base, each further attempt
\* doubles it as long as that is no more than a day, and from the thirteenth on it is
\* 4096 times the base, or a day: a base of 21 seconds or less never gets that far.
THEOREM DelayIsExact ==
    \A b \in 1..3600, n \in Nat \ {0} :
        /\ Delay(b, 1) = b
        /\ n <= 12 => Delay(b, n + 1) = Least(2 * Delay(b, n), DayInSeconds)
        /\ n >= 13 => Delay(b, n) = Least(4096 * b, DayInSeconds)
<1>0. SUFFICES ASSUME NEW b \in Nat, NEW n \in Nat, 1 <= b, b <= 3600, 1 <= n
               PROVE  /\ Delay(b, 1) = b
                      /\ n <= 12 => Delay(b, n + 1) = Least(2 * Delay(b, n), DayInSeconds)
                      /\ n >= 13 => Delay(b, n) = Least(4096 * b, DayInSeconds)
  BY SMT
<1>1. \A m \in Nat : Delay(b, m) = Least(b * Multiplier(m), DayInSeconds)
  BY <1>0, DelayIsBounded DEF Delay
<1>2. Delay(b, 1) = b
  <2>1. Multiplier(1) = 1
    BY SMT DEF Multiplier, Exponent, Least, Shifted
  <2>2. b * 1 = b /\ b <= 86400
    BY SMT, <1>0
  <2>3. QED
    BY SMT, <1>1, <2>1, <2>2 DEF Least, DayInSeconds
<1>3. ASSUME n <= 12 PROVE Delay(b, n + 1) = Least(2 * Delay(b, n), DayInSeconds)
  <2>1. Multiplier(n) = Shifted[n] /\ Multiplier(n + 1) = Shifted[n + 1]
    BY SMT, <1>0, <1>3 DEF Multiplier, Exponent, Least
  <2>2. PICK s \in Nat : s = Multiplier(n) /\ Multiplier(n + 1) = 2 * s
    <3>1. n - 1 \in 0..11 /\ (n - 1) + 1 = n /\ (n - 1) + 2 = n + 1
      BY SMT, <1>0, <1>3
    <3>2. QED
      BY <2>1, <3>1, ShiftedDoubles
  <2>3. b * s \in Nat /\ b * (2 * s) = 2 * (b * s)
    BY SMT
  <2>4. Delay(b, n) = Least(b * s, DayInSeconds) /\ Delay(b, n + 1) = Least(2 * (b * s), DayInSeconds)
    BY <1>1, <2>2, <2>3
  <2>5. QED
    BY SMT, <2>3, <2>4 DEF Least, DayInSeconds
<1>4. ASSUME n >= 13 PROVE Delay(b, n) = Least(4096 * b, DayInSeconds)
  <2>1. Multiplier(n) = Shifted[13]
    BY SMT, <1>0, <1>4 DEF Multiplier, Exponent, Least
  <2>2. Shifted[13] = 4096 /\ b * 4096 = 4096 * b
    BY SMT DEF Shifted
  <2>3. QED
    BY <1>1, <2>1, <2>2
<1>5. QED
  BY <1>2, <1>3, <1>4

\* More attempts never make the delay shorter.
THEOREM DelayGrows ==
    \A b, m, n \in Nat : 1 <= b /\ b <= 3600 /\ m <= n => Delay(b, m) <= Delay(b, n)
<1>1. SUFFICES ASSUME NEW b \in Nat, NEW m \in Nat, NEW n \in Nat,
                      1 <= b, b <= 3600, m <= n
               PROVE  Delay(b, m) <= Delay(b, n)
  OBVIOUS
<1>2. PICK s \in Nat, t \in Nat : s = Multiplier(m) /\ t = Multiplier(n) /\ s <= t
  BY SMT, <1>1, MultiplierGrows
<1>3. b * s \in Nat /\ b * t \in Nat /\ b * s <= b * t
  BY SMT, <1>2, ProductGrows
<1>4. SaturatingMul(b, s) = b * s /\ SaturatingMul(b, t) = b * t
  BY SMT, <1>1, <1>2, DelayIsBounded
<1> QED  BY SMT, <1>2, <1>3, <1>4 DEF Delay, Least, DayInSeconds
--------------------------------------------------------------------------------
\* A live command has been answered "unknown" fewer times than the maximum, and one
\* in flight fewer times than it was attempted.
Counted ==
    /\ unknowns <= max
    /\ state \in {"pending", "in_flight"} => unknowns < max
    /\ state = "in_flight" => unknowns < attempts
    /\ state = "given_up" => attempts >= max

\* The last delay was computed from no more attempts than there are.
Slowing == delay <= Delay(base, attempts)

BackoffIInv == BackoffTypeOK /\ Counted /\ Slowing

LEMMA InitBackoff == BackoffInit => BackoffIInv
<1> SUFFICES ASSUME BackoffInit PROVE BackoffIInv  OBVIOUS
<1>1. /\ base \in Nat /\ 1 <= base /\ base <= 3600
      /\ max \in Nat /\ 1 <= max /\ max <= 20 /\ attempts \in Nat
  BY SMT, BackoffAssumption DEF BackoffInit
<1>2. Delay(base, attempts) \in Nat  BY SMT, <1>1, DelayIsBounded
<1>3. BackoffTypeOK  BY BackoffAssumption DEF BackoffInit, BackoffTypeOK
<1>4. Counted  BY SMT, <1>1 DEF BackoffInit, Counted
<1>5. delay = 0  BY DEF BackoffInit
<1>6. Slowing  BY SMT, <1>2, <1>5 DEF Slowing
<1> QED  BY <1>3, <1>4, <1>6 DEF BackoffIInv

\* What BackoffTypeOK and the assumption say of the numbers.
LEMMA Numbers ==
    ASSUME BackoffTypeOK
    PROVE  /\ base \in Nat /\ 1 <= base /\ base <= 3600
           /\ max \in Nat /\ 1 <= max /\ max <= 20
           /\ attempts \in Nat /\ unknowns \in Nat /\ AttemptsBound \in Nat
           /\ delay \in Nat /\ unknowns <= attempts /\ attempts <= AttemptsBound
           /\ AttemptsBound > 20
           /\ Delay(base, attempts) \in Nat /\ base <= Delay(base, attempts)
           /\ Delay(base, attempts) <= DayInSeconds
<1>1. /\ base \in Nat /\ 1 <= base /\ base <= 3600
      /\ max \in Nat /\ 1 <= max /\ max <= 20
  BY SMT, BackoffAssumption DEF BackoffTypeOK
<1>2. attempts \in Nat /\ unknowns \in Nat /\ AttemptsBound \in Nat /\ AttemptsBound > 20
      /\ unknowns <= attempts /\ attempts <= AttemptsBound
  BY BackoffAssumption DEF BackoffTypeOK
<1>3. delay \in Nat  BY SMT, <1>1 DEF BackoffTypeOK, DayInSeconds
<1> QED  BY SMT, <1>1, <1>2, <1>3, DelayIsBounded

\* A step that keeps the delay, or computes it anew, keeps Slowing.
LEMMA SlowingStep ==
    ASSUME BackoffTypeOK, Slowing, base' = base, attempts' \in Nat, attempts <= attempts',
           delay' = delay \/ delay' = Delay(base, attempts)
    PROVE  Slowing'
<1>0. base \in Nat /\ 1 <= base /\ base <= 3600 /\ attempts \in Nat /\ delay \in Nat
  BY SMT, Numbers
<1>1. Delay(base, attempts) <= Delay(base, attempts') /\ Delay(base, attempts') \in Nat
  BY SMT, <1>0, DelayGrows, DelayIsBounded
<1>2. delay' \in Nat /\ delay' <= Delay(base, attempts) /\ Delay(base, attempts) \in Nat
  BY SMT, Numbers DEF Slowing
<1>3. delay' <= Delay(base, attempts')  BY SMT, <1>1, <1>2
<1>4. Slowing' <=> delay' <= Delay(base', attempts')  BY DEF Slowing
<1> QED  BY <1>3, <1>4

LEMMA NextBackoff == BackoffIInv /\ [BackoffNext]_backoffVars => BackoffIInv'
<1> SUFFICES ASSUME BackoffIInv, [BackoffNext]_backoffVars PROVE BackoffIInv'  OBVIOUS
<1>0. BackoffTypeOK /\ Counted /\ Slowing  BY DEF BackoffIInv
<1>1. CASE Claim
  <2>1. attempts' = IF attempts + 1 <= AttemptsBound THEN attempts + 1 ELSE AttemptsBound
    BY <1>1 DEF Claim, Least
  <2>2. attempts <= attempts' /\ attempts' \in Nat /\ attempts' <= AttemptsBound
        /\ unknowns < attempts'
    BY <1>0, <1>1, <2>1, Numbers DEF Claim, Counted
  <2>3. BackoffTypeOK'
    <3>1. attempts' \in 0..AttemptsBound /\ unknowns \in 0..attempts'
      BY SMT, <1>0, <2>2, Numbers
    <3>2. /\ base' = base /\ max' = max /\ delay' = delay /\ unknowns' = unknowns
          /\ state' = "in_flight" /\ due' = FALSE
      BY <1>1 DEF Claim
    <3>3. /\ base \in Bases /\ max \in Maxima /\ delay \in {0} \cup base..DayInSeconds
      BY <1>0 DEF BackoffTypeOK
    <3>4. delay' \in {0} \cup base'..DayInSeconds  BY <3>2, <3>3
    <3>5. unknowns' \in 0..attempts'  BY <3>1, <3>2
    <3> QED  BY <3>1, <3>2, <3>3, <3>4, <3>5 DEF BackoffTypeOK
  <2>4. Counted'  BY <1>0, <1>1, <2>2, Numbers DEF Claim, Counted
  <2>5. base' = base /\ delay' = delay  BY <1>1 DEF Claim
  <2>6. Slowing'  BY <1>0, <2>2, <2>5, SlowingStep
  <2> QED  BY <2>3, <2>4, <2>6 DEF BackoffIInv
<1>2. CASE Lapse
  <2>1. BackoffTypeOK'  BY <1>0, <1>2 DEF Lapse, BackoffTypeOK
  <2>2. Counted'  BY <1>0, <1>2 DEF Lapse, Counted
  <2>3. Slowing'  BY <1>0, <1>2 DEF Lapse, Slowing
  <2> QED  BY <2>1, <2>2, <2>3 DEF BackoffIInv
<1>3. CASE BecomeAvailable
  <2>1. BackoffTypeOK'  BY <1>0, <1>3 DEF BecomeAvailable, BackoffTypeOK
  <2>2. Counted'  BY <1>0, <1>3 DEF BecomeAvailable, Counted
  <2>3. Slowing'  BY <1>0, <1>3 DEF BecomeAvailable, Slowing
  <2> QED  BY <2>1, <2>2, <2>3 DEF BackoffIInv
<1>4. CASE Outage \/ Unknown
  <2>1. /\ state = "in_flight" /\ base' = base /\ max' = max /\ attempts' = attempts
        /\ due' = FALSE
    BY <1>4 DEF Outage, Unknown, ScheduleRetry, End
  <2>2. delay' = delay \/ delay' = Delay(base, attempts)
    BY <1>4 DEF Outage, Unknown, ScheduleRetry, End
  <2>3. attempts' \in Nat /\ attempts <= attempts'  BY <1>0, <2>1, Numbers
  <2>4. Slowing'  BY <1>0, <2>1, <2>2, <2>3, SlowingStep
  <2>5. \/ unknowns' = unknowns /\ state' = "pending"
        \/ unknowns' = unknowns + 1 /\ state' = "pending" /\ attempts < max
        \/ unknowns' = unknowns + 1 /\ state' = "given_up" /\ attempts >= max
    <3>1. unknowns + 1 <= AttemptsBound
      BY <1>0, <2>1, Numbers DEF Counted
    <3> QED
      BY <1>0, <1>4, <3>1, Numbers DEF Outage, Unknown, ScheduleRetry, End, Least, Spent
  <2>6. unknowns' \in 0..attempts /\ unknowns' <= max
    BY <1>0, <2>1, <2>5, Numbers DEF Counted
  <2>7. delay' \in {0} \cup base..DayInSeconds
    BY <1>0, <2>2, Numbers DEF BackoffTypeOK
  <2>8. BackoffTypeOK'  BY <1>0, <2>1, <2>5, <2>6, <2>7 DEF BackoffTypeOK
  <2>9. Counted'  BY <1>0, <2>1, <2>5, <2>6, Numbers DEF Counted
  <2> QED  BY <2>4, <2>8, <2>9 DEF BackoffIInv
<1>5. CASE Decided
  <2>1. BackoffTypeOK'  BY <1>0, <1>5 DEF Decided, End, BackoffTypeOK
  <2>2. Counted'  BY <1>0, <1>5 DEF Decided, End, Counted
  <2>3. Slowing'  BY <1>0, <1>5 DEF Decided, End, Slowing
  <2> QED  BY <2>1, <2>2, <2>3 DEF BackoffIInv
<1>6. CASE UNCHANGED backoffVars
  <2>1. BackoffTypeOK'  BY <1>0, <1>6 DEF backoffVars, BackoffTypeOK
  <2>2. Counted'  BY <1>0, <1>6 DEF backoffVars, Counted
  <2>3. Slowing'  BY <1>0, <1>6 DEF backoffVars, Slowing
  <2> QED  BY <2>1, <2>2, <2>3 DEF BackoffIInv
<1> QED  BY <1>1, <1>2, <1>3, <1>4, <1>5, <1>6 DEF BackoffNext

LEMMA BackoffInvariance == BackoffSpec => []BackoffIInv
BY InitBackoff, NextBackoff, PTL DEF BackoffSpec

\* The delay a command waits is never less than the base nor more than a day, in
\* every reachable state and every configuration.
THEOREM BackoffTypeCorrect == BackoffSpec => []BackoffTypeOK
<1>1. BackoffIInv => BackoffTypeOK  BY DEF BackoffIInv
<1> QED  BY <1>1, BackoffInvariance, PTL

\* retry_or_fail_command gives a command up after exactly max_command_attempts
\* unknown answers, whatever outages and crashes came between.
THEOREM GivenUpExactly == BackoffSpec => []PatienceIsExact
<1>1. BackoffIInv => PatienceIsExact
  BY Numbers DEF BackoffIInv, Counted, PatienceIsExact
<1> QED  BY <1>1, BackoffInvariance, PTL

\* No retry waits for less than the one before it, than the configured base, or for
\* more than a day.
THEOREM RetriesSlowDown == BackoffSpec => DelaysGrowToADay
<1> DEFINE Grows == /\ delay <= delay'
                    /\ delay' # delay => delay' \in base..DayInSeconds
<1>1. BackoffIInv /\ BackoffIInv' /\ [BackoffNext]_backoffVars => [Grows]_backoffVars
  <2> SUFFICES ASSUME BackoffIInv, BackoffIInv', BackoffNext PROVE Grows
    BY DEF backoffVars
  <2>0. BackoffTypeOK /\ Slowing /\ BackoffTypeOK'  BY DEF BackoffIInv
  <2>1. delay \in Nat /\ delay <= Delay(base, attempts)
    BY <2>0, Numbers DEF Slowing
  <2>2. delay' = delay \/ delay' = Delay(base, attempts)
    BY DEF BackoffNext, Claim, Lapse, BecomeAvailable, Outage, Unknown, Decided, ScheduleRetry, End
  <2>3. delay <= delay'  BY <2>1, <2>2
  <2>4. base' = base
    BY DEF BackoffNext, Claim, Lapse, BecomeAvailable, Outage, Unknown, Decided, ScheduleRetry, End
  <2>5. delay' \in {0} \cup base..DayInSeconds
    BY <2>0, <2>4 DEF BackoffTypeOK
  <2>6. base \in Nat /\ DayInSeconds \in Nat
    BY <2>0, BackoffAssumption DEF BackoffTypeOK, DayInSeconds
  <2>7. CASE delay' = delay  BY <2>3, <2>7
  <2>8. CASE delay' # delay
    <3>1. delay' # 0  BY <2>1, <2>3, <2>5, <2>6, <2>8
    <3> QED  BY <2>3, <2>5, <3>1
  <2> QED  BY <2>7, <2>8
<1>2. BackoffSpec => [][Grows]_backoffVars
  BY <1>1, BackoffInvariance, PTL DEF BackoffSpec
<1> QED  BY <1>2 DEF DelaysGrowToADay
--------------------------------------------------------------------------------
(* Listings *)

\* What a cursor and the key of a row are made of.
KeyRecord == [created : Nat, id : Ids]

LEMMA KeyIsKeyRecord ==
    ASSUME PagesTypeOK, NEW i \in Ids
    PROVE  Key(i) \in KeyRecord /\ Key(i).created = created[i] /\ Key(i).id = i
BY DEF PagesTypeOK, Key, KeyRecord

\* The order of the keys is strict.
LEMMA OrderIsStrict ==
    ASSUME NEW k \in KeyRecord, NEW l \in KeyRecord, NEW m \in KeyRecord
    PROVE  /\ ~SortsBefore(k, k)
           /\ SortsBefore(k, l) => ~SortsBefore(l, k)
           /\ SortsBefore(k, l) /\ SortsBefore(l, m) => SortsBefore(k, m)
<1>1. /\ k.created \in Nat /\ l.created \in Nat /\ m.created \in Nat
      /\ k.id \in Nat /\ l.id \in Nat /\ m.id \in Nat
  BY PagesAssumption DEF KeyRecord
<1> QED  BY <1>1 DEF SortsBefore
--------------------------------------------------------------------------------
\* Nothing is known to the client before the first page.
Fresh ==
    /\ listing = "idle" => cursor = NULL /\ listed = {} /\ stayed = {}
    /\ listing = "open" /\ cursor = NULL => listed = {}

\* What was listed is at the cursor or before it.
ListedIsPassed ==
    listing = "open" /\ cursor # NULL => \A i \in listed : ~Behind(Key(i))

\* Stayers match, and are listed or still to come.
StayersAhead ==
    /\ \A i \in stayed : Matches(i, filters)
    /\ listing = "open" => \A i \in stayed : i \in listed \/ cursor = NULL \/ Behind(Key(i))

PagesIInv ==
    /\ PagesTypeOK
    /\ Fresh
    /\ ListedIsPassed
    /\ StayersAhead
    /\ NothingIsListedTwice
    /\ StayersAreListed

LEMMA InitPages == PagesInit => PagesIInv
<1> SUFFICES ASSUME PagesInit PROVE PagesIInv  OBVIOUS
<1>1. PagesTypeOK
  BY DEF PagesInit, PagesTypeOK, Filters, States
<1> QED
  BY <1>1 DEF PagesInit, PagesIInv, Fresh, ListedIsPassed, StayersAhead, NothingIsListedTwice,
              StayersAreListed

\* Steps of the writers: no key of a committed row changes, the client's state does
\* not, and a stayer goes on matching.
LEMMA WriterStep ==
    ASSUME PagesIInv, PagesTypeOK', UNCHANGED <<filters, cursor, listing, listed, twice>>,
           stayed' \subseteq stayed,
           \A i \in Ids : row[i] \in States => created'[i] = created[i],
           \A i \in stayed' : Matches(i, filters)'
    PROVE  PagesIInv'
<1>1. \A i \in listed : i \in Ids /\ Key(i)' = Key(i)
  BY DEF PagesIInv, PagesTypeOK, Key
<1>2. \A i \in stayed : i \in Ids /\ Key(i)' = Key(i)
  BY DEF PagesIInv, PagesTypeOK, StayersAhead, Matches, IsRead, Key
<1>3. Fresh' /\ NothingIsListedTwice' /\ StayersAreListed'
  BY DEF PagesIInv, Fresh, NothingIsListedTwice, StayersAreListed
<1>4. ListedIsPassed'
  <2>1. \A i \in listed : Behind(Key(i))' <=> Behind(Key(i))
    BY <1>1 DEF Behind, SortsBefore
  <2> QED  BY <2>1 DEF PagesIInv, ListedIsPassed
<1>5. StayersAhead'
  <2>1. \A i \in stayed : Behind(Key(i))' <=> Behind(Key(i))
    BY <1>2 DEF Behind, SortsBefore
  <2> QED  BY <2>1 DEF PagesIInv, StayersAhead
<1> QED  BY <1>3, <1>4, <1>5 DEF PagesIInv

\* A page that is not the last moves the cursor down to its last row.
LEMMA CursorStep ==
    ASSUME PagesIInv, listing = "open", NEW S \in SUBSET Remaining, NEW m \in S,
           \A i \in S, j \in Remaining \ S : SortsBefore(Key(j), Key(i)),
           \A j \in S \ {m} : SortsBefore(Key(m), Key(j))
    PROVE  /\ \A i \in listed \cup S : ~SortsBefore(Key(i), Key(m))
           /\ \A i \in stayed : i \in listed \cup S \/ SortsBefore(Key(i), Key(m))
<1>0. PagesTypeOK /\ m \in Ids /\ S \subseteq Ids /\ listed \subseteq Ids /\ stayed \subseteq Ids
  BY DEF PagesIInv, PagesTypeOK, Remaining
<1>1. \A i \in Ids : Key(i) \in KeyRecord
  BY <1>0, KeyIsKeyRecord
<1>2. ASSUME NEW i \in S PROVE ~SortsBefore(Key(i), Key(m))
  <2>1. CASE i = m  BY <1>0, <1>1, <2>1, OrderIsStrict
  <2>2. CASE i # m
    <3>1. SortsBefore(Key(m), Key(i))  BY <2>2
    <3> QED  BY <1>0, <1>1, <3>1, OrderIsStrict
  <2> QED  BY <2>1, <2>2
<1>3. ASSUME NEW i \in listed PROVE ~SortsBefore(Key(i), Key(m))
  <2>1. cursor # NULL  BY DEF PagesIInv, Fresh
  <2>2. ~SortsBefore(Key(i), cursor)  BY <2>1 DEF PagesIInv, ListedIsPassed, Behind
  <2>3. SortsBefore(Key(m), cursor)  BY <2>1 DEF Remaining, Behind
  <2>4. cursor \in KeyRecord  BY <2>1 DEF PagesIInv, PagesTypeOK, KeyRecord
  <2> QED  BY <1>0, <1>1, <2>2, <2>3, <2>4, OrderIsStrict
<1>4. ASSUME NEW i \in stayed, i \notin listed \cup S PROVE SortsBefore(Key(i), Key(m))
  <2>1. i \in Remaining
    BY <1>0, <1>4 DEF PagesIInv, StayersAhead, Remaining
  <2> QED  BY <1>4, <2>1
<1> QED  BY <1>2, <1>3, <1>4

LEMMA ReadPageStep == PagesIInv /\ ReadPage => PagesIInv'
<1> SUFFICES ASSUME PagesIInv, ReadPage PROVE PagesIInv'  OBVIOUS
<1>1. PICK limit \in 1..MaxLimit, S \in SUBSET Remaining :
          /\ FirstPage(Remaining, S, limit)
          /\ listed' = listed \cup S
          /\ twice' = twice \cup (S \cap listed)
          /\ IF S = Remaining
             THEN listing' = "done" /\ cursor' = NULL
             ELSE /\ listing' = "open"
                  /\ \E i \in S : /\ \A j \in S \ {i} : SortsBefore(Key(i), Key(j))
                                  /\ cursor' = Key(i)
  BY DEF ReadPage
<1>2. listing = "open" /\ UNCHANGED <<now, row, created, filters, stayed>>
  BY DEF ReadPage
<1>3. S \subseteq Ids /\ \A i \in S : Matches(i, filters) /\ row[i] \in States
  BY DEF Remaining, Matches, IsRead
<1>4. S \cap listed = {}
  <2>1. ASSUME NEW i \in S, i \in listed PROVE FALSE
    <3>1. cursor # NULL  BY <1>2, <2>1 DEF PagesIInv, Fresh
    <3> QED  BY <1>2, <2>1, <3>1 DEF PagesIInv, ListedIsPassed, Remaining
  <2> QED  BY <2>1
<1>5. NothingIsListedTwice'
  BY <1>1, <1>4 DEF PagesIInv, NothingIsListedTwice
<1>6. \A i : Matches(i, filters)' <=> Matches(i, filters)
  BY <1>2 DEF Matches, IsRead
<1>7. \A i : Key(i)' = Key(i)
  BY <1>2 DEF Key
<1>8. CASE S = Remaining
  <2>1. listing' = "done" /\ cursor' = NULL  BY <1>1, <1>8
  <2>2. PagesTypeOK'
    BY <1>1, <1>2, <1>3, <1>4, <2>1 DEF PagesIInv, PagesTypeOK
  <2>3. stayed \subseteq listed \cup S
    BY <1>2, <1>8 DEF PagesIInv, PagesTypeOK, StayersAhead, Remaining
  <2>4. StayersAreListed' /\ StayersAhead' /\ Fresh' /\ ListedIsPassed'
    BY <1>1, <1>2, <1>6, <2>1, <2>3
       DEF PagesIInv, StayersAreListed, StayersAhead, Fresh, ListedIsPassed
  <2> QED  BY <1>5, <2>2, <2>4 DEF PagesIInv
<1>9. CASE S # Remaining
  <2>1. PICK m \in S : /\ \A j \in S \ {m} : SortsBefore(Key(m), Key(j))
                       /\ cursor' = Key(m)
    BY <1>1, <1>9
  <2>2. listing' = "open"  BY <1>1, <1>9
  <2>3. /\ \A i \in listed \cup S : ~SortsBefore(Key(i), Key(m))
        /\ \A i \in stayed : i \in listed \cup S \/ SortsBefore(Key(i), Key(m))
    <3>1. \A i \in S, j \in Remaining \ S : SortsBefore(Key(j), Key(i))
      BY <1>1 DEF FirstPage
    <3> QED  BY <1>2, <2>1, <3>1, CursorStep
  <2>4. Key(m) \in KeyRecord
    BY <1>3, KeyIsKeyRecord DEF PagesIInv
  <2>5. PagesTypeOK'
    BY <1>1, <1>2, <1>3, <1>4, <2>1, <2>2, <2>4 DEF PagesIInv, PagesTypeOK, KeyRecord
  <2>6. cursor' # NULL
    BY <2>1, <2>4, PagesAssumption DEF KeyRecord
  <2>7. \A i : Behind(Key(i))' <=> SortsBefore(Key(i), Key(m))
    BY <1>7, <2>1 DEF Behind, SortsBefore
  <2>8. Fresh' /\ StayersAreListed'
    BY <2>2, <2>6 DEF Fresh, StayersAreListed
  <2>9. ListedIsPassed'
    BY <1>1, <2>3, <2>7 DEF ListedIsPassed
  <2>10. StayersAhead'
    BY <1>1, <1>2, <1>6, <2>3, <2>7 DEF PagesIInv, StayersAhead
  <2> QED  BY <1>5, <2>5, <2>8, <2>9, <2>10 DEF PagesIInv
<1> QED  BY <1>8, <1>9

LEMMA NextPages == PagesIInv /\ [PagesNext]_pagesVars => PagesIInv'
<1> SUFFICES ASSUME PagesIInv, [PagesNext]_pagesVars PROVE PagesIInv'  OBVIOUS
<1>1. ASSUME NEW f \in Filters, Start(f) PROVE PagesIInv'
  <2>1. /\ listing = "idle" /\ listing' = "open" /\ filters' = f
        /\ cursor' = NULL /\ listed' = {} /\ twice' = {}
        /\ UNCHANGED <<now, row, created>>
    BY <1>1 DEF Start, PagesIInv, Fresh, NothingIsListedTwice
  <2>2. stayed' = {i \in Ids : Matches(i, f)}  BY <1>1 DEF Start
  <2>3. PagesTypeOK'  BY <2>1, <2>2 DEF PagesIInv, PagesTypeOK
  <2>4. \A i \in stayed' : Matches(i, filters)'
    BY <2>1, <2>2 DEF Matches, IsRead
  <2> QED
    BY <2>1, <2>3, <2>4 DEF PagesIInv, Fresh, ListedIsPassed, StayersAhead,
                            NothingIsListedTwice, StayersAreListed
<1>2. CASE ReadPage  BY <1>2, ReadPageStep
<1>3. CASE Tick
  <2>1. PagesTypeOK'  BY <1>3 DEF Tick, PagesIInv, PagesTypeOK
  <2>2. \A i \in stayed' : Matches(i, filters)'
    BY <1>3 DEF Tick, PagesIInv, StayersAhead, Matches, IsRead
  <2> QED  BY <1>3, <2>1, <2>2, WriterStep DEF Tick
<1>4. ASSUME NEW i \in Ids, BeginCreate(i) PROVE PagesIInv'
  <2>1. row[i] \notin States  BY <1>4 DEF BeginCreate, States
  <2>2. PagesTypeOK'
    BY <1>4, <2>1 DEF BeginCreate, PagesIInv, PagesTypeOK, States
  <2>3. \A j \in Ids : row[j] \in States => created'[j] = created[j] /\ row'[j] = row[j]
    BY <1>4, <2>1 DEF BeginCreate, PagesIInv, PagesTypeOK
  <2>4. \A j \in stayed' : Matches(j, filters)'
    BY <1>4, <2>3 DEF BeginCreate, PagesIInv, PagesTypeOK, StayersAhead, Matches, IsRead
  <2> QED  BY <1>4, <2>2, <2>3, <2>4, WriterStep DEF BeginCreate
<1>5. ASSUME NEW i \in Ids, CommitCreate(i) PROVE PagesIInv'
  <2>1. row[i] \notin States  BY <1>5 DEF CommitCreate, States
  <2>2. PagesTypeOK'
    BY <1>5, <2>1 DEF CommitCreate, PagesIInv, PagesTypeOK, States
  <2>3. \A j \in Ids : row[j] \in States => row'[j] = row[j]
    BY <1>5, <2>1 DEF CommitCreate, PagesIInv, PagesTypeOK
  <2>4. \A j \in stayed' : Matches(j, filters)'
    BY <1>5, <2>3 DEF CommitCreate, PagesIInv, PagesTypeOK, StayersAhead, Matches, IsRead
  <2> QED  BY <1>5, <2>2, <2>4, WriterStep DEF CommitCreate
<1>6. ASSUME NEW i \in Ids, EndInvitation(i) PROVE PagesIInv'
  <2>1. stayed' = {j \in stayed : j # i \/ filters.state # "pending"}
    BY <1>6 DEF EndInvitation
  <2>2. /\ row[i] = "pending" /\ row'[i] = "ended"
        /\ \A j \in Ids \ {i} : row'[j] = row[j]
    BY <1>6 DEF EndInvitation, PagesIInv, PagesTypeOK
  <2>3. PagesTypeOK'
    BY <1>6, <2>1, <2>2 DEF EndInvitation, PagesIInv, PagesTypeOK, States
  <2>4. \A j \in stayed' : Matches(j, filters)'
    <3>1. SUFFICES ASSUME NEW j \in stayed' PROVE Matches(j, filters)'
      OBVIOUS
    <3>2. j \in stayed /\ j \in Ids /\ Matches(j, filters)
      BY <2>1 DEF PagesIInv, PagesTypeOK, StayersAhead
    <3>3. filters' = filters  BY <1>6 DEF EndInvitation
    <3>4. CASE j = i
      <4>1. filters.state # "pending"  BY <2>1, <3>1, <3>4
      <4>2. filters.state = NULL
        BY <2>2, <3>2, <3>4, <4>1 DEF Matches
      <4> QED  BY <2>2, <3>2, <3>3, <3>4, <4>2 DEF Matches, IsRead, States
    <3>5. CASE j # i
      BY <2>2, <3>2, <3>3, <3>5 DEF Matches, IsRead
    <3> QED  BY <3>4, <3>5
  <2> QED  BY <1>6, <2>1, <2>3, <2>4, WriterStep DEF EndInvitation
<1>7. CASE UNCHANGED pagesVars
  <2>1. PagesTypeOK'  BY <1>7 DEF pagesVars, PagesIInv, PagesTypeOK
  <2>2. \A i \in stayed' : Matches(i, filters)'
    BY <1>7 DEF pagesVars, PagesIInv, StayersAhead, Matches, IsRead
  <2> QED  BY <1>7, <2>1, <2>2, WriterStep DEF pagesVars
<1> QED  BY <1>1, <1>2, <1>3, <1>4, <1>5, <1>6, <1>7 DEF PagesNext

LEMMA PagesInvariance == PagesSpec => []PagesIInv
BY InitPages, NextPages, PTL DEF PagesSpec

\* What the client is given is committed, and given once or more.
THEOREM PagesTypeCorrect == PagesSpec => []PagesTypeOK
<1>1. PagesIInv => PagesTypeOK  BY DEF PagesIInv
<1> QED  BY <1>1, PagesInvariance, PTL

\* list_invitations followed by its cursors returns no invitation twice.
THEOREM PagesAreDisjoint == PagesSpec => []NothingIsListedTwice
<1>1. PagesIInv => NothingIsListedTwice  BY DEF PagesIInv
<1> QED  BY <1>1, PagesInvariance, PTL

\* An invitation that is there and matches all the while is on one of the pages.
THEOREM ListingIsComplete == PagesSpec => []StayersAreListed
<1>1. PagesIInv => StayersAreListed  BY DEF PagesIInv
<1> QED  BY <1>1, PagesInvariance, PTL

--------------------------------------------------------------------------------
(* Texts *)

Text == Seq(Characters)

\* Where the text is not blank, and the first and the last of these places.
Blank(c) == c = " "
Ink(s) == {i \in 1..Len(s) : ~Blank(s[i])}
Ends(s, a, b) == a \in Ink(s) /\ b \in Ink(s) /\ \A i \in Ink(s) : a <= i /\ i <= b

\* Every set of naturals that is not empty has a least element.
LEMMA LeastOf == ASSUME NEW T \in SUBSET Nat, T # {} PROVE \E x \in T : \A y \in T : x <= y
<1>1. PICK R : R = OpToRel(<, Nat)  OBVIOUS
<1>2. \A x, y \in Nat : <<y, x>> \in R <=> y < x  BY <1>1 DEF OpToRel
<1>3. IsWellFoundedOn(R, Nat)  BY <1>1, NatLessThanWellFounded
<1>4. PICK x \in T : \A y \in T : <<y, x>> \notin R  BY <1>3, WFMin
<1>5. \A y \in T : x <= y
  <2> SUFFICES ASSUME NEW y \in T PROVE x <= y  OBVIOUS
  <2>1. x \in Nat /\ y \in Nat  OBVIOUS
  <2>2. ~(y < x)  BY <1>2, <1>4, <2>1
  <2> QED  BY <2>1, <2>2
<1> QED  BY <1>5

\* Every set of places in a text that is not empty has a last element.
LEMMA LastOf ==
    ASSUME NEW n \in Nat, NEW T \in SUBSET (1..n), T # {}
    PROVE  \E x \in T : \A y \in T : y <= x
<1> DEFINE M == {n - x : x \in T}
<1>1. M \in SUBSET Nat /\ M # {}
  <2>1. \A x \in T : n - x \in Nat  OBVIOUS
  <2> QED  BY <2>1
<1>2. PICK m \in M : \A y \in M : m <= y  BY <1>1, LeastOf
<1>3. PICK x \in T : m = n - x  OBVIOUS
<1>4. \A y \in T : y <= x
  <2> SUFFICES ASSUME NEW y \in T PROVE y <= x  OBVIOUS
  <2>1. n - y \in M  OBVIOUS
  <2>2. n - x <= n - y  BY <1>2, <1>3, <2>1
  <2>3. x \in 1..n /\ y \in 1..n  OBVIOUS
  <2> QED  BY <2>2, <2>3
<1> QED  BY <1>4

\* A part of a text.
LEMMA PartFacts ==
    ASSUME NEW s \in Text, NEW m \in Nat \ {0}, NEW n \in Nat, n <= Len(s)
    PROVE  /\ SubSeq(s, m, n) \in Text
           /\ Len(SubSeq(s, m, n)) = IF m <= n THEN n - m + 1 ELSE 0
           /\ \A i \in 1..Len(SubSeq(s, m, n)) :
                 SubSeq(s, m, n)[i] = s[m + i - 1] /\ m + i - 1 \in 1..Len(s)
<1>1. Len(s) \in Nat /\ \A i \in 1..Len(s) : s[i] \in Characters
  BY ElementOfSeq, LenProperties DEF Text
<1>2. m \in Int /\ n \in Int /\ \A i \in m..n : s[i] \in Characters
  <2> SUFFICES ASSUME NEW i \in m..n PROVE s[i] \in Characters  OBVIOUS
  <2>1. i \in 1..Len(s)  BY <1>1
  <2> QED  BY <1>1, <2>1
<1>3. /\ SubSeq(s, m, n) \in Text
      /\ Len(SubSeq(s, m, n)) = IF m <= n THEN n - m + 1 ELSE 0
      /\ \A i \in 1..n - m + 1 : SubSeq(s, m, n)[i] = s[m + i - 1]
  BY <1>2, SubSeqProperties DEF Text
<1>4. ASSUME NEW i \in 1..Len(SubSeq(s, m, n))
      PROVE  SubSeq(s, m, n)[i] = s[m + i - 1] /\ m + i - 1 \in 1..Len(s)
  <2>1. m <= n /\ i \in 1..n - m + 1  BY <1>3
  <2>2. m + i - 1 \in 1..Len(s)  BY <1>1, <2>1
  <2> QED  BY <1>3, <2>1, <2>2
<1> QED  BY <1>3, <1>4

\* The places of a text that are not blank, and its ends, of which it has one pair.
LEMMA InkFacts ==
    ASSUME NEW s \in Text
    PROVE  /\ Len(s) \in Nat /\ Ink(s) \subseteq 1..Len(s) /\ Ink(s) \subseteq Nat
           /\ Ink(s) # {} => \E a, b : Ends(s, a, b)
           /\ \A a, b, c, d : Ends(s, a, b) /\ Ends(s, c, d) => a = c /\ b = d
<1>1. Len(s) \in Nat /\ Ink(s) \subseteq 1..Len(s) /\ Ink(s) \subseteq Nat
  <2>1. Len(s) \in Nat  BY LenProperties DEF Text
  <2>2. Ink(s) \subseteq 1..Len(s)  BY DEF Ink
  <2>3. 1..Len(s) \subseteq Nat  BY <2>1
  <2> QED  BY <2>1, <2>2, <2>3
<1>2. ASSUME Ink(s) # {} PROVE \E a, b : Ends(s, a, b)
  <2>1. PICK a \in Ink(s) : \A y \in Ink(s) : a <= y  BY <1>1, <1>2, LeastOf
  <2>2. PICK b \in Ink(s) : \A y \in Ink(s) : y <= b  BY <1>1, <1>2, LastOf
  <2>3. Ends(s, a, b)  BY <2>1, <2>2 DEF Ends
  <2> QED  BY <2>3
<1>3. ASSUME NEW a, NEW b, NEW c, NEW d, Ends(s, a, b), Ends(s, c, d)
      PROVE  a = c /\ b = d
  <2>1. a \in Nat /\ b \in Nat /\ c \in Nat /\ d \in Nat  BY <1>1, <1>3 DEF Ends
  <2>2. a <= c /\ c <= a /\ b <= d /\ d <= b  BY <1>3 DEF Ends
  <2> QED  BY <2>1, <2>2
<1> QED  BY <1>1, <1>2, <1>3

\* Trim cuts a text to what lies between its ends.
LEMMA TrimFacts ==
    ASSUME NEW s \in Text
    PROVE  /\ Ink(s) = {} => Trim(s) = <<>>
           /\ \A a, b : Ends(s, a, b) => Trim(s) = SubSeq(s, a, b)
<1> DEFINE first == CHOOSE i \in Ink(s) : \A j \in Ink(s) : i <= j
           last == CHOOSE i \in Ink(s) : \A j \in Ink(s) : j <= i
<1>1. Trim(s) = IF Ink(s) = {} THEN <<>> ELSE SubSeq(s, first, last)
  BY DEF Trim, Ink, Blank
<1>2. ASSUME NEW a, NEW b, Ends(s, a, b) PROVE Trim(s) = SubSeq(s, a, b)
  <2>1. Ink(s) # {}  BY <1>2 DEF Ends
  <2>2. first \in Ink(s) /\ \A j \in Ink(s) : first <= j
    <3>1. \E i \in Ink(s) : \A j \in Ink(s) : i <= j  BY <1>2 DEF Ends
    <3> QED  BY <3>1
  <2>3. last \in Ink(s) /\ \A j \in Ink(s) : j <= last
    <3>1. \E i \in Ink(s) : \A j \in Ink(s) : j <= i  BY <1>2 DEF Ends
    <3> QED  BY <3>1
  <2> HIDE DEF first, last
  <2>4. Ends(s, first, last)  BY <2>2, <2>3 DEF Ends
  <2>5. first = a /\ last = b  BY <1>2, <2>4, InkFacts
  <2> QED  BY <1>1, <2>1, <2>5
<1> QED  BY <1>1, <1>2

\* What is trimmed is a text, and is not trimmed again.
LEMMA TrimTrim == ASSUME NEW s \in Text PROVE Trim(s) \in Text /\ Trim(Trim(s)) = Trim(s)
<1>1. CASE Ink(s) = {}
  <2>1. Trim(s) = <<>> /\ <<>> \in Text  BY <1>1, TrimFacts, EmptySeq DEF Text
  <2>2. Ink(<<>>) = {}  BY DEF Ink
  <2>3. Trim(<<>>) = <<>>  BY <2>1, <2>2, TrimFacts
  <2> QED  BY <2>1, <2>3
<1>2. CASE Ink(s) # {}
  <2>1. PICK a, b : Ends(s, a, b)  BY <1>2, InkFacts
  <2>2. a \in 1..Len(s) /\ b \in 1..Len(s) /\ a <= b /\ Len(s) \in Nat
    BY <2>1, InkFacts DEF Ends
  <2>3. PICK u : u = SubSeq(s, a, b)  OBVIOUS
  <2>4. Trim(s) = u  BY <2>1, <2>3, TrimFacts
  <2>5. /\ u \in Text /\ Len(u) = b - a + 1
        /\ \A i \in 1..Len(u) : u[i] = s[a + i - 1]
    <3>1. a \in Nat \ {0} /\ b \in Nat /\ b <= Len(s)  BY <2>2
    <3> QED  BY <2>2, <2>3, <3>1, PartFacts
  <2>6. Ends(u, 1, Len(u))
    <3>1. Len(u) \in Nat /\ 1 \in 1..Len(u) /\ Len(u) \in 1..Len(u)  BY <2>2, <2>5
    <3>2. u[1] = s[a] /\ u[Len(u)] = s[b]
      <4>1. a + 1 - 1 = a /\ a + Len(u) - 1 = b  BY <2>2, <2>5
      <4> QED  BY <2>5, <3>1, <4>1
    <3>3. ~Blank(s[a]) /\ ~Blank(s[b])  BY <2>1 DEF Ends, Ink
    <3>4. 1 \in Ink(u) /\ Len(u) \in Ink(u)  BY <3>1, <3>2, <3>3 DEF Ink
    <3>5. \A i \in Ink(u) : 1 <= i /\ i <= Len(u)  BY <3>1 DEF Ink
    <3> QED  BY <3>4, <3>5 DEF Ends
  <2>7. Trim(u) = SubSeq(u, 1, Len(u))  BY <2>5, <2>6, TrimFacts
  <2>8. SubSeq(u, 1, Len(u)) = u  BY <2>5, SubSeqFull DEF Text
  <2> QED  BY <2>4, <2>5, <2>7, <2>8
<1> QED  BY <1>1, <1>2

\* A text of one character, and a text with one more in front.
LEMMA OneText == ASSUME NEW c \in Characters PROVE <<c>> \in Text /\ Len(<<c>>) = 1 /\ <<c>>[1] = c
BY DEF Text

Longer(c, s) == <<c>> \o s

\* Its places are those of the text, one further on.
LEMMA LongerText ==
    ASSUME NEW c \in Characters, NEW s \in Text, NEW t, t = Longer(c, s)
    PROVE  /\ t \in Text /\ Len(s) \in Nat /\ Len(t) = Len(s) + 1 /\ t[1] = c
           /\ \A i \in 1..Len(s) : t[i + 1] = s[i]
           /\ \A m, n \in 1..Len(s) : SubSeq(t, m + 1, n + 1) = SubSeq(s, m, n)
<1>0. PICK e : e = <<c>>  OBVIOUS
<1>1. e = <<c>> /\ t = e \o s  BY <1>0 DEF Longer
<1>2. e \in Text /\ Len(e) = 1 /\ e[1] = c  BY <1>1, OneText
<1>3. Len(s) \in Nat  BY InkFacts
<1>4. /\ t \in Text /\ Len(t) = 1 + Len(s)
      /\ \A i \in 1..1 + Len(s) : t[i] = IF i <= 1 THEN e[i] ELSE s[i - 1]
  BY <1>1, <1>2, ConcatProperties DEF Text
<1>5. t[1] = c
  <2>1. 1 \in 1..1 + Len(s) /\ 1 <= 1  BY <1>3
  <2> QED  BY <1>2, <1>4, <2>1
<1>6. ASSUME NEW i \in 1..Len(s) PROVE t[i + 1] = s[i]
  <2>1. i + 1 \in 1..1 + Len(s) /\ ~(i + 1 <= 1) /\ (i + 1) - 1 = i  BY <1>3
  <2> QED  BY <1>4, <2>1
<1>7. ASSUME NEW m \in 1..Len(s), NEW n \in 1..Len(s)
      PROVE  SubSeq(t, m + 1, n + 1) = SubSeq(s, m, n)
  <2>1. /\ m + 1 \in 1 + 1..1 + Len(s) /\ n + 1 \in 1 + 1..1 + Len(s)
        /\ (m + 1) - 1 = m /\ (n + 1) - 1 = n
    BY <1>3
  <2>2. SubSeq(e \o s, m + 1, n + 1) = SubSeq(s, (m + 1) - Len(e), (n + 1) - Len(e))
    <3>1. /\ m + 1 \in Len(e) + 1..Len(e) + Len(s)
          /\ n + 1 \in Len(e) + 1..Len(e) + Len(s)
      BY <1>2, <2>1
    <3>2. e \in Seq(Characters) /\ s \in Seq(Characters)  BY <1>2 DEF Text
    <3> QED  BY <3>1, <3>2, SubSeqOfConcat2
  <2> QED  BY <1>1, <1>2, <2>1, <2>2
<1>8. 1 + Len(s) = Len(s) + 1  BY <1>3
<1> QED  BY <1>3, <1>4, <1>5, <1>6, <1>7, <1>8

\* Blanks before a text are cut.
LEMMA TrimBlank == ASSUME NEW s \in Text PROVE <<" ">> \o s \in Text /\ Trim(<<" ">> \o s) = Trim(s)
<1>1. PICK c : c = " "  OBVIOUS
<1>2. c \in Characters /\ Blank(c)  BY <1>1 DEF Characters, Blank
<1>0. PICK t : t = Longer(c, s)  OBVIOUS
<1>3. /\ t \in Text /\ Len(t) = Len(s) + 1 /\ t[1] = c
      /\ \A i \in 1..Len(s) : t[i + 1] = s[i]
      /\ \A m, n \in 1..Len(s) : SubSeq(t, m + 1, n + 1) = SubSeq(s, m, n)
  BY <1>2, <1>0, LongerText
<1>4. Len(s) \in Nat  BY InkFacts
<1>5. /\ \A i \in Ink(s) : i + 1 \in Ink(t)
      /\ \A i \in Ink(t) : i - 1 \in Ink(s)
  <2>1. Blank(t[1])  BY <1>2, <1>3
  <2>2. ASSUME NEW i \in Ink(s) PROVE i + 1 \in Ink(t)
    <3>1. i \in 1..Len(s) /\ ~Blank(s[i])  BY DEF Ink
    <3>2. i + 1 \in 1..Len(s) + 1  BY <1>4, <3>1
    <3> QED  BY <1>3, <3>1, <3>2 DEF Ink
  <2>3. ASSUME NEW i \in Ink(t) PROVE i - 1 \in Ink(s)
    <3>1. i \in 1..Len(s) + 1 /\ ~Blank(t[i])  BY <1>3 DEF Ink
    <3>2. i # 1  BY <2>1, <3>1
    <3>3. i - 1 \in 1..Len(s) /\ (i - 1) + 1 = i  BY <1>4, <3>1, <3>2
    <3> QED  BY <1>3, <3>1, <3>3 DEF Ink
  <2> QED  BY <2>2, <2>3
<1>6. CASE Ink(s) = {}
  <2>1. Ink(t) = {}  BY <1>5, <1>6
  <2> QED  BY <1>0, <1>1, <1>3, <1>6, <2>1, TrimFacts DEF Longer
<1>7. CASE Ink(s) # {}
  <2>1. PICK a, b : Ends(s, a, b)  BY <1>7, InkFacts
  <2>2. a \in 1..Len(s) /\ b \in 1..Len(s) /\ a <= b  BY <2>1, InkFacts DEF Ends
  <2>3. Ends(t, a + 1, b + 1)
    <3>1. a + 1 \in Ink(t) /\ b + 1 \in Ink(t)  BY <1>5, <2>1 DEF Ends
    <3>2. ASSUME NEW i \in Ink(t) PROVE a + 1 <= i /\ i <= b + 1
      <4>1. a <= i - 1 /\ i - 1 <= b  BY <1>5, <2>1 DEF Ends
      <4>2. i \in Nat  BY <1>3, InkFacts
      <4> QED  BY <2>2, <4>1, <4>2
    <3> QED  BY <3>1, <3>2 DEF Ends
  <2>4. Trim(t) = SubSeq(t, a + 1, b + 1) /\ Trim(s) = SubSeq(s, a, b)
    BY <1>3, <2>1, <2>3, TrimFacts
  <2> QED  BY <1>0, <1>1, <1>3, <2>2, <2>4 DEF Longer
<1> QED  BY <1>6, <1>7

--------------------------------------------------------------------------------
(* Texts that differ in the case of their letters *)

Alike(c, d) == c = d \/ (c \in Letters /\ d \in Letters)
AlikeTexts(s, t) ==
    /\ s \in Text /\ t \in Text /\ Len(s) = Len(t)
    /\ \A i \in 1..Len(s) : Alike(s[i], t[i])

\* The characters an address is read by.
Marks == {".", "-", "@", " "}

\* The case of a letter changes nothing that an address is read by.
LEMMA AlikeFacts ==
    ASSUME NEW c, NEW d, Alike(c, d)
    PROVE  /\ \A e \in Marks : c = e <=> d = e
           /\ \A C : Letters \subseteq C => (c \in C <=> d \in C)
           /\ Blank(c) <=> Blank(d)
           /\ Lower(c) = Lower(d)
BY DEF Alike, Letters, Marks, Blank, Lower

\* Being alike goes both ways.
LEMMA AlikeBack == ASSUME NEW s, NEW t, AlikeTexts(s, t) PROVE AlikeTexts(t, s)
BY DEF AlikeTexts, Alike

\* The same part of two texts that are alike.
LEMMA AlikeParts ==
    ASSUME NEW s, NEW t, AlikeTexts(s, t),
           NEW m \in Nat \ {0}, NEW n \in Nat, n <= Len(s)
    PROVE  AlikeTexts(SubSeq(s, m, n), SubSeq(t, m, n))
<1>1. s \in Text /\ t \in Text /\ Len(s) = Len(t) /\ \A i \in 1..Len(s) : Alike(s[i], t[i])
  BY DEF AlikeTexts
<1>2. PICK u : u = SubSeq(s, m, n)  OBVIOUS
<1>3. PICK v : v = SubSeq(t, m, n)  OBVIOUS
<1>4. /\ u \in Text /\ Len(u) = IF m <= n THEN n - m + 1 ELSE 0
      /\ \A i \in 1..Len(u) : u[i] = s[m + i - 1] /\ m + i - 1 \in 1..Len(s)
  BY <1>1, <1>2, PartFacts
<1>5. /\ v \in Text /\ Len(v) = IF m <= n THEN n - m + 1 ELSE 0
      /\ \A i \in 1..Len(v) : v[i] = t[m + i - 1] /\ m + i - 1 \in 1..Len(t)
  <2>1. n <= Len(t)  BY <1>1
  <2> QED  BY <1>1, <1>3, <2>1, PartFacts
<1>6. Len(u) = Len(v)  BY <1>4, <1>5
<1>7. ASSUME NEW i \in 1..Len(u) PROVE Alike(u[i], v[i])
  BY <1>1, <1>4, <1>5, <1>6
<1> QED  BY <1>2, <1>3, <1>4, <1>5, <1>6, <1>7 DEF AlikeTexts

\* They are trimmed at the same places.
LEMMA AlikeTrim ==
    ASSUME NEW s, NEW t, AlikeTexts(s, t)
    PROVE  /\ Ink(s) = Ink(t)
           /\ \A a, b : Ends(s, a, b) <=> Ends(t, a, b)
           /\ AlikeTexts(Trim(s), Trim(t))
<1>1. s \in Text /\ t \in Text /\ Len(s) = Len(t) /\ \A i \in 1..Len(s) : Alike(s[i], t[i])
  BY DEF AlikeTexts
<1>2. Ink(s) = Ink(t)
  <2>1. \A i \in 1..Len(s) : Blank(s[i]) <=> Blank(t[i])  BY <1>1, AlikeFacts
  <2> QED  BY <1>1, <2>1 DEF Ink
<1>3. \A a, b : Ends(s, a, b) <=> Ends(t, a, b)  BY <1>2 DEF Ends
<1>4. CASE Ink(s) = {}
  <2>1. Trim(s) = <<>> /\ Trim(t) = <<>>  BY <1>1, <1>2, <1>4, TrimFacts
  <2>2. Trim(s) \in Text  BY <1>1, TrimTrim
  <2>3. AlikeTexts(<<>>, <<>>)  BY <2>1, <2>2 DEF AlikeTexts
  <2> QED  BY <1>2, <1>3, <2>1, <2>3
<1>5. CASE Ink(s) # {}
  <2>1. PICK a, b : Ends(s, a, b)  BY <1>1, <1>5, InkFacts
  <2>2. Trim(s) = SubSeq(s, a, b) /\ Trim(t) = SubSeq(t, a, b)
    BY <1>1, <1>3, <2>1, TrimFacts
  <2>3. a \in 1..Len(s) /\ b \in 1..Len(s) /\ Len(s) \in Nat
    BY <1>1, <2>1, InkFacts DEF Ends
  <2>4. a \in Nat \ {0} /\ b \in Nat /\ b <= Len(s)  BY <2>3
  <2> QED  BY <1>2, <1>3, <2>2, <2>4, AlikeParts
<1> QED  BY <1>4, <1>5

\* A mark stands at the same places of texts that are alike.
LEMMA AlikeMarks ==
    ASSUME NEW s, NEW t, AlikeTexts(s, t), NEW c \in Marks
    PROVE  /\ StartsWith(s, c) <=> StartsWith(t, c)
           /\ EndsWith(s, c) <=> EndsWith(t, c)
           /\ Doubled(s, c) <=> Doubled(t, c)
           /\ Contains(s, c) <=> Contains(t, c)
           /\ \A C : Letters \subseteq C => (AllIn(s, C) <=> AllIn(t, C))
           /\ s = <<>> <=> t = <<>>
<1>1. s \in Text /\ t \in Text /\ Len(s) = Len(t) /\ \A i \in 1..Len(s) : Alike(s[i], t[i])
  BY DEF AlikeTexts
<1>2. Len(s) \in Nat  BY <1>1, InkFacts
<1>3. \A i \in 1..Len(s) : s[i] = c <=> t[i] = c  BY <1>1, AlikeFacts
<1>4. StartsWith(s, c) <=> StartsWith(t, c)
  <2>1. Len(s) > 0 => 1 \in 1..Len(s)  BY <1>2
  <2> QED  BY <1>1, <1>3, <2>1 DEF StartsWith
<1>5. EndsWith(s, c) <=> EndsWith(t, c)
  <2>1. Len(s) > 0 => Len(s) \in 1..Len(s)  BY <1>2
  <2> QED  BY <1>1, <1>3, <2>1 DEF EndsWith
<1>6. Doubled(s, c) <=> Doubled(t, c)
  <2>1. \A i \in 1..Len(s) - 1 : i \in 1..Len(s) /\ i + 1 \in 1..Len(s)  BY <1>2
  <2> QED  BY <1>1, <1>3, <2>1 DEF Doubled
<1>7. Contains(s, c) <=> Contains(t, c)  BY <1>1, <1>3 DEF Contains
<1>8. ASSUME NEW C, Letters \subseteq C PROVE AllIn(s, C) <=> AllIn(t, C)
  <2>1. \A i \in 1..Len(s) : s[i] \in C <=> t[i] \in C  BY <1>1, <1>8, AlikeFacts
  <2> QED  BY <1>1, <2>1 DEF AllIn
<1>9. s = <<>> <=> t = <<>>
  BY <1>1, EmptySeq DEF Text
<1> QED  BY <1>4, <1>5, <1>6, <1>7, <1>8, <1>9

\* Every piece of one is alike to a piece of the other.
LEMMA AlikePieces ==
    ASSUME NEW s, NEW t, AlikeTexts(s, t), NEW c \in Marks, NEW u \in Pieces(s, c)
    PROVE  \E v \in Pieces(t, c) : AlikeTexts(u, v)
<1>1. s \in Text /\ t \in Text /\ Len(s) = Len(t) /\ \A i \in 1..Len(s) : Alike(s[i], t[i])
  BY DEF AlikeTexts
<1>2. Len(s) \in Nat  BY <1>1, InkFacts
<1>3. \A i \in 1..Len(s) : s[i] = c <=> t[i] = c  BY <1>1, AlikeFacts
<1>4. PICK q \in (1..Len(s)) \X (1..Len(s)) :
         /\ u = SubSeq(s, q[1], q[2])
         /\ q[1] <= q[2]
         /\ q[1] = 1 \/ s[q[1] - 1] = c
         /\ q[2] = Len(s) \/ s[q[2] + 1] = c
         /\ \A k \in q[1]..q[2] : s[k] # c
  BY DEF Pieces
<1>5. q[1] \in 1..Len(s) /\ q[2] \in 1..Len(s)  BY <1>4
<1>6. PICK a : a = q[1]  OBVIOUS
<1>7. PICK b : b = q[2]  OBVIOUS
<1>8. /\ a \in 1..Len(t) /\ b \in 1..Len(t) /\ a <= b
      /\ a = 1 \/ t[a - 1] = c
      /\ b = Len(t) \/ t[b + 1] = c
      /\ \A k \in a..b : t[k] # c
  <2>1. a \in 1..Len(s) /\ b \in 1..Len(s) /\ a <= b  BY <1>4, <1>5, <1>6, <1>7
  <2>2. a # 1 => a - 1 \in 1..Len(s)  BY <1>2, <2>1
  <2>3. b # Len(s) => b + 1 \in 1..Len(s)  BY <1>2, <2>1
  <2>4. \A k \in a..b : k \in 1..Len(s)  BY <1>2, <2>1
  <2>5. a = 1 \/ t[a - 1] = c  BY <1>3, <1>4, <1>6, <2>2
  <2>6. b = Len(t) \/ t[b + 1] = c  BY <1>1, <1>3, <1>4, <1>7, <2>3
  <2>7. \A k \in a..b : t[k] # c  BY <1>3, <1>4, <1>6, <1>7, <2>4
  <2> QED  BY <1>1, <2>1, <2>5, <2>6, <2>7
<1>9. PICK v : v = SubSeq(t, a, b)  OBVIOUS
<1>10. v \in Pieces(t, c)
  <2>1. q \in (1..Len(t)) \X (1..Len(t))  BY <1>1
  <2> QED  BY <1>6, <1>7, <1>8, <1>9, <2>1 DEF Pieces
<1>11. AlikeTexts(u, v)
  <2>1. a \in Nat \ {0} /\ b \in Nat /\ b <= Len(s)  BY <1>1, <1>2, <1>8
  <2> QED  BY <1>4, <1>6, <1>7, <1>9, <2>1, AlikeParts
<1> QED  BY <1>10, <1>11

\* An address is valid in either case of its letters.
LEMMA AlikeLocal ==
    ASSUME NEW s, NEW t, AlikeTexts(s, t) PROVE ValidLocal(s) <=> ValidLocal(t)
<1>1. Len(s) = Len(t)  BY DEF AlikeTexts
<1>2. "." \in Marks /\ Letters \subseteq Letters \cup {".", "-"}  BY DEF Marks
<1>3. PICK dot : dot = "."  OBVIOUS
<1>4. /\ StartsWith(s, dot) <=> StartsWith(t, dot)
      /\ EndsWith(s, dot) <=> EndsWith(t, dot)
      /\ Doubled(s, dot) <=> Doubled(t, dot)
      /\ AllIn(s, Letters \cup {".", "-"}) <=> AllIn(t, Letters \cup {".", "-"})
  BY <1>2, <1>3, AlikeMarks
<1> QED  BY <1>1, <1>3, <1>4 DEF ValidLocal

\* So is a label of its domain.
LEMMA AlikeLabel ==
    ASSUME NEW s, NEW t, AlikeTexts(s, t) PROVE ValidLabel(s) <=> ValidLabel(t)
<1>1. Len(s) = Len(t)  BY DEF AlikeTexts
<1>2. "-" \in Marks /\ Letters \subseteq Letters \cup {"-"}  BY DEF Marks
<1>3. PICK hyphen : hyphen = "-"  OBVIOUS
<1>4. /\ StartsWith(s, hyphen) <=> StartsWith(t, hyphen)
      /\ EndsWith(s, hyphen) <=> EndsWith(t, hyphen)
      /\ AllIn(s, Letters \cup {"-"}) <=> AllIn(t, Letters \cup {"-"})
  BY <1>2, <1>3, AlikeMarks
<1> QED  BY <1>1, <1>3, <1>4 DEF ValidLabel

\* And the domain, label by label.
LEMMA AlikeDomain ==
    ASSUME NEW s, NEW t, AlikeTexts(s, t), ValidDomain(s) PROVE ValidDomain(t)
<1>1. PICK dot : dot = "."  OBVIOUS
<1>2. PICK at : at = "@"  OBVIOUS
<1>3. dot \in Marks /\ at \in Marks  BY <1>1, <1>2 DEF Marks
<1>4. /\ s # <<>> /\ Len(s) <= MaxDomain /\ ~Contains(s, at)
      /\ ~StartsWith(s, dot) /\ ~EndsWith(s, dot) /\ ~Doubled(s, dot)
      /\ \A label \in Pieces(s, dot) : ValidLabel(label)
  BY <1>1, <1>2 DEF ValidDomain
<1>5. /\ t # <<>> /\ ~Contains(t, at)
      /\ ~StartsWith(t, dot) /\ ~EndsWith(t, dot) /\ ~Doubled(t, dot)
  BY <1>3, <1>4, AlikeMarks
<1>6. Len(t) <= MaxDomain  BY <1>4 DEF AlikeTexts
<1>7. ASSUME NEW label \in Pieces(t, dot) PROVE ValidLabel(label)
  <2>1. AlikeTexts(t, s)  BY AlikeBack
  <2>2. PICK u \in Pieces(s, dot) : AlikeTexts(label, u)  BY <1>3, <2>1, AlikePieces
  <2> QED  BY <1>4, <2>2, AlikeLabel
<1> QED  BY <1>1, <1>2, <1>5, <1>6, <1>7 DEF ValidDomain

--------------------------------------------------------------------------------
(* Normal forms *)

Lowered(s) == [i \in 1..Len(s) |-> Lower(s[i])]
Raised(s) == [i \in 1..Len(s) |-> Upper(s[i])]

\* a is the place of the first @.
FirstAt(s, a) == a \in 1..Len(s) /\ s[a] = "@" /\ \A i \in 1..Len(s) : s[i] = "@" => a <= i

\* What normalize_email asks of a text that it has trimmed.
Accepted(s) ==
    /\ Len(s) \in 3..MaxAddress
    /\ \E a \in 1..Len(s) : /\ FirstAt(s, a)
                            /\ ValidLocal(SubSeq(s, 1, a - 1))
                            /\ ValidDomain(SubSeq(s, a + 1, Len(s)))

\* normalize_email trims, asks and lowers.
LEMMA NormalizeFacts ==
    ASSUME NEW s \in Text
    PROVE  NormalizeEmail(s) = IF Accepted(Trim(s)) THEN Lowered(Trim(s)) ELSE None
<1>1. PICK u : u = Trim(s)  OBVIOUS
<1>2. u \in Text /\ Len(u) \in Nat  BY <1>1, TrimTrim, InkFacts
<1>3. PICK at : at = "@"  OBVIOUS
<1> DEFINE ats == {i \in 1..Len(u) : u[i] = at}
           first == CHOOSE i \in ats : \A j \in ats : i <= j
<1>4. NormalizeEmail(s) =
         IF /\ Len(u) \in 3..MaxAddress
            /\ ats # {}
            /\ ValidLocal(SubSeq(u, 1, first - 1))
            /\ ValidDomain(SubSeq(u, first + 1, Len(u)))
         THEN Lowered(u) ELSE None
  BY <1>1, <1>3 DEF NormalizeEmail, Map, Lowered
<1>5. ats \subseteq Nat  BY <1>2
<1>6. ats # {} => first \in ats /\ \A j \in ats : first <= j
  BY <1>5, LeastOf
<1>7. \A a : FirstAt(u, a) <=> a \in ats /\ \A j \in ats : a <= j
  BY <1>3 DEF FirstAt
<1>8. ASSUME NEW a, FirstAt(u, a) PROVE ats # {} /\ a = first
  <2>1. a \in ats /\ \A j \in ats : a <= j  BY <1>7, <1>8
  <2>2. first \in ats /\ \A j \in ats : first <= j  BY <1>6, <2>1
  <2> HIDE DEF first
  <2>3. a \in Nat /\ first \in Nat /\ a <= first /\ first <= a  BY <1>5, <2>1, <2>2
  <2> QED  BY <2>1, <2>3
<1>9. ats # {} => first \in 1..Len(u) /\ FirstAt(u, first)  BY <1>6, <1>7
<1> HIDE DEF ats, first
<1>10. Accepted(u) <=> /\ Len(u) \in 3..MaxAddress
                       /\ ats # {}
                       /\ ValidLocal(SubSeq(u, 1, first - 1))
                       /\ ValidDomain(SubSeq(u, first + 1, Len(u)))
  BY <1>8, <1>9 DEF Accepted
<1> QED  BY <1>1, <1>4, <1>10

\* Texts that are alike are accepted together, and written alike.
LEMMA AlikeAccepted ==
    ASSUME NEW s, NEW t, AlikeTexts(s, t), Accepted(s) PROVE Accepted(t)
<1>1. s \in Text /\ t \in Text /\ Len(s) = Len(t) /\ \A i \in 1..Len(s) : Alike(s[i], t[i])
  BY DEF AlikeTexts
<1>2. Len(s) \in Nat  BY <1>1, InkFacts
<1>3. PICK a \in 1..Len(s) : /\ FirstAt(s, a)
                             /\ ValidLocal(SubSeq(s, 1, a - 1))
                             /\ ValidDomain(SubSeq(s, a + 1, Len(s)))
  BY DEF Accepted
<1>4. FirstAt(t, a)
  <2>1. PICK at : at = "@"  OBVIOUS
  <2>2. at \in Marks  BY <2>1 DEF Marks
  <2>3. \A i \in 1..Len(s) : s[i] = at <=> t[i] = at  BY <1>1, <2>2, AlikeFacts
  <2> QED  BY <1>1, <1>3, <2>1, <2>3 DEF FirstAt
<1>5. /\ a - 1 \in Nat /\ a - 1 <= Len(s) /\ a + 1 \in Nat \ {0} /\ Len(s) <= Len(s)
      /\ 1 \in Nat \ {0}
  BY <1>2, <1>3
<1>6. AlikeTexts(SubSeq(s, 1, a - 1), SubSeq(t, 1, a - 1))  BY <1>5, AlikeParts
<1>7. AlikeTexts(SubSeq(s, a + 1, Len(s)), SubSeq(t, a + 1, Len(t)))
  BY <1>1, <1>2, <1>5, AlikeParts
<1>8. ValidLocal(SubSeq(t, 1, a - 1))  BY <1>3, <1>6, AlikeLocal
<1>9. ValidDomain(SubSeq(t, a + 1, Len(t)))  BY <1>3, <1>7, AlikeDomain
<1>10. Len(t) \in 3..MaxAddress  BY <1>1 DEF Accepted
<1> QED  BY <1>1, <1>3, <1>4, <1>8, <1>9, <1>10 DEF Accepted

\* They have one normal form.
LEMMA AlikeNormal ==
    ASSUME NEW s, NEW t, AlikeTexts(s, t) PROVE NormalizeEmail(s) = NormalizeEmail(t)
<1>1. PICK u : u = Trim(s)  OBVIOUS
<1>2. PICK v : v = Trim(t)  OBVIOUS
<1>3. AlikeTexts(u, v) /\ AlikeTexts(v, u)  BY <1>1, <1>2, AlikeTrim, AlikeBack
<1>4. Accepted(u) <=> Accepted(v)  BY <1>3, AlikeAccepted
<1>5. Lowered(u) = Lowered(v)
  <2>1. Len(u) = Len(v) /\ \A i \in 1..Len(u) : Alike(u[i], v[i])  BY <1>3 DEF AlikeTexts
  <2>2. \A i \in 1..Len(u) : Lower(u[i]) = Lower(v[i])  BY <2>1, AlikeFacts
  <2> QED  BY <2>1, <2>2 DEF Lowered
<1>6. s \in Text /\ t \in Text  BY DEF AlikeTexts
<1> QED  BY <1>1, <1>2, <1>4, <1>5, <1>6, NormalizeFacts

\* A text is alike to itself in upper and in lower case.
LEMMA CaseAlike ==
    ASSUME NEW s \in Text PROVE AlikeTexts(Raised(s), s) /\ AlikeTexts(Lowered(s), s)
<1>1. Len(s) \in Nat /\ \A i \in 1..Len(s) : s[i] \in Characters
  BY InkFacts, ElementOfSeq DEF Text
<1>2. \A c \in Characters : /\ Upper(c) \in Characters /\ Lower(c) \in Characters
                            /\ Alike(Upper(c), c) /\ Alike(Lower(c), c)
  BY DEF Upper, Lower, Characters, Letters, Alike
<1>3. /\ Raised(s) \in Text /\ Len(Raised(s)) = Len(s)
      /\ \A i \in 1..Len(s) : Raised(s)[i] = Upper(s[i])
  <2>1. \A i \in 1..Len(s) : Upper(s[i]) \in Characters  BY <1>1, <1>2
  <2> QED  BY <1>1, <2>1 DEF Raised, Text
<1>4. /\ Lowered(s) \in Text /\ Len(Lowered(s)) = Len(s)
      /\ \A i \in 1..Len(s) : Lowered(s)[i] = Lower(s[i])
  <2>1. \A i \in 1..Len(s) : Lower(s[i]) \in Characters  BY <1>1, <1>2
  <2> QED  BY <1>1, <2>1 DEF Lowered, Text
<1> QED  BY <1>1, <1>2, <1>3, <1>4 DEF AlikeTexts

\* A normal form is its own normal form.
LEMMA NormalOnce ==
    ASSUME NEW s \in Text, NormalizeEmail(s) # None
    PROVE  NormalizeEmail(NormalizeEmail(s)) = NormalizeEmail(s)
<1>1. PICK u : u = Trim(s)  OBVIOUS
<1>2. u \in Text /\ Trim(u) = u  BY <1>1, TrimTrim
<1>3. Accepted(u) /\ NormalizeEmail(s) = Lowered(u)  BY <1>1, NormalizeFacts
<1>4. PICK v : v = Lowered(u)  OBVIOUS
<1>5. AlikeTexts(v, u) /\ AlikeTexts(u, v) /\ v \in Text
  <2>1. AlikeTexts(v, u)  BY <1>2, <1>4, CaseAlike
  <2> QED  BY <2>1, AlikeBack DEF AlikeTexts
<1>6. Len(u) = Len(v) /\ Len(u) \in 3..MaxAddress /\ Len(u) \in Nat
  BY <1>2, <1>3, <1>5, InkFacts DEF Accepted, AlikeTexts
<1>7. Trim(v) = v
  <2>1. Ink(u) # {}
    <3>1. CASE Ink(u) = {}
      <4>1. u = <<>>  BY <1>2, <3>1, TrimFacts
      <4>2. Len(u) = 0  BY <4>1
      <4> QED  BY <1>6, <4>2
    <3> QED  BY <3>1
  <2>2. PICK a, b : Ends(u, a, b)  BY <1>2, <2>1, InkFacts
  <2>3. u = SubSeq(u, a, b)  BY <1>2, <2>2, TrimFacts
  <2>4. a \in 1..Len(u) /\ b \in 1..Len(u) /\ a <= b  BY <1>2, <2>2, InkFacts DEF Ends
  <2>5. Len(u) = b - a + 1
    <3>1. a \in Nat \ {0} /\ b \in Nat /\ b <= Len(u)  BY <1>6, <2>4
    <3>2. PICK n : n = Len(SubSeq(u, a, b))  OBVIOUS
    <3>3. n = b - a + 1  BY <1>2, <2>4, <3>1, <3>2, PartFacts
    <3> QED  BY <2>3, <3>2, <3>3
  <2>6. a = 1 /\ b = Len(u)  BY <1>6, <2>4, <2>5
  <2>7. Ends(v, 1, Len(v))  BY <1>5, <1>6, <2>2, <2>6, AlikeTrim
  <2>8. Trim(v) = SubSeq(v, 1, Len(v))  BY <1>5, <2>7, TrimFacts
  <2> QED  BY <1>5, <2>8, SubSeqFull DEF Text
<1>8. NormalizeEmail(v) = Lowered(v)
  BY <1>3, <1>5, <1>7, NormalizeFacts, AlikeAccepted
<1>9. Lowered(v) = v
  <2>1. \A c : Lower(Lower(c)) = Lower(c)  BY DEF Lower
  <2>2. \A i \in 1..Len(u) : v[i] = Lower(u[i])  BY <1>4 DEF Lowered
  <2>3. \A i \in 1..Len(u) : Lower(v[i]) = Lower(u[i])  BY <2>1, <2>2
  <2>4. Lowered(v) = [i \in 1..Len(u) |-> Lower(v[i])]  BY <1>6 DEF Lowered
  <2> QED  BY <1>4, <2>3, <2>4 DEF Lowered
<1> QED  BY <1>3, <1>4, <1>8, <1>9

\* The separator stands right after the identifier, which does not hold it.
IsKeyAt(s, k) ==
    /\ ValidOpaqueId(SubSeq(s, 1, k))
    /\ s = LockKey(SubSeq(s, 1, k), SubSeq(s, k + 2, Len(s)))

\* So it is the first separator of the key.
LEMMA KeyAt ==
    ASSUME NEW s \in Text, NEW k \in 0..Len(s), IsKeyAt(s, k)
    PROVE  /\ \A i \in 1..k : s[i] # Separator
           /\ k + 1 \in 1..Len(s) /\ s[k + 1] = Separator
<1>1. Len(s) \in Nat  BY InkFacts
<1>2. PICK u : u = SubSeq(s, 1, k)  OBVIOUS
<1>3. PICK v : v = SubSeq(s, k + 2, Len(s))  OBVIOUS
<1>4. u \in Text /\ Len(u) = k /\ \A i \in 1..k : u[i] = s[i]
  <2>1. 1 \in Nat \ {0} /\ k \in Nat /\ k <= Len(s)  BY <1>1
  <2>2. /\ u \in Text /\ Len(u) = IF 1 <= k THEN k - 1 + 1 ELSE 0
        /\ \A i \in 1..Len(u) : u[i] = s[1 + i - 1]
    BY <1>2, <2>1, PartFacts
  <2>3. Len(u) = k  BY <2>1, <2>2
  <2>4. \A i \in 1..k : 1 + i - 1 = i  BY <2>1
  <2> QED  BY <2>2, <2>3, <2>4
<1>5. v \in Text /\ Len(v) \in Nat
  <2>1. k + 2 \in Nat \ {0} /\ Len(s) <= Len(s)  BY <1>1
  <2> QED  BY <1>1, <1>3, <2>1, PartFacts, InkFacts
<1>6. PICK c : c = Separator  OBVIOUS
<1>7. PICK e : e = <<c>>  OBVIOUS
<1>8. c \in Characters /\ e \in Text /\ Len(e) = 1 /\ e[1] = c
  <2>1. c \in Characters  BY <1>6 DEF Characters
  <2> QED  BY <1>7, <2>1, OneText
<1>9. s = (u \o e) \o v
  BY <1>2, <1>3, <1>6, <1>7 DEF IsKeyAt, LockKey
<1>10. PICK w : w = u \o e  OBVIOUS
<1>11. w \in Text /\ Len(w) = k + 1 /\ w[k + 1] = c
  <2>1. /\ w \in Text /\ Len(w) = Len(u) + Len(e)
        /\ \A i \in 1..Len(u) + Len(e) : w[i] = IF i <= Len(u) THEN u[i] ELSE e[i - Len(u)]
    BY <1>4, <1>8, <1>10, ConcatProperties DEF Text
  <2>2. k + 1 \in 1..Len(u) + Len(e) /\ ~(k + 1 <= Len(u)) /\ (k + 1) - Len(u) = 1
    BY <1>1, <1>4, <1>8
  <2> QED  BY <1>4, <1>8, <2>1, <2>2
<1>12. k + 1 \in 1..Len(s) /\ s[k + 1] = c
  <2>0. s = w \o v /\ w \in Seq(Characters) /\ v \in Seq(Characters)
    BY <1>5, <1>9, <1>10, <1>11 DEF Text
  <2>1. /\ Len(s) = Len(w) + Len(v)
        /\ \A i \in 1..Len(w) + Len(v) : s[i] = IF i <= Len(w) THEN w[i] ELSE v[i - Len(w)]
    BY <2>0, ConcatProperties
  <2>2. k + 1 \in 1..Len(w) + Len(v) /\ k + 1 <= Len(w)  BY <1>1, <1>5, <1>11
  <2> QED  BY <1>11, <2>1, <2>2
<1>13. ASSUME NEW i \in 1..k PROVE s[i] # c
  <2>1. u[i] \in Letters \cup {".", "-", "/"}
    BY <1>2, <1>4 DEF IsKeyAt, ValidOpaqueId, AllIn
  <2>2. Separator \notin Letters \cup {".", "-", "/"}  BY DEF Separator, Letters
  <2> QED  BY <1>4, <1>6, <2>1, <2>2
<1> QED  BY <1>6, <1>12, <1>13

\* No text is the key of two pairs.
LEMMA OneKey ==
    ASSUME NEW s \in Text, NEW i \in 0..Len(s), NEW j \in 0..Len(s),
           IsKeyAt(s, i), IsKeyAt(s, j)
    PROVE  i = j
<1>1. Len(s) \in Nat  BY InkFacts
<1>2. s[i + 1] = Separator /\ \A m \in 1..i : s[m] # Separator  BY KeyAt
<1>3. s[j + 1] = Separator /\ \A m \in 1..j : s[m] # Separator  BY KeyAt
<1>4. i + 1 \notin 1..j  BY <1>2, <1>3
<1>5. j + 1 \notin 1..i  BY <1>2, <1>3
<1> QED  BY <1>1, <1>4, <1>5

--------------------------------------------------------------------------------
\* What is typed is a text.
LEMMA Typed == TextSpec => [](text \in Text)
<1>1. TextInit => text \in Text  BY EmptySeq DEF TextInit, Text
<1>2. text \in Text /\ [TextNext]_text => (text \in Text)'
  <2> SUFFICES ASSUME text \in Text, TextNext PROVE text' \in Text  OBVIOUS
  <2>1. PICK c \in Characters : text' = Append(text, c)  BY DEF TextNext, Type
  <2> QED  BY <2>1, AppendProperties DEF Text
<1> QED  BY <1>1, <1>2, PTL DEF TextSpec

\* Two creations for one organization meet at one lock if and only if they are for
\* one mailbox: a normal form forgets the case and the blanks and is its own normal
\* form, and the separator keeps the pairs apart, for texts of every length.
THEOREM LocksOfMailboxes == TextSpec => []LocksAreOfMailboxes
<1>1. ASSUME text \in Text PROVE LocksAreOfMailboxes
  <2>1. NormalizeEmail(Raised(text)) = NormalizeEmail(text)
    BY <1>1, CaseAlike, AlikeNormal
  <2>2. NormalizeEmail(<<" ">> \o text) = NormalizeEmail(text)
    <3>1. PICK t : t = <<" ">> \o text  OBVIOUS
    <3>2. t \in Text /\ Trim(t) = Trim(text)  BY <1>1, <3>1, TrimBlank
    <3> QED  BY <1>1, <3>1, <3>2, NormalizeFacts
  <2>3. NormalizeEmail(text) # None =>
           NormalizeEmail(NormalizeEmail(text)) = NormalizeEmail(text)
    BY <1>1, NormalOnce
  <2>4. \A i, j \in 0..Len(text) : IsKeyAt(text, i) /\ IsKeyAt(text, j) => i = j
    BY <1>1, OneKey
  <2>5. Map(Upper, text) = Raised(text)  BY DEF Map, Raised
  <2> QED  BY <2>1, <2>2, <2>3, <2>4, <2>5 DEF LocksAreOfMailboxes, IsKeyAt
<1> QED  BY <1>1, Typed, PTL

--------------------------------------------------------------------------------
(* The grammar of addresses *)

\* What a cut text holds: every place that is no cut lies in a gap.
LEMMA GapAround ==
    ASSUME NEW n \in Nat, NEW K \in SUBSET (1..n), NEW i \in 1..n, i \notin K
    PROVE  \E p \in {0} \cup K : \E q \in K \cup {n + 1} :
              /\ p < i /\ i < q
              /\ \A k \in K : k <= p \/ q <= k
<1> DEFINE under == {k \in K : k < i}
           over == {k \in K \cup {n + 1} : i < k}
<1>1. \E p \in {0} \cup K : p < i /\ \A k \in under : k <= p
  <2>1. CASE under = {}  BY <2>1
  <2>2. CASE under # {}
    <3>1. under \in SUBSET (1..n)  OBVIOUS
    <3>2. PICK p \in under : \A k \in under : k <= p  BY <2>2, <3>1, LastOf
    <3> QED  BY <3>2
  <2> QED  BY <2>1, <2>2
<1>2. PICK p \in {0} \cup K : p < i /\ \A k \in under : k <= p  BY <1>1
<1>3. over \in SUBSET Nat /\ n + 1 \in over
  <2>1. n + 1 \in Nat /\ i < n + 1 /\ K \subseteq Nat  OBVIOUS
  <2> QED  BY <2>1
<1>4. PICK q \in over : \A k \in over : q <= k  BY <1>3, LeastOf
<1>5. q \in K \cup {n + 1} /\ i < q  BY <1>4
<1>6. ASSUME NEW k \in K PROVE k <= p \/ q <= k
  <2>1. k \in 1..n /\ k # i  OBVIOUS
  <2>2. CASE k < i  BY <1>2, <2>2
  <2>3. CASE i < k  BY <1>4, <2>3
  <2> QED  BY <2>1, <2>2, <2>3
<1> QED  BY <1>2, <1>5, <1>6

\* A piece of a text, by the gap it fills.
LEMMA PieceFacts ==
    ASSUME NEW s \in Text, NEW K \in SUBSET Dots(s), NEW p \in {0} \cup K,
           NEW q \in K \cup {Len(s) + 1}, p < q
    PROVE  LET w == SubSeq(s, p + 1, q - 1) IN
           /\ p \in Nat /\ q \in Nat /\ q <= Len(s) + 1
           /\ w \in Text /\ Len(w) = q - p - 1
           /\ \A i \in 1..Len(w) : w[i] = s[p + i] /\ p + i \in 1..Len(s)
           /\ w = <<>> <=> q = p + 1
<1>1. Len(s) \in Nat  BY InkFacts
<1>2. K \subseteq 1..Len(s)  BY DEF Dots
<1>3. p \in Nat /\ q \in Nat /\ q <= Len(s) + 1 /\ p <= Len(s) /\ q # 0  BY <1>1, <1>2
<1>4. PICK w : w = SubSeq(s, p + 1, q - 1)  OBVIOUS
<1>5. p + 1 \in Nat \ {0} /\ q - 1 \in Nat /\ q - 1 <= Len(s)  BY <1>1, <1>3
<1>6. /\ w \in Text /\ Len(w) = IF p + 1 <= q - 1 THEN (q - 1) - (p + 1) + 1 ELSE 0
      /\ \A i \in 1..Len(w) : w[i] = s[(p + 1) + i - 1] /\ (p + 1) + i - 1 \in 1..Len(s)
  BY <1>4, <1>5, PartFacts
<1>7. Len(w) = q - p - 1  BY <1>3, <1>6
<1>8. \A i \in 1..Len(w) : (p + 1) + i - 1 = p + i  BY <1>3, <1>7
<1>9. w = <<>> <=> Len(w) = 0  BY <1>6, EmptySeq DEF Text
<1>10. w = <<>> <=> q = p + 1  BY <1>3, <1>7, <1>9
<1> QED  BY <1>3, <1>4, <1>6, <1>7, <1>8, <1>10

\* A gap of a cut text is one of its pieces.
LEMMA GapIsPiece ==
    ASSUME NEW s, NEW K, NEW p \in {0} \cup K, NEW q \in K \cup {Len(s) + 1}, p < q,
           \A k \in K : k <= p \/ q <= k
    PROVE  SubSeq(s, p + 1, q - 1) \in Cut(s, K)
<1>1. PICK g : g = <<p, q>>  OBVIOUS
<1>2. g \in Gaps(s, K) /\ g[1] = p /\ g[2] = q  BY <1>1 DEF Gaps
<1> QED  BY <1>2 DEF Cut

\* And every piece is that of a gap.
LEMMA PieceIsGap ==
    ASSUME NEW s, NEW K, NEW w \in Cut(s, K)
    PROVE  \E p \in {0} \cup K : \E q \in K \cup {Len(s) + 1} :
              /\ p < q /\ w = SubSeq(s, p + 1, q - 1)
              /\ \A k \in K : k <= p \/ q <= k
<1>1. PICK g \in Gaps(s, K) : w = SubSeq(s, g[1] + 1, g[2] - 1)  BY DEF Cut
<1>2. g[1] \in {0} \cup K /\ g[2] \in K \cup {Len(s) + 1}  BY <1>1 DEF Gaps
<1>3. g[1] < g[2] /\ \A k \in K : k <= g[1] \/ g[2] <= k  BY <1>1 DEF Gaps
<1> QED  BY <1>1, <1>2, <1>3

Single(s, dot) == ~StartsWith(s, dot) /\ ~EndsWith(s, dot) /\ ~Doubled(s, dot)

\* Words joined by dots are cut at every dot, and no dot is at an end or next to another.
LEMMA JoinedWords ==
    ASSUME NEW s \in Text, NEW K \in SUBSET Dots(s), \A w \in Cut(s, K) : IsWord(w)
    PROVE  /\ K = Dots(s) /\ s # <<>> /\ Single(s, ".")
           /\ \A i \in 1..Len(s) : s[i] \in {"a", "-", "."}
<1>1. Len(s) \in Nat  BY InkFacts
<1>2. K \subseteq 1..Len(s) /\ \A k \in K : s[k] = "."  BY DEF Dots
<1>3. ASSUME NEW i \in 1..Len(s), i \notin K PROVE s[i] \in {"a", "-"}
  <2>1. PICK p \in {0} \cup K, q \in K \cup {Len(s) + 1} :
           /\ p < i /\ i < q
           /\ \A k \in K : k <= p \/ q <= k
    BY <1>1, <1>2, <1>3, GapAround
  <2>2. p \in Nat /\ q \in Nat /\ p < q  BY <1>1, <1>2, <2>1
  <2>3. PICK w : w = SubSeq(s, p + 1, q - 1)  OBVIOUS
  <2>4. IsWord(w)  BY <2>1, <2>2, <2>3, GapIsPiece
  <2>5. Len(w) = q - p - 1 /\ \A j \in 1..Len(w) : w[j] = s[p + j]
    BY <2>2, <2>3, PieceFacts
  <2>6. i - p \in 1..Len(w) /\ p + (i - p) = i  BY <2>1, <2>2, <2>5
  <2>7. w[i - p] = s[i]  BY <2>5, <2>6
  <2> QED  BY <2>4, <2>6, <2>7 DEF IsWord, AllIn
<1>4. K = Dots(s)
  <2>1. \A i \in Dots(s) : i \in 1..Len(s) /\ s[i] = "."  BY DEF Dots
  <2>2. "." \notin {"a", "-"}  OBVIOUS
  <2> QED  BY <1>3, <2>1, <2>2
<1>5. \A i \in 1..Len(s) : s[i] \in {"a", "-", "."}  BY <1>2, <1>3
<1>6. ASSUME NEW p \in {0} \cup K, p + 1 \in K \cup {Len(s) + 1} PROVE FALSE
  <2>1. p \in Nat /\ p < p + 1 /\ \A k \in K : k <= p \/ p + 1 <= k  BY <1>1, <1>2
  <2>2. PICK q : q = p + 1  OBVIOUS
  <2>3. IsWord(SubSeq(s, p + 1, q - 1))  BY <1>6, <2>1, <2>2, GapIsPiece
  <2>4. SubSeq(s, p + 1, q - 1) = <<>>  BY <1>6, <2>1, <2>2, PieceFacts
  <2> QED  BY <2>3, <2>4 DEF IsWord
<1>7. s # <<>>
  <2>1. SUFFICES ASSUME s = <<>> PROVE FALSE  OBVIOUS
  <2>2. 0 + 1 = Len(s) + 1  BY <2>1
  <2> QED  BY <1>6, <2>2
<1>8. ~StartsWith(s, ".")
  <2>1. SUFFICES ASSUME StartsWith(s, ".") PROVE FALSE  OBVIOUS
  <2>2. 1 \in Dots(s) /\ 0 + 1 = 1  BY <1>1, <2>1 DEF StartsWith, Dots
  <2> QED  BY <1>4, <1>6, <2>2
<1>9. ~EndsWith(s, ".")
  <2>1. SUFFICES ASSUME EndsWith(s, ".") PROVE FALSE  OBVIOUS
  <2>2. Len(s) \in Dots(s)  BY <1>1, <2>1 DEF EndsWith, Dots
  <2> QED  BY <1>4, <1>6, <2>2
<1>10. ~Doubled(s, ".")
  <2>1. SUFFICES ASSUME NEW i \in 1..Len(s) - 1, s[i] = ".", s[i + 1] = "." PROVE FALSE
    BY DEF Doubled
  <2>2. i \in Dots(s) /\ i + 1 \in Dots(s)  BY <1>1, <2>1 DEF Dots
  <2> QED  BY <1>4, <1>6, <2>2
<1> QED  BY <1>4, <1>5, <1>7, <1>8, <1>9, <1>10 DEF Single

\* Where no dot is at an end or next to another, what is between all of the dots are the
\* pieces of the text, and none of them is empty or holds a dot.
LEMMA CutAtDots ==
    ASSUME NEW s \in Text, s # <<>>, Single(s, ".")
    PROVE  /\ Cut(s, Dots(s)) = Pieces(s, ".")
           /\ \A w \in Cut(s, Dots(s)) :
                 /\ w \in Text /\ w # <<>>
                 /\ \A i \in 1..Len(w) : \E j \in 1..Len(s) : w[i] = s[j] /\ s[j] # "."
<1>1. Len(s) \in Nat /\ Len(s) # 0  BY InkFacts, EmptySeq DEF Text
<1>2. PICK K : K = Dots(s)  OBVIOUS
<1>3. /\ K \in SUBSET Dots(s) /\ K \subseteq 1..Len(s)
      /\ \A k \in 1..Len(s) : k \in K <=> s[k] = "."
  BY <1>2 DEF Dots
<1>4. ASSUME NEW p \in {0} \cup K PROVE p + 1 \notin K \cup {Len(s) + 1}
  <2>1. CASE p = 0
    <3>1. s[1] # "." /\ 0 + 1 = 1  BY <1>1 DEF Single, StartsWith
    <3> QED  BY <1>1, <1>3, <2>1, <3>1
  <2>2. CASE p \in K
    <3>1. p \in 1..Len(s) /\ s[p] = "."  BY <1>3, <2>2
    <3>2. p # Len(s)  BY <1>1, <3>1 DEF Single, EndsWith
    <3>3. p \in 1..Len(s) - 1 /\ p + 1 \in 1..Len(s)  BY <1>1, <3>1, <3>2
    <3>4. s[p + 1] # "."  BY <3>1, <3>3 DEF Single, Doubled
    <3>5. p + 1 # Len(s) + 1  BY <1>1, <3>1, <3>2
    <3> QED  BY <1>3, <3>3, <3>4, <3>5
  <2> QED  BY <2>1, <2>2
<1>5. ASSUME NEW w \in Cut(s, K)
      PROVE  /\ w \in Text /\ w # <<>> /\ w \in Pieces(s, ".")
             /\ \A i \in 1..Len(w) : \E j \in 1..Len(s) : w[i] = s[j] /\ s[j] # "."
  <2>1. PICK p \in {0} \cup K, q \in K \cup {Len(s) + 1} :
           /\ p < q /\ w = SubSeq(s, p + 1, q - 1)
           /\ \A k \in K : k <= p \/ q <= k
    BY PieceIsGap
  <2>2. /\ p \in Nat /\ q \in Nat /\ q <= Len(s) + 1
        /\ w \in Text /\ Len(w) = q - p - 1
        /\ \A i \in 1..Len(w) : w[i] = s[p + i] /\ p + i \in 1..Len(s)
        /\ w = <<>> <=> q = p + 1
    <3>1. p < q /\ w = SubSeq(s, p + 1, q - 1)  BY <2>1
    <3>2. p \in Nat /\ q \in Nat /\ q <= Len(s) + 1  BY <1>3, <3>1, PieceFacts
    <3>3. w \in Text /\ Len(w) = q - p - 1  BY <1>3, <3>1, PieceFacts
    <3>4. \A i \in 1..Len(w) : w[i] = s[p + i] /\ p + i \in 1..Len(s)
      <4>1. K \in SUBSET Dots(s)  BY <1>3
      <4> HIDE <1>3
      <4> QED  BY <3>1, <4>1, PieceFacts
    <3>5. w = <<>> <=> q = p + 1  BY <1>3, <3>1, PieceFacts
    <3> QED  BY <3>2, <3>3, <3>4, <3>5
  <2>3. q # p + 1  BY <1>4
  <2>4. p + 1 < q  BY <2>1, <2>2, <2>3
  <2>5. ASSUME NEW k \in p + 1..q - 1 PROVE s[k] # "."
    <3>1. k \in 1..Len(s) /\ ~(k <= p) /\ ~(q <= k)  BY <1>1, <2>2
    <3> QED  BY <1>3, <2>1, <3>1
  <2>6. ASSUME NEW i \in 1..Len(w) PROVE p + i \in p + 1..q - 1
    BY <2>2
  <2>7. p + 1 \in 1..Len(s) /\ q - 1 \in 1..Len(s) /\ p + 1 <= q - 1  BY <1>1, <2>2, <2>4
  <2>8. p + 1 = 1 \/ s[(p + 1) - 1] = "."
    <3>1. (p + 1) - 1 = p  BY <2>2
    <3> QED  BY <1>3, <2>1, <3>1
  <2>9. q - 1 = Len(s) \/ s[(q - 1) + 1] = "."
    <3>1. (q - 1) + 1 = q  BY <2>2
    <3> QED  BY <1>1, <1>3, <2>1, <2>2, <3>1
  <2>10. w \in Pieces(s, ".")
    <3>1. PICK x : x = <<p + 1, q - 1>>  OBVIOUS
    <3>2. /\ x \in (1..Len(s)) \X (1..Len(s)) /\ x[1] = p + 1 /\ x[2] = q - 1
      BY <2>7, <3>1
    <3> QED  BY <2>1, <2>5, <2>7, <2>8, <2>9, <3>2 DEF Pieces
  <2> QED  BY <2>2, <2>3, <2>5, <2>6, <2>10
<1>6. ASSUME NEW w \in Pieces(s, ".") PROVE w \in Cut(s, K)
  <2>1. PICK x \in (1..Len(s)) \X (1..Len(s)) :
           /\ w = SubSeq(s, x[1], x[2])
           /\ x[1] <= x[2]
           /\ x[1] = 1 \/ s[x[1] - 1] = "."
           /\ x[2] = Len(s) \/ s[x[2] + 1] = "."
           /\ \A k \in x[1]..x[2] : s[k] # "."
    BY DEF Pieces
  <2>2. PICK p : p = x[1] - 1  OBVIOUS
  <2>3. PICK q : q = x[2] + 1  OBVIOUS
  <2>4. x[1] \in 1..Len(s) /\ x[2] \in 1..Len(s)  BY <2>1
  <2>5. p + 1 = x[1] /\ q - 1 = x[2] /\ p < q
    <3>1. \A i, j \in 1..Len(s) : i <= j => (i - 1) + 1 = i /\ (j + 1) - 1 = j /\ i - 1 < j + 1
      BY <1>1
    <3> QED  BY <2>1, <2>2, <2>3, <2>4, <3>1
  <2>6. p \in {0} \cup K
    <3>1. x[1] # 1 => p \in 1..Len(s)  BY <1>1, <2>2, <2>4
    <3>2. x[1] = 1 => p = 0  BY <2>2
    <3> QED  BY <1>3, <2>1, <2>2, <3>1, <3>2
  <2>7. q \in K \cup {Len(s) + 1}
    <3>1. x[2] # Len(s) => q \in 1..Len(s)  BY <1>1, <2>3, <2>4
    <3> QED  BY <1>3, <2>1, <2>3, <3>1
  <2>8. ASSUME NEW k \in K PROVE k <= p \/ q <= k
    <3>1. k \in 1..Len(s) /\ s[k] = "."  BY <1>3
    <3>2. k \notin x[1]..x[2]  BY <2>1, <3>1
    <3> QED  BY <1>1, <2>2, <2>3, <2>4, <3>1, <3>2
  <2> QED  BY <2>1, <2>5, <2>6, <2>7, <2>8, GapIsPiece
<1> QED  BY <1>2, <1>5, <1>6

\* A text without letters in upper case.
Plain(s) == s \in Text /\ \A i \in 1..Len(s) : s[i] # "A"

\* A part of such a text has none either.
LEMMA PlainPart ==
    ASSUME NEW s, Plain(s), NEW m \in Nat \ {0}, NEW n \in Nat, n <= Len(s)
    PROVE  Plain(SubSeq(s, m, n))
<1>1. PICK u : u = SubSeq(s, m, n)  OBVIOUS
<1>2. u \in Text /\ \A i \in 1..Len(u) : u[i] = s[m + i - 1] /\ m + i - 1 \in 1..Len(s)
  BY <1>1, PartFacts DEF Plain
<1> QED  BY <1>1, <1>2 DEF Plain

\* The pieces of such a text between its dots, if it is made of nothing but words.
LEMMA PlainPieces ==
    ASSUME NEW s, Plain(s), s # <<>>, Single(s, "."),
           AllIn(s, Letters \cup {".", "-"}), NEW w \in Cut(s, Dots(s))
    PROVE  Plain(w) /\ IsWord(w)
<1>1. s \in Text  BY DEF Plain
<1>2. /\ w \in Text /\ w # <<>>
      /\ \A i \in 1..Len(w) : \E j \in 1..Len(s) : w[i] = s[j] /\ s[j] # "."
  BY <1>1, CutAtDots
<1>3. ASSUME NEW i \in 1..Len(w) PROVE w[i] \in {"a", "-"}
  <2>1. PICK j \in 1..Len(s) : w[i] = s[j] /\ s[j] # "."  BY <1>2
  <2>2. s[j] \in Letters \cup {".", "-"} /\ s[j] # "A"  BY DEF AllIn, Plain
  <2> QED  BY <2>1, <2>2 DEF Letters
<1>4. "A" \notin {"a", "-"}  OBVIOUS
<1> QED  BY <1>2, <1>3, <1>4 DEF Plain, IsWord, AllIn

\* What comes before the @.
LEMMA LocalIsGrammar == ASSUME NEW s, Plain(s) PROVE IsLocal(s) <=> ValidLocal(s)
<1>1. s \in Text /\ Len(s) \in Nat /\ (s = <<>> <=> Len(s) = 0)
  BY InkFacts, EmptySeq DEF Plain, Text
<1>2. MaxLocal \in Nat  BY LimitsAssumption
<1>3. ASSUME IsLocal(s) PROVE ValidLocal(s)
  <2>1. PICK K \in SUBSET Dots(s) : \A w \in Cut(s, K) : IsWord(w)
    BY <1>3 DEF IsLocal, Joins
  <2>2. s # <<>> /\ Single(s, ".") /\ \A i \in 1..Len(s) : s[i] \in {"a", "-", "."}
    BY <1>1, <2>1, JoinedWords
  <2>3. AllIn(s, Letters \cup {".", "-"})  BY <2>2 DEF AllIn, Letters
  <2>4. Len(s) \in 1..MaxLocal  BY <1>1, <1>2, <1>3, <2>2 DEF IsLocal
  <2> QED  BY <2>2, <2>3, <2>4 DEF ValidLocal, Single
<1>4. ASSUME ValidLocal(s) PROVE IsLocal(s)
  <2>1. /\ Len(s) \in 1..MaxLocal /\ Single(s, ".")
        /\ AllIn(s, Letters \cup {".", "-"})
    BY <1>4 DEF ValidLocal, Single
  <2>2. s # <<>> /\ Len(s) <= MaxLocal  BY <1>1, <1>2, <2>1
  <2>3. \A w \in Cut(s, Dots(s)) : IsWord(w)  BY <2>1, <2>2, PlainPieces
  <2>4. Cut(s, Dots(s)) \in Joins(s)  BY DEF Joins
  <2> QED  BY <2>2, <2>3, <2>4 DEF IsLocal
<1> QED  BY <1>3, <1>4

\* A label.
LEMMA LabelIsGrammar ==
    ASSUME NEW w, Plain(w), w # <<>> PROVE IsLabel(w) <=> ValidLabel(w)
<1>1. w \in Text /\ Len(w) \in Nat /\ Len(w) # 0
  BY InkFacts, EmptySeq DEF Plain, Text
<1>2. AllIn(w, {"a", "-"}) <=> AllIn(w, Letters \cup {"-"})
  <2>1. \A i \in 1..Len(w) : w[i] \in {"a", "-"} <=> w[i] \in Letters \cup {"-"}
    BY DEF Plain, Letters
  <2> QED  BY <2>1 DEF AllIn
<1>3. Len(w) > 0  BY <1>1
<1> QED  BY <1>2, <1>3 DEF IsLabel, IsWord, ValidLabel, StartsWith, EndsWith

\* What comes after the @.
LEMMA DomainIsGrammar == ASSUME NEW s, Plain(s) PROVE IsDomain(s) <=> ValidDomain(s)
<1>1. s \in Text  BY DEF Plain
<1>2. ASSUME IsDomain(s) PROVE ValidDomain(s)
  <2>1. PICK K \in SUBSET Dots(s) : \A w \in Cut(s, K) : IsLabel(w)
    BY <1>2 DEF IsDomain, Joins
  <2>2. \A w \in Cut(s, K) : IsWord(w)  BY <2>1 DEF IsLabel
  <2>3. /\ K = Dots(s) /\ s # <<>> /\ Single(s, ".")
        /\ \A i \in 1..Len(s) : s[i] \in {"a", "-", "."}
    BY <1>1, <2>2, JoinedWords
  <2>4. ~Contains(s, "@")  BY <2>3 DEF Contains
  <2>5. AllIn(s, Letters \cup {".", "-"})  BY <2>3 DEF AllIn, Letters
  <2>6. ASSUME NEW w \in Pieces(s, ".") PROVE ValidLabel(w)
    <3>1. w \in Cut(s, Dots(s))  BY <1>1, <2>3, CutAtDots
    <3>2. Plain(w) /\ w # <<>>  BY <2>3, <2>5, <3>1, PlainPieces DEF IsWord
    <3> QED  BY <2>1, <2>3, <3>1, <3>2, LabelIsGrammar
  <2> QED  BY <1>2, <2>3, <2>4, <2>6 DEF IsDomain, ValidDomain, Single
<1>3. ASSUME ValidDomain(s) PROVE IsDomain(s)
  <2>1. s # <<>> /\ Single(s, ".") /\ \A w \in Pieces(s, ".") : ValidLabel(w)
    BY <1>3 DEF ValidDomain, Single
  <2>2. ASSUME NEW w \in Cut(s, Dots(s)) PROVE IsLabel(w)
    <3>1. /\ w \in Text /\ w # <<>> /\ w \in Pieces(s, ".")
          /\ \A i \in 1..Len(w) : \E j \in 1..Len(s) : w[i] = s[j] /\ s[j] # "."
      BY <1>1, <2>1, CutAtDots
    <3>2. Plain(w)  BY <3>1 DEF Plain
    <3> QED  BY <2>1, <3>1, <3>2, LabelIsGrammar
  <2>3. Cut(s, Dots(s)) \in Joins(s)  BY DEF Joins
  <2>4. Len(s) <= MaxDomain  BY <1>3 DEF ValidDomain
  <2> QED  BY <2>2, <2>3, <2>4 DEF IsDomain
<1> QED  BY <1>2, <1>3

\* So normalize_email accepts a plain text when the grammar makes it: the @ of an
\* address is its first, since no word holds one.
LEMMA AcceptedIsGrammar == ASSUME NEW s, Plain(s) PROVE IsAddress(s) <=> Accepted(s)
<1>1. s \in Text /\ Len(s) \in Nat  BY InkFacts DEF Plain
<1>2. MaxAddress \in Nat  BY LimitsAssumption
<1>3. ASSUME NEW a \in 1..Len(s)
      PROVE  /\ a - 1 \in Nat /\ a - 1 <= Len(s) /\ a + 1 \in Nat \ {0}
             /\ Plain(SubSeq(s, 1, a - 1)) /\ Plain(SubSeq(s, a + 1, Len(s)))
  <2>1. a - 1 \in Nat /\ a - 1 <= Len(s) /\ a + 1 \in Nat \ {0} /\ 1 \in Nat \ {0}
        /\ Len(s) <= Len(s)
    BY <1>1
  <2> QED  BY <1>1, <2>1, PlainPart
<1>4. ASSUME NEW a \in 1..Len(s)
      PROVE  /\ IsLocal(SubSeq(s, 1, a - 1)) <=> ValidLocal(SubSeq(s, 1, a - 1))
             /\ IsDomain(SubSeq(s, a + 1, Len(s))) <=> ValidDomain(SubSeq(s, a + 1, Len(s)))
  BY <1>3, LocalIsGrammar, DomainIsGrammar
<1>5. ASSUME NEW a \in 1..Len(s), s[a] = "@", ValidLocal(SubSeq(s, 1, a - 1)),
             ValidDomain(SubSeq(s, a + 1, Len(s)))
      PROVE  FirstAt(s, a) /\ Len(s) >= 3
  <2>1. PICK u : u = SubSeq(s, 1, a - 1)  OBVIOUS
  <2>2. PICK v : v = SubSeq(s, a + 1, Len(s))  OBVIOUS
  <2>3. /\ Len(u) = IF 1 <= a - 1 THEN (a - 1) - 1 + 1 ELSE 0
        /\ \A i \in 1..Len(u) : u[i] = s[1 + i - 1]
    <3>1. 1 \in Nat \ {0} /\ a - 1 \in Nat /\ a - 1 <= Len(s)  BY <1>3
    <3> QED  BY <1>1, <2>1, <3>1, PartFacts
  <2>4. v \in Text /\ Len(v) = IF a + 1 <= Len(s) THEN Len(s) - (a + 1) + 1 ELSE 0
    <3>1. a + 1 \in Nat \ {0} /\ Len(s) <= Len(s)  BY <1>1, <1>3
    <3> QED  BY <1>1, <2>2, <3>1, PartFacts
  <2>5. Len(u) # 0 /\ v # <<>>
    <3>1. Len(u) \in 1..MaxLocal  BY <1>5, <2>1 DEF ValidLocal
    <3>2. MaxLocal \in Nat  BY LimitsAssumption
    <3> QED  BY <1>5, <2>2, <3>1, <3>2 DEF ValidDomain
  <2>6. Len(v) # 0  BY <2>4, <2>5, EmptySeq DEF Text
  <2>7. 1 <= a - 1 /\ a + 1 <= Len(s)  BY <2>3, <2>4, <2>5, <2>6
  <2>8. Len(u) = a - 1 /\ Len(s) >= 3  BY <1>1, <2>3, <2>7
  <2>9. ASSUME NEW i \in 1..Len(s), s[i] = "@", ~(a <= i) PROVE FALSE
    <3>1. i \in 1..Len(u) /\ 1 + i - 1 = i  BY <1>1, <2>8, <2>9
    <3>2. u[i] = "@"  BY <2>3, <2>9, <3>1
    <3>3. u[i] \in Letters \cup {".", "-"}  BY <1>5, <2>1, <3>1 DEF ValidLocal, AllIn
    <3> QED  BY <3>2, <3>3 DEF Letters
  <2> QED  BY <1>5, <2>8, <2>9 DEF FirstAt
<1>6. ASSUME IsAddress(s) PROVE Accepted(s)
  <2>1. PICK a \in 1..Len(s) : /\ s[a] = "@"
                               /\ IsLocal(SubSeq(s, 1, a - 1))
                               /\ IsDomain(SubSeq(s, a + 1, Len(s)))
    BY <1>6 DEF IsAddress
  <2>2. ValidLocal(SubSeq(s, 1, a - 1)) /\ ValidDomain(SubSeq(s, a + 1, Len(s)))
    BY <1>4, <2>1
  <2>3. FirstAt(s, a) /\ Len(s) >= 3  BY <1>5, <2>1, <2>2
  <2>4. Len(s) \in 3..MaxAddress  BY <1>1, <1>2, <1>6, <2>3 DEF IsAddress
  <2> QED  BY <2>2, <2>3, <2>4 DEF Accepted
<1>7. ASSUME Accepted(s) PROVE IsAddress(s)
  <2>1. PICK a \in 1..Len(s) : /\ FirstAt(s, a)
                               /\ ValidLocal(SubSeq(s, 1, a - 1))
                               /\ ValidDomain(SubSeq(s, a + 1, Len(s)))
    BY <1>7 DEF Accepted
  <2>2. s[a] = "@"  BY <2>1 DEF FirstAt
  <2>3. IsLocal(SubSeq(s, 1, a - 1)) /\ IsDomain(SubSeq(s, a + 1, Len(s)))
    BY <1>4, <2>1
  <2>4. Len(s) <= MaxAddress  BY <1>1, <1>2, <1>7 DEF Accepted
  <2> QED  BY <2>2, <2>3, <2>4 DEF IsAddress
<1> QED  BY <1>6, <1>7

\* normalize_email accepts what the grammar makes, in either case and with blanks
\* around it, and nothing else: for texts of every length and of any number of words
\* and labels, whatever the limits.
THEOREM AddressesOfTheGrammar == TextSpec => []AddressesAreTheGrammar
<1>1. ASSUME text \in Text PROVE AddressesAreTheGrammar
  <2>1. PICK u : u = Trim(text)  OBVIOUS
  <2>2. PICK v : v = Lowered(u)  OBVIOUS
  <2>3. u \in Text  BY <1>1, <2>1, TrimTrim
  <2>4. AlikeTexts(v, u) /\ AlikeTexts(u, v) /\ v \in Text
    <3>1. AlikeTexts(v, u)  BY <2>2, <2>3, CaseAlike
    <3> QED  BY <3>1, AlikeBack DEF AlikeTexts
  <2>5. Accepted(u) <=> Accepted(v)  BY <2>4, AlikeAccepted
  <2>6. Plain(v)
    <3>1. \A c : Lower(c) # "A"  BY DEF Lower
    <3>2. Len(v) = Len(u)  BY <2>4 DEF AlikeTexts
    <3>3. \A i \in 1..Len(u) : v[i] = Lower(u[i])  BY <2>2 DEF Lowered
    <3> QED  BY <2>4, <3>1, <3>2, <3>3 DEF Plain
  <2>7. IsAddress(v) <=> Accepted(u)  BY <2>5, <2>6, AcceptedIsGrammar
  <2>8. NormalizeEmail(text) = IF Accepted(u) THEN v ELSE None
    BY <1>1, <2>1, <2>2, NormalizeFacts
  <2>9. Map(Lower, Trim(text)) = v  BY <2>1, <2>2 DEF Map, Lowered
  <2>10. IF IsAddress(v) THEN NormalizeEmail(text) = v ELSE NormalizeEmail(text) = None
    BY <2>7, <2>8
  <2> QED  BY <2>9, <2>10 DEF AddressesAreTheGrammar
<1> QED  BY <1>1, Typed, PTL
================================================================================
