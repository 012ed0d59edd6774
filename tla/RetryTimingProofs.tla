------------------------- MODULE RetryTimingProofs -------------------------
(***************************************************************************)
(* Proofs about RetryTiming, for every width of a time.Duration, every      *)
(* jitter from 0.8 to 1.3, every deadline and every RetryOptions that       *)
(* defaults() allows.                                                       *)
(***************************************************************************)
EXTENDS RetryTiming, FiniteSetTheorems, TLAPS

-----------------------------------------------------------------------------
(* Powers of two, as the number of subsets of 1 .. k. *)

\* 2^k is the number of subsets of 1 .. k.
LEMMA PowerIsSubsets ==
    ASSUME NEW k \in Nat
    PROVE  IsFiniteSet(SUBSET (1 .. k)) /\ Cardinality(SUBSET (1 .. k)) = 2^k
<1>1. IsFiniteSet(1 .. k) /\ Cardinality(1 .. k) = k
  BY FS_Interval
<1> QED
  BY <1>1, FS_SUBSET

\* Powers of two are positive.
LEMMA PowerPositive == \A k \in Nat : 2^k \in Nat \ {0}
<1> SUFFICES ASSUME NEW k \in Nat PROVE 2^k \in Nat \ {0}
  OBVIOUS
<1>1. SUBSET (1 .. k) # {}
  OBVIOUS
<1> QED
  BY <1>1, PowerIsSubsets, FS_CardinalityType, FS_EmptySet

\* Powers of two grow with the exponent.
LEMMA PowerMonotone == \A k, l \in Nat : k <= l => 2^k <= 2^l
<1> SUFFICES ASSUME NEW k \in Nat, NEW l \in Nat, k <= l PROVE 2^k <= 2^l
  OBVIOUS
<1>1. SUBSET (1 .. k) \subseteq SUBSET (1 .. l)
  OBVIOUS
<1>2. Cardinality(SUBSET (1 .. k)) <= Cardinality(SUBSET (1 .. l))
  BY <1>1, PowerIsSubsets, FS_Subset
<1>3. Cardinality(SUBSET (1 .. k)) = 2^k /\ Cardinality(SUBSET (1 .. l)) = 2^l
  BY PowerIsSubsets
<1> QED
  BY <1>2, <1>3

\* A subset of 1 .. (k + 1) has k + 1 or has not.
LEMMA PowerDoubles == \A k \in Nat : 2^(k + 1) = 2 * 2^k
<1> SUFFICES ASSUME NEW k \in Nat PROVE 2^(k + 1) = 2 * 2^k
  OBVIOUS
<1> DEFINE S == SUBSET (1 .. k)
           T == {s \cup {k + 1} : s \in S}
           f == [s \in S |-> s \cup {k + 1}]
<1>1. IsFiniteSet(S) /\ Cardinality(S) = 2^k /\ Cardinality(SUBSET (1 .. (k + 1))) = 2^(k + 1)
  BY PowerIsSubsets
<1>2. f \in Bijection(S, T)
  <2>1. \A s \in S : k + 1 \notin s
    OBVIOUS
  <2>2. \A s, t \in S : f[s] = f[t] => s = t
    BY <2>1
  <2>3. f \in [S -> T] /\ \A t \in T : \E s \in S : f[s] = t
    OBVIOUS
  <2> HIDE DEF f, S, T
  <2> QED
    BY <2>2, <2>3 DEF Bijection, Injection, Surjection, IsInjective
<1>3. IsFiniteSet(T) /\ Cardinality(T) = 2^k
  BY <1>1, <1>2, FS_Bijection DEF ExistsBijection
<1>4. S \cap T = {}
  OBVIOUS
<1>5. SUBSET (1 .. (k + 1)) = S \cup T
  <2>1. ASSUME NEW s \in SUBSET (1 .. (k + 1)), k + 1 \in s PROVE s \in T
    <3>1. s \ {k + 1} \in S /\ s = (s \ {k + 1}) \cup {k + 1}
      BY <2>1
    <3> QED
      BY <3>1
  <2>2. ASSUME NEW s \in SUBSET (1 .. (k + 1)), k + 1 \notin s PROVE s \in S
    BY <2>2
  <2>3. ASSUME NEW s \in S PROVE s \in SUBSET (1 .. (k + 1))
    OBVIOUS
  <2>4. ASSUME NEW s \in T PROVE s \in SUBSET (1 .. (k + 1))
    <3>1. PICK t \in S : s = t \cup {k + 1}
      OBVIOUS
    <3>2. t \subseteq 1 .. (k + 1) /\ k + 1 \in 1 .. (k + 1)
      OBVIOUS
    <3> QED
      BY <3>1, <3>2
  <2> HIDE DEF S, T
  <2> QED
    BY <2>1, <2>2, <2>3, <2>4
<1> HIDE DEF S, T
<1>6. Cardinality(S \cup T) = 2^k + 2^k - 0
  BY <1>1, <1>3, <1>4, FS_Union, FS_EmptySet
<1>7. 2^k \in Nat /\ 2^(k + 1) = 2^k + 2^k - 0
  BY <1>1, <1>5, <1>6, PowerPositive
<1> QED
  BY <1>7

-----------------------------------------------------------------------------
(* The options after defaults(), and the invariant. *)

\* The value that stands for a context without a deadline is a number.
LEMMA NoDeadlineNat == NoDeadline \in Nat
BY SMT DEF NoDeadline

\* After defaults() every option is positive and the policy is one of the two.
LEMMA DefaultsApplied ==
    ASSUME NEW g \in OptionsGiven
    PROVE  /\ defaults(g).Policy \in Policies
           /\ defaults(g).TryTimeout \in 1 .. (NoDeadline - 1)
           /\ defaults(g).RetryDelay \in Nat \ {0}
           /\ defaults(g).MaxRetryDelay \in Nat \ {0}
BY OptionsAssumption, DefaultsAssumption, NoDeadlineNat DEF defaults, IfDefault

IInv ==
    /\ \E g \in OptionsGiven : o = defaults(g)
    /\ try \in 0 .. LastTry
    /\ try = 0 => delay = 0
    /\ try > 0 => /\ delay \in calcDelay(try)
                  /\ deadline \in (-NoDeadline) .. NoDeadline
                  /\ timeout = TryTimeoutSeconds(deadline)

\* What a try waits and how long it may take is computed from the options that
\* defaults() completed, for this try alone.
THEOREM TimingInvariant == Spec => []IInv
<1>1. Init => IInv
  BY BoundsAssumption DEF Init, IInv
<1>2. IInv /\ [Next]_vars => IInv'
  <2> SUFFICES ASSUME IInv, [Next]_vars PROVE IInv'
    OBVIOUS
  <2>1. UNCHANGED o
    BY DEF Next, Try, Done, vars
  <2>2. CASE Try
    <3>1. try' = try + 1 /\ try' \in 1 .. LastTry
      BY <2>2, BoundsAssumption DEF Try, IInv
    <3>2. delay' \in calcDelay(try)'
      <4>1. calcDelay(try + 1) = calcDelay(try)'
        BY <2>1, <3>1 DEF calcDelay, BaseDelay, Clamp
      <4> QED
        BY <2>2, <4>1 DEF Try
    <3>3. timeout' = TryTimeoutSeconds(deadline)'
      BY <2>1, <2>2 DEF Try, TryTimeoutSeconds
    <3>4. deadline' \in (-NoDeadline) .. NoDeadline
      BY <2>2, DeadlinesAssumption, NoDeadlineNat DEF Try
    <3> QED
      BY <2>1, <3>1, <3>2, <3>3, <3>4 DEF IInv
  <2>3. CASE UNCHANGED vars
    BY <2>3 DEF vars, IInv, calcDelay, ToDuration, BaseDelay, Clamp, TryTimeoutSeconds
  <2> QED
    BY <2>2, <2>3 DEF Next, Done
<1> QED
  BY <1>1, <1>2, PTL DEF Spec

\* The client gives up on a try no later than TryTimeout and the caller's deadline,
\* less than a second before the earlier, and before the server does.
THEOREM TryTimeoutFitsHolds == Spec => []TryTimeoutFits
<1>1. IInv => TryTimeoutFits
  <2> SUFFICES ASSUME IInv, try > 0 PROVE TryTimeoutFits
    BY DEF TryTimeoutFits
  <2>1. o.TryTimeout \in 1 .. (NoDeadline - 1)
    BY DefaultsApplied DEF IInv
  <2>2. deadline \in Int /\ timeout = TryTimeoutSeconds(deadline)
    BY NoDeadlineNat DEF IInv
  <2>3. o.TryTimeout \in Nat
    BY <2>1, NoDeadlineNat
  <2> QED
    BY <2>2, <2>3 DEF TryTimeoutFits, TryTimeoutSeconds, Seconds, ServerTimeout
<1> QED
  BY <1>1, TimingInvariant, PTL

-----------------------------------------------------------------------------
(* Delays. *)

\* Few enough tries, and short enough delays, for 64 bits: the longest delay, and the
\* largest jitter of it, is a time.Duration.
NothingWraps ==
    /\ LastTry <= Width
    /\ \A g \in OptionsGiven :
         /\ 13 * defaults(g).RetryDelay < 10 * 2^(Width - 1)
         /\ 13 * ((2^(LastTry - 1) - 1) * defaults(g).RetryDelay) < 10 * 2^(Width - 1)

\* A product grows with its first factor.
LEMMA MultiplyMonotone ==
    ASSUME NEW a \in Nat, NEW b \in Nat, NEW d \in Nat, a <= b
    PROVE  a * d \in Nat /\ a * d <= b * d
OBVIOUS

\* calcDelay before the jitter, without the overflow.
LEMMA BaseDelays ==
    ASSUME NothingWraps, IInv, NEW t \in 1 .. LastTry
    PROVE  /\ BaseDelay(t) \in Nat
           /\ 13 * BaseDelay(t) < 10 * 2^(Width - 1)
           /\ t = 1 => BaseDelay(t) = 0
           /\ t > 1 => BaseDelay(t) >= o.RetryDelay
           /\ o.Policy = "Exponential" => BaseDelay(t) = (2^(t - 1) - 1) * o.RetryDelay
<1>1. PICK g \in OptionsGiven : o = defaults(g)
  BY DEF IInv
<1> DEFINE D == o.RetryDelay
           H == 2^(Width - 1)
           p == 2^(t - 1)
           q == 2^(LastTry - 1)
<1>2. D \in Nat \ {0} /\ Width \in Nat \ {0, 1} /\ LastTry \in Nat \ {0} /\ LastTry <= Width
  BY <1>1, DefaultsApplied, BoundsAssumption DEF NothingWraps
<1>3. 13 * D < 10 * H /\ 13 * ((q - 1) * D) < 10 * H
  BY <1>1 DEF NothingWraps
<1>4. p \in Nat \ {0} /\ q \in Nat \ {0} /\ H \in Nat \ {0} /\ p <= q /\ 2^Width = 2 * H
  <2>1. t - 1 \in Nat /\ LastTry - 1 \in Nat /\ Width - 1 \in Nat /\ t - 1 <= LastTry - 1
        /\ (Width - 1) + 1 = Width
    BY <1>2
  <2>2. 2^((Width - 1) + 1) = 2 * 2^(Width - 1)
    BY <2>1, PowerDoubles
  <2> QED
    BY <2>1, <2>2, PowerPositive, PowerMonotone
<1>5. t = 1 => p = 1
  <2>1. 2^0 = 1
    OBVIOUS
  <2> QED
    BY <2>1
<1>6. t > 1 => p >= 2
  <2>1. 2^1 = 2 /\ (t > 1 => t - 1 \in Nat /\ 1 <= t - 1)
    OBVIOUS
  <2> QED
    BY <2>1, PowerMonotone
<1>7. pow2(t - 1) = p
  BY <1>2 DEF pow2
<1> HIDE DEF D, H, p, q
<1>8. (p - 1) * D \in Nat /\ (p - 1) * D <= (q - 1) * D /\ (q - 1) * D \in Nat
  BY <1>2, <1>4, MultiplyMonotone
<1>9. (p - 1) * D < H /\ 13 * ((p - 1) * D) < 10 * H
  BY <1>3, <1>4, <1>8
<1>10. Wrap((p - 1) * D) = (p - 1) * D
  <2>1. \A x \in Nat : x < H => x % (2 * H) = x
    BY <1>4
  <2> QED
    BY <1>4, <1>8, <1>9, <2>1 DEF Wrap, H
<1>11. CASE o.Policy = "Exponential"
  <2>1. BaseDelay(t) = (p - 1) * D
    BY <1>7, <1>10, <1>11 DEF BaseDelay, D
  <2>2. t = 1 => (p - 1) * D = 0
    BY <1>2, <1>5
  <2>3. t > 1 => (p - 1) * D >= D
    <3>1. 1 * D <= (p - 1) * D \/ ~(t > 1)
      BY <1>2, <1>4, <1>6, MultiplyMonotone
    <3> QED
      BY <1>2, <1>8, <3>1
  <2> QED
    BY <1>8, <1>9, <2>1, <2>2, <2>3 DEF p, D, H
<1>12. CASE o.Policy # "Exponential"
  <2>1. BaseDelay(t) = IF t > 1 THEN D ELSE 0
    BY <1>12 DEF BaseDelay, D
  <2> QED
    BY <1>2, <1>3, <1>4, <1>12, <2>1 DEF H, D
<1> QED
  BY <1>11, <1>12

\* Truncation keeps the order of numbers, and 0.8 of 2 is not cut to nothing.
LEMMA Truncated ==
    ASSUME NEW x \in Nat, NEW y \in Nat, NEW s \in Nat \ {0}
    PROVE  /\ x \div s \in Nat
           /\ x <= y => x \div s <= y \div s
           /\ x >= s => x \div s > 0
           /\ x = 0 => x \div s = 0
OBVIOUS

\* A delay with its jitter lies between the ends of the jitter's range.
LEMMA Jittered ==
    ASSUME NEW b \in Nat, NEW j \in Jitter
    PROVE  /\ Whole \in Nat \ {0} /\ b * j \in Nat
           /\ 8 * b * Grain <= b * j /\ b * j <= 13 * b * Grain
           /\ Whole = 10 * Grain /\ Grain \in Nat \ {0}
<1>1. Grain \in Nat \ {0} /\ j \in Nat /\ 8 * Grain <= j /\ j <= 13 * Grain
  BY BoundsAssumption DEF Jitter
<1>2. Whole = 10 * Grain /\ Whole \in Nat \ {0}
  BY <1>1 DEF Whole
<1>3. (8 * Grain) * b <= j * b /\ j * b <= (13 * Grain) * b /\ j * b \in Nat
  BY <1>1, MultiplyMonotone
<1>4. b * j = j * b /\ (8 * Grain) * b = 8 * b * Grain /\ (13 * Grain) * b = 13 * b * Grain
  BY <1>1
<1> QED
  BY <1>1, <1>2, <1>3, <1>4

\* A delay is the base delay with the jitter, truncated and cut at the maximum.
LEMMA DelayOfTry ==
    ASSUME NothingWraps, IInv, NEW t \in 1 .. LastTry, NEW d \in calcDelay(t)
    PROVE  \E j \in Jitter : d = Clamp((BaseDelay(t) * j) \div Whole)
<1>1. PICK j \in Jitter : \E c \in ToDuration(BaseDelay(t) * j) : d = Clamp(c)
  BY DEF calcDelay
<1> DEFINE b == BaseDelay(t)
           H == 2^(Width - 1)
<1>2. b \in Nat /\ 13 * b < 10 * H /\ H \in Nat \ {0}
  BY BaseDelays, PowerPositive, BoundsAssumption
<1> HIDE DEF b, H
<1>3. /\ Whole \in Nat \ {0} /\ b * j \in Nat /\ b * j <= 13 * b * Grain
      /\ Whole = 10 * Grain /\ Grain \in Nat \ {0}
  BY <1>2, Jittered
<1>4. 13 * b * Grain < H * Whole
  <2>1. 13 * b + 1 <= 10 * H /\ 13 * b + 1 \in Nat /\ 10 * H \in Nat
    BY <1>2
  <2>2. (13 * b + 1) * Grain <= (10 * H) * Grain
    BY <1>3, <2>1, MultiplyMonotone
  <2>3. (13 * b + 1) * Grain = 13 * b * Grain + Grain /\ (10 * H) * Grain = H * Whole
    BY <1>2, <1>3
  <2>4. 13 * b * Grain \in Nat /\ H * Whole \in Nat
    BY <1>2, <1>3
  <2> QED
    BY <1>3, <2>2, <2>3, <2>4
<1>5. ~(b * j >= H * Whole) /\ ~(b * j < -(H * Whole)) /\ b * j >= 0
  <2>1. H * Whole \in Nat /\ 13 * b * Grain \in Nat
    BY <1>2, <1>3
  <2> QED
    BY <1>3, <1>4, <2>1
<1>6. ToDuration(b * j) = {(b * j) \div Whole}
  BY <1>5 DEF ToDuration, H
<1> QED
  BY <1>1, <1>6 DEF b

\* The first try does not wait; every later one waits, unless the delay asked for is a
\* nanosecond, and no longer than MaxRetryDelay.
THEOREM DelayWithinBoundsHolds == ASSUME NothingWraps PROVE Spec => []DelayWithinBounds
<1>1. ASSUME IInv PROVE DelayWithinBounds
  <2>1. try \in 0 .. LastTry /\ LastTry \in Nat
    BY <1>1, BoundsAssumption DEF IInv
  <2>2. o.MaxRetryDelay \in Nat \ {0} /\ o.RetryDelay \in Nat \ {0}
    BY <1>1, DefaultsApplied DEF IInv
  <2>3. CASE try = 0
    BY <1>1, <2>3 DEF IInv, DelayWithinBounds
  <2>4. CASE try > 0
    <3>1. try \in 1 .. LastTry /\ delay \in calcDelay(try)
      BY <1>1, <2>1, <2>4 DEF IInv
    <3>2. PICK j \in Jitter : delay = Clamp((BaseDelay(try) * j) \div Whole)
      BY <1>1, <3>1, DelayOfTry
    <3> DEFINE b == BaseDelay(try)
    <3>3. /\ b \in Nat /\ (try = 1 => b = 0)
          /\ try > 1 => b >= o.RetryDelay
      BY <1>1, <3>1, BaseDelays
    <3> HIDE DEF b
    <3>4. /\ Whole \in Nat \ {0} /\ b * j \in Nat /\ 8 * b * Grain <= b * j
          /\ Whole = 10 * Grain /\ Grain \in Nat \ {0} /\ j \in Nat
      BY <3>3, Jittered DEF Jitter
    <3>5. try = 1 => b * j = 0
      BY <3>3, <3>4
    <3>6. b >= 2 => b * j >= Whole
      <4>1. b >= 2 => 16 * Grain <= (8 * b) * Grain
        BY <3>3, <3>4, MultiplyMonotone
      <4>2. (8 * b) * Grain = 8 * b * Grain /\ (8 * b) * Grain \in Nat
        BY <3>3, <3>4
      <4> QED
        BY <3>4, <4>1, <4>2
    <3>7. /\ (b * j) \div Whole \in Nat
          /\ try = 1 => (b * j) \div Whole = 0
          /\ b >= 2 => (b * j) \div Whole > 0
      BY <3>4, <3>5, <3>6, Truncated
    <3>8. try > 1 /\ o.RetryDelay # 1 => b >= 2
      BY <2>2, <3>3
    <3> QED
      BY <2>1, <2>2, <2>4, <3>2, <3>7, <3>8 DEF Clamp, DelayWithinBounds, b
  <2> QED
    BY <2>1, <2>3, <2>4
<1> QED
  BY <1>1, TimingInvariant, PTL

\* Under the exponential policy a try waits no less than the one before it, whatever
\* the jitter: the base delay doubles at least, and 1.3 / 0.8 is less than 2.
THEOREM DelayNeverShrinksHolds == ASSUME NothingWraps PROVE Spec => DelayNeverShrinks
<1>1. ASSUME IInv, IInv', [Next]_vars
      PROVE  [o.Policy = "Exponential" => delay' >= delay]_vars
  <2> SUFFICES ASSUME Try, o.Policy = "Exponential" PROVE delay' >= delay
    BY <1>1 DEF Next, Done
  <2>1. try \in 0 .. (LastTry - 1) /\ LastTry \in Nat /\ delay' \in calcDelay(try + 1)
    BY <1>1, BoundsAssumption DEF IInv, Try
  <2>2. try + 1 \in 1 .. LastTry
    BY <2>1
  <2>3. o.MaxRetryDelay \in Nat \ {0} /\ o.RetryDelay \in Nat \ {0}
    BY <1>1, DefaultsApplied DEF IInv
  <2>4. PICK j \in Jitter : delay' = Clamp((BaseDelay(try + 1) * j) \div Whole)
    BY <1>1, <2>1, <2>2, DelayOfTry
  <2>5. BaseDelay(try + 1) \in Nat /\ BaseDelay(try + 1) = (2^((try + 1) - 1) - 1) * o.RetryDelay
    BY <1>1, <2>2, BaseDelays
  <2>6. /\ Whole \in Nat \ {0} /\ BaseDelay(try + 1) * j \in Nat
        /\ 8 * BaseDelay(try + 1) * Grain <= BaseDelay(try + 1) * j
    BY <2>5, Jittered
  <2>7. CASE try = 0
    <3>1. delay = 0 /\ (BaseDelay(try + 1) * j) \div Whole \in Nat
      BY <1>1, <2>6, <2>7, Truncated DEF IInv
    <3> QED
      BY <2>3, <2>4, <3>1 DEF Clamp
  <2>8. CASE try > 0
    <3>1. try \in 1 .. LastTry /\ delay \in calcDelay(try)
      BY <1>1, <2>1, <2>8 DEF IInv
    <3>2. PICK i \in Jitter : delay = Clamp((BaseDelay(try) * i) \div Whole)
      BY <1>1, <3>1, DelayOfTry
    <3>3. BaseDelay(try) \in Nat /\ BaseDelay(try) = (2^(try - 1) - 1) * o.RetryDelay
      BY <1>1, <3>1, BaseDelays
    <3>4. /\ BaseDelay(try) * i \in Nat /\ BaseDelay(try) * i <= 13 * BaseDelay(try) * Grain
          /\ Grain \in Nat
      BY <3>3, Jittered
    <3>5. 2^((try + 1) - 1) = 2 * 2^(try - 1) /\ 2^(try - 1) \in Nat \ {0}
      <4>1. try - 1 \in Nat /\ (try + 1) - 1 = (try - 1) + 1
        BY <2>1, <2>8
      <4> QED
        BY <4>1, PowerDoubles, PowerPositive
    <3>6. BaseDelay(try + 1) >= 2 * BaseDelay(try)
      <4> DEFINE p == 2^(try - 1)
                 D == o.RetryDelay
      <4>1. BaseDelay(try + 1) = (2 * p - 1) * D /\ BaseDelay(try) = (p - 1) * D
        BY <2>5, <3>3, <3>5
      <4>2. p \in Nat /\ D \in Nat
        BY <2>3, <3>5
      <4> HIDE DEF p, D
      <4>3. (2 * p - 1) * D = 2 * ((p - 1) * D) + D
        BY <4>2
      <4> QED
        BY <2>5, <3>3, <4>1, <4>2, <4>3
    <3> DEFINE b == BaseDelay(try)
               c == BaseDelay(try + 1)
    <3>7. 13 * b * Grain <= 8 * c * Grain
      <4>1. 13 * b <= 8 * c /\ 13 * b \in Nat /\ 8 * c \in Nat
        BY <2>5, <3>3, <3>6
      <4> QED
        BY <3>4, <4>1, MultiplyMonotone
    <3>8. b * i <= c * j
      <4> HIDE DEF b, c
      <4>1. b \in Nat /\ c \in Nat
        BY <2>5, <3>3 DEF b, c
      <4>2. b * i \in Nat /\ c * j \in Nat /\ b * i <= 13 * b * Grain /\ 8 * c * Grain <= c * j
        BY <2>6, <3>4 DEF b, c
      <4>3. 13 * b * Grain \in Nat /\ 8 * c * Grain \in Nat
        BY <3>4, <4>1
      <4> QED
        BY <3>7, <4>2, <4>3
    <3>9. /\ (b * i) \div Whole \in Nat /\ (c * j) \div Whole \in Nat
          /\ (b * i) \div Whole <= (c * j) \div Whole
      BY <2>6, <3>4, <3>8, Truncated
    <3> QED
      BY <2>3, <2>4, <3>2, <3>9 DEF Clamp
  <2> QED
    BY <2>1, <2>7, <2>8
<1> QED
  BY <1>1, TimingInvariant, PTL DEF Spec, DelayNeverShrinks
=============================================================================
