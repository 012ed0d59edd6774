---------------------------- MODULE RetryTiming ----------------------------
(***************************************************************************)
(* How long the retry policy (azfile/zc_policy_retry.go) waits before each  *)
(* try and how long it lets the try take: RetryOptions.defaults, calcDelay, *)
(* and the timeout computed from TryTimeout and the caller's deadline.      *)
(*                                                                         *)
(* A delay is a time.Duration, a signed count of nanoseconds of Width bits. *)
(* The code's has 64; TLC takes fewer, with delays scaled down to match.    *)
(* The jitter is a multiple of 1 / (10 * Grain), for any Grain; that a      *)
(* float32 has 24 significant bits only is left out.  Timeouts are in       *)
(* milliseconds, and whole seconds where the code uses them.                *)
(***************************************************************************)
EXTENDS Integers

CONSTANTS
    Width,              \* bits of a time.Duration
    Grain,              \* steps of the jitter in a tenth
    OptionsGiven,       \* the RetryOptions a caller may pass
    DefaultDelay,       \* per policy, the default RetryDelay, in ns
    DefaultMaxDelay,    \* the default MaxRetryDelay, in ns
    DefaultTryTimeout,  \* in ms
    Deadlines,          \* time left until the caller's deadline when a try starts, in ms
    LastTry             \* bound: how many tries are followed

\* The caller's context has no deadline: more than any TryTimeout.
NoDeadline == 2000000000

\* The jitter is counted in parts of this.
Whole == 10 * Grain

\* Mutant of Jitter: without halving the random number, [0.8, 1.8).
JitterWide == (8 * Grain) .. (18 * Grain)

\* rand.Float32()/2 + 0.8, in [0.8, 1.3); the sum may be rounded up to 1.3.
Jitter == (8 * Grain) .. (13 * Grain)

Policies == {"Exponential", "Fixed"}

\* What RetryOptions.defaults says it assumes of the options.  Times of NoDeadline ms (23 days) and
\* more, some of which int32(d.Seconds()) could not hold, are left out.
ASSUME OptionsAssumption ==
    \A g \in OptionsGiven :
        /\ g.Policy \in Policies
        /\ g.TryTimeout \in 0 .. (NoDeadline - 1)
        /\ g.RetryDelay \in Nat
        /\ g.MaxRetryDelay \in Nat
        /\ (g.RetryDelay = 0) = (g.MaxRetryDelay = 0)
ASSUME DefaultsAssumption ==
    /\ DefaultDelay \in [Policies -> Nat \ {0}]
    /\ DefaultMaxDelay \in Nat \ {0}
    /\ DefaultTryTimeout \in 1 .. (NoDeadline - 1)
ASSUME DeadlinesAssumption == Deadlines \subseteq (-NoDeadline) .. NoDeadline
ASSUME BoundsAssumption == Width \in Nat \ {0, 1} /\ Grain \in Nat \ {0} /\ LastTry \in Nat \ {0}

VARIABLES
    o,          \* the options after defaults()
    try,        \* primaryTry
    delay,      \* calcDelay(try), in ns
    deadline,   \* time left until the caller's deadline, or NoDeadline
    timeout     \* the try's timeout, in seconds; -1 before the first try

vars == << o, try, delay, deadline, timeout >>

IfDefault(current, desired) == IF current = 0 THEN desired ELSE current

defaults(g) ==
    [Policy        |-> g.Policy,
     TryTimeout    |-> IfDefault(g.TryTimeout, DefaultTryTimeout),
     RetryDelay    |-> IfDefault(g.RetryDelay, DefaultDelay[g.Policy]),
     MaxRetryDelay |-> IfDefault(g.MaxRetryDelay, DefaultMaxDelay)]

\* The value of a signed integer of Width bits.
Wrap(x) ==
    LET m == x % 2^Width IN IF m >= 2^(Width - 1) THEN m - 2^Width ELSE m

\* pow(2, k) modulo 2^Width: Width doublings leave nothing.
pow2(k) == IF k >= Width THEN 0 ELSE 2^k

\* The delay before jitter.
BaseDelay(t) ==
    IF o.Policy = "Exponential" THEN Wrap((pow2(t - 1) - 1) * o.RetryDelay)
    ELSE IF t > 1 THEN o.RetryDelay ELSE 0

\* time.Duration of a float of x parts of Whole, which truncates towards zero.  A float
\* above the range becomes the least or the greatest integer, depending on the processor.
ToDuration(x) ==
    LET limit == 2^(Width - 1) IN
    IF x >= limit * Whole THEN {-limit, limit - 1}
    ELSE IF x < -(limit * Whole) THEN {-limit}
    ELSE {IF x >= 0 THEN x \div Whole ELSE -((-x) \div Whole)}

\* Mutant of Clamp: no maximum.
ClampNever(d) == d

Clamp(d) == IF d > o.MaxRetryDelay THEN o.MaxRetryDelay ELSE d

calcDelay(t) ==
    {Clamp(d) : d \in UNION {ToDuration(BaseDelay(t) * j) : j \in Jitter}}

\* int32(d.Seconds()) of a duration in ms: rounded towards zero.
Seconds(ms) == IF ms >= 0 THEN ms \div 1000 ELSE -((-ms) \div 1000)

\* The smaller of TryTimeout and the time left until the deadline, not below 0.
TryTimeoutSeconds(left) ==
    LET t == IF Seconds(left) < Seconds(o.TryTimeout) THEN Seconds(left) ELSE Seconds(o.TryTimeout)
    IN  IF t < 0 THEN 0 ELSE t

\* Mutant of ServerTimeout: without the "round up".
ServerTimeoutExact(seconds) == seconds

\* The timeout query parameter: "Add 1 to round up".
ServerTimeout(seconds) == seconds + 1

Init ==
    /\ \E g \in OptionsGiven : o = defaults(g)
    /\ try = 0
    /\ delay = 0
    /\ deadline = NoDeadline
    /\ timeout = -1

\* One turn of the loop, up to context.WithTimeout.
Try ==
    /\ try < LastTry
    /\ try' = try + 1
    /\ delay' \in calcDelay(try + 1)
    /\ deadline' \in Deadlines \cup {NoDeadline}
    /\ timeout' = TryTimeoutSeconds(deadline')
    /\ UNCHANGED o

Done == try = LastTry /\ UNCHANGED vars

Next == Try \/ Done

Spec == Init /\ [][Next]_vars

-----------------------------------------------------------------------------
(* Properties. *)

\* The first try does not wait; every later one waits, and no longer than the maximum,
\* though the jitter may push the delay past it (zc_policy_retry.go:115-119).  Only a
\* RetryDelay of a single nanosecond may be cut to nothing.
DelayWithinBounds ==
    /\ try <= 1 => delay = 0
    /\ try > 1 => 0 <= delay /\ delay <= o.MaxRetryDelay /\ (delay = 0 => o.RetryDelay = 1)

\* zc_policy_retry.go:46: "When RetryPolicy is specified as RetryPolicyExponential, the
\* delay increases exponentially with each retry up to a maximum specified by
\* MaxRetryDelay": the jitter never makes a wait shorter than the one before it.
DelayNeverShrinks == [][o.Policy = "Exponential" => delay' >= delay]_vars

\* The client gives up on a try no later than TryTimeout and the caller's deadline,
\* less than a second before the earlier of them (at once if it has passed), and
\* before the server does (zc_policy_retry.go:174-192).
TryTimeoutFits ==
    try > 0 =>
        LET limit == IF o.TryTimeout < deadline THEN o.TryTimeout
                     ELSE IF deadline < 0 THEN 0 ELSE deadline
        IN  1000 * timeout <= limit /\ limit < 1000 * ServerTimeout(timeout)
=============================================================================
