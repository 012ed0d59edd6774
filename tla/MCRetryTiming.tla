--------------------------- MODULE MCRetryTiming ---------------------------
(* RetryTiming with short integers.  In the first instance the tries are few *)
(* enough that nothing wraps; the delays have the proportions of the         *)
(* defaults (4, 30, 120) and of the options in the tests.  In the second the *)
(* tries are as many as a caller may ask for.                                *)
EXTENDS RetryTiming

Option(p, t, d, m) == [Policy |-> p, TryTimeout |-> t, RetryDelay |-> d, MaxRetryDelay |-> m]

\* Zero asks for the default.
MCOptions ==
    {Option(p, t, d[1], d[2]) : p \in Policies, t \in {0, 500, 2500},
                                d \in {<< 0, 0 >>, << 1, 2 >>, << 2, 2 >>, << 3, 50 >>}}

MCDefaultDelay == [p \in Policies |-> IF p = "Exponential" THEN 4 ELSE 30]

\* Passed, about to pass, around a second, and later than the longest TryTimeout.
MCDeadlines == {-2500, -500, 0, 999, 1000, 70500}

\* 3 * 2^k stays below 2^(Width - 1) / 1.3 and is above it when doubled, so that the
\* multiplication of calcDelay wraps before the jitter passes the range.
MCLongOptions == {Option("Exponential", 1000, 3, 12)}
=============================================================================
