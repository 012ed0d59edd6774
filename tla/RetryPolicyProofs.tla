------------------------- MODULE RetryPolicyProofs -------------------------
(***************************************************************************)
(* Proofs about RetryPolicy, for every MaxTries.  The inductive invariant   *)
(* says what each try looks like at each line of the loop: the tries behind *)
(* hold nothing and failed in a way worth a retry, those ahead have not     *)
(* begun, and the current one goes through context, answer and verdict.     *)
(***************************************************************************)
EXTENDS RetryPolicy, FiniteSetTheorems, TLAPS

\* Tries before the current one.
Behind ==
    \A t \in Tries : t < try =>
        /\ ~Live(t)
        /\ body[t] # "open"
        /\ err[t] \in {"temporary", "successCode", "net"}

\* Tries after the current one.
Ahead == \A t \in Tries : t > try => tryCtx[t] = "none" /\ body[t] = "none"

\* The current try.
Current ==
    /\ pc = "sleep" => tryCtx[try] = "none"
    /\ pc \in {"sleep", "do"} => body[try] = "none"
    /\ pc \in {"sleep", "do", "classify", "panic"} => wrapper = 0
    /\ pc \in {"returned", "closed"} => wrapper \in {0, try}
    /\ pc = "returned" => (err[try] = NoError <=> wrapper = try)
    /\ pc = "returned" /\ wrapper = 0 => ~Live(try)
    /\ pc = "closed" => ~Live(try) /\ body[try] # "open"
    /\ body[try] = "open" => err[try] = NoError

\* A try begun with the caller's context done is the current one.
Unsent == unsent \subseteq {try} /\ (unsent # {} => ctxDone)

IInv == TypeOK /\ Behind /\ Ahead /\ Current /\ Unsent

\* Initially no try has begun.
LEMMA InitIInv == Init => IInv
  <1> SUFFICES ASSUME Init PROVE IInv
    OBVIOUS
  <1>1. try = 1 /\ try \in Tries
    BY MaxTriesAssumption DEF Init, Tries
  <1>2. TypeOK
    BY <1>1 DEF Init, TypeOK
  <1>3. Behind /\ Ahead
    BY <1>1 DEF Init, Behind, Ahead, Tries
  <1>4. Current /\ Unsent
    BY <1>1 DEF Init, Current, Unsent
  <1> QED BY <1>2, <1>3, <1>4 DEF IInv

\* Beginning a try, or failing to.
LEMMA StartTryIInv == IInv /\ (StartTry \/ RewindFails) => IInv'
  <1>1. IInv /\ StartTry => IInv'
    BY MaxTriesAssumption
       DEF StartTry, IInv, TypeOK, Behind, Ahead, Current, Unsent, Live, Tries
  <1>2. IInv /\ RewindFails => IInv'
    BY DEF RewindFails, IInv, TypeOK, Behind, Ahead, Current, Unsent, Live
  <1> QED BY <1>1, <1>2

\* The answer of a try: an open body comes without an error.
LEMMA DoReturnsIInv == ASSUME NEW r \in Results, IInv, DoReturns(r) PROVE IInv'
  <1>1. /\ r.err \in StorageErrors \cup OtherErrors \cup {NoError}
        /\ r.body \in {"nil", "open", "closed"}
        /\ r.body = "open" => r.err = NoError
    BY DEF Results, StorageErrors, OtherErrors, NoError
  <1>2. TypeOK'
    BY <1>1 DEF DoReturns, IInv, TypeOK, Tries, NoError
  <1>3. Behind' /\ Ahead' /\ Unsent'
    BY DEF DoReturns, IInv, TypeOK, Behind, Ahead, Unsent, Live, Tries
  <1>4. Current'
    BY <1>1 DEF DoReturns, IInv, TypeOK, Current, Tries
  <1> QED BY <1>2, <1>3, <1>4 DEF IInv

\* The three ways out of the loop after a verdict that is not a retry.
LEMMA LeaveIInv == IInv /\ (GiveUp \/ Succeed \/ SanityCheckFailed) => IInv'
  <1> SUFFICES ASSUME IInv, GiveUp \/ Succeed \/ SanityCheckFailed PROVE IInv'
    OBVIOUS
  <1>1. CASE GiveUp
    BY <1>1, MaxTriesAssumption
       DEF GiveUp, IInv, TypeOK, Behind, Ahead, Current, Unsent, Live, Tries, NoError
  <1>2. CASE Succeed
    BY <1>2, MaxTriesAssumption
       DEF Succeed, IInv, TypeOK, Behind, Ahead, Current, Unsent, Live, Tries, NoError
  <1>3. CASE SanityCheckFailed
    BY <1>3 DEF SanityCheckFailed, IInv, TypeOK, Behind, Ahead, Current, Unsent, Live, Tries
  <1> QED BY <1>1, <1>2, <1>3

\* A retry releases the try it leaves; it happens only while the context lives, so
\* no try that was begun too late is left behind.
LEMMA RetryIInv == IInv /\ Retry => IInv'
  <1> SUFFICES ASSUME IInv, Retry PROVE IInv'
    OBVIOUS
  <1>1. /\ err[try] \in {"temporary", "successCode", "net"}
        /\ unsent = {}
        /\ body[try] # "open"
        /\ wrapper = 0 /\ pc = "classify"
    BY DEF Retry, ShouldRetry, IInv, TypeOK, Current, Unsent, NoError
  <1>2. TypeOK'
    BY MaxTriesAssumption DEF Retry, IInv, TypeOK, Tries
  <1>3. CASE try < MaxTries
    <2>1. try' = try + 1 /\ pc' = "sleep"
      BY <1>3 DEF Retry
    <2>2. Behind' /\ Ahead' /\ Current' /\ Unsent'
      BY <1>1, <2>1, MaxTriesAssumption
         DEF Retry, IInv, TypeOK, Behind, Ahead, Current, Unsent, Live, Tries
    <2> QED BY <1>2, <2>2 DEF IInv
  <1>4. CASE ~(try < MaxTries)
    <2>1. try' = try /\ pc' = "returned"
      BY <1>4 DEF Retry
    <2>2. Behind' /\ Ahead' /\ Current' /\ Unsent'
      BY <1>1, <2>1, MaxTriesAssumption
         DEF Retry, IInv, TypeOK, Behind, Ahead, Current, Unsent, Live, Tries, NoError
    <2> QED BY <1>2, <2>2 DEF IInv
  <1> QED BY <1>3, <1>4

\* The caller's side: its context ends, a timer fires, the body is closed.
LEMMA CallerIInv ==
    ASSUME IInv, ContextEnds \/ (\E t \in Tries : TryTimesOut(t)) \/ CloseBody
    PROVE  IInv'
  <1>1. CASE ContextEnds
    BY <1>1 DEF ContextEnds, IInv, TypeOK, Behind, Ahead, Current, Unsent, Live, Tries
  <1>2. CASE \E t \in Tries : TryTimesOut(t)
    BY <1>2 DEF TryTimesOut, IInv, TypeOK, Behind, Ahead, Current, Unsent, Live, Tries
  <1>3. CASE CloseBody
    BY <1>3, MaxTriesAssumption
       DEF CloseBody, IInv, TypeOK, Behind, Ahead, Current, Unsent, Live, Tries
  <1> QED BY <1>1, <1>2, <1>3

\* The loop's bookkeeping holds at every line of it (zc_policy_retry.go:141-270).
THEOREM LoopInvariant == Spec => []IInv
  <1>1. IInv /\ [Next]_vars => IInv'
    <2> SUFFICES ASSUME IInv, [Next]_vars PROVE IInv'
      OBVIOUS
    <2>1. CASE PolicyStep
      BY <2>1, StartTryIInv, DoReturnsIInv, LeaveIInv, RetryIInv DEF PolicyStep
    <2>2. CASE ContextEnds \/ (\E t \in Tries : TryTimesOut(t)) \/ CloseBody
      BY <2>2, CallerIInv
    <2>3. CASE UNCHANGED vars
      BY <2>3 DEF vars, IInv, TypeOK, Behind, Ahead, Current, Unsent, Live
    <2> QED BY <2>1, <2>2, <2>3 DEF Next, Terminated
  <1> QED BY <1>1, InitIInv, PTL DEF Spec

\* TypeOK, for every MaxTries: no more tries than the options allow.
THEOREM PolicyTypeCorrect == Spec => []TypeOK
  <1>1. IInv => TypeOK
    BY DEF IInv
  <1> QED BY <1>1, LoopInvariant, PTL

\* Contexts and bodies are released as the loop leaves each try behind; what the last
\* try holds at the return is what Close of the returned body releases.
THEOREM OnlyLastTryHoldsHolds == Spec => []OnlyLastTryHolds
  <1>1. IInv => OnlyLastTryHolds
    <2> SUFFICES ASSUME IInv, NEW t \in Tries, Live(t) \/ body[t] = "open"
                 PROVE  t = try /\ (pc = "returned" => wrapper = t) /\ pc # "closed"
      BY DEF OnlyLastTryHolds
    <2>1. t = try
      BY MaxTriesAssumption DEF IInv, TypeOK, Behind, Ahead, Live, Tries
    <2> QED BY <2>1 DEF IInv, TypeOK, Current, NoError
  <1> QED BY <1>1, LoopInvariant, PTL

\* The caller gets the last try's verdict, and every try before it was retriable.
THEOREM VerdictOfLastTryHolds == Spec => []VerdictOfLastTry
  <1>1. IInv => VerdictOfLastTry
    BY DEF IInv, Behind, Current, VerdictOfLastTry
  <1> QED BY <1>1, LoopInvariant, PTL

\* At most one try begins after the caller's context has ended.
THEOREM OneTryAfterContextEndsHolds == Spec => []OneTryAfterContextEnds
  <1>1. IInv => OneTryAfterContextEnds
    <2> SUFFICES ASSUME IInv PROVE OneTryAfterContextEnds
      OBVIOUS
    <2>1. IsFiniteSet({try}) /\ Cardinality({try}) = 1
      BY FS_Singleton
    <2>2. Cardinality(unsent) <= 1
      BY <2>1, FS_Subset DEF IInv, Unsent
    <2> QED BY <2>2 DEF IInv, Unsent, OneTryAfterContextEnds
  <1> QED BY <1>1, LoopInvariant, PTL
=============================================================================
