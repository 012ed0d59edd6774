---------------------------- MODULE RetryPolicy ----------------------------
(***************************************************************************)
(* The retry policy (azfile/zc_policy_retry.go): the loop of tries around   *)
(* the rest of the pipeline, the context each try gets, what is done with   *)
(* the response of a try that is retried, and the wrapper that ties the     *)
(* last context to the body the caller closes.                              *)
(*                                                                         *)
(* The rest of the pipeline (credential, log, transport, responder) is the  *)
(* set Results of what next.Do may return.  How long a try waits and may    *)
(* take is in RetryTiming.  retryReadsFromSecondaryHost always returns "",  *)
(* so every try is against the primary and the secondary's arms are dead.   *)
(***************************************************************************)
EXTENDS Integers, FiniteSets

CONSTANT MaxTries   \* RetryOptions.MaxTries after defaults()

ASSUME MaxTriesAssumption == MaxTries \in Nat \ {0}

Tries == 1 .. MaxTries

\* The errors that the classification tells apart.
\*   temporary     a StorageError whose Temporary() holds: status 500 or 503
\*   successCode   a StorageError with a success status: its body could not be parsed
\*   fatal         any other StorageError
\*   net           a net.Error that isNotRetriable does not list; a timeout is one
\*   netFatal      a net.Error it lists: bad address, unknown host, invalid header
\*   other         anything else, such as io.ErrUnexpectedEOF while reading the body
StorageErrors == {"temporary", "successCode", "fatal"}
OtherErrors == {"net", "netFatal", "other"}
NoError == "nil"

\* What next.Do may return: the error and the state of the response's body ("nil":
\* no response).  Every responder but Download's has read and closed the body of a
\* success, validateResponse that of a failure.  Only a policy that is not of this
\* package returns neither an error nor a response.
Results ==
    [err : {NoError}, body : {"open", "closed", "nil"}]
      \cup [err : StorageErrors, body : {"closed"}]
      \cup [err : OtherErrors, body : {"nil", "closed"}]

\* What it returns if the context it is given is already done: nothing is sent.
UnsentResult == [err |-> "net", body |-> "nil"]

VARIABLES
    pc,         \* where the policy's Do is
    try,        \* the loop variable
    ctxDone,    \* the caller's context is cancelled or past its deadline
    tryCtx,     \* each try's context: "none", then "live", then "done"
    unsent,     \* the tries begun with the caller's context already done
    err, body,  \* what each try returned; "none" before
    wrapper     \* the try whose context closing the returned body cancels, or 0

vars == << pc, try, ctxDone, tryCtx, unsent, err, body, wrapper >>

Init ==
    /\ pc = "sleep"
    /\ try = 1
    /\ ctxDone = FALSE
    /\ tryCtx = [t \in Tries |-> "none"]
    /\ unsent = {}
    /\ err = [t \in Tries |-> "none"]
    /\ body = [t \in Tries |-> "none"]
    /\ wrapper = 0

-----------------------------------------------------------------------------
(* The policy's Do. *)

\* time.Sleep(delay) is over; it does not look at the context.  Copy the request,
\* rewind its body, and derive the try's context from the caller's.
StartTry ==
    /\ pc = "sleep"
    /\ tryCtx' = [tryCtx EXCEPT ![try] = IF ctxDone THEN "done" ELSE "live"]
    /\ unsent' = IF ctxDone THEN unsent \cup {try} ELSE unsent
    /\ pc' = "do"
    /\ UNCHANGED << try, ctxDone, err, body, wrapper >>

\* requestCopy.RewindBody fails: the request's body cannot seek to its start.
RewindFails ==
    /\ pc = "sleep"
    /\ pc' = "panic"
    /\ UNCHANGED << try, ctxDone, tryCtx, unsent, err, body, wrapper >>

\* next.Do(tryCtx, requestCopy) returns.
DoReturns(r) ==
    /\ pc = "do"
    /\ try \in unsent => r = UnsentResult
    /\ err' = [err EXCEPT ![try] = r.err]
    /\ body' = [body EXCEPT ![try] = r.body]
    /\ pc' = "classify"
    /\ UNCHANGED << try, ctxDone, tryCtx, unsent, wrapper >>

\* Mutant of ShouldRetry: the caller's context is not looked at first.
ShouldRetryWithoutContext == err[try] \in {"temporary", "successCode", "net"}

\* Mutant of ShouldRetry: a success whose body could be parsed is retried as well.
ShouldRetryAnySuccess == ~ctxDone /\ err[try] \in {"temporary", "successCode", "net", NoError}

\* The switch that sets action: it starts with 'R'.
ShouldRetry == ~ctxDone /\ err[try] \in {"temporary", "successCode", "net"}

\* Mutant of GiveUp: the context is left to its timer.
GiveUpWithoutCancel ==
    /\ pc = "classify" /\ ~ShouldRetry /\ err[try] # NoError
    /\ pc' = "returned"
    /\ UNCHANGED << try, ctxDone, tryCtx, unsent, err, body, wrapper >>

\* Not retried and failed: cancel the try's context and return the error.
GiveUp ==
    /\ pc = "classify"
    /\ ~ShouldRetry
    /\ err[try] # NoError
    /\ tryCtx' = [tryCtx EXCEPT ![try] = "done"]
    /\ pc' = "returned"
    /\ UNCHANGED << try, ctxDone, unsent, err, body, wrapper >>

\* Success: the returned body is wrapped so that closing it cancels the context.
Succeed ==
    /\ pc = "classify"
    /\ ~ShouldRetry
    /\ err[try] = NoError
    /\ body[try] # "nil"
    /\ wrapper' = try
    /\ pc' = "returned"
    /\ UNCHANGED << try, ctxDone, tryCtx, unsent, err, body >>

\* sanityCheckFailed: neither an error nor a response.
SanityCheckFailed ==
    /\ pc = "classify"
    /\ ~ShouldRetry
    /\ err[try] = NoError
    /\ body[try] = "nil"
    /\ pc' = "panic"
    /\ UNCHANGED << try, ctxDone, tryCtx, unsent, err, body, wrapper >>

\* Mutant of Retry: one try too many.
RetryOneMore ==
    /\ pc = "classify" /\ ShouldRetry
    /\ body' = [body EXCEPT ![try] = IF @ = "open" THEN "closed" ELSE @]
    /\ tryCtx' = [tryCtx EXCEPT ![try] = "done"]
    /\ IF try <= MaxTries THEN try' = try + 1 /\ pc' = "sleep" ELSE pc' = "returned" /\ UNCHANGED try
    /\ UNCHANGED << ctxDone, unsent, err, wrapper >>

\* Mutant of Retry: the loop variable is not increased.
RetrySameTry ==
    /\ pc = "classify" /\ ShouldRetry
    /\ body' = [body EXCEPT ![try] = IF @ = "open" THEN "closed" ELSE @]
    /\ tryCtx' = [tryCtx EXCEPT ![try] = "done"]
    /\ pc' = "sleep"
    /\ UNCHANGED << try, ctxDone, unsent, err, wrapper >>

\* Flush and close the body, cancel the try's context and go round; after the last
\* try the loop ends and its response and error are returned.
Retry ==
    /\ pc = "classify"
    /\ ShouldRetry
    /\ body' = [body EXCEPT ![try] = IF @ = "open" THEN "closed" ELSE @]
    /\ tryCtx' = [tryCtx EXCEPT ![try] = "done"]
    /\ IF try < MaxTries
         THEN try' = try + 1 /\ pc' = "sleep"
         ELSE pc' = "returned" /\ UNCHANGED try
    /\ UNCHANGED << ctxDone, unsent, err, wrapper >>

PolicyStep ==
    \/ StartTry \/ RewindFails
    \/ \E r \in Results : DoReturns(r)
    \/ GiveUp \/ Succeed \/ SanityCheckFailed \/ Retry

-----------------------------------------------------------------------------
(* The caller and its context. *)

\* The caller's context ends, and with it every context derived from it.
ContextEnds ==
    /\ ~ctxDone
    /\ ctxDone' = TRUE
    /\ tryCtx' = [t \in Tries |-> IF tryCtx[t] = "live" THEN "done" ELSE tryCtx[t]]
    /\ UNCHANGED << pc, try, unsent, err, body, wrapper >>

\* The timer of context.WithTimeout fires.
TryTimesOut(t) ==
    /\ tryCtx[t] = "live"
    /\ tryCtx' = [tryCtx EXCEPT ![t] = "done"]
    /\ UNCHANGED << pc, try, ctxDone, unsent, err, body, wrapper >>

\* contextCancelReadCloser.Close: a caller closes the body it was given open, and
\* has no reason to close one that the responder has consumed.
CloseBody ==
    /\ pc = "returned"
    /\ wrapper # 0
    /\ body[wrapper] = "open"
    /\ body' = [body EXCEPT ![wrapper] = "closed"]
    /\ tryCtx' = [tryCtx EXCEPT ![wrapper] = "done"]
    /\ pc' = "closed"
    /\ UNCHANGED << try, ctxDone, unsent, err, wrapper >>

Live(t) == tryCtx[t] = "live"

Terminated ==
    /\ pc \in {"returned", "panic", "closed"}
    /\ \A t \in Tries : ~Live(t) /\ body[t] # "open"
    /\ UNCHANGED vars

Next ==
    \/ PolicyStep
    \/ ContextEnds
    \/ \E t \in Tries : TryTimesOut(t)
    \/ CloseBody
    \/ Terminated

\* The policy runs; a try's timer fires in time; nothing obliges the caller to end
\* its context, nor to close the body.
Fairness == WF_vars(PolicyStep) /\ \A t \in Tries : WF_vars(TryTimesOut(t))

Spec == Init /\ [][Next]_vars /\ Fairness

-----------------------------------------------------------------------------
(* Properties. *)

TypeOK ==
    /\ pc \in {"sleep", "do", "classify", "returned", "panic", "closed"}
    /\ try \in Tries
    /\ ctxDone \in BOOLEAN
    /\ tryCtx \in [Tries -> {"none", "live", "done"}]
    /\ unsent \in SUBSET Tries
    /\ err \in [Tries -> StorageErrors \cup OtherErrors \cup {NoError, "none"}]
    /\ body \in [Tries -> {"none", "nil", "open", "closed"}]
    /\ wrapper \in Tries \cup {0}

\* A try keeps nothing once it is over: only the last try may have a live context or
\* an open body, after the return only if the returned body's Close releases both
\* (zc_policy_retry.go:243-268), and nothing after that Close.
OnlyLastTryHolds ==
    \A t \in Tries : Live(t) \/ body[t] = "open" =>
        /\ t = try
        /\ pc = "returned" => wrapper = t
        /\ pc # "closed"

\* The caller gets the verdict of the last try, and each earlier one failed in a way
\* that the switch retries: no fatal error is retried, and a try without an error is the
\* last (one with a success code and a body that cannot be parsed has an error).
VerdictOfLastTry ==
    /\ \A t \in Tries : t < try => err[t] \in {"temporary", "successCode", "net"}
    /\ pc = "returned" => (err[try] = NoError <=> wrapper = try)

\* The sleep before a try ignores the caller's context, but costs at most one try:
\* none follows a try that began with the context already done.
OneTryAfterContextEnds ==
    Cardinality(unsent) <= 1 /\ \A t \in unsent : t = try

\* Do ends, whatever the tries return and whether or not the context ever ends.
PolicyReturns == <>(pc \in {"returned", "panic", "closed"})
=============================================================================
