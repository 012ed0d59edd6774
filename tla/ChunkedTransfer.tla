-------------------------- MODULE ChunkedTransfer --------------------------
(***************************************************************************)
(* What a parallel chunked transfer promises its caller, with no channel    *)
(* and no goroutine: each chunk is tried at most once and ends well or      *)
(* badly; the verdict is "nil" only when every chunk has ended well, "err"  *)
(* only when one has ended badly, and is given once.  Chunks may still end  *)
(* after an "err" verdict, never after "nil".                               *)
(***************************************************************************)
CONSTANT Chunks

VARIABLES done, failed, verdict

vars == << done, failed, verdict >>

Init == done = {} /\ failed = {} /\ verdict = "none"

Untried == Chunks \ (done \cup failed)

EndWell(i) == done' = done \cup {i} /\ UNCHANGED << failed, verdict >>

EndBadly(i) == failed' = failed \cup {i} /\ UNCHANGED << done, verdict >>

Succeed ==
    /\ verdict = "none"
    /\ done = Chunks
    /\ verdict' = "nil"
    /\ UNCHANGED << done, failed >>

Fail ==
    /\ verdict = "none"
    /\ failed # {}
    /\ verdict' = "err"
    /\ UNCHANGED << done, failed >>

Next == (\E i \in Untried : EndWell(i) \/ EndBadly(i)) \/ Succeed \/ Fail

Spec == Init /\ [][Next]_vars
=============================================================================
