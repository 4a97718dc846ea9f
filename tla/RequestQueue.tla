---------------------------- MODULE RequestQueue ----------------------------
(***************************************************************************)
(* What the server may rely on when it hands requests to the database      *)
(* thread: every request is answered exactly once and in order, and the    *)
(* executor ends only after it was closed and has answered everything.     *)
(***************************************************************************)
EXTENDS Naturals, Sequences

VARIABLES
    submitted,  \* number of requests handed over
    answers,    \* their answers, in the order of submission
    open,       \* requests are still accepted
    ended       \* the executor has ended

vars == <<submitted, answers, open, ended>>

Init == submitted = 0 /\ answers = <<>> /\ open = TRUE /\ ended = FALSE

Submit ==
    /\ open
    /\ submitted' = submitted + 1
    /\ UNCHANGED <<answers, open, ended>>

Answer ==
    /\ Len(answers) < submitted
    /\ \E a \in {"ok", "failed"} : answers' = Append(answers, a)
    /\ UNCHANGED <<submitted, open, ended>>

Close ==
    /\ open
    /\ open' = FALSE
    /\ UNCHANGED <<submitted, answers, ended>>

End ==
    /\ ~open /\ ~ended
    /\ Len(answers) = submitted
    /\ ended' = TRUE
    /\ UNCHANGED <<submitted, answers, open>>

Next == Submit \/ Answer \/ Close \/ End

Spec == Init /\ [][Next]_vars

\* Every request is answered, and a closed executor ends.
Fairness == WF_vars(Answer) /\ WF_vars(End)
=============================================================================
