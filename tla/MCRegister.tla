----------------------------- MODULE MCRegister -----------------------------
(* Instance of Register: the scenarios share the protocols p1 and p2.      *)
EXTENDS Register
CONSTANTS p1, p2
Quiet == [protocols |-> {p1, p2}, jobs |-> 1, starts |-> 0, infos |-> 0, seeds |-> 0,
          changes |-> 0, forgets |-> 0, fails |-> 0]

\* Two protocols and an info that changes, while the master forgets one of them;
Forgotten == [Quiet EXCEPT !.infos = 1, !.forgets = 1]
\* one protocol that is disabled and enabled, with challenges that expire;
Changed == [Quiet EXCEPT !.protocols = {p1}, !.seeds = 1, !.changes = 2]
\* two processes, one after the other;
Started == [Quiet EXCEPT !.starts = 1]
\* one protocol with two requests that overtake each other and may fail.
Overtaken == [Quiet EXCEPT !.protocols = {p1}, !.jobs = 2, !.infos = 1, !.changes = 1,
                           !.forgets = 1, !.fails = 1]
All == {Forgotten, Changed, Started, Overtaken}
TwoSecrets == {1, 2}
=============================================================================
