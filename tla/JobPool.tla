------------------------------ MODULE JobPool ------------------------------
(***************************************************************************)
(* CJobPool (engine/shared/jobs.cpp): worker threads that run jobs from a  *)
(* queue.  A worker spends one token of the semaphore per visit to the     *)
(* queue.  What happens under m_Lock or m_LockRunning is one step, except  *)
(* the walk of Shutdown over the queue, which holds m_Lock for one step    *)
(* per job while workers that already fetched a job go on.                 *)
(***************************************************************************)
EXTENDS Integers, Sequences, SequencesExt, FiniteSets

CONSTANTS
    Jobs,           \* IJob objects, each added at most once
    AbortableJobs,  \* those whose constructor calls Abortable(true)
    Workers,        \* worker threads of one pool
    MaxStarts,      \* bound on calls of Init
    NoJob           \* nullptr

ASSUME JobAssumption == /\ AbortableJobs \subseteq Jobs
                        /\ Workers # {} /\ IsFiniteSet(Workers)
                        /\ NoJob \notin Jobs
                        /\ MaxStarts \in Nat

VARIABLES
    shutdown,   \* m_Shutdown
    semaphore,  \* tokens of m_Semaphore
    queue,      \* the list from m_pFirstJob to m_pLastJob
    running,    \* m_RunningJobs
    state,      \* IJob::m_State
    workerPc,   \* where each worker is in RunLoop, "none" when there is no thread
    job,        \* pJob of each worker
    mainPc,     \* where the main thread is in Add or Shutdown, or "idle"
    pos,        \* position of the walk of Shutdown in the queue
    added,      \* jobs accepted by Add
    starts      \* calls of Init so far

mainVars == <<shutdown, mainPc, pos, added, starts>>
vars == <<semaphore, queue, running, state, workerPc, job, mainVars>>

Holding == {"start", "enlist", "run", "delist", "finish"}

TypeOK ==
    /\ shutdown \in BOOLEAN
    /\ semaphore \in Nat
    /\ queue \in Seq(Jobs)
    /\ running \subseteq Jobs
    /\ state \in [Jobs -> {"queued", "running", "done", "aborted"}]
    /\ workerPc \in [Workers -> Holding \cup {"none", "wait", "fetch", "empty", "ended"}]
    /\ job \in [Workers -> Jobs \cup {NoJob}]
    /\ mainPc \in {"idle", "signal", "abortQueued", "abortRunning", "wake", "join"}
    /\ pos \in Nat \ {0}
    /\ added \subseteq Jobs
    /\ starts \in Nat

\* The constructor: the pool counts as shut down until Init.
Init ==
    /\ shutdown = TRUE
    /\ semaphore = 0
    /\ queue = <<>>
    /\ running = {}
    /\ state = [j \in Jobs |-> "queued"]
    /\ workerPc = [w \in Workers |-> "none"]
    /\ job = [w \in Workers |-> NoJob]
    /\ mainPc = "idle"
    /\ pos = 1
    /\ added = {}
    /\ starts = 0

-----------------------------------------------------------------------------
(* The main thread.                                                        *)

\* IJob::Abort stores the state whatever it was.
AfterAbort(js) == [j \in Jobs |-> IF j \in js \cap AbortableJobs THEN "aborted" ELSE state[j]]

\* CJobPool::Init
StartPool ==
    /\ mainPc = "idle" /\ shutdown /\ starts < MaxStarts
    /\ shutdown' = FALSE
    /\ semaphore' = 0
    /\ queue' = <<>>
    /\ workerPc' = [w \in Workers |-> "wait"]
    /\ starts' = starts + 1
    /\ UNCHANGED <<running, state, job, mainPc, pos, added>>

\* Add on a pool that is shut down.
AddRefused(j) ==
    /\ mainPc = "idle" /\ shutdown /\ j \notin added
    /\ state' = AfterAbort({j})
    /\ UNCHANGED <<semaphore, queue, running, workerPc, job, mainVars>>

\* Add links the job to the end of the queue ...
Add(j) ==
    /\ mainPc = "idle" /\ ~shutdown /\ j \notin added
    /\ queue' = Append(queue, j)
    /\ added' = added \cup {j}
    /\ mainPc' = "signal"
    /\ UNCHANGED <<semaphore, running, state, workerPc, job, shutdown, pos, starts>>

\* mutant: only the first job of an empty queue is signalled
SignalFirst ==
    /\ mainPc = "signal"
    /\ semaphore' = IF Len(queue) = 1 THEN semaphore + 1 ELSE semaphore
    /\ mainPc' = "idle"
    /\ UNCHANGED <<queue, running, state, workerPc, job, shutdown, pos, added, starts>>
\* ... and signals a worker.
Signal ==
    /\ mainPc = "signal"
    /\ semaphore' = semaphore + 1
    /\ mainPc' = "idle"
    /\ UNCHANGED <<queue, running, state, workerPc, job, shutdown, pos, added, starts>>

\* The owner of a job aborts it.
Abort(j) ==
    /\ mainPc = "idle" /\ j \in AbortableJobs
    /\ state' = AfterAbort({j})
    /\ UNCHANGED <<semaphore, queue, running, workerPc, job, mainVars>>

\* Shutdown
Shutdown ==
    /\ mainPc = "idle" /\ ~shutdown
    /\ shutdown' = TRUE
    /\ mainPc' = "abortQueued"
    /\ pos' = 1
    /\ UNCHANGED <<semaphore, queue, running, state, workerPc, job, added, starts>>

\* mutant: jobs that cannot be aborted are unlinked as well
AbortQueuedAll ==
    /\ mainPc = "abortQueued" /\ pos <= Len(queue)
    /\ state' = AfterAbort({queue[pos]})
    /\ queue' = RemoveAt(queue, pos) /\ UNCHANGED pos
    /\ UNCHANGED <<semaphore, running, workerPc, job, shutdown, mainPc, added, starts>>
\* The walk aborts and unlinks the next job, or keeps it when it cannot be aborted.
AbortQueued ==
    /\ mainPc = "abortQueued" /\ pos <= Len(queue)
    /\ state' = AfterAbort({queue[pos]})
    /\ IF queue[pos] \in AbortableJobs
         THEN queue' = RemoveAt(queue, pos) /\ UNCHANGED pos
         ELSE pos' = pos + 1 /\ UNCHANGED queue
    /\ UNCHANGED <<semaphore, running, workerPc, job, shutdown, mainPc, added, starts>>

QueueWalked ==
    /\ mainPc = "abortQueued" /\ pos > Len(queue)
    /\ mainPc' = "abortRunning"
    /\ UNCHANGED <<semaphore, queue, running, state, workerPc, job, shutdown, pos, added, starts>>

AbortRunning ==
    /\ mainPc = "abortRunning"
    /\ state' = AfterAbort(running)
    /\ mainPc' = "wake"
    /\ UNCHANGED <<semaphore, queue, running, workerPc, job, shutdown, pos, added, starts>>

\* mutant: one signal for all threads
WakeOne ==
    /\ mainPc = "wake"
    /\ semaphore' = semaphore + 1
    /\ mainPc' = "join"
    /\ UNCHANGED <<queue, running, state, workerPc, job, shutdown, pos, added, starts>>
\* One signal per thread.
Wake ==
    /\ mainPc = "wake"
    /\ semaphore' = semaphore + Cardinality(Workers)
    /\ mainPc' = "join"
    /\ UNCHANGED <<queue, running, state, workerPc, job, shutdown, pos, added, starts>>

\* All threads have ended and Shutdown returns.
Join ==
    /\ mainPc = "join" /\ \A w \in Workers : workerPc[w] = "ended"
    /\ workerPc' = [w \in Workers |-> "none"]
    /\ semaphore' = 0
    /\ mainPc' = "idle"
    /\ UNCHANGED <<queue, running, state, job, shutdown, pos, added, starts>>

-----------------------------------------------------------------------------
(* A worker thread in RunLoop.                                             *)

Goto(w, from, to) == workerPc[w] = from /\ workerPc' = [workerPc EXCEPT ![w] = to]

\* The worker takes a token of the semaphore.
Wait(w) ==
    /\ semaphore > 0
    /\ Goto(w, "wait", "fetch")
    /\ semaphore' = semaphore - 1
    /\ UNCHANGED <<queue, running, state, job, mainVars>>

\* mutant: the job stays in the list
FetchKeeps(w) ==
    /\ mainPc # "abortQueued" /\ queue # <<>>
    /\ Goto(w, "fetch", "start")
    /\ job' = [job EXCEPT ![w] = Head(queue)]
    /\ UNCHANGED <<semaphore, queue, running, state, mainVars>>
\* m_Lock is free and there is a job.
Fetch(w) ==
    /\ mainPc # "abortQueued" /\ queue # <<>>
    /\ Goto(w, "fetch", "start")
    /\ job' = [job EXCEPT ![w] = Head(queue)]
    /\ queue' = Tail(queue)
    /\ UNCHANGED <<semaphore, running, state, mainVars>>

FetchNothing(w) ==
    /\ mainPc # "abortQueued" /\ queue = <<>>
    /\ Goto(w, "fetch", "empty")
    /\ UNCHANGED <<semaphore, queue, running, state, job, mainVars>>

\* Without a job the worker ends if the pool is shutting down.
Leave(w) ==
    /\ Goto(w, "empty", IF shutdown THEN "ended" ELSE "wait")
    /\ UNCHANGED <<semaphore, queue, running, state, job, mainVars>>

\* The compare-exchange from queued to running succeeds ...
Start(w) ==
    /\ Goto(w, "start", "enlist")
    /\ state[job[w]] = "queued"
    /\ state' = [state EXCEPT ![job[w]] = "running"]
    /\ UNCHANGED <<semaphore, queue, running, job, mainVars>>

\* ... or the job was aborted before it was started.
SkipAborted(w) ==
    /\ Goto(w, "start", "wait")
    /\ state[job[w]] = "aborted"
    /\ job' = [job EXCEPT ![w] = NoJob]
    /\ UNCHANGED <<semaphore, queue, running, state, mainVars>>

Enlist(w) ==
    /\ Goto(w, "enlist", "run")
    /\ running' = running \cup {job[w]}
    /\ UNCHANGED <<semaphore, queue, state, job, mainVars>>

\* IJob::Run returns (external: what the job does).
Run(w) ==
    /\ Goto(w, "run", "delist")
    /\ UNCHANGED <<semaphore, queue, running, state, job, mainVars>>

Delist(w) ==
    /\ Goto(w, "delist", "finish")
    /\ running' = running \ {job[w]}
    /\ UNCHANGED <<semaphore, queue, state, job, mainVars>>

\* mutant: the result is stored without comparing
FinishStores(w) ==
    /\ Goto(w, "finish", "wait")
    /\ state' = [state EXCEPT ![job[w]] = "done"]
    /\ job' = [job EXCEPT ![w] = NoJob]
    /\ UNCHANGED <<semaphore, queue, running, mainVars>>
\* The compare-exchange from running to done; an aborted job stays aborted.
Finish(w) ==
    /\ Goto(w, "finish", "wait")
    /\ state' = IF state[job[w]] = "running" THEN [state EXCEPT ![job[w]] = "done"] ELSE state
    /\ job' = [job EXCEPT ![w] = NoJob]
    /\ UNCHANGED <<semaphore, queue, running, mainVars>>

-----------------------------------------------------------------------------
Worker(w) == \/ Wait(w) \/ Fetch(w) \/ FetchNothing(w) \/ Leave(w) \/ Start(w)
             \/ SkipAborted(w) \/ Enlist(w) \/ Run(w) \/ Delist(w) \/ Finish(w)

\* The steps the main thread takes once it is inside Add or Shutdown.
InCall == Signal \/ AbortQueued \/ QueueWalked \/ AbortRunning \/ Wake \/ Join

Next == \/ StartPool \/ Shutdown \/ InCall
        \/ \E j \in Jobs : AddRefused(j) \/ Add(j) \/ Abort(j)
        \/ \E w \in Workers : Worker(w)

Spec == Init /\ [][Next]_vars

\* Threads are scheduled and jobs return.
FairSpec == Spec /\ WF_vars(InCall) /\ \A w \in Workers : WF_vars(Worker(w))

-----------------------------------------------------------------------------
(***************************************************************************)
(* The assertions of RunLoop hold (jobs.cpp:96 and 117) and the erase of   *)
(* line 108 finds its job, whatever aborts race with the worker.           *)
(***************************************************************************)
AssertionsHold ==
    \A w \in Workers :
        /\ workerPc[w] = "start" => state[job[w]] \in {"queued", "aborted"}
        /\ workerPc[w] = "finish" => state[job[w]] \in {"running", "aborted"}
        /\ workerPc[w] = "delist" => job[w] \in running

(***************************************************************************)
(* jobs.h:114: "Scheduled jobs which are not abortable are guaranteed to   *)
(* fully complete before the job pool is shut down."  When Shutdown has    *)
(* returned, those jobs are done and the others done or aborted.           *)
(***************************************************************************)
CompletedAtShutdown ==
    mainPc = "idle" /\ shutdown =>
        \A j \in added : state[j] = "done" \/ (j \in AbortableJobs /\ state[j] = "aborted")

(***************************************************************************)
(* A job that was aborted stays so: no worker starts it afterwards or      *)
(* reports it as done.                                                     *)
(***************************************************************************)
AbortedIsFinal == [][\A j \in Jobs : state[j] = "aborted" => state'[j] = "aborted"]_vars

(***************************************************************************)
(* No wake-up is lost: every job that Add accepts is eventually done or    *)
(* aborted, while other jobs, aborts and a shutdown use up tokens.         *)
(***************************************************************************)
JobsEnd == \A j \in Jobs : j \in added ~> state[j] \in {"done", "aborted"}

(***************************************************************************)
(* Add and Shutdown return: every thread that Shutdown waits for ends.     *)
(***************************************************************************)
CallsReturn == mainPc # "idle" ~> mainPc = "idle"

(***************************************************************************)
(* jobs.h:157: Shutdown "Aborts all abortable jobs. Then waits for all     *)
(* worker threads": once it has aborted what it found, no abortable job    *)
(* that was scheduled is still to run or running unaborted.  No run checks *)
(* this, since the code does not keep it: jobs.cpp:100, see the README.    *)
(***************************************************************************)
AllAborted ==
    mainPc \in {"wake", "join"} =>
        \A j \in added \cap AbortableJobs : state[j] \in {"done", "aborted"}
=============================================================================
