---------------------------- MODULE JobPoolProofs ----------------------------
(***************************************************************************)
(* Proofs about JobPool for any jobs and any number of worker threads.     *)
(***************************************************************************)
EXTENDS JobPool, FiniteSetTheorems, TLAPS

\* Unlinking an element moves the later ones forward.
LEMMA Unlink ==
    ASSUME NEW S, NEW s \in Seq(S), NEW i \in 1 .. Len(s)
    PROVE  /\ RemoveAt(s, i) \in Seq(S)
           /\ Len(RemoveAt(s, i)) = Len(s) - 1
           /\ \A k \in 1 .. Len(s) - 1 : RemoveAt(s, i)[k] = s[IF k < i THEN k ELSE k + 1]
<1> DEFINE front == SubSeq(s, 1, i - 1)
           back == SubSeq(s, i + 1, Len(s))
<1>1. front \in Seq(S) /\ Len(front) = i - 1 /\ \A k \in 1 .. i - 1 : front[k] = s[k]
  OBVIOUS
<1>2. /\ back \in Seq(S) /\ Len(back) = Len(s) - i
      /\ \A k \in 1 .. Len(s) - i : back[k] = s[k + i]
  OBVIOUS
<1>3. RemoveAt(s, i) = front \o back
  BY DEF RemoveAt
<1> HIDE DEF front, back
<1>4. /\ front \o back \in Seq(S)
      /\ Len(front \o back) = Len(s) - 1
  BY <1>1, <1>2
<1>5. ASSUME NEW k \in 1 .. Len(s) - 1
      PROVE  (front \o back)[k] = s[IF k < i THEN k ELSE k + 1]
  <2>1. CASE k < i
    BY <1>1, <1>2, <2>1
  <2>2. CASE k >= i
    <3>1. (front \o back)[k] = back[k - (i - 1)]
      BY <1>1, <1>2, <2>2
    <3> QED
      BY <1>1, <1>2, <2>2, <3>1
  <2>3. k < i \/ k >= i
    OBVIOUS
  <2> QED
    BY <2>1, <2>2, <2>3
<1> QED
  BY <1>3, <1>4, <1>5

-----------------------------------------------------------------------------
Holds(w) == workerPc[w] \in Holding

\* A queued job was added, is in the queue once and no worker has it.
QueueInv ==
    \A i \in DOMAIN queue :
        /\ queue[i] \in added
        /\ state[queue[i]] \in {"queued", "aborted"}
        /\ \A k \in DOMAIN queue : queue[k] = queue[i] => k = i
        /\ \A w \in Workers : Holds(w) => job[w] # queue[i]

\* A worker's job was added, is its own and is in the state the worker left it
\* in, or aborted.
HoldInv ==
    \A w \in Workers : Holds(w) =>
        /\ job[w] \in added
        /\ \A v \in Workers : Holds(v) /\ job[v] = job[w] => v = w
        /\ state[job[w]] \in IF workerPc[w] = "start" THEN {"queued", "aborted"}
                                                      ELSE {"running", "aborted"}
        /\ workerPc[w] \in {"run", "delist"} => job[w] \in running

\* An added job that neither the queue nor a worker has is settled.
SettledInv ==
    \A j \in added : \/ \E i \in DOMAIN queue : queue[i] = j
                     \/ \E w \in Workers : Holds(w) /\ job[w] = j
                     \/ state[j] \in {"done", "aborted"}

AbortInv ==
    /\ \A j \in Jobs : state[j] = "aborted" => j \in AbortableJobs
    /\ \A j \in Jobs \ added : state[j] \in {"queued", "aborted"}

\* Workers end only when the queue is empty and stays so.
EndInv ==
    /\ mainPc \in {"abortQueued", "abortRunning", "wake", "join"} => shutdown
    /\ mainPc = "signal" => ~shutdown
    /\ \A w \in Workers : workerPc[w] = "ended" => shutdown /\ queue = <<>>
    /\ mainPc = "idle" /\ shutdown => queue = <<>> /\ \A w \in Workers : workerPc[w] = "none"

\* Before the shutdown every token, and every worker on its way to the queue,
\* has a job in the queue; so only a shutdown makes a worker find none.
Fetching == {w \in Workers : workerPc[w] = "fetch"}
TokenInv ==
    /\ ~shutdown => semaphore + Cardinality(Fetching) + (IF mainPc = "signal" THEN 1 ELSE 0)
                        <= Len(queue)
    /\ \A w \in Workers : workerPc[w] = "empty" => shutdown /\ queue = <<>>

PoolInv == TypeOK /\ QueueInv /\ HoldInv /\ SettledInv /\ AbortInv /\ EndInv /\ TokenInv

LEMMA InitPool == Init => PoolInv
BY DEF Init, PoolInv, TypeOK, QueueInv, HoldInv, SettledInv, AbortInv, EndInv, TokenInv,
       Holds, Holding

LEMMA FetchingFinite == IsFiniteSet(Fetching) /\ Cardinality(Fetching) \in Nat
BY JobAssumption, FS_Subset, FS_CardinalityType DEF Fetching

\* Steps that leave the worker, the tokens and the main thread alone.
LEMMA SameTokens ==
    ASSUME TokenInv, UNCHANGED <<shutdown, semaphore, mainPc, queue, workerPc>>
    PROVE  TokenInv'
BY DEF TokenInv, Fetching

\* Aborting jobs changes no state but to aborted, and only of abortable jobs.
LEMMA AbortStep ==
    ASSUME NEW js \in SUBSET Jobs, TypeOK, state' = AfterAbort(js)
    PROVE  /\ state' \in [Jobs -> {"queued", "running", "done", "aborted"}]
           /\ \A j \in Jobs : \/ state'[j] = state[j]
                              \/ state'[j] = "aborted" /\ j \in AbortableJobs
BY DEF AfterAbort, TypeOK

LEMMA AbortPool ==
    ASSUME NEW js \in SUBSET Jobs, PoolInv, state' = AfterAbort(js),
           UNCHANGED <<queue, running, workerPc, job, added>>,
           TypeOK', EndInv', TokenInv'
    PROVE  PoolInv'
<1>0. TypeOK /\ QueueInv /\ HoldInv /\ SettledInv /\ AbortInv
  BY DEF PoolInv
<1>1. /\ state' \in [Jobs -> {"queued", "running", "done", "aborted"}]
      /\ \A j \in Jobs : \/ state'[j] = state[j]
                         \/ state'[j] = "aborted" /\ j \in AbortableJobs
  BY <1>0, AbortStep
<1>2. QueueInv'
  <2>1. \A i \in DOMAIN queue : queue[i] \in Jobs
    BY <1>0 DEF TypeOK
  <2> QED
    BY <1>0, <1>1, <2>1 DEF QueueInv, Holds
<1>3. HoldInv'
  <2>1. \A w \in Workers : Holds(w) => job[w] \in Jobs
    BY <1>0 DEF TypeOK, HoldInv
  <2> QED
    BY <1>0, <1>1, <2>1 DEF HoldInv, Holds
<1>4. SettledInv' /\ AbortInv'
  BY <1>0, <1>1 DEF SettledInv, AbortInv, Holds, TypeOK
<1> QED
  BY <1>2, <1>3, <1>4 DEF PoolInv

-----------------------------------------------------------------------------
(* The steps of the main thread.                                           *)

LEMMA MainPool ==
    PoolInv /\ (StartPool \/ Shutdown \/ Signal \/ QueueWalked \/ Wake \/ Join) => PoolInv'
<1> SUFFICES ASSUME PoolInv, StartPool \/ Shutdown \/ Signal \/ QueueWalked \/ Wake \/ Join
             PROVE  PoolInv'
  OBVIOUS
<1>0. TypeOK /\ QueueInv /\ HoldInv /\ SettledInv /\ AbortInv /\ EndInv
  BY DEF PoolInv
<1>1. UNCHANGED <<running, state, job, added>> /\ queue' = queue
  BY <1>0 DEF StartPool, Shutdown, Signal, QueueWalked, Wake, Join, EndInv
<1>2. \A w \in Workers : workerPc'[w] = workerPc[w] \/ (~Holds(w) /\ ~Holds(w)')
  BY <1>0 DEF StartPool, Shutdown, Signal, QueueWalked, Wake, Join, EndInv, TypeOK, Holds, Holding
<1>3. TypeOK'
  <2>1. semaphore' \in Nat
    <3>1. Cardinality(Workers) \in Nat
      BY JobAssumption, FS_CardinalityType
    <3> QED
      BY <1>0, <3>1 DEF TypeOK, StartPool, Shutdown, Signal, QueueWalked, Wake, Join
  <2>2. workerPc' \in [Workers -> Holding \cup {"none", "wait", "fetch", "empty", "ended"}]
    BY <1>0 DEF TypeOK, StartPool, Shutdown, Signal, QueueWalked, Wake, Join
  <2>3. /\ shutdown' \in BOOLEAN
        /\ starts' \in Nat
        /\ pos' \in Nat \ {0}
    <3>1. shutdown' \in BOOLEAN
      BY <1>0 DEF TypeOK, StartPool, Shutdown, Signal, QueueWalked, Wake, Join
    <3>2. starts' \in Nat
      BY <1>0 DEF TypeOK, StartPool, Shutdown, Signal, QueueWalked, Wake, Join
    <3>3. pos' \in Nat \ {0}
      BY <1>0 DEF TypeOK, StartPool, Shutdown, Signal, QueueWalked, Wake, Join
    <3> QED
      BY <3>1, <3>2, <3>3
  <2>4. mainPc' \in {"idle", "signal", "abortQueued", "abortRunning", "wake", "join"}
    BY <1>0 DEF TypeOK, StartPool, Shutdown, Signal, QueueWalked, Wake, Join
  <2> QED
    BY <1>0, <1>1, <2>1, <2>2, <2>3, <2>4 DEF TypeOK
<1>4. QueueInv' /\ HoldInv' /\ SettledInv' /\ AbortInv'
  <2>1. \A w \in Workers : Holds(w)' <=> Holds(w)
    BY <1>2 DEF Holds
  <2>2. \A w \in Workers : Holds(w) => workerPc'[w] = workerPc[w]
    BY <1>2
  <2>3. QueueInv' /\ SettledInv' /\ AbortInv'
    BY <1>0, <1>1, <2>1 DEF QueueInv, SettledInv, AbortInv
  <2>4. HoldInv'
    BY <1>0, <1>1, <2>1, <2>2 DEF HoldInv
  <2> QED
    BY <2>3, <2>4
<1>5. EndInv'
  <2>1. CASE StartPool
    BY <1>0, <1>1, <2>1 DEF StartPool, EndInv
  <2>2. CASE Join
    <3>1. shutdown' /\ queue' = <<>> /\ mainPc' = "idle"
      BY <1>0, <1>1, <2>2, JobAssumption DEF Join, EndInv
    <3> QED
      BY <2>2, <3>1 DEF Join, EndInv
  <2>3. CASE Shutdown \/ Signal \/ QueueWalked \/ Wake
    BY <1>0, <1>1, <2>3 DEF Shutdown, Signal, QueueWalked, Wake, EndInv
  <2> QED
    BY <2>1, <2>2, <2>3
<1>6. TokenInv'
  <2>1. CASE StartPool
    <3>1. Fetching' = {}
      BY <2>1 DEF StartPool, Fetching
    <3> QED
      BY <2>1, <3>1, FS_EmptySet DEF StartPool, TokenInv
  <2>2. CASE Join
    <3>1. \A w \in Workers : workerPc'[w] # "empty"
      BY <2>2 DEF Join
    <3>2. shutdown'
      BY <1>0, <2>2 DEF Join, EndInv
    <3> QED
      BY <3>1, <3>2 DEF TokenInv
  <2>3. CASE Signal
    <3>1. Fetching' = Fetching
      BY <2>3 DEF Signal, Fetching
    <3> QED
      BY <1>0, <2>3, <3>1, FetchingFinite DEF Signal, TokenInv, PoolInv, TypeOK
  <2>4. CASE Shutdown \/ QueueWalked \/ Wake
    BY <1>0, <2>4 DEF Shutdown, QueueWalked, Wake, TokenInv, PoolInv, EndInv
  <2> QED
    BY <2>1, <2>2, <2>3, <2>4
<1> QED
  BY <1>3, <1>4, <1>5, <1>6 DEF PoolInv

LEMMA AddPool == ASSUME NEW j \in Jobs, PoolInv, Add(j) PROVE PoolInv'
<1> USE DEF Add
<1>0. TypeOK /\ QueueInv /\ HoldInv /\ SettledInv /\ AbortInv /\ EndInv
  BY DEF PoolInv
<1>1. /\ queue' \in Seq(Jobs) /\ Len(queue') = Len(queue) + 1
      /\ \A i \in 1 .. Len(queue) : queue'[i] = queue[i]
      /\ queue'[Len(queue) + 1] = j
      /\ DOMAIN queue = 1 .. Len(queue) /\ DOMAIN queue' = 1 .. Len(queue) + 1
      /\ Len(queue) \in Nat
  BY <1>0 DEF TypeOK
<1>2. TypeOK'
  BY <1>0, <1>1 DEF TypeOK
<1>3. QueueInv'
  <2> SUFFICES ASSUME NEW i \in DOMAIN queue'
               PROVE  /\ queue'[i] \in added'
                      /\ state[queue'[i]] \in {"queued", "aborted"}
                      /\ \A k \in DOMAIN queue' : queue'[k] = queue'[i] => k = i
                      /\ \A w \in Workers : Holds(w)' => job[w] # queue'[i]
    BY DEF QueueInv
  <2>1. CASE i = Len(queue) + 1
    <3>1. queue'[i] = j /\ j \notin added
      BY <1>1, <2>1
    <3> QED
      BY <1>0, <1>1, <2>1, <3>1 DEF QueueInv, HoldInv, AbortInv, Holds
  <2>2. CASE i \in DOMAIN queue
    BY <1>0, <1>1, <2>2 DEF QueueInv, Holds
  <2> QED
    BY <1>1, <2>1, <2>2
<1>4. HoldInv' /\ AbortInv' /\ EndInv'
  BY <1>0 DEF HoldInv, AbortInv, EndInv, Holds
<1>5. SettledInv'
  BY <1>0, <1>1 DEF SettledInv, Holds
<1>6. TokenInv'
  <2>1. Fetching' = Fetching
    BY DEF Fetching
  <2>2. \A w \in Workers : workerPc[w] # "empty"
    BY DEF TokenInv, PoolInv
  <2> QED
    BY <1>0, <1>1, <2>1, <2>2, FetchingFinite DEF TokenInv, PoolInv, TypeOK
<1> QED
  BY <1>2, <1>3, <1>4, <1>5, <1>6 DEF PoolInv

LEMMA AbortQueuedPool == PoolInv /\ AbortQueued => PoolInv'
<1> SUFFICES ASSUME PoolInv, AbortQueued PROVE PoolInv'
  OBVIOUS
<1> USE DEF AbortQueued
<1> DEFINE next == queue[pos]
<1>0. TypeOK /\ QueueInv /\ HoldInv /\ SettledInv /\ AbortInv /\ EndInv
  BY DEF PoolInv
<1>1. pos \in DOMAIN queue /\ DOMAIN queue = 1 .. Len(queue) /\ next \in Jobs
  BY <1>0 DEF TypeOK
<1>2. /\ state' \in [Jobs -> {"queued", "running", "done", "aborted"}]
      /\ \A x \in Jobs : \/ state'[x] = state[x]
                         \/ state'[x] = "aborted" /\ x \in AbortableJobs
  BY <1>0, <1>1, AbortStep
<1>3. CASE next \notin AbortableJobs
  <2> HIDE DEF next
  <2>1. /\ pos' = pos + 1
        /\ UNCHANGED <<queue, running, workerPc, job, added, mainPc, shutdown, semaphore, starts>>
    BY <1>3 DEF next
  <2>2. TypeOK'
    <3>1. pos' \in Nat \ {0}
      BY <1>0, <2>1 DEF TypeOK
    <3>2. shutdown' \in BOOLEAN
      BY <1>0, <2>1 DEF TypeOK
    <3> QED
      BY <1>0, <1>2, <2>1, <3>1, <3>2 DEF TypeOK
  <2>3. EndInv'
    BY <1>0, <2>1 DEF EndInv
  <2>5. TokenInv'
    BY <2>1, SameTokens DEF PoolInv
  <2>4. {next} \in SUBSET Jobs /\ state' = AfterAbort({next})
    BY <1>1 DEF next
  <2> QED
    BY <2>1, <2>2, <2>3, <2>4, <2>5, AbortPool
<1>4. CASE next \in AbortableJobs
  <2>1. /\ queue' \in Seq(Jobs) /\ DOMAIN queue' = 1 .. Len(queue) - 1 /\ Len(queue) \in Nat
        /\ \A k \in 1 .. Len(queue) - 1 : queue'[k] = queue[IF k < pos THEN k ELSE k + 1]
    BY <1>0, <1>1, <1>4, Unlink DEF TypeOK
  <2>2. state'[next] = "aborted" /\ UNCHANGED <<running, workerPc, job, added, mainPc, shutdown>>
    BY <1>0, <1>1, <1>4 DEF AfterAbort
  <2>3. TypeOK'
    BY <1>0, <1>2, <1>4, <2>1 DEF TypeOK
  <2> HIDE DEF next
  <2>4. QueueInv'
    <3> SUFFICES ASSUME NEW i \in DOMAIN queue'
                 PROVE  /\ queue'[i] \in added'
                        /\ state'[queue'[i]] \in {"queued", "aborted"}
                        /\ \A k \in DOMAIN queue' : queue'[k] = queue'[i] => k = i
                        /\ \A w \in Workers : Holds(w)' => job'[w] # queue'[i]
      BY DEF QueueInv
    <3> DEFINE from(k) == IF k < pos THEN k ELSE k + 1
    <3>1. \A k \in DOMAIN queue' : from(k) \in DOMAIN queue /\ queue'[k] = queue[from(k)]
      BY <1>1, <2>1
    <3>2. \A k \in DOMAIN queue' : from(k) = from(i) => k = i
      BY <1>1, <2>1
    <3> HIDE DEF from
    <3>3. queue[from(i)] \in Jobs
      BY <1>0, <3>1 DEF TypeOK
    <3>4. state'[queue[from(i)]] \in {"queued", "aborted"}
      BY <1>0, <1>2, <3>1, <3>3 DEF QueueInv
    <3> QED
      BY <1>0, <2>2, <3>1, <3>2, <3>4 DEF QueueInv, Holds
  <2>5. HoldInv'
    <3>1. \A w \in Workers : Holds(w) => job[w] \in Jobs
      BY <1>0 DEF TypeOK, HoldInv
    <3> QED
      BY <1>0, <1>2, <2>2, <3>1 DEF HoldInv, Holds
  <2>6. SettledInv'
    <3> SUFFICES ASSUME NEW j \in added
                 PROVE  \/ \E i \in DOMAIN queue' : queue'[i] = j
                        \/ \E w \in Workers : Holds(w)' /\ job'[w] = j
                        \/ state'[j] \in {"done", "aborted"}
      BY <2>2 DEF SettledInv
    <3>1. CASE \E i \in DOMAIN queue : queue[i] = j
      <4>1. PICK i \in DOMAIN queue : queue[i] = j
        BY <3>1
      <4>2. CASE i = pos
        BY <2>2, <4>1, <4>2 DEF next
      <4>3. CASE i < pos
        <5>1. i \in DOMAIN queue' /\ queue'[i] = j
          BY <1>1, <2>1, <4>1, <4>3
        <5> QED
          BY <5>1
      <4>4. CASE i > pos
        <5>1. i - 1 \in DOMAIN queue' /\ queue'[i - 1] = j
          BY <1>1, <2>1, <4>1, <4>4
        <5> QED
          BY <5>1
      <4> QED
        BY <1>1, <4>2, <4>3, <4>4
    <3>2. CASE \E w \in Workers : Holds(w) /\ job[w] = j
      BY <2>2, <3>2 DEF Holds
    <3>3. CASE state[j] \in {"done", "aborted"}
      BY <1>0, <1>2, <3>3 DEF TypeOK
    <3> QED
      BY <1>0, <3>1, <3>2, <3>3 DEF SettledInv
  <2>7. AbortInv'
    BY <1>0, <1>2, <2>2 DEF AbortInv
  <2>8. EndInv'
    <3>1. queue # <<>>
      BY <1>1
    <3> QED
      BY <1>0, <2>2, <3>1 DEF EndInv
  <2>9. TokenInv'
    <3>1. queue # <<>>
      BY <1>1
    <3> QED
      BY <1>0, <2>2, <3>1 DEF EndInv, TokenInv, PoolInv
  <2> QED
    BY <2>3, <2>4, <2>5, <2>6, <2>7, <2>8, <2>9 DEF PoolInv
<1> QED
  BY <1>3, <1>4

-----------------------------------------------------------------------------
(* The steps of a worker.                                                  *)

\* A worker that has no job and does not take one.
LEMMA IdleWorkerPool ==
    ASSUME NEW w \in Workers, PoolInv, Wait(w) \/ FetchNothing(w) \/ Leave(w)
    PROVE  PoolInv'
<1> USE DEF Wait, FetchNothing, Leave, Goto, mainVars
<1>0. TypeOK /\ QueueInv /\ HoldInv /\ SettledInv /\ AbortInv /\ EndInv /\ TokenInv
  BY DEF PoolInv
<1>1. UNCHANGED <<queue, running, state, job, shutdown, mainPc, pos, added, starts>>
  OBVIOUS
<1>2. \A v \in Workers : /\ Holds(v)' <=> Holds(v)
                         /\ Holds(v) => workerPc'[v] = workerPc[v]
  BY <1>0 DEF TypeOK, Holds, Holding
<1>3. TypeOK'
  <2>1. semaphore' \in Nat
    BY <1>0 DEF TypeOK
  <2>2. workerPc' \in [Workers -> Holding \cup {"none", "wait", "fetch", "empty", "ended"}]
    BY <1>0 DEF TypeOK
  <2> QED
    BY <1>0, <1>1, <2>1, <2>2 DEF TypeOK
<1>4. QueueInv' /\ SettledInv' /\ AbortInv'
  BY <1>0, <1>1, <1>2 DEF QueueInv, SettledInv, AbortInv
<1>5. HoldInv'
  BY <1>0, <1>1, <1>2 DEF HoldInv
<1>6. EndInv'
  <2>1. ASSUME NEW v \in Workers, workerPc'[v] = "ended"
        PROVE  shutdown /\ queue = <<>>
    <3>1. CASE v = w
      <4>1. workerPc[w] = "empty" \/ workerPc[w] = "ended"
        BY <1>0, <2>1, <3>1 DEF TypeOK
      <4> QED
        BY <1>0, <4>1 DEF EndInv, TokenInv
    <3>2. CASE v # w
      BY <1>0, <2>1, <3>2 DEF EndInv, TypeOK
    <3> QED
      BY <3>1, <3>2
  <2>2. ~(mainPc = "idle" /\ shutdown)
    BY <1>0 DEF EndInv
  <2> QED
    BY <1>0, <1>1, <2>1, <2>2 DEF EndInv
<1>7. TokenInv'
  <2>1. CASE Wait(w)
    <3>1. Fetching' = Fetching \cup {w} /\ w \notin Fetching
      BY <1>0, <2>1 DEF Fetching, TypeOK
    <3>2. Cardinality(Fetching') = Cardinality(Fetching) + 1
      BY <3>1, FetchingFinite, FS_AddElement
    <3>3. \A v \in Workers : workerPc'[v] = "empty" => workerPc[v] = "empty"
      BY <1>0, <2>1 DEF TypeOK
    <3> QED
      BY <1>0, <1>1, <2>1, <3>2, <3>3, FetchingFinite DEF TokenInv, TypeOK
  <2>2. CASE FetchNothing(w)
    <3>1. w \in Fetching
      BY <2>2 DEF Fetching
    <3>2. Cardinality(Fetching) # 0
      BY <3>1, FetchingFinite, FS_EmptySet
    <3>3. shutdown /\ queue = <<>>
      BY <1>0, <2>2, <3>2, FetchingFinite DEF TokenInv, TypeOK
    <3> QED
      BY <1>1, <3>3 DEF TokenInv
  <2>3. CASE Leave(w)
    <3>1. workerPc[w] = "empty"
      BY <2>3
    <3>2. shutdown /\ queue = <<>>
      BY <1>0, <3>1 DEF TokenInv
    <3> QED
      BY <1>1, <3>2 DEF TokenInv
  <2> QED
    BY <2>1, <2>2, <2>3
<1> QED
  BY <1>3, <1>4, <1>5, <1>6, <1>7 DEF PoolInv

LEMMA FetchPool == ASSUME NEW w \in Workers, PoolInv, Fetch(w) PROVE PoolInv'
<1> USE DEF Fetch, Goto, mainVars
<1>0. TypeOK /\ QueueInv /\ HoldInv /\ SettledInv /\ AbortInv /\ EndInv /\ TokenInv
  BY DEF PoolInv
<1>1. UNCHANGED <<semaphore, running, state, shutdown, mainPc, pos, added, starts>>
  OBVIOUS
<1>2. /\ queue' \in Seq(Jobs) /\ DOMAIN queue' = 1 .. Len(queue) - 1
      /\ DOMAIN queue = 1 .. Len(queue) /\ Len(queue) \in Nat \ {0}
      /\ \A i \in DOMAIN queue' : queue'[i] = queue[i + 1]
      /\ Len(queue') = Len(queue) - 1
      /\ Head(queue) = queue[1] /\ queue[1] \in Jobs
  BY <1>0 DEF TypeOK
<1>3. /\ \A v \in Workers : v # w => workerPc'[v] = workerPc[v] /\ job'[v] = job[v]
      /\ workerPc[w] = "fetch" /\ workerPc'[w] = "start" /\ job'[w] = queue[1]
      /\ ~Holds(w) /\ Holds(w)'
      /\ \A v \in Workers : v # w => (Holds(v)' <=> Holds(v))
  BY <1>0, <1>2 DEF TypeOK, Holds, Holding
<1>4. TypeOK'
  <2>1. workerPc' \in [Workers -> Holding \cup {"none", "wait", "fetch", "empty", "ended"}]
    BY <1>0 DEF TypeOK, Holding
  <2>2. job' \in [Workers -> Jobs \cup {NoJob}]
    BY <1>0, <1>2 DEF TypeOK
  <2> QED
    BY <1>0, <1>1, <1>2, <2>1, <2>2 DEF TypeOK
<1>5. QueueInv'
  <2> SUFFICES ASSUME NEW i \in DOMAIN queue'
               PROVE  /\ queue'[i] \in added
                      /\ state[queue'[i]] \in {"queued", "aborted"}
                      /\ \A k \in DOMAIN queue' : queue'[k] = queue'[i] => k = i
                      /\ \A v \in Workers : Holds(v)' => job'[v] # queue'[i]
    BY <1>1 DEF QueueInv
  <2>1. i + 1 \in DOMAIN queue /\ queue'[i] = queue[i + 1] /\ i \in Nat
    BY <1>2
  <2>2. \A k \in DOMAIN queue' : queue'[k] = queue'[i] => k = i
    <3> SUFFICES ASSUME NEW k \in DOMAIN queue', queue'[k] = queue'[i] PROVE k = i
      OBVIOUS
    <3>1. k + 1 \in DOMAIN queue /\ queue'[k] = queue[k + 1] /\ k \in Nat
      BY <1>2
    <3>2. k + 1 = i + 1
      BY <1>0, <2>1, <3>1 DEF QueueInv
    <3> QED
      BY <2>1, <3>1, <3>2
  <2>3. queue[1] # queue[i + 1]
    BY <1>0, <1>2, <2>1 DEF QueueInv
  <2> QED
    BY <1>0, <1>3, <2>1, <2>2, <2>3 DEF QueueInv
<1>6. HoldInv'
  <2> SUFFICES ASSUME NEW v \in Workers, Holds(v)'
               PROVE  /\ job'[v] \in added
                      /\ \A u \in Workers : Holds(u)' /\ job'[u] = job'[v] => u = v
                      /\ state[job'[v]] \in IF workerPc'[v] = "start"
                                              THEN {"queued", "aborted"}
                                              ELSE {"running", "aborted"}
                      /\ workerPc'[v] \in {"run", "delist"} => job'[v] \in running
    BY <1>1 DEF HoldInv
  <2>1. CASE v = w
    BY <1>0, <1>2, <1>3, <2>1 DEF QueueInv
  <2>2. CASE v # w
    <3>1. job[v] # queue[1]
      BY <1>0, <1>2, <1>3, <2>2 DEF QueueInv
    <3> QED
      BY <1>0, <1>3, <2>2, <3>1 DEF HoldInv
  <2> QED
    BY <2>1, <2>2
<1>7. SettledInv'
  <2> SUFFICES ASSUME NEW j \in added
               PROVE  \/ \E i \in DOMAIN queue' : queue'[i] = j
                      \/ \E v \in Workers : Holds(v)' /\ job'[v] = j
                      \/ state[j] \in {"done", "aborted"}
    BY <1>1 DEF SettledInv
  <2>1. CASE \E i \in DOMAIN queue : queue[i] = j
    <3>1. PICK i \in DOMAIN queue : queue[i] = j
      BY <2>1
    <3>2. CASE i = 1
      BY <1>3, <3>1, <3>2
    <3>3. CASE i # 1
      <4>1. i - 1 \in DOMAIN queue' /\ queue'[i - 1] = j
        BY <1>2, <3>1, <3>3
      <4> QED
        BY <4>1
    <3> QED
      BY <3>2, <3>3
  <2>2. CASE \E v \in Workers : Holds(v) /\ job[v] = j
    BY <1>3, <2>2
  <2> QED
    BY <1>0, <2>1, <2>2 DEF SettledInv
<1>8. AbortInv' /\ EndInv'
  <2>1. queue # <<>>
    OBVIOUS
  <2>2. \A v \in Workers : workerPc'[v] = "ended" => workerPc[v] = "ended"
    BY <1>3
  <2>3. ~(mainPc = "idle" /\ shutdown)
    BY <1>0, <2>1 DEF EndInv
  <2> QED
    BY <1>0, <1>1, <2>1, <2>2, <2>3 DEF AbortInv, EndInv
<1>9. TokenInv'
  <2>1. Fetching' = Fetching \ {w} /\ w \in Fetching
    BY <1>3 DEF Fetching
  <2>2. Cardinality(Fetching') = Cardinality(Fetching) - 1
    BY <2>1, FetchingFinite, FS_RemoveElement
  <2>3. \A v \in Workers : workerPc'[v] = "empty" => workerPc[v] = "empty"
    BY <1>3
  <2> QED
    BY <1>0, <1>1, <1>2, <2>2, <2>3, FetchingFinite DEF TokenInv, TypeOK
<1> QED
  BY <1>4, <1>5, <1>6, <1>7, <1>8, <1>9 DEF PoolInv

\* A worker that goes on with the job it has, or lets go of it.
LEMMA BusyWorkerPool ==
    ASSUME NEW w \in Workers, PoolInv,
           Start(w) \/ SkipAborted(w) \/ Enlist(w) \/ Run(w) \/ Delist(w) \/ Finish(w)
    PROVE  PoolInv'
<1> USE DEF Start, SkipAborted, Enlist, Run, Delist, Finish, Goto, mainVars
<1> DEFINE j == job[w]
<1>0. TypeOK /\ QueueInv /\ HoldInv /\ SettledInv /\ AbortInv /\ EndInv /\ TokenInv
  BY DEF PoolInv
<1>1. UNCHANGED <<semaphore, queue, shutdown, mainPc, pos, added, starts>>
  OBVIOUS
<1>2. Holds(w) /\ j \in added /\ j \in Jobs
  BY <1>0 DEF HoldInv, Holds, Holding, TypeOK
<1>3. \A v \in Workers : v # w => /\ workerPc'[v] = workerPc[v] /\ job'[v] = job[v]
                                  /\ Holds(v)' <=> Holds(v)
                                  /\ Holds(v) => job[v] # j
  BY <1>0, <1>2 DEF TypeOK, Holds, HoldInv
<1>4. /\ state' \in [Jobs -> {"queued", "running", "done", "aborted"}]
      /\ \A x \in Jobs : x # j => state'[x] = state[x]
      /\ \A x \in Jobs : x # j => (x \in running' <=> x \in running)
  BY <1>0, <1>2 DEF TypeOK
<1>5. \/ /\ Holds(w)' /\ job'[w] = j
         /\ state'[j] \in IF workerPc'[w] = "start" THEN {"queued", "aborted"}
                                                    ELSE {"running", "aborted"}
         /\ workerPc'[w] \in {"run", "delist"} => j \in running'
      \/ ~Holds(w)' /\ state'[j] \in {"done", "aborted"}
  BY <1>0, <1>2 DEF TypeOK, HoldInv, Holds, Holding
<1>6. state'[j] = "aborted" <=> state[j] = "aborted"
  BY <1>0, <1>2 DEF TypeOK, HoldInv, Holds, Holding
<1>7. TypeOK'
  <2>1. workerPc' \in [Workers -> Holding \cup {"none", "wait", "fetch", "empty", "ended"}]
    BY <1>0 DEF TypeOK, Holding
  <2>2. job' \in [Workers -> Jobs \cup {NoJob}]
    BY <1>0 DEF TypeOK
  <2>3. running' \subseteq Jobs
    BY <1>0, <1>2 DEF TypeOK
  <2> QED
    BY <1>0, <1>1, <1>4, <2>1, <2>2, <2>3 DEF TypeOK
<1>8. QueueInv'
  <2>1. \A i \in DOMAIN queue : queue[i] # j /\ queue[i] \in Jobs
    BY <1>0, <1>2 DEF QueueInv, TypeOK
  <2>2. \A v \in Workers : Holds(v)' => Holds(v) /\ job'[v] = job[v]
    BY <1>2, <1>3, <1>5
  <2> QED
    BY <1>0, <1>1, <1>4, <2>1, <2>2 DEF QueueInv
<1>9. HoldInv'
  <2> SUFFICES ASSUME NEW v \in Workers, Holds(v)'
               PROVE  /\ job'[v] \in added
                      /\ \A u \in Workers : Holds(u)' /\ job'[u] = job'[v] => u = v
                      /\ state'[job'[v]] \in IF workerPc'[v] = "start"
                                               THEN {"queued", "aborted"}
                                               ELSE {"running", "aborted"}
                      /\ workerPc'[v] \in {"run", "delist"} => job'[v] \in running'
    BY <1>1 DEF HoldInv
  <2>1. CASE v = w
    BY <1>2, <1>3, <1>5, <2>1
  <2>2. CASE v # w
    <3>1. Holds(v) /\ job'[v] = job[v] /\ job[v] # j /\ job[v] \in Jobs
      BY <1>0, <1>3, <2>2 DEF HoldInv, TypeOK
    <3> QED
      BY <1>0, <1>2, <1>3, <1>4, <1>5, <2>2, <3>1 DEF HoldInv
  <2> QED
    BY <2>1, <2>2
<1>10. SettledInv'
  <2> SUFFICES ASSUME NEW x \in added
               PROVE  \/ \E i \in DOMAIN queue : queue[i] = x
                      \/ \E v \in Workers : Holds(v)' /\ job'[v] = x
                      \/ state'[x] \in {"done", "aborted"}
    BY <1>1 DEF SettledInv
  <2>1. CASE x = j
    BY <1>5, <2>1
  <2>2. CASE x # j
    <3>1. x \in Jobs
      BY <1>0 DEF TypeOK
    <3> QED
      BY <1>0, <1>3, <1>4, <2>2, <3>1 DEF SettledInv
  <2> QED
    BY <2>1, <2>2
<1>11. AbortInv'
  BY <1>0, <1>1, <1>2, <1>4, <1>6 DEF AbortInv
<1>12. EndInv' /\ TokenInv'
  <2>1. \A v \in Workers : workerPc'[v] \in {"ended", "empty", "fetch", "none"}
                            <=> workerPc[v] \in {"ended", "empty", "fetch", "none"}
    BY <1>0 DEF TypeOK
  <2>2. \A v \in Workers : workerPc[v] \in {"ended", "empty", "fetch", "none"}
                               => workerPc'[v] = workerPc[v]
    BY <1>0 DEF TypeOK
  <2>3. Fetching' = Fetching
    BY <2>1, <2>2 DEF Fetching
  <2> QED
    BY <1>0, <1>1, <2>1, <2>2, <2>3 DEF EndInv, TokenInv
<1> QED
  BY <1>7, <1>8, <1>9, <1>10, <1>11, <1>12 DEF PoolInv

-----------------------------------------------------------------------------
LEMMA StepPool == PoolInv /\ [Next]_vars => PoolInv'
<1> SUFFICES ASSUME PoolInv, [Next]_vars PROVE PoolInv'
  OBVIOUS
<1>1. CASE StartPool \/ Shutdown \/ Signal \/ QueueWalked \/ Wake \/ Join
  BY <1>1, MainPool
<1>2. CASE AbortQueued
  BY <1>2, AbortQueuedPool
<1>3. CASE AbortRunning
  <2>1. /\ running \in SUBSET Jobs /\ state' = AfterAbort(running)
        /\ UNCHANGED <<queue, running, workerPc, job, added, shutdown, semaphore, pos, starts>>
        /\ mainPc = "abortRunning" /\ mainPc' = "wake"
    BY <1>3 DEF AbortRunning, PoolInv, TypeOK
  <2>2. TypeOK'
    BY <2>1, AbortStep DEF PoolInv, TypeOK
  <2>3. EndInv' /\ TokenInv'
    BY <2>1 DEF PoolInv, EndInv, TokenInv, Fetching
  <2> QED
    BY <2>1, <2>2, <2>3, AbortPool
<1>4. ASSUME NEW j \in Jobs, AddRefused(j) \/ Abort(j) PROVE PoolInv'
  <2>1. /\ {j} \in SUBSET Jobs /\ state' = AfterAbort({j})
        /\ UNCHANGED <<queue, running, workerPc, job, semaphore, mainVars>>
    BY <1>4 DEF AddRefused, Abort
  <2>2. TypeOK'
    BY <2>1, AbortStep DEF PoolInv, TypeOK, mainVars
  <2>3. EndInv' /\ TokenInv'
    BY <2>1 DEF PoolInv, EndInv, TokenInv, Fetching, mainVars
  <2> QED
    BY <2>1, <2>2, <2>3, AbortPool DEF mainVars
<1>5. ASSUME NEW j \in Jobs, Add(j) PROVE PoolInv'
  BY <1>5, AddPool
<1>6. ASSUME NEW w \in Workers, Worker(w) PROVE PoolInv'
  BY <1>6, IdleWorkerPool, FetchPool, BusyWorkerPool DEF Worker
<1>7. CASE UNCHANGED vars
  BY <1>7 DEF vars, mainVars, PoolInv, TypeOK, QueueInv, HoldInv, SettledInv, AbortInv, EndInv,
              TokenInv, Fetching, Holds
<1> QED
  BY <1>1, <1>2, <1>3, <1>4, <1>5, <1>6, <1>7 DEF Next, InCall

(***************************************************************************)
(* The inductive invariant: each added job is in the queue, with one       *)
(* worker, or settled, and a token of the semaphore stands for a queued    *)
(* job until Shutdown hands out its own.                                   *)
(***************************************************************************)
THEOREM PoolDiscipline == Spec => []PoolInv
BY InitPool, StepPool, PTL DEF Spec

(***************************************************************************)
(* RunLoop's assertions never fail: no abort, however it falls between the *)
(* steps of a worker, leads to an invalid job state (jobs.cpp:96, 117).    *)
(***************************************************************************)
THEOREM AssertionsAlwaysHold == Spec => []AssertionsHold
<1>1. PoolInv => AssertionsHold
  BY DEF PoolInv, HoldInv, AssertionsHold, Holds, Holding
<1> QED
  BY <1>1, PoolDiscipline, PTL

(***************************************************************************)
(* Jobs that cannot be aborted are complete when Shutdown has returned     *)
(* (jobs.h:114), for any number of jobs and threads.                       *)
(***************************************************************************)
THEOREM ShutdownCompletes == Spec => []CompletedAtShutdown
<1>1. PoolInv => CompletedAtShutdown
  <2> SUFFICES ASSUME PoolInv, mainPc = "idle", shutdown, NEW j \in added
               PROVE  state[j] = "done" \/ (j \in AbortableJobs /\ state[j] = "aborted")
    BY DEF CompletedAtShutdown
  <2>1. queue = <<>> /\ \A w \in Workers : ~Holds(w)
    BY DEF PoolInv, EndInv, Holds, Holding
  <2>2. state[j] \in {"done", "aborted"}
    BY <2>1 DEF PoolInv, SettledInv
  <2> QED
    BY <2>2 DEF PoolInv, AbortInv, TypeOK
<1> QED
  BY <1>1, PoolDiscipline, PTL

(***************************************************************************)
(* No step of the main thread or of a worker takes a job out of the        *)
(* aborted state.                                                          *)
(***************************************************************************)
THEOREM AbortsAreFinal == Spec => AbortedIsFinal
<1>1. PoolInv /\ [Next]_vars => [\A j \in Jobs : state[j] = "aborted" => state'[j] = "aborted"]_vars
  <2> SUFFICES ASSUME PoolInv, Next, NEW j \in Jobs, state[j] = "aborted"
               PROVE  state'[j] = "aborted"
    OBVIOUS
  <2>0. TypeOK
    BY DEF PoolInv
  <2>1. ASSUME NEW js, state' = AfterAbort(js) PROVE state'[j] = "aborted"
    BY <2>1 DEF AfterAbort
  <2>2. CASE StartPool \/ Shutdown \/ InCall
    BY <2>1, <2>2 DEF StartPool, Shutdown, InCall, Signal, AbortQueued, QueueWalked,
                      AbortRunning, Wake, Join
  <2>3. CASE \E x \in Jobs : AddRefused(x) \/ Add(x) \/ Abort(x)
    BY <2>1, <2>3 DEF AddRefused, Add, Abort
  <2>4. ASSUME NEW w \in Workers, Worker(w) PROVE state'[j] = "aborted"
    BY <2>0, <2>4 DEF Worker, Wait, Fetch, FetchNothing, Leave, Start, SkipAborted, Enlist,
                      Run, Delist, Finish, TypeOK
  <2> QED
    BY <2>2, <2>3, <2>4 DEF Next
<1> QED
  BY <1>1, PoolDiscipline, PTL DEF Spec, AbortedIsFinal
=============================================================================
