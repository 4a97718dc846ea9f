------------------------ MODULE ConnectionPoolProofs ------------------------
(***************************************************************************)
(* Proofs about ConnectionPool for every value of its constants, under the *)
(* one condition the code relies on without checking it: fewer requests    *)
(* are outstanding than the ring has slots.                                *)
(***************************************************************************)
EXTENDS ConnectionPool, TLAPS, FiniteSetTheorems

\* Two jobs less than a ring apart use different slots.
LEMMA SlotsDiffer ==
    ASSUME NEW a \in Nat, NEW b \in Nat, a < b, b - a < RingSize
    PROVE  SlotOf(a) # SlotOf(b)
<1> DEFINE qa == a \div RingSize
           qb == b \div RingSize
<1>0. RingSize \in Nat \ {0}
  BY RingAssumption
<1>1. a = (RingSize * qa) + (a % RingSize) /\ qa \in Int /\ a % RingSize \in Nat
  BY <1>0
<1>2. b = (RingSize * qb) + (b % RingSize) /\ qb \in Int /\ b % RingSize \in Nat
  BY <1>0
<1> HIDE DEF qa, qb
<1>3. ASSUME a % RingSize = b % RingSize PROVE FALSE
  <2>1. b - a = RingSize * (qb - qa)
    BY <1>0, <1>1, <1>2, <1>3
  <2>2. CASE qb - qa <= 0
    <3>1. RingSize * (qb - qa) <= 0
      BY <2>2, <1>0, <1>1, <1>2
    <3> QED
      BY <3>1, <2>1
  <2>3. CASE qb - qa > 0
    <3>1. RingSize * (qb - qa) >= RingSize
      BY <2>3, <1>0, <1>1, <1>2
    <3> QED
      BY <3>1, <2>1, <1>0
  <2> QED
    BY <2>2, <2>3, <1>1, <1>2
<1> QED
  BY <1>3 DEF SlotOf

\* A job and the one a whole ring later use the same slot.
LEMMA SlotWraps ==
    ASSUME NEW a \in Nat
    PROVE  SlotOf(a + RingSize) = SlotOf(a)
<1> DEFINE q == a \div RingSize
           p == (a + RingSize) \div RingSize
           r == a % RingSize
           s == (a + RingSize) % RingSize
<1>0. RingSize \in Nat \ {0}
  BY RingAssumption
<1>1. a = (RingSize * q) + r /\ q \in Int /\ r \in Nat /\ r < RingSize
  BY <1>0
<1>2. a + RingSize = (RingSize * p) + s /\ p \in Int /\ s \in Nat /\ s < RingSize
  BY <1>0
<1> HIDE DEF p, q, r, s
<1>3. r - s = RingSize * (p - q - 1)
  BY <1>0, <1>1, <1>2
<1>4. CASE p - q - 1 >= 1
  <2>1. RingSize * (p - q - 1) >= RingSize
    BY <1>0, <1>1, <1>2, <1>4
  <2> QED
    BY <2>1, <1>0, <1>1, <1>2, <1>3
<1>5. CASE p - q - 1 <= -1
  <2>1. RingSize * (p - q - 1) <= -RingSize
    BY <1>0, <1>1, <1>2, <1>5
  <2> QED
    BY <2>1, <1>0, <1>1, <1>2, <1>3
<1>6. CASE p - q - 1 = 0
  <2>1. r = s
    BY <1>0, <1>1, <1>2, <1>3, <1>6
  <2> QED
    BY <2>1 DEF r, s, SlotOf
<1> QED
  BY <1>1, <1>2, <1>4, <1>5, <1>6

LEMMA SlotType ==
    ASSUME NEW a \in Nat
    PROVE  SlotOf(a) \in Slot
BY RingAssumption DEF SlotOf, Slot
\* Reading and updating an element of a sequence.
LEMMA SeqElement ==
    ASSUME NEW S, NEW s \in Seq(S), NEW i, i \in 1 .. Len(s)
    PROVE  s[i] \in S
OBVIOUS

LEMMA SeqUpdate ==
    ASSUME NEW S, NEW s \in Seq(S), NEW i, NEW e \in S
    PROVE  /\ [s EXCEPT ![i] = e] \in Seq(S)
           /\ Len([s EXCEPT ![i] = e]) = Len(s)
<1>1. s \in [1 .. Len(s) -> S] /\ Len(s) \in Nat
  OBVIOUS
<1>2. [s EXCEPT ![i] = e] \in [1 .. Len(s) -> S]
  BY <1>1
<1> QED
  BY <1>1, <1>2
-----------------------------------------------------------------------------
(* The discipline of the ring.                                             *)

Released == IF mainPc = "run" THEN 0 ELSE 1

\* Jobs Taken .. Len(requests) - 1 are in their slots, the other slots of the
\* ring are empty.
WindowInv ==
    /\ \A job \in Nat : Taken <= job /\ job < Len(requests)
                           => slots[SlotOf(job)] = job + 1
    /\ \A job \in Nat : Len(requests) <= job /\ job < Taken + RingSize
                           => slots[SlotOf(job)] = Null

\* The semaphores count what lies between the threads.
CountInv ==
    /\ Taken <= backupJob /\ backupJob <= Len(requests)
    /\ Len(requests) - Taken <= MaxOutstanding
    /\ numBackup = Len(requests) - backupJob + Released
                   - (IF backupPc = "wait" THEN 0 ELSE 1)
    /\ numWorker = backupJob - Taken + (IF backupPc = "done" THEN 1 ELSE 0)
                   - (IF workerPc = "done" THEN 1 ELSE 0)
    /\ backupPc = "exec" => backupJob < Len(requests)
    /\ backupPc = "done" => backupJob = Len(requests) /\ mainPc # "run"
    /\ workerPc = "done" => Taken = Len(requests) /\ backupPc = "done"

\* Each thread holds the request of its own job number.
HeldInv ==
    /\ backupReq = IF backupPc = "exec" THEN backupJob + 1 ELSE Null
    /\ workerReq = IF Busy THEN workerJob + 1 ELSE Null
    /\ Len(results) = Len(requests)
    /\ \A id \in 1 .. Len(requests) : id <= workerJob => results[id] # "pending"

RingInv == TypeOK /\ WindowInv /\ CountInv /\ HeldInv

\* The slot a thread looks at next holds its request, or nothing when every
\* request was taken.
LEMMA NextSlot ==
    ASSUME RingInv, MaxOutstanding < RingSize,
           NEW job \in Nat, Taken <= job, job <= Len(requests)
    PROVE  slots[SlotOf(job)] = IF job < Len(requests) THEN job + 1 ELSE Null
<1>1. Len(requests) < Taken + RingSize /\ Len(requests) \in Nat /\ Taken \in Nat
  BY RingAssumption DEF RingInv, CountInv, TypeOK, Taken
<1> QED
  BY <1>1 DEF RingInv, WindowInv

LEMMA InitRing == ASSUME Init PROVE RingInv
<1>1. TypeOK
  <2>1. requests \in Seq([kind : Kinds, player : Players \cup {NoPlayer}])
    BY DEF Init
  <2>2. results \in Seq({"pending", "ok", "failed"})
    BY DEF Init
  <2>3. slots \in [Slot -> Nat] /\ points \in [Players -> Nat]
    BY DEF Init, Null
  <2>4. workerPc \in WorkerPcs
    BY DEF Init, WorkerPcs
  <2> QED
    BY <2>1, <2>2, <2>3, <2>4 DEF Init, TypeOK, Null
<1>2. Len(requests) = 0 /\ Taken = 0 /\ Released = 0
  BY DEF Init, Taken, Busy, Released
<1>3. WindowInv
  BY <1>2, SlotType DEF Init, WindowInv
<1>4. CountInv
  BY <1>2, RingAssumption DEF Init, CountInv
<1>5. HeldInv
  BY <1>2 DEF Init, HeldInv, Busy, Null
<1> QED
  BY <1>1, <1>3, <1>4, <1>5 DEF RingInv

-----------------------------------------------------------------------------
(* Type correctness of one step.                                           *)

LEMMA EnqueueType ==
    ASSUME RingInv, NEW kind \in Kinds, NEW player \in Players \cup {NoPlayer},
           Enqueue(kind, player)
    PROVE  TypeOK'
<1> USE DEF RingInv, TypeOK, Enqueue
<1>1. requests' \in Seq([kind : Kinds, player : Players \cup {NoPlayer}])
  OBVIOUS
<1>2. results' \in Seq({"pending", "ok", "failed"})
  OBVIOUS
<1>3. slots' \in [Slot -> Nat]
  <2>1. Len(requests) + 1 \in Nat
    OBVIOUS
  <2> QED
    BY <2>1
<1>4. numBackup' \in Nat
  OBVIOUS
<1> QED
  BY <1>1, <1>2, <1>3, <1>4
     DEF backupVars, connVars, localVars, tableVars

LEMMA BackupType == ASSUME RingInv, Backup PROVE TypeOK'
<1> USE DEF RingInv, TypeOK, BackupWait, mainVars, workerVars, connVars,
            localVars, tableVars
<1>1. CASE BackupEnd
  BY <1>1 DEF BackupEnd
<1>2. CASE BackupPass
  BY <1>2 DEF BackupPass
<1>3. CASE BackupTake
  <2>1. slots[SlotOf(backupJob)] \in Nat
    BY SlotType
  <2> QED
    BY <1>3, <2>1 DEF BackupTake
<1>4. CASE BackupExec
  <2>1. backupReq \in RequestId
    BY <1>4 DEF BackupExec, HeldInv, RequestId
  <2>2. backupRace' \subseteq RequestId
    BY <1>4, <2>1 DEF BackupExec
  <2> QED
    BY <1>4, <2>2 DEF BackupExec, Null
<1> QED
  BY <1>1, <1>2, <1>3, <1>4 DEF Backup

LEMMA WriteType == ASSUME RingInv, Write PROVE TypeOK'
<1> USE DEF RingInv, TypeOK, KeepOnWrite, mainVars, semVars, backupVars,
            connVars, tableVars, WorkerPcs
<1>1. ASSUME NEW ok \in BOOLEAN, AfterNormal(ok)
      PROVE  success' \in BOOLEAN /\ failMode' \in BOOLEAN /\ workerPc' \in WorkerPcs
  BY <1>1 DEF AfterNormal
<1>2. ASSUME Busy PROVE workerReq \in RequestId
  BY <1>2 DEF HeldInv, RequestId
<1>3. CASE WriteRefused
  BY <1>1, <1>3 DEF WriteRefused
<1>4. CASE WriteNormal
  BY <1>4 DEF WriteNormal
<1>5. CASE AddPoints
  <2>1. points' \in [Players -> Nat]
    <3>1. CASE points' = points
      BY <3>1
    <3>2. CASE points' = [points EXCEPT ![Player(workerReq)] = @ + 1]
      <4>1. Player(workerReq) \in Players => points[Player(workerReq)] + 1 \in Nat
        OBVIOUS
      <4> QED
        BY <3>2, <4>1
    <3> QED
      BY <1>5, <3>1, <3>2 DEF AddPoints
  <2>2. success' \in BOOLEAN /\ failMode' \in BOOLEAN /\ workerPc' \in WorkerPcs
    BY <1>1, <1>5 DEF AddPoints
  <2> QED
    BY <1>5, <2>1, <2>2 DEF AddPoints
<1>6. CASE InsertRank
  <2>1. mainRace' \subseteq RequestId
    BY <1>2, <1>6 DEF InsertRank, Busy
  <2>2. success' \in BOOLEAN /\ failMode' \in BOOLEAN /\ workerPc' \in WorkerPcs
    BY <1>1, <1>6 DEF InsertRank
  <2> QED
    BY <1>6, <2>1, <2>2 DEF InsertRank
<1>7. CASE DeleteBackup
  <2>1. backupRace' \subseteq RequestId
    BY <1>7 DEF DeleteBackup
  <2> QED
    BY <1>7, <2>1 DEF DeleteBackup
<1>8. CASE CopyBackup
  <2>1. fileRace' \subseteq RequestId
    BY <1>8 DEF CopyBackup
  <2>2. workerPc' \in WorkerPcs
    BY <1>8 DEF CopyBackup
  <2> QED
    BY <1>8, <2>1, <2>2 DEF CopyBackup
<1>9. CASE DeleteCopied
  <2>1. backupRace' \subseteq RequestId /\ success' \in BOOLEAN
    BY <1>9 DEF DeleteCopied
  <2> QED
    BY <1>9, <2>1 DEF DeleteCopied
<1> QED
  BY <1>3, <1>4, <1>5, <1>6, <1>7, <1>8, <1>9 DEF Write

LEMMA WorkerTakes ==
    ASSUME RingInv, MaxOutstanding < RingSize, WorkerTake
    PROVE  /\ Taken = workerJob /\ workerJob < Len(requests)
           /\ workerReq' = workerJob + 1 /\ workerPc' \in Kinds
<1>1. workerJob \in Nat /\ Taken = workerJob /\ workerJob <= Len(requests)
  BY DEF WorkerTake, WorkerWait, Taken, Busy, RingInv, TypeOK, CountInv
<1>2. slots[SlotOf(workerJob)]
        = IF workerJob < Len(requests) THEN workerJob + 1 ELSE Null
  BY <1>1, NextSlot
<1>3. workerJob < Len(requests) /\ workerReq' = workerJob + 1
  BY <1>1, <1>2 DEF WorkerTake
<1>4. workerReq' \in 1 .. Len(requests)
  BY <1>1, <1>3 DEF RingInv, TypeOK
<1>5. requests[workerReq'] \in [kind : Kinds, player : Players \cup {NoPlayer}]
  <2>1. requests \in Seq([kind : Kinds, player : Players \cup {NoPlayer}])
    BY DEF RingInv, TypeOK
  <2> QED
    BY <2>1, <1>4, SeqElement
<1> QED
  BY <1>1, <1>3, <1>5 DEF WorkerTake, Kind

LEMMA WorkerType ==
    ASSUME RingInv, MaxOutstanding < RingSize, Worker
    PROVE  TypeOK'
<1>0. TypeOK
  BY DEF RingInv
<1> USE DEF TypeOK, mainVars, semVars, backupVars, connVars, localVars,
            tableVars, WorkerPcs
<1>1. CASE WorkerTop
  BY <1>0, <1>1 DEF WorkerTop
<1>2. ASSUME WorkerWait
      PROVE  slots' \in [Slot -> Nat] /\ numWorker' \in Nat
  <2>1. numWorker' \in Nat
    BY <1>0, <1>2 DEF WorkerWait
  <2>2. slots' \in [Slot -> Nat]
    BY <1>0, <1>2 DEF WorkerWait, Null
  <2> QED
    BY <2>1, <2>2
<1>3. CASE WorkerEnd
  BY <1>0, <1>2, <1>3 DEF WorkerEnd, WorkerWait
<1>4. CASE WorkerTake
  <2>1. workerReq' \in Nat /\ workerPc' \in WorkerPcs
    BY <1>0, <1>4, WorkerTakes
  <2> QED
    BY <1>0, <1>2, <1>4, <2>1 DEF WorkerTake, WorkerWait
<1>5. CASE Read
  <2>1. tried < readConns => (readServer + tried) % readConns \in Nat
    BY <1>0
  <2>2. readServer' \in Nat
    BY <1>0, <1>5, <2>1 DEF Read
  <2>3. tried' \in Nat /\ workerPc' \in WorkerPcs
    BY <1>0, <1>5 DEF Read
  <2>4. success' \in BOOLEAN /\ failMode' \in BOOLEAN
    BY <1>0, <1>5 DEF Read
  <2> QED
    BY <1>0, <1>5, <2>2, <2>3, <2>4 DEF Read
<1>6. CASE Write
  BY <1>6, WriteType
<1>7. CASE Configure
  BY <1>0, <1>7 DEF Configure
<1>8. CASE Complete
  <2>1. results' \in Seq({"pending", "ok", "failed"})
    <3>1. results \in Seq({"pending", "ok", "failed"})
      BY <1>0
    <3>2. results' = [results EXCEPT ![workerReq] = IF success THEN "ok" ELSE "failed"]
      BY <1>8 DEF Complete
    <3> QED
      BY <3>1, <3>2, SeqUpdate
  <2> QED
    BY <1>0, <1>8, <2>1 DEF Complete, Null
<1> QED
  BY <1>1, <1>3, <1>4, <1>5, <1>6, <1>7, <1>8 DEF Worker

LEMMA MainType == ASSUME RingInv, Main PROVE TypeOK'
<1> USE DEF RingInv, TypeOK, mainVars, semVars, backupVars, workerVars, connVars,
            localVars, tableVars
<1>1. CASE Register
  <2>1. Len(requests) + 1 \in DOMAIN Startup
    BY <1>1, RingAssumption DEF Register
  <2>2. Startup[Len(requests) + 1] \in Kinds
    BY <2>1, RingAssumption DEF Registrations, Kinds
  <2> QED
    BY <1>1, <2>2, EnqueueType DEF Register
<1>2. CASE Execute
  <2>1. \E kind \in Kinds : Enqueue(kind, NoPlayer)
    BY <1>2, RingAssumption DEF Execute, Kinds
  <2> QED
    BY <2>1, EnqueueType
<1>3. CASE ExecuteWrite
  BY <1>3, EnqueueType DEF ExecuteWrite, Kinds
<1>4. CASE OnShutdown
  BY <1>4 DEF OnShutdown
<1>5. CASE ShutdownSeen
  BY <1>5 DEF ShutdownSeen
<1>6. CASE Join
  BY <1>6 DEF Join
<1> QED
  BY <1>1, <1>2, <1>3, <1>4, <1>5, <1>6 DEF Main
-----------------------------------------------------------------------------
(* The ring discipline is inductive.                                       *)

\* Steps that touch neither the ring nor a semaphore nor a job number.
LEMMA QuietStep ==
    ASSUME RingInv, TypeOK',
           UNCHANGED <<requests, slots, numBackup, numWorker, backupPc, backupJob,
                       backupReq, workerJob, workerReq, results>>,
           Busy' = Busy, (workerPc' = "done") <=> (workerPc = "done"),
           (mainPc' = "run") <=> (mainPc = "run")
    PROVE  RingInv'
<1>1. Taken' = Taken /\ Released' = Released
  BY DEF Taken, Released
<1>2. WindowInv'
  BY <1>1 DEF RingInv, WindowInv, SlotOf
<1>3. CountInv'
  BY <1>1 DEF RingInv, CountInv
<1>4. HeldInv'
  BY DEF RingInv, HeldInv
<1> QED
  BY <1>2, <1>3, <1>4 DEF RingInv

LEMMA WriteIsQuiet == ASSUME RingInv, TypeOK', Write PROVE RingInv'
<1>1. \A ok : AfterNormal(ok) => workerPc' \in {"complete", "succeeded", "failed"}
  BY DEF AfterNormal
<1>2. Busy /\ Busy'
  <2>1. workerPc \in {"write", "points", "insert", "succeeded", "failed", "copied"}
    BY DEF Write, WriteRefused, WriteNormal, AddPoints, InsertRank, DeleteBackup,
           CopyBackup, DeleteCopied
  <2>2. workerPc' \in {"complete", "succeeded", "failed", "points", "insert", "copied"}
    BY <1>1 DEF Write, WriteRefused, WriteNormal, AddPoints, InsertRank,
                DeleteBackup, CopyBackup, DeleteCopied
  <2> QED
    BY <2>1, <2>2 DEF Busy
<1>3. KeepOnWrite
  BY DEF Write, WriteRefused, WriteNormal, AddPoints, InsertRank, DeleteBackup,
         CopyBackup, DeleteCopied
<1> QED
  BY <1>2, <1>3, QuietStep DEF KeepOnWrite, mainVars, semVars, backupVars, Busy

LEMMA Bounds ==
    ASSUME RingInv
    PROVE  /\ Len(requests) \in Nat /\ Taken \in Nat /\ workerJob \in Nat
           /\ backupJob \in Nat /\ workerJob <= Taken
           /\ Taken <= backupJob /\ backupJob <= Len(requests)
           /\ Len(requests) - Taken <= MaxOutstanding
           /\ MaxOutstanding \in Nat /\ RingSize \in Nat
<1>1. Len(requests) \in Nat /\ workerJob \in Nat /\ backupJob \in Nat
  BY DEF RingInv, TypeOK
<1>2. Taken \in Nat /\ workerJob <= Taken
  BY <1>1 DEF Taken
<1> QED
  BY <1>1, <1>2, RingAssumption DEF RingInv, CountInv

LEMMA EnqueueRing ==
    ASSUME RingInv, MaxOutstanding < RingSize, TypeOK',
           NEW kind, NEW player, Enqueue(kind, player)
    PROVE  RingInv'
<1> DEFINE n == Len(requests)
<1>0. /\ TypeOK /\ n \in Nat /\ Taken \in Nat /\ Taken <= n
      /\ n - Taken < MaxOutstanding /\ RingSize \in Nat /\ MaxOutstanding \in Nat
  BY Bounds DEF RingInv, Enqueue
<1>1. Len(requests') = n + 1 /\ Taken' = Taken /\ Released' = Released
  BY <1>0 DEF Enqueue, Taken, Busy, Released, TypeOK
<1>2. slots' = [slots EXCEPT ![SlotOf(n)] = n + 1]
  BY DEF Enqueue, InsertIdx
<1>3. \A job \in Nat : SlotOf(job) \in Slot
  BY SlotType
<1>4. WindowInv'
  <2>1. ASSUME NEW job \in Nat, Taken <= job, job < n + 1
        PROVE  slots'[SlotOf(job)] = job + 1
    <3>1. CASE job = n
      BY <1>0, <1>2, <1>3, <3>1 DEF TypeOK
    <3>2. CASE job < n
      <4>1. SlotOf(job) # SlotOf(n)
        BY <1>0, <2>1, <3>2, SlotsDiffer, RingAssumption
      <4> QED
        BY <1>0, <1>2, <1>3, <2>1, <3>2, <4>1 DEF TypeOK, RingInv, WindowInv
    <3> QED
      BY <1>0, <2>1, <3>1, <3>2
  <2>2. ASSUME NEW job \in Nat, n + 1 <= job, job < Taken + RingSize
        PROVE  slots'[SlotOf(job)] = Null
    <3>1. SlotOf(n) # SlotOf(job)
      BY <1>0, <2>2, SlotsDiffer, RingAssumption
    <3>2. slots[SlotOf(job)] = Null
      BY <1>0, <2>2 DEF RingInv, WindowInv
    <3> QED
      BY <1>0, <1>2, <1>3, <3>1, <3>2 DEF TypeOK
  <2> QED
    BY <1>1, <2>1, <2>2 DEF WindowInv, SlotOf
<1>5. CountInv'
  <2>1. /\ UNCHANGED <<numWorker, mainPc, backupPc, backupJob, workerPc>>
        /\ numBackup' = numBackup + 1 /\ mainPc = "run"
    BY DEF Enqueue, backupVars
  <2>2. backupJob \in Nat /\ Taken <= backupJob /\ backupJob <= n
    BY Bounds
  <2>3. CountInv
    BY DEF RingInv
  <2> QED
    BY <1>0, <1>1, <2>1, <2>2, <2>3 DEF CountInv, Released
<1>6. HeldInv'
  <2>1. Len(results) = n /\ results \in Seq({"pending", "ok", "failed"})
    BY <1>0 DEF RingInv, HeldInv, TypeOK
  <2>2. results' = Append(results, "pending")
    BY DEF Enqueue
  <2>3. Len(results') = n + 1 /\ \A id \in 1 .. n : results'[id] = results[id]
    BY <2>1, <2>2
  <2>4. workerJob \in Nat /\ workerJob <= n
    BY <1>0 DEF TypeOK, Taken
  <2>5. \A id \in 1 .. n + 1 : id <= workerJob => results'[id] # "pending"
    BY <1>0, <2>3, <2>4 DEF RingInv, HeldInv
  <2> QED
    BY <1>1, <2>3, <2>5 DEF RingInv, HeldInv, Enqueue, backupVars, Busy
<1> QED
  BY <1>4, <1>5, <1>6 DEF RingInv

\* OnShutdown and the backup thread leave the slots and the worker alone.
LEMMA WindowKept ==
    ASSUME RingInv, UNCHANGED <<requests, slots, workerPc, workerJob>>
    PROVE  WindowInv' /\ Taken' = Taken
BY DEF RingInv, WindowInv, Taken, Busy, SlotOf

LEMMA OnShutdownRing == ASSUME RingInv, TypeOK', OnShutdown PROVE RingInv'
<1>1. /\ UNCHANGED <<requests, slots, numWorker, backupPc, backupJob, backupReq,
                     workerPc, workerJob, workerReq, results>>
      /\ numBackup' = numBackup + 1 /\ mainPc = "run" /\ mainPc' = "await"
  BY DEF OnShutdown, backupVars, workerVars
<1>2. WindowInv' /\ Taken' = Taken
  BY <1>1, WindowKept
<1>3. /\ Len(requests) \in Nat /\ Taken \in Nat /\ backupJob \in Nat
      /\ Taken <= backupJob /\ backupJob <= Len(requests)
  BY Bounds
<1>4. CountInv
  BY DEF RingInv
<1>5. CountInv'
  BY <1>1, <1>2, <1>3, <1>4 DEF CountInv, Released
<1>6. HeldInv'
  BY <1>1 DEF RingInv, HeldInv, Busy
<1> QED
  BY <1>2, <1>5, <1>6 DEF RingInv

LEMMA BackupRing ==
    ASSUME RingInv, MaxOutstanding < RingSize, TypeOK', Backup
    PROVE  RingInv'
<1>1. UNCHANGED <<requests, slots, mainPc, workerPc, workerJob, workerReq, results>>
  BY DEF Backup, BackupEnd, BackupPass, BackupTake, BackupExec, BackupWait,
         mainVars, workerVars
<1>2. WindowInv' /\ Taken' = Taken
  BY <1>1, WindowKept
<1>3. /\ Len(requests) \in Nat /\ Taken \in Nat /\ backupJob \in Nat
      /\ Taken <= backupJob /\ backupJob <= Len(requests)
  BY Bounds
<1>4. CountInv /\ HeldInv
  BY DEF RingInv
<1>5. slots[SlotOf(backupJob)]
        = IF backupJob < Len(requests) THEN backupJob + 1 ELSE Null
  BY <1>3, NextSlot
<1>6. workerReq' = (IF Busy' THEN workerJob' + 1 ELSE Null)
      /\ Len(results') = Len(requests')
      /\ \A id \in 1 .. Len(requests') : id <= workerJob' => results'[id] # "pending"
  BY <1>1, <1>4 DEF HeldInv, Busy
<1>7. CountInv' /\ backupReq' = (IF backupPc' = "exec" THEN backupJob' + 1 ELSE Null)
  <2>1. CASE BackupEnd
    <3>1. /\ backupPc = "wait" /\ numBackup > 0 /\ numBackup' = numBackup - 1
          /\ backupPc' = "done" /\ numWorker' = numWorker + 1
          /\ UNCHANGED <<backupJob, backupReq>>
      BY <2>1 DEF BackupEnd, BackupWait
    <3>2. backupJob = Len(requests)
      BY <1>3, <1>5, <2>1 DEF BackupEnd, Null
    <3> QED
      BY <1>1, <1>2, <1>3, <1>4, <3>1, <3>2 DEF CountInv, HeldInv, Released
  <2>2. CASE BackupPass
    <3>1. /\ backupPc = "wait" /\ numBackup' = numBackup - 1
          /\ backupJob' = backupJob + 1 /\ numWorker' = numWorker + 1
          /\ UNCHANGED <<backupPc, backupReq>>
      BY <2>2 DEF BackupPass, BackupWait
    <3>2. backupJob < Len(requests)
      BY <1>3, <1>5, <2>2 DEF BackupPass, Null
    <3> QED
      BY <1>1, <1>2, <1>3, <1>4, <3>1, <3>2 DEF CountInv, HeldInv, Released
  <2>3. CASE BackupTake
    <3>1. /\ backupPc = "wait" /\ numBackup' = numBackup - 1
          /\ backupPc' = "exec" /\ UNCHANGED <<numWorker, backupJob>>
          /\ backupReq' = slots[SlotOf(backupJob)] /\ backupReq' # Null
      BY <2>3 DEF BackupTake, BackupWait
    <3>2. backupJob < Len(requests) /\ backupReq' = backupJob + 1
      BY <1>3, <1>5, <3>1
    <3> QED
      BY <1>1, <1>2, <1>3, <1>4, <3>1, <3>2 DEF CountInv, HeldInv, Released
  <2>4. CASE BackupExec
    <3>1. /\ backupPc = "exec" /\ backupPc' = "wait" /\ backupReq' = Null
          /\ backupJob' = backupJob + 1 /\ numWorker' = numWorker + 1
          /\ UNCHANGED numBackup
      BY <2>4 DEF BackupExec
    <3> QED
      BY <1>1, <1>2, <1>3, <1>4, <3>1 DEF CountInv, HeldInv, Released
  <2> QED
    BY <2>1, <2>2, <2>3, <2>4 DEF Backup
<1> QED
  BY <1>2, <1>6, <1>7 DEF RingInv, HeldInv

LEMMA WorkerEndRing ==
    ASSUME RingInv, MaxOutstanding < RingSize, TypeOK', WorkerEnd
    PROVE  RingInv'
<1>1. /\ UNCHANGED <<requests, numBackup, mainPc, backupPc, backupJob, backupReq,
                     workerJob, workerReq, results>>
      /\ workerPc = "take" /\ workerPc' = "done" /\ numWorker > 0
      /\ numWorker' = numWorker - 1
  BY DEF WorkerEnd, WorkerWait, backupVars
<1>2. slots' = slots
  <2>1. slots' = [slots EXCEPT ![SlotOf(workerJob)] = Null]
        /\ slots[SlotOf(workerJob)] = Null
    BY DEF WorkerEnd, WorkerWait
  <2>2. slots \in [Slot -> Nat]
    BY DEF RingInv, TypeOK
  <2> QED
    BY <2>1, <2>2
<1>3. /\ Len(requests) \in Nat /\ Taken \in Nat /\ backupJob \in Nat
      /\ Taken <= backupJob /\ backupJob <= Len(requests)
  BY Bounds
<1>4. CountInv /\ HeldInv
  BY DEF RingInv
<1>5. Taken = workerJob /\ Taken' = Taken
  BY <1>1 DEF Taken, Busy
<1>6. Taken = Len(requests)
  <2>1. slots[SlotOf(Taken)] = IF Taken < Len(requests) THEN Taken + 1 ELSE Null
    BY <1>3, NextSlot
  <2> QED
    BY <1>3, <1>5, <2>1 DEF WorkerEnd, Null
<1>7. CountInv'
  BY <1>1, <1>3, <1>4, <1>5, <1>6 DEF CountInv, Released
<1>8. HeldInv'
  BY <1>1, <1>4 DEF HeldInv, Busy
<1>9. WindowInv'
  BY <1>1, <1>2, <1>5 DEF RingInv, WindowInv, SlotOf
<1> QED
  BY <1>7, <1>8, <1>9 DEF RingInv

LEMMA WorkerTakeRing ==
    ASSUME RingInv, MaxOutstanding < RingSize, TypeOK', WorkerTake
    PROVE  RingInv'
<1>1. /\ UNCHANGED <<requests, numBackup, mainPc, backupPc, backupJob, backupReq,
                     workerJob, results>>
      /\ workerPc = "take" /\ numWorker > 0 /\ numWorker' = numWorker - 1
      /\ slots' = [slots EXCEPT ![SlotOf(workerJob)] = Null]
  BY DEF WorkerTake, WorkerWait, backupVars
<1>2. /\ Taken = workerJob /\ workerJob < Len(requests)
      /\ workerReq' = workerJob + 1 /\ workerPc' \in Kinds
  BY WorkerTakes
<1>3. Busy' /\ Taken' = workerJob + 1
  BY <1>1, <1>2 DEF Busy, Taken, Kinds
<1>4. /\ Len(requests) \in Nat /\ workerJob \in Nat /\ backupJob \in Nat
      /\ Taken <= backupJob /\ backupJob <= Len(requests)
      /\ RingSize \in Nat /\ MaxOutstanding \in Nat
      /\ Len(requests) - Taken <= MaxOutstanding
  BY Bounds
<1>5. CountInv /\ HeldInv /\ slots \in [Slot -> Nat]
  BY DEF RingInv, TypeOK
<1>6. CountInv'
  <2>1. workerJob + 1 <= backupJob
    BY <1>1, <1>2, <1>4, <1>5 DEF CountInv
  <2> QED
    BY <1>1, <1>2, <1>3, <1>4, <1>5, <2>1 DEF CountInv, Released, Busy
<1>7. HeldInv'
  BY <1>1, <1>2, <1>3, <1>5 DEF HeldInv
<1>8. WindowInv'
  <2>1. ASSUME NEW job \in Nat, workerJob + 1 <= job, job < Len(requests)
        PROVE  slots'[SlotOf(job)] = job + 1
    <3>1. SlotOf(workerJob) # SlotOf(job)
      BY <1>2, <1>4, <2>1, SlotsDiffer
    <3>2. slots[SlotOf(job)] = job + 1
      BY <1>2, <1>4, <2>1 DEF RingInv, WindowInv
    <3> QED
      BY <1>1, <1>5, <3>1, <3>2, SlotType
  <2>2. ASSUME NEW job \in Nat, Len(requests) <= job, job < workerJob + 1 + RingSize
        PROVE  slots'[SlotOf(job)] = Null
    <3>1. CASE job = workerJob + RingSize
      <4>1. SlotOf(job) = SlotOf(workerJob)
        BY <1>4, <3>1, SlotWraps
      <4> QED
        BY <1>1, <1>4, <1>5, <4>1, SlotType
    <3>2. CASE job < workerJob + RingSize
      <4>1. slots[SlotOf(job)] = Null
        BY <1>2, <2>2, <3>2 DEF RingInv, WindowInv
      <4> QED
        BY <1>1, <1>5, <4>1, SlotType
    <3> QED
      BY <1>4, <2>2, <3>1, <3>2
  <2> QED
    BY <1>1, <1>3, <2>1, <2>2 DEF WindowInv, SlotOf
<1> QED
  BY <1>6, <1>7, <1>8 DEF RingInv

LEMMA CompleteRing == ASSUME RingInv, TypeOK', Complete PROVE RingInv'
<1>1. /\ UNCHANGED <<requests, slots, numBackup, numWorker, mainPc, backupPc,
                     backupJob, backupReq>>
      /\ workerPc = "complete" /\ workerPc' = "top"
      /\ workerJob' = workerJob + 1 /\ workerReq' = Null
      /\ results' = [results EXCEPT ![workerReq] = IF success THEN "ok" ELSE "failed"]
  BY DEF Complete, mainVars, semVars, backupVars
<1>2. Busy /\ ~Busy' /\ Taken' = Taken
  BY <1>1 DEF Busy, Taken
<1>3. workerReq = workerJob + 1 /\ CountInv /\ HeldInv
  BY <1>2 DEF RingInv, HeldInv
<1>4. WindowInv'
  BY <1>1, <1>2 DEF RingInv, WindowInv, SlotOf
<1>5. CountInv'
  BY <1>1, <1>2, <1>3 DEF CountInv, Released
<1>6. HeldInv'
  <2>1. results \in Seq({"pending", "ok", "failed"}) /\ workerJob \in Nat
        /\ Len(results) = Len(requests)
    BY <1>3 DEF RingInv, TypeOK, HeldInv
  <2>2. Len(results') = Len(results)
    BY <1>1, <2>1, SeqUpdate
  <2>3. \A id \in 1 .. Len(requests) : id <= workerJob + 1 => results'[id] # "pending"
    BY <1>1, <1>3, <2>1 DEF HeldInv
  <2> QED
    BY <1>1, <1>2, <1>3, <2>1, <2>2, <2>3 DEF HeldInv
<1> QED
  BY <1>4, <1>5, <1>6 DEF RingInv

LEMMA MainRing ==
    ASSUME RingInv, MaxOutstanding < RingSize, Main PROVE RingInv'
<1>1. TypeOK'
  BY MainType
<1>2. CASE Register
  BY <1>1, <1>2, EnqueueRing DEF Register
<1>3. CASE Execute
  BY <1>1, <1>3, EnqueueRing DEF Execute
<1>4. CASE ExecuteWrite
  BY <1>1, <1>4, EnqueueRing DEF ExecuteWrite
<1>5. CASE OnShutdown
  BY <1>1, <1>5, OnShutdownRing
<1>6. CASE ShutdownSeen
  BY <1>1, <1>6, QuietStep DEF ShutdownSeen, semVars, backupVars, workerVars, Busy
<1>7. CASE Join
  BY <1>1, <1>7, QuietStep DEF Join, semVars, backupVars, workerVars, Busy
<1> QED
  BY <1>2, <1>3, <1>4, <1>5, <1>6, <1>7 DEF Main

LEMMA WorkerRing ==
    ASSUME RingInv, MaxOutstanding < RingSize, Worker PROVE RingInv'
<1>1. TypeOK'
  BY WorkerType
<1>2. CASE WorkerTop
  BY <1>1, <1>2, QuietStep DEF WorkerTop, mainVars, semVars, backupVars, Busy
<1>3. CASE WorkerEnd
  BY <1>1, <1>3, WorkerEndRing
<1>4. CASE WorkerTake
  BY <1>1, <1>4, WorkerTakeRing
<1>5. CASE Read
  <2>1. workerPc = "read" /\ workerPc' \in {"read", "complete"}
    BY <1>5 DEF Read
  <2> QED
    BY <1>1, <1>5, <2>1, QuietStep DEF Read, mainVars, semVars, backupVars, Busy
<1>6. CASE Write
  BY <1>1, <1>6, WriteIsQuiet
<1>7. CASE Configure
  BY <1>1, <1>7, QuietStep DEF Configure, mainVars, semVars, backupVars, Busy
<1>8. CASE Complete
  BY <1>1, <1>8, CompleteRing
<1> QED
  BY <1>2, <1>3, <1>4, <1>5, <1>6, <1>7, <1>8 DEF Worker

LEMMA Stutter == ASSUME RingInv, UNCHANGED vars PROVE RingInv'
<1>1. TypeOK'
  BY DEF RingInv, TypeOK, vars, mainVars, semVars, backupVars, workerVars,
         connVars, localVars, tableVars
<1> QED
  BY <1>1, QuietStep DEF vars, mainVars, semVars, backupVars, workerVars, Busy

LEMMA NextRing ==
    ASSUME RingInv, MaxOutstanding < RingSize, [Next]_vars PROVE RingInv'
<1>1. CASE Main
  BY <1>1, MainRing
<1>2. CASE Backup
  BY <1>2, BackupType, BackupRing
<1>3. CASE Worker
  BY <1>3, WorkerRing
<1>4. CASE Ended \/ UNCHANGED vars
  BY <1>4, Stutter DEF Ended
<1> QED
  BY <1>1, <1>2, <1>3, <1>4 DEF Next

-----------------------------------------------------------------------------
(* The theorems.                                                           *)

\* The ring discipline holds in every reachable state.
THEOREM RingDiscipline ==
    ASSUME MaxOutstanding < RingSize PROVE Spec => []RingInv
<1>1. Init => RingInv
  BY InitRing
<1>2. RingInv /\ [Next]_vars => RingInv'
  BY NextRing
<1> QED
  BY <1>1, <1>2, PTL DEF Spec

\* The variables keep their types.
THEOREM TypeCorrect == ASSUME MaxOutstanding < RingSize PROVE Spec => []TypeOK
<1>1. RingInv => TypeOK
  BY DEF RingInv
<1> QED
  BY <1>1, RingDiscipline, PTL

\* The request a thread works on is its own (CBackup and CWorker,
\* connection_pool.cpp:214 and 289).
THEOREM OwnershipHolds == ASSUME MaxOutstanding < RingSize PROVE Spec => []Ownership
<1>1. RingInv => Ownership
  <2> SUFFICES ASSUME RingInv PROVE Ownership
    OBVIOUS
  <2>1. /\ Len(requests) \in Nat /\ Taken \in Nat /\ backupJob \in Nat
        /\ Taken <= backupJob /\ backupJob <= Len(requests)
    BY Bounds
  <2>2. slots[SlotOf(backupJob)]
          = IF backupJob < Len(requests) THEN backupJob + 1 ELSE Null
    BY <2>1, NextSlot
  <2>3. CountInv /\ HeldInv
    BY DEF RingInv
  <2>4. backupPc = "exec" => slots[SlotOf(backupJob)] = backupReq
    BY <2>2, <2>3 DEF CountInv, HeldInv
  <2>5. Busy => workerReq <= backupJob
    BY <2>1, <2>3 DEF HeldInv, Taken
  <2> QED
    BY <2>4, <2>5 DEF Ownership
<1> QED
  BY <1>1, RingDiscipline, PTL

\* "work through all database jobs after OnShutdown is called before exiting
\* the thread" (connection_pool.cpp:216 and 290).
THEOREM NothingIsLeftBehind ==
    ASSUME MaxOutstanding < RingSize PROVE Spec => []NothingLeftBehind
<1>1. RingInv => NothingLeftBehind
  <2> SUFFICES ASSUME RingInv, workerPc = "done"
               PROVE  /\ mainPc # "run"
                      /\ \A id \in DOMAIN results : results[id] # "pending"
    BY DEF NothingLeftBehind
  <2>1. CountInv /\ HeldInv
    BY DEF RingInv
  <2>2. workerJob = Len(requests) /\ mainPc # "run"
    BY <2>1 DEF CountInv, Taken, Busy
  <2>3. results \in Seq({"pending", "ok", "failed"})
    BY DEF RingInv, TypeOK
  <2>4. DOMAIN results = 1 .. Len(requests)
    BY <2>1, <2>3 DEF HeldInv
  <2> QED
    BY <2>1, <2>2, <2>4 DEF HeldInv
<1> QED
  BY <1>1, RingDiscipline, PTL
-----------------------------------------------------------------------------
(* No rank is lost.                                                        *)

\* A backup row is only deleted while the rank is in another table.
RankInv ==
    /\ workerPc = "succeeded" => workerReq \in mainRace
    /\ workerPc = "copied" /\ workerReq \in backupRace => workerReq \in fileRace

\* The write steps: each table keeps its rows, except that a backup row may go
\* when the rank is elsewhere.
LEMMA WriteRanks ==
    ASSUME RingInv, RankInv, Write
    PROVE  RankInv' /\ AllRanks \subseteq AllRanks'
<1> USE DEF RankInv, AllRanks, KeepOnWrite, tableVars
<1>0. workerReq' = workerReq
  BY DEF Write, WriteRefused, WriteNormal, AddPoints, InsertRank, DeleteBackup,
         CopyBackup, DeleteCopied
<1>1. CASE WriteRefused
  BY <1>0, <1>1 DEF WriteRefused, AfterNormal
<1>2. CASE WriteNormal
  BY <1>0, <1>2 DEF WriteNormal
<1>3. CASE AddPoints
  <2>1. workerPc' \in {"insert", "complete", "failed"}
    BY <1>3 DEF AddPoints, AfterNormal
  <2> QED
    BY <1>0, <1>3, <2>1 DEF AddPoints
<1>4. CASE InsertRank
  <2>1. PICK o \in MainOutcomes :
          /\ mainRace' = IF o = "fail" THEN mainRace ELSE mainRace \cup {workerReq}
          /\ AfterNormal(o = "ok")
    BY <1>4 DEF InsertRank
  <2>2. workerPc' \in {"complete", "succeeded", "failed"}
        /\ (workerPc' = "succeeded" => o = "ok")
    BY <2>1 DEF AfterNormal
  <2> QED
    BY <1>0, <1>4, <2>1, <2>2 DEF InsertRank
<1>5. CASE DeleteBackup
  BY <1>0, <1>5 DEF DeleteBackup
<1>6. CASE CopyBackup
  BY <1>0, <1>6 DEF CopyBackup
<1>7. CASE DeleteCopied
  BY <1>0, <1>7 DEF DeleteCopied
<1> QED
  BY <1>1, <1>2, <1>3, <1>4, <1>5, <1>6, <1>7 DEF Write

\* The other steps.  The one that matters is the backup thread's: it writes
\* the row of a later request than the worker's.
LEMMA OtherRanks ==
    ASSUME RingInv, RankInv, MaxOutstanding < RingSize, [Next]_vars, ~Write
    PROVE  RankInv' /\ AllRanks \subseteq AllRanks'
<1>1. CASE BackupExec
  <2>1. /\ backupPc = "exec" /\ mainRace' = mainRace /\ fileRace' = fileRace
        /\ UNCHANGED <<workerPc, workerReq>>
        /\ backupRace' \in {backupRace, backupRace \cup {backupReq}}
    BY <1>1 DEF BackupExec, workerVars
  <2>2. Busy => workerReq # backupReq
    <3>1. Taken <= backupJob /\ workerJob \in Nat /\ backupJob \in Nat
      BY Bounds
    <3> QED
      BY <2>1, <3>1 DEF RingInv, HeldInv, Taken
  <2> QED
    BY <2>1, <2>2 DEF RankInv, AllRanks, Busy
<1>2. CASE UNCHANGED tableVars /\ workerPc' \notin {"succeeded", "copied"}
  BY <1>2 DEF RankInv, AllRanks, tableVars
<1>3. CASE UNCHANGED <<tableVars, workerPc, workerReq>>
  BY <1>3 DEF RankInv, AllRanks, tableVars
<1>4. CASE Main
  BY <1>3, <1>4 DEF Main, Register, Execute, ExecuteWrite, Enqueue, OnShutdown,
                    ShutdownSeen, Join, workerVars
<1>5. CASE Backup
  BY <1>1, <1>3, <1>5 DEF Backup, BackupEnd, BackupPass, BackupTake, BackupWait,
                          workerVars
<1>6. CASE Worker
  <2>1. CASE WorkerTake
    BY <1>2, <2>1, WorkerTakes DEF WorkerTake, WorkerWait, Kinds
  <2>2. CASE WorkerTop \/ WorkerEnd \/ Read \/ Configure \/ Complete
    <3>1. workerPc' \in {"take", "done", "read", "complete", "top"}
      BY <2>2 DEF WorkerTop, WorkerEnd, Read, Configure, Complete
    <3>2. UNCHANGED tableVars
      BY <2>2 DEF WorkerTop, WorkerEnd, WorkerWait, Read, Configure, Complete
    <3> QED
      BY <1>2, <3>1, <3>2
  <2> QED
    BY <1>6, <2>1, <2>2 DEF Worker
<1>7. CASE Ended \/ UNCHANGED vars
  BY <1>3, <1>7 DEF Ended, vars, workerVars
<1> QED
  BY <1>4, <1>5, <1>6, <1>7 DEF Next

\* A rank that reached any table is in some table after every later step of
\* any thread (SaveScore, scoreworker.cpp:450, and the threads that call it).
THEOREM RanksAreKept == ASSUME MaxOutstanding < RingSize PROVE Spec => RankKept
<1>1. Init => RankInv
  BY DEF Init, RankInv
<1>2. RingInv /\ RankInv /\ [Next]_vars => RankInv' /\ AllRanks \subseteq AllRanks'
  BY WriteRanks, OtherRanks
<1>3. RingInv /\ RankInv /\ [Next]_vars => RankInv' /\ [AllRanks \subseteq AllRanks']_vars
  BY <1>2
<1> QED
  BY <1>1, <1>3, RingDiscipline, PTL DEF Spec, RankKept
-----------------------------------------------------------------------------
(* Where the worker is with its request.                                   *)

BackupSeen(job) == \E reg \in 1 .. job : Kind(reg) = "addBackup"

\* The worker executes the kind of request it holds; it moves a backup row
\* only with a connection to the backup, which both threads were given by a
\* request they have taken; a rank in a record_race table was taken before.
WorkInv ==
    /\ workerPc \in Kinds => Kind(workerReq) = workerPc
    /\ workerPc \in {"points", "insert", "succeeded", "failed", "copied"}
         => Kind(workerReq) = "write"
    /\ workerPc \in {"failed", "copied"} => workerBackup
    /\ workerBackup => BackupSeen(Taken)
    /\ BackupSeen(backupJob) \/ backupPc = "exec" => backupConn
    /\ mainRace \cup fileRace \subseteq 1 .. Taken

\* What is known of a request does not change when another one is queued.
LEMMA RequestsKept ==
    ASSUME RingInv, [Next]_vars
    PROVE  /\ Len(requests') \in Nat /\ Len(requests) <= Len(requests')
           /\ \A id \in 1 .. Len(requests) : requests'[id] = requests[id]
<1>1. requests \in Seq([kind : Kinds, player : Players \cup {NoPlayer}])
  BY DEF RingInv, TypeOK
<1>2. ASSUME NEW kind, NEW player, Enqueue(kind, player)
      PROVE  requests' = Append(requests, [kind |-> kind, player |-> player])
  BY <1>2 DEF Enqueue
<1>3. CASE Register \/ Execute \/ ExecuteWrite
  <2>1. \E r : requests' = Append(requests, r)
    BY <1>2, <1>3 DEF Register, Execute, ExecuteWrite
  <2> QED
    BY <1>1, <2>1
<1>4. CASE requests' = requests
  BY <1>1, <1>4
<1>5. CASE OnShutdown \/ ShutdownSeen \/ Join \/ Ended \/ UNCHANGED vars
  BY <1>4, <1>5 DEF OnShutdown, ShutdownSeen, Join, Ended, vars, mainVars
<1>6. CASE Backup
  BY <1>4, <1>6 DEF Backup, BackupEnd, BackupPass, BackupTake, BackupExec,
                    BackupWait, mainVars
<1>7. CASE Write
  BY <1>4, <1>7 DEF Write, WriteRefused, WriteNormal, AddPoints, InsertRank,
        DeleteBackup, CopyBackup, DeleteCopied, KeepOnWrite, mainVars
<1>8. CASE WorkerTop \/ WorkerEnd \/ WorkerTake \/ Read \/ Configure \/ Complete
  BY <1>4, <1>8 DEF WorkerTop, WorkerEnd, WorkerTake, WorkerWait, Read,
        Configure, Complete, mainVars
<1> QED
  BY <1>3, <1>5, <1>6, <1>7, <1>8 DEF Next, Main, Worker

LEMMA HeldRequest ==
    ASSUME RingInv, Busy
    PROVE  /\ workerReq \in 1 .. Len(requests) /\ workerReq \in Nat \ {0}
           /\ workerReq = Taken
<1>1. Len(requests) \in Nat /\ Taken \in Nat /\ Taken <= Len(requests)
      /\ workerJob \in Nat
  BY Bounds
<1>2. workerReq = workerJob + 1 /\ Taken = workerJob + 1
  BY DEF RingInv, HeldInv, Taken
<1> QED
  BY <1>1, <1>2

LEMMA KindsKept ==
    ASSUME RingInv, [Next]_vars
    PROVE  /\ \A id \in 1 .. Len(requests) : Kind(id)' = Kind(id)
                                             /\ Player(id)' = Player(id)
           /\ \A job \in 0 .. Len(requests) : BackupSeen(job)' <=> BackupSeen(job)
           /\ Busy => workerReq \in 1 .. Len(requests)
<1>1. \A id \in 1 .. Len(requests) : Kind(id)' = Kind(id) /\ Player(id)' = Player(id)
  BY RequestsKept DEF Kind, Player
<1>2. Len(requests) \in Nat
  BY Bounds
<1>3. ASSUME NEW job \in 0 .. Len(requests)
      PROVE  BackupSeen(job)' <=> BackupSeen(job)
  <2>1. \A reg \in 1 .. job : Kind(reg)' = Kind(reg)
    BY <1>1, <1>2
  <2> QED
    BY <2>1 DEF BackupSeen
<1> QED
  BY <1>1, <1>3, HeldRequest

\* A step that leaves the worker's request and the tables of ranks alone.
LEMMA WorkStays ==
    ASSUME RingInv, WorkInv, [Next]_vars, Taken' = Taken, workerBackup' = workerBackup,
           UNCHANGED <<backupPc, backupJob, backupConn, mainRace, fileRace>>,
           \/ UNCHANGED <<workerPc, workerReq>>
           \/ workerPc' \in {"top", "take", "done", "complete"}
    PROVE  WorkInv'
<1>1. /\ Len(requests) \in Nat /\ Taken \in 0 .. Len(requests)
      /\ backupJob \in 0 .. Len(requests)
  BY Bounds
<1>2. (BackupSeen(Taken)' <=> BackupSeen(Taken))
      /\ (BackupSeen(backupJob)' <=> BackupSeen(backupJob))
  <2>1. \A job \in 0 .. Len(requests) : BackupSeen(job)' <=> BackupSeen(job)
    BY KindsKept
  <2> QED
    BY <1>1, <2>1 DEF BackupSeen
<1>3. workerPc' \in Kinds => Kind(workerReq)' = workerPc'
  <2>1. CASE UNCHANGED <<workerPc, workerReq>>
    BY <2>1, KindsKept DEF WorkInv, Busy, Kinds
  <2> QED
    BY <2>1 DEF Kinds
<1>4. workerPc' \in {"points", "insert", "succeeded", "failed", "copied"}
        => Kind(workerReq)' = "write" /\ (workerPc' \in {"failed", "copied"} => workerBackup')
  <2>1. CASE UNCHANGED <<workerPc, workerReq>>
    BY <2>1, KindsKept DEF WorkInv, Busy
  <2> QED
    BY <2>1
<1> QED
  BY <1>2, <1>3, <1>4 DEF WorkInv

LEMMA WriteWork == ASSUME RingInv, WorkInv, Write PROVE WorkInv'
<1>0. /\ Busy /\ Kind(workerReq) = "write" /\ workerReq = Taken
      /\ Taken \in Nat \ {0} /\ Taken' = Taken
  <2>1. workerPc \in {"write", "points", "insert", "succeeded", "failed", "copied"}
    BY DEF Write, WriteRefused, WriteNormal, AddPoints, InsertRank, DeleteBackup,
           CopyBackup, DeleteCopied
  <2>2. workerPc' \in {"complete", "succeeded", "failed", "points", "insert", "copied"}
        /\ workerJob' = workerJob
    BY DEF Write, WriteRefused, WriteNormal, AddPoints, InsertRank, DeleteBackup,
           CopyBackup, DeleteCopied, AfterNormal, KeepOnWrite
  <2> QED
    BY <2>1, <2>2, HeldRequest DEF Busy, Taken, WorkInv, Kinds
<1>1. UNCHANGED <<requests, workerReq, workerBackup, backupPc, backupJob, backupConn>>
  BY DEF Write, WriteRefused, WriteNormal, AddPoints, InsertRank, DeleteBackup,
         CopyBackup, DeleteCopied, KeepOnWrite, mainVars, backupVars, connVars
<1>2. workerPc' \in {"complete", "succeeded", "failed", "points", "insert", "copied"}
  BY DEF Write, WriteRefused, WriteNormal, AddPoints, InsertRank, DeleteBackup,
         CopyBackup, DeleteCopied, AfterNormal
<1>3. workerPc' \in {"failed", "copied"} => workerBackup
  BY DEF Write, WriteRefused, WriteNormal, AddPoints, InsertRank, DeleteBackup,
         CopyBackup, DeleteCopied, AfterNormal, WorkInv
<1>4. mainRace' \subseteq mainRace \cup {workerReq}
      /\ fileRace' \subseteq fileRace \cup {workerReq}
  BY DEF Write, WriteRefused, WriteNormal, AddPoints, InsertRank, DeleteBackup,
         CopyBackup, DeleteCopied, tableVars
<1>5. mainRace' \cup fileRace' \subseteq 1 .. Taken
  BY <1>0, <1>4 DEF WorkInv
<1>6. Kind(workerReq)' = "write"
  BY <1>0, <1>1 DEF Kind
<1> QED
  BY <1>0, <1>1, <1>2, <1>3, <1>5, <1>6 DEF WorkInv, BackupSeen, Kind, Kinds

LEMMA BackupWork ==
    ASSUME RingInv, MaxOutstanding < RingSize, WorkInv, Backup
    PROVE  WorkInv'
<1>1. UNCHANGED <<requests, slots, workerPc, workerJob, workerReq, workerBackup,
                  mainRace, fileRace>>
  BY DEF Backup, BackupEnd, BackupPass, BackupTake, BackupExec, BackupWait,
         mainVars, workerVars, connVars, tableVars
<1>2. Taken' = Taken
  BY <1>1 DEF Taken, Busy
<1>3. /\ Len(requests) \in Nat /\ Taken \in Nat /\ backupJob \in Nat
      /\ Taken <= backupJob /\ backupJob <= Len(requests)
  BY Bounds
<1>4. BackupSeen(backupJob)' \/ backupPc' = "exec" => backupConn'
  <2>1. slots[SlotOf(backupJob)]
          = IF backupJob < Len(requests) THEN backupJob + 1 ELSE Null
    BY <1>3, NextSlot
  <2>2. CASE BackupEnd \/ BackupTake
    BY <1>1, <2>2 DEF BackupEnd, BackupTake, WorkInv, BackupSeen, Kind
  <2>3. CASE BackupPass
    <3>1. /\ backupJob' = backupJob + 1
          /\ backupConn' = (backupConn \/ Kind(backupJob + 1) = "addBackup")
          /\ backupPc' = backupPc /\ backupPc = "wait"
      BY <1>3, <2>1, <2>3 DEF BackupPass, BackupWait, Null
    <3>2. BackupSeen(backupJob)' => BackupSeen(backupJob) \/ Kind(backupJob + 1) = "addBackup"
      BY <1>1, <1>3, <3>1 DEF BackupSeen, Kind
    <3> QED
      BY <3>1, <3>2 DEF WorkInv
  <2>4. CASE BackupExec
    <3>1. /\ backupJob' = backupJob + 1 /\ backupConn' = backupConn
      BY <2>4 DEF BackupExec
    <3>2. backupConn
      BY <2>4 DEF BackupExec, WorkInv
    <3> QED
      BY <3>1, <3>2
  <2> QED
    BY <2>2, <2>3, <2>4 DEF Backup
<1> QED
  BY <1>1, <1>2, <1>4 DEF WorkInv, BackupSeen, Kind, Kinds

LEMMA WorkerTakeWork ==
    ASSUME RingInv, MaxOutstanding < RingSize, WorkInv, WorkerTake
    PROVE  WorkInv'
<1>1. /\ Taken = workerJob /\ workerReq' = workerJob + 1 /\ workerPc' \in Kinds
      /\ workerPc' = Kind(workerReq')
      /\ UNCHANGED <<requests, workerBackup, workerJob, backupPc, backupJob, backupConn,
                     mainRace, fileRace>>
  BY WorkerTakes DEF WorkerTake, WorkerWait, backupVars, connVars, tableVars
<1>2. Taken \in Nat /\ Taken' = Taken + 1
  BY <1>1, Bounds DEF Taken, Busy, Kinds
<1>3. workerBackup => BackupSeen(Taken)'
  BY <1>1, <1>2 DEF WorkInv, BackupSeen, Kind
<1>4. mainRace' \cup fileRace' \subseteq 1 .. Taken'
  BY <1>1, <1>2 DEF WorkInv
<1> QED
  BY <1>1, <1>3, <1>4 DEF WorkInv, BackupSeen, Kind, Kinds

LEMMA ConfigureWork == ASSUME RingInv, WorkInv, Configure PROVE WorkInv'
<1>1. /\ workerPc \in {"addRead", "addWrite", "addBackup", "print"}
      /\ workerPc' = "complete"
      /\ workerBackup' = (workerBackup \/ workerPc = "addBackup")
      /\ UNCHANGED <<requests, workerJob, workerReq, backupPc, backupJob, backupConn,
                     mainRace, fileRace>>
  BY DEF Configure, mainVars, backupVars, tableVars
<1>2. Busy /\ Taken' = Taken /\ Taken \in Nat \ {0}
  BY <1>1, Bounds DEF Busy, Taken
<1>3. workerReq = Taken
  BY <1>2, HeldRequest
<1>4. workerPc = "addBackup" => BackupSeen(Taken)
  <2>1. workerPc = "addBackup" => Kind(Taken) = "addBackup"
    BY <1>3 DEF WorkInv, Kinds
  <2> QED
    BY <1>2, <2>1 DEF BackupSeen
<1>5. workerBackup' => BackupSeen(Taken)'
  BY <1>1, <1>2, <1>4 DEF WorkInv, BackupSeen, Kind
<1> QED
  BY <1>1, <1>2, <1>5 DEF WorkInv, BackupSeen, Kind, Kinds

LEMMA NextWork ==
    ASSUME RingInv, MaxOutstanding < RingSize, WorkInv, [Next]_vars
    PROVE  WorkInv'
<1>1. CASE Register \/ Execute \/ ExecuteWrite
  <2>1. \E kind, player : Enqueue(kind, player)
    BY <1>1 DEF Register, Execute, ExecuteWrite
  <2>2. UNCHANGED <<workerPc, workerJob, workerReq, workerBackup, backupPc, backupJob,
                    backupConn, mainRace, fileRace>>
    BY <2>1 DEF Enqueue, backupVars, connVars, tableVars
  <2> QED
    BY <2>2, WorkStays DEF Taken, Busy
<1>2. CASE OnShutdown \/ ShutdownSeen \/ Join \/ Ended \/ UNCHANGED vars
  <2>1. UNCHANGED <<backupVars, workerVars, tableVars>>
    BY <1>2 DEF OnShutdown, ShutdownSeen, Join, Ended, vars
  <2> QED
    BY <2>1, WorkStays DEF backupVars, workerVars, connVars, tableVars, Taken, Busy
<1>3. CASE WorkerTop \/ WorkerEnd \/ Complete \/ Read
  <2>1. UNCHANGED <<backupVars, connVars, tableVars>>
    BY <1>3 DEF WorkerTop, WorkerEnd, WorkerWait, Complete, Read
  <2>2. Taken' = Taken
    BY <1>3 DEF WorkerTop, WorkerEnd, WorkerWait, Complete, Read, Taken, Busy
  <2>3. \/ UNCHANGED <<workerPc, workerReq>>
        \/ workerPc' \in {"top", "take", "done", "complete"}
    BY <1>3 DEF WorkerTop, WorkerEnd, Complete, Read
  <2> QED
    BY <2>1, <2>2, <2>3, WorkStays DEF backupVars, connVars, tableVars
<1> QED
  BY <1>1, <1>2, <1>3, BackupWork, WriteWork, WorkerTakeWork, ConfigureWork
     DEF Next, Main, Worker

LEMMA InitWork == ASSUME Init PROVE WorkInv
BY DEF Init, WorkInv, BackupSeen, Kinds

\* Each thread knows the kind of request it works on and has the connections
\* that this takes (CBackup and CWorker::ProcessQueries, connection_pool.cpp:220).
THEOREM WorkIsKnown == ASSUME MaxOutstanding < RingSize PROVE Spec => []WorkInv
<1>1. Init => WorkInv
  BY InitWork
<1>2. RingInv /\ WorkInv /\ [Next]_vars => WorkInv'
  BY NextWork
<1> QED
  BY <1>1, <1>2, RingDiscipline, PTL DEF Spec
-----------------------------------------------------------------------------
(* Ranks that the backup thread or an answer vouches for.                  *)

\* What the worker is about to report as done is stored.
StoredInv ==
    /\ Busy /\ success /\ Kind(workerReq) = "write" => workerReq \in AllRanks
    /\ BackupProtects
    /\ SuccessStored

LEMMA BackupProtectsStep ==
    ASSUME RingInv, MaxOutstanding < RingSize, "fail" \notin FileOutcomes,
           WorkInv, BackupProtects, [Next]_vars, AllRanks \subseteq AllRanks'
    PROVE  BackupProtects'
<1>1. Len(requests) \in Nat /\ backupJob \in Nat /\ backupJob <= Len(requests)
  BY Bounds
<1>2. ASSUME NEW id \in 1 .. backupJob, Kind(id)' = "write", BackedUp(id)'
      PROVE  id \in AllRanks'
  <2>1. Kind(id) = "write" /\ BackedUp(id)
    BY <1>1, <1>2, KindsKept DEF BackedUp
  <2> QED
    BY <2>1 DEF BackupProtects
<1>3. CASE backupJob' = backupJob
  BY <1>2, <1>3 DEF BackupProtects
<1>4. CASE BackupPass \/ BackupExec
  <2>1. backupJob' = backupJob + 1 /\ requests' = requests
    BY <1>4 DEF BackupPass, BackupExec, BackupWait, mainVars
  <2>0. PICK job \in Nat : job = backupJob + 1
    BY <1>1
  <2>2. ASSUME Kind(job)' = "write", BackedUp(job)'
        PROVE  job \in AllRanks'
    <3>1. Kind(job) = "write" /\ BackupSeen(backupJob)
      <4>1. job - 1 = backupJob
        BY <1>1, <2>0
      <4> QED
        BY <2>1, <2>2, <4>1 DEF BackedUp, BackupSeen, Kind
    <3>2. CASE BackupPass
      <4>1. slots[SlotOf(backupJob)]
              = IF backupJob < Len(requests) THEN backupJob + 1 ELSE Null
        BY <1>1, NextSlot, Bounds
      <4> QED
        BY <2>0, <3>1, <3>2, <4>1 DEF BackupPass, WorkInv, Null
    <3>3. CASE BackupExec
      <4>1. backupReq = backupJob + 1
        BY <3>3 DEF BackupExec, RingInv, HeldInv
      <4>2. backupReq \in backupRace'
        BY <3>3 DEF BackupExec
      <4> QED
        BY <2>0, <4>1, <4>2 DEF AllRanks
    <3> QED
      BY <1>4, <3>2, <3>3
  <2> QED
    <3>1. ASSUME NEW id \in 1 .. backupJob', Kind(id)' = "write", BackedUp(id)'
          PROVE  id \in AllRanks'
      <4>1. CASE id = job
        BY <2>2, <3>1, <4>1
      <4>2. CASE id # job
        <5>1. id \in 1 .. backupJob
          BY <1>1, <2>0, <2>1, <3>1, <4>2
        <5> QED
          BY <1>2, <3>1, <5>1
      <4> QED
        BY <4>1, <4>2
    <3> QED
      BY <3>1 DEF BackupProtects
<1>5. CASE Main
  BY <1>3, <1>5 DEF Main, Register, Execute, ExecuteWrite, Enqueue, OnShutdown,
                    ShutdownSeen, Join, backupVars
<1>6. CASE BackupEnd \/ BackupTake
  BY <1>3, <1>6 DEF BackupEnd, BackupTake
<1>7. CASE Write
  BY <1>3, <1>7 DEF Write, WriteRefused, WriteNormal, AddPoints, InsertRank,
        DeleteBackup, CopyBackup, DeleteCopied, KeepOnWrite, backupVars
<1>8. CASE WorkerTop \/ WorkerEnd \/ WorkerTake \/ Read \/ Configure \/ Complete
  BY <1>3, <1>8 DEF WorkerTop, WorkerEnd, WorkerTake, WorkerWait, Read, Configure,
                    Complete, backupVars
<1>9. CASE Ended \/ UNCHANGED vars
  BY <1>3, <1>9 DEF Ended, vars, backupVars
<1> QED
  BY <1>4, <1>5, <1>6, <1>7, <1>8, <1>9 DEF Next, Backup, Worker

\* The write statements: success is only reported after a row was stored, or
\* when a row that the backup thread had stored was copied.
LEMMA WriteSucceeds ==
    ASSUME RingInv, WorkInv, StoredInv, Write, success', AllRanks \subseteq AllRanks'
    PROVE  workerReq \in AllRanks'
<1>1. Busy /\ Kind(workerReq) = "write"
  BY DEF Write, WriteRefused, WriteNormal, AddPoints, InsertRank, DeleteBackup,
         CopyBackup, DeleteCopied, WorkInv, Busy, Kinds
<1>2. CASE success
  BY <1>1, <1>2 DEF StoredInv
<1>3. CASE InsertRank
  <2>1. workerReq \in mainRace'
    BY <1>3 DEF InsertRank, AfterNormal
  <2> QED
    BY <2>1 DEF AllRanks
<1>4. CASE DeleteCopied
  <2>1. BackupSeen(Taken)
    BY <1>4 DEF DeleteCopied, WorkInv
  <2>2. workerReq = Taken /\ Taken \in Nat /\ Taken <= backupJob /\ backupJob \in Nat
        /\ workerReq \in Nat \ {0}
    BY <1>1, HeldRequest, Bounds
  <2>3. BackedUp(workerReq)
    BY <1>1, <2>1, <2>2 DEF BackedUp, BackupSeen
  <2>4. workerReq \in AllRanks
    BY <1>1, <2>2, <2>3 DEF StoredInv, BackupProtects
  <2> QED
    BY <2>4
<1>5. CASE WriteRefused \/ AddPoints
  BY <1>2, <1>5 DEF WriteRefused, AddPoints, AfterNormal
<1>6. CASE WriteNormal \/ DeleteBackup \/ CopyBackup
  BY <1>2, <1>6 DEF WriteNormal, DeleteBackup, CopyBackup
<1> QED
  BY <1>3, <1>4, <1>5, <1>6 DEF Write

LEMMA SuccessStep ==
    ASSUME RingInv, MaxOutstanding < RingSize, "fail" \notin FileOutcomes,
           WorkInv, StoredInv, [Next]_vars, AllRanks \subseteq AllRanks'
    PROVE  /\ Busy' /\ success' /\ Kind(workerReq)' = "write" => workerReq' \in AllRanks'
           /\ SuccessStored'
<1>1. /\ results \in Seq({"pending", "ok", "failed"})
      /\ Len(results) = Len(requests) /\ DOMAIN results = 1 .. Len(requests)
  BY DEF RingInv, TypeOK, HeldInv
<1>2. \A id \in 1 .. Len(requests) :
         Kind(id)' = "write" /\ results[id] = "ok" => id \in AllRanks'
  BY <1>1, KindsKept DEF StoredInv, SuccessStored
<1>3. ASSUME results' = results PROVE SuccessStored'
  BY <1>1, <1>2, <1>3 DEF SuccessStored
<1>4. ASSUME UNCHANGED <<workerPc, workerReq, success>>
      PROVE  Busy' /\ success' /\ Kind(workerReq)' = "write" => workerReq' \in AllRanks'
  BY <1>4, KindsKept DEF StoredInv, Busy, Kind
<1>5. CASE Register \/ Execute \/ ExecuteWrite
  <2>1. \E kind, player : Enqueue(kind, player)
    BY <1>5 DEF Register, Execute, ExecuteWrite
  <2>2. /\ UNCHANGED <<workerPc, workerReq, success>>
        /\ results' = Append(results, "pending")
    BY <2>1 DEF Enqueue, localVars
  <2>3. SuccessStored'
    BY <1>1, <1>2, <2>2 DEF SuccessStored
  <2> QED
    BY <1>4, <2>2, <2>3
<1>6. CASE OnShutdown \/ ShutdownSeen \/ Join \/ Ended \/ Backup \/ UNCHANGED vars
  <2>1. UNCHANGED workerVars
    BY <1>6 DEF OnShutdown, ShutdownSeen, Join, Ended, vars, Backup, BackupEnd,
                BackupPass, BackupTake, BackupExec, BackupWait
  <2> QED
    BY <1>3, <1>4, <2>1 DEF workerVars, localVars
<1>7. CASE WorkerTop \/ WorkerEnd
  <2>1. results' = results /\ workerPc' \in {"take", "done"}
    BY <1>7 DEF WorkerTop, WorkerEnd, WorkerWait
  <2> QED
    BY <1>3, <2>1 DEF Busy
<1>8. CASE WorkerTake
  <2>1. results' = results /\ ~success'
    BY <1>8 DEF WorkerTake, WorkerWait
  <2> QED
    BY <1>3, <2>1
<1>9. CASE Read \/ Configure
  <2>1. /\ results' = results /\ workerReq' = workerReq /\ requests' = requests
        /\ workerPc \in Kinds \ {"write"}
    BY <1>9 DEF Read, Configure, mainVars, Kinds
  <2>2. Kind(workerReq)' # "write"
    BY <2>1 DEF WorkInv, Kind
  <2> QED
    BY <1>3, <2>1, <2>2
<1>10. CASE Write
  <2>1. results' = results /\ workerReq' = workerReq
    BY <1>10 DEF Write, WriteRefused, WriteNormal, AddPoints, InsertRank, DeleteBackup,
                 CopyBackup, DeleteCopied, KeepOnWrite
  <2>2. success' => workerReq' \in AllRanks'
    BY <1>10, <2>1, WriteSucceeds
  <2> QED
    BY <1>3, <2>1, <2>2
<1>11. CASE Complete
  <2>1. /\ Busy /\ workerPc' = "top" /\ requests' = requests
        /\ results' = [results EXCEPT ![workerReq] = IF success THEN "ok" ELSE "failed"]
    BY <1>11 DEF Complete, Busy, mainVars
  <2>2. ASSUME NEW id \in DOMAIN results', Kind(id)' = "write", results'[id] = "ok"
        PROVE  id \in AllRanks'
    <3>1. id \in 1 .. Len(requests) /\ Kind(id) = "write"
      BY <1>1, <2>1, <2>2 DEF Kind
    <3>2. CASE id = workerReq
      <4>1. success
        BY <1>1, <2>1, <2>2, <3>1, <3>2
      <4> QED
        BY <2>1, <3>1, <3>2, <4>1 DEF StoredInv
    <3>3. CASE id # workerReq
      <4>1. results[id] = "ok"
        BY <1>1, <2>1, <2>2, <3>1, <3>3
      <4> QED
        BY <1>2, <2>2, <3>1, <4>1
    <3> QED
      BY <3>2, <3>3
  <2> QED
    BY <2>1, <2>2 DEF SuccessStored, Busy
<1> QED
  BY <1>5, <1>6, <1>7, <1>8, <1>9, <1>10, <1>11 DEF Next, Main, Worker

\* If the statements on the backup file work, what was passed on by the backup
\* thread after the backup was set up, or answered with success, is stored.
THEOREM RanksAreStored ==
    ASSUME MaxOutstanding < RingSize, "fail" \notin FileOutcomes
    PROVE  Spec => []StoredInv
<1>1. Init => RankInv /\ StoredInv
  <2> SUFFICES ASSUME Init PROVE RankInv /\ StoredInv
    OBVIOUS
  <2>1. ~Busy /\ results = <<>> /\ backupJob = 0 /\ workerPc = "top"
    BY DEF Init, Busy
  <2> QED
    BY <2>1 DEF RankInv, StoredInv, BackupProtects, SuccessStored
<1>2. RingInv /\ WorkInv /\ RankInv /\ StoredInv /\ [Next]_vars => RankInv' /\ StoredInv'
  <2> SUFFICES ASSUME RingInv, WorkInv, RankInv, StoredInv, [Next]_vars
               PROVE  RankInv' /\ StoredInv'
    OBVIOUS
  <2>1. RankInv' /\ AllRanks \subseteq AllRanks'
    BY WriteRanks, OtherRanks
  <2>2. BackupProtects'
    BY <2>1, BackupProtectsStep DEF StoredInv
  <2> QED
    BY <2>1, <2>2, SuccessStep DEF StoredInv
<1> QED
  BY <1>1, <1>2, RingDiscipline, WorkIsKnown, PTL DEF Spec

\* "This is done to not loose ranks when the server shuts down before all
\* queries are executed on the mysql server" (connection_pool.cpp:184).
THEOREM BackupProtectsRanks ==
    ASSUME MaxOutstanding < RingSize, "fail" \notin FileOutcomes
    PROVE  Spec => []BackupProtects
<1>1. StoredInv => BackupProtects
  BY DEF StoredInv
<1> QED
  BY <1>1, RanksAreStored, PTL

\* m_Success of a finished SaveScore (scoreworker.cpp:450) means that the rank
\* is in a table.
THEOREM SuccessIsStored ==
    ASSUME MaxOutstanding < RingSize, "fail" \notin FileOutcomes
    PROVE  Spec => []SuccessStored
<1>1. StoredInv => SuccessStored
  BY DEF StoredInv
<1> QED
  BY <1>1, RanksAreStored, PTL
-----------------------------------------------------------------------------
(* A rank in the main database or in the file, not in both.                *)

\* A rank is not yet where the worker's next statements will put it.
OnceInv ==
    /\ workerPc \in {"write", "points", "insert", "failed"} => workerReq \notin mainRace
    /\ workerPc \in {"write", "points", "insert"} => workerReq \notin fileRace
    /\ NoDoubleRank

LEMMA WriteOnce ==
    ASSUME "lost" \notin MainOutcomes, MainOutcomes \subseteq Outcomes, OnceInv, Write
    PROVE  OnceInv'
<1> USE DEF OnceInv, NoDoubleRank, KeepOnWrite, tableVars, AfterNormal
<1>1. CASE WriteRefused
  BY <1>1 DEF WriteRefused
<1>2. CASE WriteNormal
  BY <1>2 DEF WriteNormal
<1>3. CASE AddPoints
  <2>1. workerPc = "points" /\ workerPc' \in {"insert", "complete", "succeeded", "failed"}
        /\ UNCHANGED <<workerReq, mainRace, fileRace>>
    BY <1>3 DEF AddPoints
  <2> QED
    BY <2>1
<1>4. CASE InsertRank
  <2>1. PICK o \in MainOutcomes :
          /\ mainRace' = IF o = "fail" THEN mainRace ELSE mainRace \cup {workerReq}
          /\ AfterNormal(o = "ok")
    BY <1>4 DEF InsertRank
  <2>2. /\ workerPc = "insert" /\ UNCHANGED <<workerReq, fileRace>>
        /\ workerPc' \in {"complete", "succeeded", "failed"}
    BY <1>4 DEF InsertRank
  <2>3. workerPc' = "failed" => o # "ok"
    BY <2>1
  <2>4. o # "ok" => mainRace' = mainRace
    BY <2>1 DEF Outcomes
  <2>5. mainRace' \subseteq mainRace \cup {workerReq} /\ workerReq \notin fileRace
    BY <2>1, <2>2
  <2>6. workerPc' = "failed" => workerReq' \notin mainRace'
    BY <2>2, <2>3, <2>4
  <2>7. NoDoubleRank'
    BY <2>2, <2>5
  <2> QED
    BY <2>2, <2>6, <2>7
<1>5. CASE DeleteBackup
  BY <1>5 DEF DeleteBackup
<1>6. CASE CopyBackup
  <2>1. /\ workerPc = "failed" /\ workerPc' \in {"copied", "complete"}
        /\ UNCHANGED <<workerReq, mainRace>>
        /\ fileRace' \subseteq fileRace \cup {workerReq}
    BY <1>6 DEF CopyBackup
  <2> QED
    BY <2>1
<1>7. CASE DeleteCopied
  BY <1>7 DEF DeleteCopied
<1> QED
  BY <1>1, <1>2, <1>3, <1>4, <1>5, <1>6, <1>7 DEF Write

LEMMA NextOnce ==
    ASSUME RingInv, MaxOutstanding < RingSize, "lost" \notin MainOutcomes,
           WorkInv, OnceInv, [Next]_vars
    PROVE  OnceInv'
<1>1. CASE Write
  BY <1>1, WriteOnce, RingAssumption
<1>2. CASE UNCHANGED <<mainRace, fileRace, workerPc, workerReq>>
  BY <1>2 DEF OnceInv, NoDoubleRank
<1>3. CASE Main
  BY <1>2, <1>3 DEF Main, Register, Execute, ExecuteWrite, Enqueue, OnShutdown,
                    ShutdownSeen, Join, workerVars, tableVars
<1>4. CASE Backup
  BY <1>2, <1>4 DEF Backup, BackupEnd, BackupPass, BackupTake, BackupExec, BackupWait,
                    workerVars, tableVars
<1>5. CASE WorkerTop \/ WorkerEnd \/ Read \/ Configure \/ Complete
  <2>1. workerPc' \in {"take", "done", "read", "complete", "top"}
    BY <1>5 DEF WorkerTop, WorkerEnd, Read, Configure, Complete
  <2>2. UNCHANGED tableVars
    BY <1>5 DEF WorkerTop, WorkerEnd, WorkerWait, Read, Configure, Complete
  <2> QED
    BY <2>1, <2>2 DEF OnceInv, NoDoubleRank, tableVars
<1>6. CASE WorkerTake
  <2>1. /\ workerReq' = Taken + 1 /\ workerPc' \in Kinds
        /\ UNCHANGED <<mainRace, fileRace>>
    BY <1>6, WorkerTakes DEF WorkerTake, WorkerWait, tableVars
  <2>2. Taken \in Nat
    BY Bounds
  <2>3. workerReq' \notin mainRace \cup fileRace
    BY <2>1, <2>2 DEF WorkInv
  <2> QED
    BY <2>1, <2>3 DEF OnceInv, NoDoubleRank, Kinds
<1>7. CASE Ended \/ UNCHANGED vars
  BY <1>2, <1>7 DEF Ended, vars, workerVars, tableVars
<1> QED
  BY <1>1, <1>3, <1>4, <1>5, <1>6, <1>7 DEF Next, Worker

\* A main database that reports what it did never gets a rank that is also
\* moved to record_race of the backup file (scoreworker.cpp:482, Write::NORMAL_FAILED).
THEOREM RanksAreNotDoubled ==
    ASSUME MaxOutstanding < RingSize, "lost" \notin MainOutcomes
    PROVE  Spec => []NoDoubleRank
<1>1. Init => OnceInv
  BY DEF Init, OnceInv, NoDoubleRank
<1>2. RingInv /\ WorkInv /\ OnceInv /\ [Next]_vars => OnceInv'
  BY NextOnce
<1>3. OnceInv => NoDoubleRank
  BY DEF OnceInv
<1> QED
  BY <1>1, <1>2, <1>3, RingDiscipline, WorkIsKnown, PTL DEF Spec
-----------------------------------------------------------------------------
(* The points of a player.                                                 *)

Unstored(p) == Attempts(p) \ mainRace
Surplus(p) == IF Finished(p) THEN 1 ELSE 0

\* The worker has not given points for its request, or it will not give any.
Unpaid == \/ workerPc \in {"write", "points"}
          \/ workerPc = "insert" /\ Finished(Player(workerReq))

\* As long as a request is unpaid, the other attempts account for the points.
PointsInv ==
    /\ PointsBound
    /\ workerPc = "points" => ~Finished(Player(workerReq))
    /\ Unpaid => \A p \in Players : Player(workerReq) = p =>
                   points[p] <= Cardinality(Unstored(p) \ {workerReq}) + Surplus(p)

LEMMA AttemptsFinite ==
    ASSUME RingInv, NEW p
    PROVE  /\ IsFiniteSet(Attempts(p)) /\ IsFiniteSet(Unstored(p))
           /\ Cardinality(Unstored(p)) \in Nat
           /\ \A id : /\ Cardinality(Unstored(p) \ {id}) \in Nat
                      /\ Cardinality(Unstored(p))
                           = Cardinality(Unstored(p) \ {id}) + (IF id \in Unstored(p) THEN 1 ELSE 0)
<1>1. Taken \in Nat /\ IsFiniteSet(1 .. Taken)
  BY Bounds, FS_Interval
<1>2. Attempts(p) \subseteq 1 .. Taken
  BY DEF Attempts
<1>3. IsFiniteSet(Attempts(p))
  BY <1>1, <1>2, FS_Subset
<1>4. IsFiniteSet(Unstored(p))
  BY <1>3, FS_Difference DEF Unstored
<1>5. ASSUME NEW id
      PROVE  /\ Cardinality(Unstored(p) \ {id}) \in Nat
             /\ Cardinality(Unstored(p))
                  = Cardinality(Unstored(p) \ {id}) + (IF id \in Unstored(p) THEN 1 ELSE 0)
  <2>1. /\ IsFiniteSet(Unstored(p) \ {id})
        /\ Cardinality(Unstored(p) \ {id})
             = IF id \in Unstored(p) THEN Cardinality(Unstored(p)) - 1
               ELSE Cardinality(Unstored(p))
    BY <1>4, FS_RemoveElement
  <2>2. Cardinality(Unstored(p)) \in Nat /\ Cardinality(Unstored(p) \ {id}) \in Nat
    BY <1>4, <2>1, FS_CardinalityType
  <2> QED
    BY <2>1, <2>2
<1> QED
  BY <1>3, <1>4, <1>5, FS_CardinalityType

\* Queueing a request changes no attempt and no finish.
LEMMA PointsKept ==
    ASSUME RingInv, WorkInv, [Next]_vars, Taken' = Taken, mainRace' = mainRace, NEW p
    PROVE  /\ Attempts(p)' = Attempts(p) /\ Unstored(p)' = Unstored(p)
           /\ Finished(p)' <=> Finished(p)
           /\ Surplus(p)' = Surplus(p)
<1>1. Taken \in Nat /\ Len(requests) \in Nat /\ Taken <= Len(requests)
  BY Bounds
<1>2. \A id \in 1 .. Taken : Kind(id)' = Kind(id) /\ Player(id)' = Player(id)
  BY <1>1, KindsKept
<1>3. Attempts(p)' = Attempts(p)
  BY <1>2 DEF Attempts
<1>4. Finished(p)' <=> Finished(p)
  BY <1>2 DEF Finished, WorkInv
<1> QED
  BY <1>3, <1>4 DEF Unstored, Surplus

\* Steps that neither give points nor take or store a finish.
LEMMA PointsStay ==
    ASSUME RingInv, WorkInv, PointsInv, [Next]_vars, Taken' = Taken,
           UNCHANGED <<mainRace, points>>,
           \/ UNCHANGED <<workerPc, workerReq>>
           \/ workerPc' \notin {"write", "points", "insert"}
    PROVE  PointsInv'
<1>1. PointsBound'
  <2>1. ASSUME NEW p \in Players
        PROVE  points'[p] <= Cardinality(Unstored(p)') + Surplus(p)'
    BY <2>1, PointsKept DEF PointsInv, PointsBound, Unstored, Surplus
  <2> QED
    BY <2>1 DEF PointsBound, Unstored, Surplus
<1>2. CASE workerPc' \notin {"write", "points", "insert"}
  BY <1>1, <1>2 DEF PointsInv, Unpaid
<1>3. CASE UNCHANGED <<workerPc, workerReq>> /\ workerPc \in {"write", "points", "insert"}
  <2>1. Player(workerReq)' = Player(workerReq)
    BY <1>3, KindsKept DEF Busy, Player
  <2>2. Finished(Player(workerReq))' <=> Finished(Player(workerReq))
    BY <1>3, <2>1, PointsKept DEF Finished
  <2>3. ASSUME NEW p \in Players
        PROVE  /\ Cardinality(Unstored(p) \ {workerReq})'
                    = Cardinality(Unstored(p) \ {workerReq})
               /\ Surplus(p)' = Surplus(p)
    BY <1>3, PointsKept
  <2> QED
    BY <1>1, <1>3, <2>1, <2>2, <2>3 DEF PointsInv, Unpaid
<1> QED
  BY <1>2, <1>3

LEMMA WorkerTakePoints ==
    ASSUME RingInv, MaxOutstanding < RingSize, WorkInv, PointsInv, WorkerTake
    PROVE  PointsInv'
<1>1. /\ Taken = workerJob /\ workerReq' = Taken + 1 /\ workerPc' \in Kinds
      /\ UNCHANGED <<requests, workerJob, mainRace, points>>
  BY WorkerTakes DEF WorkerTake, WorkerWait, tableVars
<1>2. Taken \in Nat /\ Taken' = Taken + 1
  BY <1>1, Bounds DEF Taken, Busy, Kinds
<1>4. ASSUME NEW p \in Players
      PROVE  /\ points'[p] <= Cardinality(Unstored(p) \ {workerReq})' + Surplus(p)'
             /\ Cardinality(Unstored(p) \ {workerReq})' <= Cardinality(Unstored(p)')
             /\ Cardinality(Unstored(p) \ {workerReq})' \in Nat
             /\ Cardinality(Unstored(p)') \in Nat /\ Surplus(p)' \in {0, 1}
  <2>1. (Unstored(p) \ {workerReq})' = Unstored(p)
    BY <1>1, <1>2 DEF Unstored, Attempts, Kind, Player
  <2>2. Surplus(p)' = Surplus(p)
    BY <1>1 DEF Surplus, Finished, Player
  <2>3. points[p] <= Cardinality(Unstored(p)) + Surplus(p)
    BY DEF PointsInv, PointsBound, Unstored, Surplus
  <2>4. PICK w : w = workerReq'
    OBVIOUS
  <2>5. /\ Cardinality(Unstored(p)' \ {w}) \in Nat /\ Cardinality(Unstored(p)') \in Nat
        /\ Cardinality(Unstored(p)' \ {w}) <= Cardinality(Unstored(p)')
    <3>1. Unstored(p)' \ {w} = Unstored(p)
      BY <2>1, <2>4
    <3>2. Unstored(p)' \subseteq Unstored(p) \cup {w}
      BY <3>1
    <3>3. IsFiniteSet(Unstored(p)')
      BY <3>2, AttemptsFinite, FS_AddElement, FS_Subset
    <3> QED
      BY <3>1, <3>3, AttemptsFinite, FS_Subset, FS_CardinalityType
  <2> QED
    BY <1>1, <2>1, <2>2, <2>3, <2>4, <2>5 DEF Surplus
<1>5. PointsBound'
  <2>1. ASSUME NEW p \in Players
        PROVE  points'[p] <= Cardinality(Unstored(p)') + Surplus(p)'
    <3>1. points'[p] \in Nat
      BY <1>1, <2>1 DEF RingInv, TypeOK
    <3> HIDE DEF Unstored, Surplus
    <3>2. PICK m : m = Cardinality(Unstored(p) \ {workerReq})'
      OBVIOUS
    <3>3. /\ points'[p] <= m + Surplus(p)' /\ m <= Cardinality(Unstored(p)')
          /\ m \in Nat /\ Cardinality(Unstored(p)') \in Nat
          /\ Surplus(p)' \in {0, 1}
      BY <1>4, <2>1, <3>2
    <3> QED
      BY <3>1, <3>3
  <2> QED
    BY <2>1 DEF PointsBound, Unstored, Surplus
<1>6. workerPc' # "points"
  BY <1>1 DEF Kinds
<1>7. \A p \in Players : Player(workerReq)' = p =>
         points'[p] <= Cardinality(Unstored(p) \ {workerReq})' + Surplus(p)'
  BY <1>4
<1> QED
  BY <1>5, <1>6, <1>7 DEF PointsInv

\* Points are given before the rank is stored: the request is then an attempt
\* that has no row.
LEMMA AddPointsPoints ==
    ASSUME RingInv, WorkInv, PointsInv, AddPoints PROVE PointsInv'
<1>1. /\ workerPc = "points" /\ workerPc' \in {"insert", "complete", "succeeded", "failed"}
      /\ UNCHANGED <<requests, workerReq, workerJob, mainRace>>
      /\ points' \in {points, [points EXCEPT ![Player(workerReq)] = @ + 1]}
  BY DEF AddPoints, AfterNormal, KeepOnWrite, mainVars
<1>2. /\ Busy /\ Taken' = Taken /\ workerReq = Taken /\ Taken \in Nat \ {0}
      /\ Kind(workerReq) = "write" /\ ~Finished(Player(workerReq))
  BY <1>1, HeldRequest DEF Busy, Taken, WorkInv, PointsInv
<1>3. ASSUME NEW p \in Players
      PROVE  /\ Attempts(p)' = Attempts(p) /\ Unstored(p)' = Unstored(p)
             /\ Surplus(p)' = Surplus(p)
  BY <1>1, <1>2 DEF Attempts, Unstored, Surplus, Finished, Kind, Player
<1>4. PointsBound'
  <2> SUFFICES ASSUME NEW p \in Players
               PROVE  points'[p] <= Cardinality(Unstored(p)) + Surplus(p)
    BY <1>3 DEF PointsBound, Unstored, Surplus
  <2>1. points \in [Players -> Nat] /\ Cardinality(Unstored(p)) \in Nat /\ Surplus(p) \in {0, 1}
    BY AttemptsFinite DEF RingInv, TypeOK, Surplus
  <2>2. CASE p = Player(workerReq)
    <3>1. points'[p] <= points[p] + 1
      BY <1>1, <2>1, <2>2
    <3>2. workerReq \in Unstored(p)
      BY <1>2, <2>2 DEF Unstored, Attempts, Finished
    <3>3. /\ Cardinality(Unstored(p) \ {workerReq}) \in Nat
          /\ Cardinality(Unstored(p)) = Cardinality(Unstored(p) \ {workerReq}) + 1
      BY <3>2, AttemptsFinite
    <3>4. points[p] <= Cardinality(Unstored(p) \ {workerReq}) + Surplus(p)
      BY <1>1, <2>2 DEF PointsInv, Unpaid
    <3>5. points'[p] \in Nat
      BY <1>1, <2>1
    <3> HIDE DEF Surplus
    <3> QED
      BY <2>1, <3>1, <3>3, <3>4, <3>5
  <2>3. CASE p # Player(workerReq)
    <3>1. points'[p] = points[p]
      BY <1>1, <2>1, <2>3
    <3> QED
      BY <3>1 DEF PointsInv, PointsBound, Unstored, Surplus
  <2> QED
    BY <2>2, <2>3
<1>5. ~Unpaid' /\ workerPc' # "points"
  <2>1. ~Finished(Player(workerReq))'
    BY <1>1, <1>2 DEF Finished, Player
  <2> QED
    BY <1>1, <2>1 DEF Unpaid
<1> QED
  BY <1>4, <1>5 DEF PointsInv

\* A stored rank counts for the player's first finish, or no points were given
\* for it.
LEMMA InsertRankPoints ==
    ASSUME RingInv, WorkInv, PointsInv, InsertRank PROVE PointsInv'
<1>1. /\ workerPc = "insert" /\ workerPc' \in {"complete", "succeeded", "failed"}
      /\ UNCHANGED <<requests, workerReq, workerJob, points>>
      /\ mainRace' \in {mainRace, mainRace \cup {workerReq}}
  BY DEF InsertRank, AfterNormal, KeepOnWrite, mainVars
<1>2. /\ Busy /\ Taken' = Taken /\ workerReq = Taken /\ Taken \in Nat \ {0}
      /\ Kind(workerReq) = "write"
  BY <1>1, HeldRequest DEF Busy, Taken, WorkInv
<1>3. ASSUME NEW p \in Players PROVE Attempts(p)' = Attempts(p)
  BY <1>1, <1>2 DEF Attempts, Kind, Player
<1>4. PointsBound'
  <2> SUFFICES ASSUME NEW p \in Players
               PROVE  points[p] <= Cardinality(Attempts(p) \ mainRace') + Surplus(p)'
    BY <1>1, <1>3 DEF PointsBound, Surplus
  <2>0. points[p] <= Cardinality(Unstored(p)) + Surplus(p) /\ points[p] \in Nat
    BY DEF PointsInv, PointsBound, Unstored, Surplus, RingInv, TypeOK
  <2>1. CASE mainRace' = mainRace
    <3>1. Surplus(p)' = Surplus(p)
      BY <1>1, <2>1 DEF Surplus, Finished, Player
    <3> QED
      BY <2>0, <2>1, <3>1 DEF Unstored
  <2>2. CASE mainRace' = mainRace \cup {workerReq}
    <3>1. Attempts(p) \ mainRace' = Unstored(p) \ {workerReq}
      BY <2>2 DEF Unstored
    <3>2. CASE p # Player(workerReq)
      <4>1. Unstored(p) \ {workerReq} = Unstored(p)
        BY <3>2 DEF Unstored, Attempts
      <4>2. Surplus(p)' = Surplus(p)
        BY <1>1, <2>2, <3>2 DEF Surplus, Finished, Player
      <4> QED
        BY <2>0, <3>1, <4>1, <4>2
    <3>3. CASE p = Player(workerReq)
      <4>1. Surplus(p)' = 1
        BY <1>1, <2>2, <3>3 DEF Surplus, Finished, Player
      <4>2. CASE Finished(p)
        <5>1. points[p] <= Cardinality(Unstored(p) \ {workerReq}) + Surplus(p)
          BY <1>1, <3>3, <4>2 DEF PointsInv, Unpaid
        <5> QED
          BY <3>1, <4>1, <4>2, <5>1 DEF Surplus
      <4>3. CASE ~Finished(p)
        <5>1. Surplus(p) = 0
          BY <4>3 DEF Surplus
        <5>2. /\ Cardinality(Unstored(p) \ {workerReq}) \in Nat
              /\ Cardinality(Unstored(p)) <= Cardinality(Unstored(p) \ {workerReq}) + 1
          BY AttemptsFinite
        <5>3. Cardinality(Unstored(p)) \in Nat
          BY AttemptsFinite
        <5> QED
          BY <2>0, <3>1, <4>1, <5>1, <5>2, <5>3
      <4> QED
        BY <4>2, <4>3
    <3> QED
      BY <3>2, <3>3
  <2> QED
    BY <1>1, <2>1, <2>2
<1> QED
  BY <1>1, <1>4 DEF PointsInv, Unpaid

LEMMA WriteNormalPoints ==
    ASSUME RingInv, WorkInv, PointsInv, WriteNormal PROVE PointsInv'
<1>1. /\ workerPc = "write" /\ UNCHANGED <<requests, workerReq, workerJob, points, mainRace>>
      /\ workerPc' = IF Finished(Player(workerReq)) THEN "insert" ELSE "points"
  BY DEF WriteNormal, KeepOnWrite, mainVars, tableVars
<1>2. Taken' = Taken
  BY <1>1 DEF Taken, Busy
<1>3. ASSUME NEW p \in Players
      PROVE  Unstored(p)' = Unstored(p) /\ Surplus(p)' = Surplus(p)
  BY <1>1, <1>2 DEF Attempts, Unstored, Surplus, Finished, Kind, Player
<1>4. PointsBound'
  <2>1. ASSUME NEW p \in Players
        PROVE  points'[p] <= Cardinality(Unstored(p)') + Surplus(p)'
    BY <1>1, <1>3, <2>1 DEF PointsInv, PointsBound, Unstored, Surplus
  <2> QED
    BY <2>1 DEF PointsBound, Unstored, Surplus
<1>5. workerPc' = "points" => ~Finished(Player(workerReq))'
  BY <1>1 DEF Finished, Player
<1>6. ASSUME NEW p \in Players, Player(workerReq)' = p
      PROVE  points'[p] <= Cardinality(Unstored(p) \ {workerReq})' + Surplus(p)'
  BY <1>1, <1>3, <1>6 DEF PointsInv, Unpaid, Player
<1> QED
  BY <1>4, <1>5, <1>6 DEF PointsInv

LEMMA NextPoints ==
    ASSUME RingInv, MaxOutstanding < RingSize, WorkInv, PointsInv, [Next]_vars
    PROVE  PointsInv'
<1>1. CASE Register \/ Execute \/ ExecuteWrite
  <2>1. \E kind, player : Enqueue(kind, player)
    BY <1>1 DEF Register, Execute, ExecuteWrite
  <2>2. UNCHANGED <<workerPc, workerJob, workerReq, tableVars>>
    BY <2>1 DEF Enqueue
  <2> QED
    BY <2>2, PointsStay DEF Taken, Busy, tableVars
<1>2. CASE OnShutdown \/ ShutdownSeen \/ Join \/ Ended \/ UNCHANGED vars
  <2>1. UNCHANGED <<workerVars, tableVars>>
    BY <1>2 DEF OnShutdown, ShutdownSeen, Join, Ended, vars
  <2> QED
    BY <2>1, PointsStay DEF workerVars, tableVars, Taken, Busy
<1>3. CASE Backup
  <2>1. UNCHANGED <<workerPc, workerJob, workerReq, mainRace, points>>
    BY <1>3 DEF Backup, BackupEnd, BackupPass, BackupTake, BackupExec, BackupWait,
                workerVars, tableVars
  <2> QED
    BY <2>1, PointsStay DEF Taken, Busy
<1>4. CASE WorkerTop \/ WorkerEnd \/ Read \/ Configure \/ Complete
  <2>1. workerPc' \in {"take", "done", "read", "complete", "top"}
        /\ UNCHANGED tableVars
    BY <1>4 DEF WorkerTop, WorkerEnd, WorkerWait, Read, Configure, Complete
  <2>2. Taken' = Taken
    BY <1>4 DEF WorkerTop, WorkerEnd, WorkerWait, Complete, Read, Configure, Taken, Busy
  <2> QED
    BY <2>1, <2>2, PointsStay DEF tableVars
<1>5. CASE WriteRefused \/ DeleteBackup \/ CopyBackup \/ DeleteCopied
  <2>1. /\ workerPc \in {"write", "succeeded", "failed", "copied"}
        /\ workerPc' \in {"complete", "succeeded", "failed", "copied"}
        /\ UNCHANGED <<workerJob, mainRace, points>>
    BY <1>5 DEF WriteRefused, DeleteBackup, CopyBackup, DeleteCopied, AfterNormal,
                KeepOnWrite, tableVars
  <2> QED
    BY <2>1, PointsStay DEF Taken, Busy
<1> QED
  BY <1>1, <1>2, <1>3, <1>4, <1>5, WorkerTakePoints, WriteNormalPoints, AddPointsPoints,
     InsertRankPoints DEF Next, Main, Worker, Write

\* A player gets the points of a map for the first finish, and once more for at
\* most each attempt that did not store its row (SaveScore, scoreworker.cpp:526).
THEOREM PointsAreBounded ==
    ASSUME MaxOutstanding < RingSize PROVE Spec => []PointsBound
<1>1. Init => PointsInv
  <2> SUFFICES ASSUME Init PROVE PointsInv
    OBVIOUS
  <2>1. Taken = 0 /\ mainRace = {} /\ \A p \in Players : points[p] = 0
    BY DEF Init, Taken, Busy
  <2>2. \A p \in Players : Attempts(p) = {} /\ ~Finished(p)
    BY <2>1 DEF Attempts, Finished
  <2>3. Cardinality({} \ mainRace) = 0
    BY <2>1, FS_EmptySet
  <2>4. PointsBound
    BY <2>1, <2>2, <2>3 DEF PointsBound
  <2> QED
    BY <2>4 DEF PointsInv, Unpaid, Init
<1>2. RingInv /\ WorkInv /\ PointsInv /\ [Next]_vars => PointsInv'
  BY NextPoints
<1>3. PointsInv => PointsBound
  BY DEF PointsInv
<1> QED
  BY <1>1, <1>2, <1>3, RingDiscipline, WorkIsKnown, PTL DEF Spec
-----------------------------------------------------------------------------
(* The refinement of RequestQueue.                                         *)

\* The requests the worker has not reached have no answer yet.
AnswerInv == \A id \in 1 .. Len(results) : id > workerJob => results[id] = "pending"

LEMMA AnswersCounted ==
    ASSUME RingInv, AnswerInv
    PROVE  /\ Cardinality(Answered) = workerJob
           /\ Len(SubSeq(results, 1, workerJob)) = workerJob
           /\ workerJob \in Nat /\ workerJob <= Len(results)
<1>1. /\ results \in Seq({"pending", "ok", "failed"}) /\ Len(results) \in Nat
      /\ workerJob \in Nat /\ workerJob <= Len(results)
  BY Bounds DEF RingInv, TypeOK, HeldInv
<1>2. Answered = 1 .. workerJob
  BY <1>1 DEF Answered, AnswerInv, RingInv, HeldInv
<1>3. Cardinality(1 .. workerJob) = workerJob
  BY <1>1, FS_Interval
<1> QED
  BY <1>1, <1>2, <1>3

LEMMA AnswerStep ==
    ASSUME RingInv, MaxOutstanding < RingSize, AnswerInv, [Next]_vars
    PROVE  AnswerInv'
<1>0. /\ results \in Seq({"pending", "ok", "failed"}) /\ Len(results) = Len(requests)
      /\ Len(results) \in Nat /\ workerJob \in Nat /\ workerJob <= Len(results)
  BY Bounds DEF RingInv, TypeOK, HeldInv
<1>1. CASE UNCHANGED <<results, workerJob>>
  BY <1>1 DEF AnswerInv
<1>2. CASE Register \/ Execute \/ ExecuteWrite
  <2>1. \E kind, player : Enqueue(kind, player)
    BY <1>2 DEF Register, Execute, ExecuteWrite
  <2>2. results' = Append(results, "pending") /\ workerJob' = workerJob
    BY <2>1 DEF Enqueue
  <2> QED
    BY <1>0, <2>2 DEF AnswerInv
<1>3. CASE Complete
  <2>1. /\ workerJob' = workerJob + 1 /\ workerReq = workerJob + 1
        /\ results' = [results EXCEPT ![workerReq] = IF success THEN "ok" ELSE "failed"]
    BY <1>3 DEF Complete, RingInv, HeldInv, Busy
  <2>2. Len(results') = Len(results)
    BY <1>0, <2>1, SeqUpdate
  <2> QED
    BY <1>0, <2>1, <2>2 DEF AnswerInv
<1>4. CASE OnShutdown \/ ShutdownSeen \/ Join \/ Backup \/ Ended \/ UNCHANGED vars
  BY <1>1, <1>4 DEF OnShutdown, ShutdownSeen, Join, Backup, BackupEnd, BackupPass,
        BackupTake, BackupExec, BackupWait, Ended, vars, workerVars
<1>5. CASE WorkerTop \/ WorkerEnd \/ WorkerTake \/ Read \/ Configure
  BY <1>1, <1>5 DEF WorkerTop, WorkerEnd, WorkerTake, WorkerWait, Read, Configure
<1>6. CASE Write
  BY <1>1, <1>6 DEF Write, WriteRefused, WriteNormal, AddPoints, InsertRank,
        DeleteBackup, CopyBackup, DeleteCopied, KeepOnWrite
<1> QED
  BY <1>2, <1>3, <1>4, <1>5, <1>6 DEF Next, Main, Worker

\* What the callers see of a step.
LEMMA QueueStep ==
    ASSUME RingInv, MaxOutstanding < RingSize, AnswerInv, [Next]_vars,
           RingInv', AnswerInv', Cardinality(Answered)' = workerJob'
    PROVE  [Promise!Next]_Promise!vars
<1>0. /\ results \in Seq({"pending", "ok", "failed"}) /\ Len(results) = Len(requests)
      /\ Cardinality(Answered) = workerJob
      /\ Len(SubSeq(results, 1, workerJob)) = workerJob
      /\ workerJob \in Nat /\ workerJob <= Len(results)
      /\ requests \in Seq([kind : Kinds, player : Players \cup {NoPlayer}])
  BY AnswersCounted DEF RingInv, TypeOK, HeldInv
<1>1. CASE UNCHANGED <<requests, results, workerJob, mainPc, workerPc>>
  <2>1. Cardinality(Answered)' = Cardinality(Answered)
    BY <1>1 DEF Answered
  <2> QED
    BY <1>1, <2>1 DEF Promise!vars
<1>2. CASE Register \/ Execute \/ ExecuteWrite
  <2>1. PICK kind, player : Enqueue(kind, player)
    BY <1>2 DEF Register, Execute, ExecuteWrite
  <2>2. /\ mainPc = "run" /\ results' = Append(results, "pending")
        /\ requests' = Append(requests, [kind |-> kind, player |-> player])
        /\ UNCHANGED <<mainPc, workerPc, workerJob>>
    BY <2>1 DEF Enqueue
  <2>3. SubSeq(results', 1, workerJob) = SubSeq(results, 1, workerJob)
    BY <1>0, <2>2
  <2>4. Len(requests') = Len(requests) + 1
    BY <1>0, <2>2
  <2> QED
    BY <1>0, <2>2, <2>3, <2>4 DEF Promise!Next, Promise!Submit
<1>3. CASE Complete
  <2>1. /\ UNCHANGED <<requests, mainPc>> /\ workerPc = "complete" /\ workerPc' = "top"
        /\ workerJob' = workerJob + 1 /\ workerReq = workerJob + 1
        /\ results' = [results EXCEPT ![workerReq] = IF success THEN "ok" ELSE "failed"]
    BY <1>3 DEF Complete, mainVars, RingInv, HeldInv, Busy
  <2>2. workerReq \in 1 .. Len(results)
    BY <1>0, <2>1, HeldRequest DEF Busy
  <2> DEFINE a == IF success THEN "ok" ELSE "failed"
  <2>3. SubSeq(results', 1, workerJob + 1) = Append(SubSeq(results, 1, workerJob), a)
    <3>1. results' \in Seq({"pending", "ok", "failed"}) /\ Len(results') = Len(results)
      BY <1>0, <2>1, SeqUpdate
    <3>2. \A i \in 1 .. workerJob : results'[i] = results[i]
      BY <1>0, <2>1
    <3>3. results'[workerJob + 1] = a
      BY <1>0, <2>1, <2>2
    <3> HIDE DEF a
    <3> QED
      BY <1>0, <2>1, <2>2, <3>1, <3>2, <3>3
  <2>4. a \in {"ok", "failed"} /\ Len(SubSeq(results, 1, workerJob)) < Len(requests)
    BY <1>0, <2>1, <2>2
  <2> HIDE DEF a
  <2> QED
    BY <1>0, <2>1, <2>3, <2>4 DEF Promise!Next, Promise!Answer
<1>4. CASE OnShutdown
  <2>1. /\ mainPc = "run" /\ mainPc' = "await"
        /\ UNCHANGED <<requests, results, workerJob, workerPc>>
    BY <1>4 DEF OnShutdown, workerVars
  <2>2. Cardinality(Answered)' = Cardinality(Answered)
    BY <2>1 DEF Answered
  <2> QED
    BY <2>1, <2>2 DEF Promise!Next, Promise!Close
<1>5. CASE WorkerEnd
  <2>1. /\ workerPc = "take" /\ workerPc' = "done"
        /\ UNCHANGED <<requests, results, workerJob, mainPc>>
    BY <1>5 DEF WorkerEnd, WorkerWait
  <2>2. Taken' = workerJob /\ Taken' = Len(requests') /\ mainPc' # "run"
    BY <2>1 DEF RingInv, CountInv, Taken, Busy
  <2>3. Cardinality(Answered)' = Cardinality(Answered)
    BY <2>1 DEF Answered
  <2> QED
    BY <1>0, <2>1, <2>2, <2>3 DEF Promise!Next, Promise!End
<1>6. CASE ShutdownSeen \/ Join
  <2>1. /\ mainPc # "run" /\ mainPc' # "run"
        /\ UNCHANGED <<requests, results, workerJob, workerPc>>
    BY <1>6 DEF ShutdownSeen, Join, workerVars
  <2>2. Cardinality(Answered)' = Cardinality(Answered)
    BY <2>1 DEF Answered
  <2> QED
    BY <2>1, <2>2 DEF Promise!vars
<1>7. CASE Backup \/ Ended \/ UNCHANGED vars
  BY <1>1, <1>7 DEF Backup, BackupEnd, BackupPass, BackupTake, BackupExec, BackupWait,
        Ended, vars, mainVars, workerVars
<1>8. ASSUME UNCHANGED <<requests, results, workerJob, mainPc>>,
             workerPc # "done", workerPc' # "done"
      PROVE  [Promise!Next]_Promise!vars
  <2>1. Cardinality(Answered)' = Cardinality(Answered)
    BY <1>8 DEF Answered
  <2> QED
    BY <1>8, <2>1 DEF Promise!vars
<1>9. CASE WorkerTop \/ Read \/ Configure
  BY <1>8, <1>9 DEF WorkerTop, Read, Configure, mainVars
<1>10. CASE WorkerTake
  BY <1>8, <1>10, WorkerTakes DEF WorkerTake, WorkerWait, Kinds
<1>11. CASE Write
  <2>1. KeepOnWrite /\ workerPc # "done"
    BY <1>11 DEF Write, WriteRefused, WriteNormal, AddPoints, InsertRank, DeleteBackup,
                 CopyBackup, DeleteCopied
  <2>2. workerPc' # "done"
    BY <1>11 DEF Write, WriteRefused, WriteNormal, AddPoints, InsertRank, DeleteBackup,
                 CopyBackup, DeleteCopied, AfterNormal
  <2> QED
    BY <1>8, <2>1, <2>2 DEF KeepOnWrite, mainVars
<1> QED
  BY <1>2, <1>3, <1>4, <1>5, <1>6, <1>7, <1>9, <1>10, <1>11 DEF Next, Main, Worker

\* The callers may take the pool, its two threads and the ring for one queue
\* that answers each request once and in order (CDbConnectionPool::Execute and
\* ExecuteWrite, connection_pool.cpp:141).
THEOREM PoolImplementsRequestQueue ==
    ASSUME MaxOutstanding < RingSize PROVE Spec => ImplementsRequestQueue
<1>1. Init => AnswerInv /\ Promise!Init
  <2> SUFFICES ASSUME Init PROVE AnswerInv /\ Promise!Init
    OBVIOUS
  <2>1. /\ results = <<>> /\ requests = <<>> /\ workerJob = 0
        /\ mainPc = "run" /\ workerPc = "top"
    BY DEF Init
  <2>2. AnswerInv
    BY <2>1 DEF AnswerInv
  <2>3. Cardinality(Answered) = 0
    BY <2>1, <2>2, InitRing, AnswersCounted
  <2> QED
    BY <2>1, <2>2, <2>3 DEF Promise!Init
<1>2. RingInv /\ AnswerInv /\ [Next]_vars => AnswerInv'
  BY AnswerStep
<1>3. RingInv /\ AnswerInv => Cardinality(Answered) = workerJob
  BY AnswersCounted
<1>4. /\ RingInv /\ AnswerInv /\ [Next]_vars
      /\ RingInv' /\ AnswerInv' /\ (Cardinality(Answered) = workerJob)'
      => [Promise!Next]_Promise!vars
  BY QueueStep
<1> QED
  BY <1>1, <1>2, <1>3, <1>4, RingDiscipline, PTL DEF Spec, ImplementsRequestQueue, Promise!Spec
=============================================================================
