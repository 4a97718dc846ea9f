--------------------------- MODULE ConnectionPool ---------------------------
(***************************************************************************)
(* CDbConnectionPool (engine/server/databases/connection_pool.cpp): the    *)
(* server's main thread queues SQL requests in a ring of slots; the backup *)
(* thread looks at every request first and writes ranks to a local SQLite  *)
(* file; the worker thread then executes it on the main database and moves *)
(* or deletes the backup row.  Write requests are CScoreWorker::SaveScore  *)
(* (game/server/scoreworker.cpp), statement by statement: no statement is  *)
(* grouped in a transaction, so the process may die between any two.       *)
(*                                                                         *)
(* A request is named by its position in `requests'; a rank row is named   *)
(* by the request that wrote it.                                           *)
(***************************************************************************)
EXTENDS Integers, Sequences, FiniteSets

CONSTANTS
    Players,         \* players whose finishes are saved
    RingSize,        \* slots of m_aQueries (512 in the code)
    MaxOutstanding,  \* most requests queued and not yet taken by the worker:
                     \* the code has no such limit, the environment keeps it
    MaxRequests,     \* bound on the requests of a behaviour
    Startup,         \* registrations of databases before the game traffic
    Traffic,         \* kinds of requests issued afterwards
    MainOutcomes,    \* what a statement on the main database may do
    FileOutcomes     \* what a statement on the backup file may do

Kinds         == {"addRead", "addWrite", "addBackup", "read", "write", "print"}
Registrations == {"addRead", "addWrite", "addBackup"}
\* "ok": done and reported; "fail": not done; "lost": done, reported failed.
Outcomes == {"ok", "fail", "lost"}

ASSUME RingAssumption ==
    /\ RingSize \in Nat \ {0}
    /\ MaxOutstanding \in Nat \ {0}
    /\ MaxRequests \in Nat
    /\ Startup \in Seq(Registrations)
    /\ Traffic \subseteq {"read", "write", "print"}
    /\ MainOutcomes \subseteq Outcomes
    /\ FileOutcomes \subseteq Outcomes

Null == 0          \* an empty unique_ptr
NoPlayer == "none"
RequestId == Nat \ {0}
Slot == 0 .. RingSize - 1

VARIABLES
    requests,        \* every request the main thread has queued, in order
    slots,           \* m_aQueries: a request id or Null
    numBackup,       \* m_NumBackup
    numWorker,       \* m_NumWorker
    sharedShutdown,  \* m_pShared->m_Shutdown
    mainPc,          \* "run", "await" (in OnShutdown), "join", "ended"
    backupPc,        \* "wait", "exec", "done"
    backupJob,       \* JobNum of CBackup::ProcessQueries
    backupReq,       \* pThreadData of CBackup::ProcessQueries
    backupConn,      \* CBackup::m_pWriteBackup is set
    workerPc,        \* control point of CWorker::ProcessQueries
    workerJob,       \* JobNum of CWorker::ProcessQueries
    workerReq,       \* pThreadData of CWorker::ProcessQueries
    readConns,       \* m_vpReadConnections.size()
    writeConn,       \* CWorker::m_pWriteConnection is set
    workerBackup,    \* CWorker::m_pWriteBackup is set
    failMode,        \* FailMode
    readServer,      \* ReadServer
    tried,           \* i of the loop over the read connections
    success,         \* Success
    results,         \* m_pResult of each request: "pending", "ok", "failed"
    mainRace,        \* record_race of the main database
    fileRace,        \* record_race of the backup file
    backupRace,      \* record_race_backup of the backup file
    points           \* how often each player was given the map's points

mainVars   == <<requests, slots, mainPc>>
backupVars == <<backupPc, backupJob, backupReq, backupConn>>
connVars   == <<readConns, writeConn, workerBackup>>
localVars  == <<failMode, readServer, tried, success>>
workerVars == <<workerPc, workerJob, workerReq, connVars, localVars, results>>
tableVars  == <<mainRace, fileRace, backupRace, points>>
semVars    == <<numBackup, numWorker, sharedShutdown>>
vars == <<mainVars, semVars, backupVars, workerVars, tableVars>>

-----------------------------------------------------------------------------
SlotOf(job) == job % RingSize

\* m_InsertIdx: the slot of the next request.
InsertIdx == SlotOf(Len(requests))

\* The worker has moved a request out of its slot and works on it.
Busy == workerPc \notin {"top", "take", "done"}

\* Requests the worker has taken out of the ring.
Taken == IF Busy THEN workerJob + 1 ELSE workerJob

Kind(id) == requests[id].kind
Player(id) == requests[id].player

Init ==
    /\ requests = <<>>
    /\ slots = [k \in Slot |-> Null]
    /\ numBackup = 0 /\ numWorker = 0 /\ sharedShutdown = FALSE
    /\ mainPc = "run"
    /\ backupPc = "wait" /\ backupJob = 0 /\ backupReq = Null /\ backupConn = FALSE
    /\ workerPc = "top" /\ workerJob = 0 /\ workerReq = Null
    /\ readConns = 0 /\ writeConn = FALSE /\ workerBackup = FALSE
    /\ failMode = FALSE /\ readServer = 0 /\ tried = 0 /\ success = FALSE
    /\ results = <<>>
    /\ mainRace = {} /\ fileRace = {} /\ backupRace = {}
    /\ points = [p \in Players |-> 0]
-----------------------------------------------------------------------------
(* The main thread.                                                        *)


\* m_aQueries[m_InsertIdx++] = request; m_NumBackup.Signal()
Enqueue(kind, player) ==
    /\ mainPc = "run"
    /\ Len(requests) < MaxRequests
    /\ Len(requests) - Taken < MaxOutstanding
    /\ slots' = [slots EXCEPT ![InsertIdx] = Len(requests) + 1]
    /\ requests' = Append(requests, [kind |-> kind, player |-> player])
    /\ results' = Append(results, "pending")
    /\ numBackup' = numBackup + 1
    /\ UNCHANGED <<numWorker, sharedShutdown, mainPc, backupVars, workerPc,
                   workerJob, workerReq, connVars, localVars, tableVars>>

\* RegisterSqliteDatabase, RegisterMysqlDatabase
Register ==
    /\ Len(requests) < Len(Startup)
    /\ Enqueue(Startup[Len(requests) + 1], NoPlayer)

\* Execute, Print
Execute ==
    /\ Len(requests) >= Len(Startup)
    /\ \E kind \in Traffic \ {"write"} : Enqueue(kind, NoPlayer)

ExecuteWrite ==
    /\ Len(requests) >= Len(Startup) /\ "write" \in Traffic
    /\ \E p \in Players : Enqueue("write", p)

OnShutdown ==
    /\ mainPc = "run"
    /\ mainPc' = "await"
    /\ sharedShutdown' = TRUE
    /\ numBackup' = numBackup + 1
    /\ UNCHANGED <<requests, slots, numWorker, backupVars, workerVars, tableVars>>

\* The polling loop of OnShutdown ends once the worker resets m_Shutdown.
ShutdownSeen ==
    /\ mainPc = "await" /\ ~sharedShutdown
    /\ mainPc' = "join"
    /\ UNCHANGED <<requests, slots, semVars, backupVars, workerVars, tableVars>>

\* ~CDbConnectionPool: its OnShutdown returns at once, then thread_wait twice.
Join ==
    /\ mainPc = "join" /\ workerPc = "done" /\ backupPc = "done"
    /\ mainPc' = "ended"
    /\ UNCHANGED <<requests, slots, semVars, backupVars, workerVars, tableVars>>
-----------------------------------------------------------------------------
(* The backup thread.                                                      *)

\* Wait on m_NumBackup and look at the slot of JobNum without emptying it.
BackupWait ==
    /\ backupPc = "wait" /\ numBackup > 0
    /\ numBackup' = numBackup - 1
    /\ UNCHANGED <<mainVars, sharedShutdown, workerVars, tableVars>>

BackupEnd ==
    /\ BackupWait
    /\ slots[SlotOf(backupJob)] = Null
    /\ backupPc' = "done"
    /\ numWorker' = numWorker + 1
    /\ UNCHANGED <<backupJob, backupReq, backupConn>>

BackupPass ==
    /\ BackupWait
    /\ LET id == slots[SlotOf(backupJob)]
       IN  /\ id # Null
           /\ ~(Kind(id) = "write" /\ backupConn)
           /\ backupConn' = (backupConn \/ Kind(id) = "addBackup")
    /\ backupJob' = backupJob + 1
    /\ numWorker' = numWorker + 1
    /\ UNCHANGED <<backupPc, backupReq>>

BackupTakeSignals ==                             \* mutant: signals too early
    /\ BackupWait
    /\ LET id == slots[SlotOf(backupJob)]
       IN  id # Null /\ Kind(id) = "write" /\ backupConn /\ backupReq' = id
    /\ backupPc' = "exec"
    /\ numWorker' = numWorker + 1
    /\ UNCHANGED <<backupJob, backupConn>>

BackupTake ==
    /\ BackupWait
    /\ LET id == slots[SlotOf(backupJob)]
       IN  /\ id # Null
           /\ Kind(id) = "write" /\ backupConn
           /\ backupReq' = id
    /\ backupPc' = "exec"
    /\ UNCHANGED <<numWorker, backupJob, backupConn>>

BackupExecNotInShutdown ==                       \* mutant: skips while closing
    /\ backupPc = "exec"
    /\ backupRace' = IF sharedShutdown THEN backupRace ELSE backupRace \cup {backupReq}
    /\ backupPc' = "wait"
    /\ backupJob' = backupJob + 1
    /\ backupReq' = Null
    /\ numWorker' = numWorker + 1
    /\ UNCHANGED <<mainVars, numBackup, sharedShutdown, backupConn, workerVars,
                   mainRace, fileRace, points>>

\* SaveScore with Write::BACKUP_FIRST, then m_NumWorker.Signal().
BackupExec ==
    /\ backupPc = "exec"
    /\ \E o \in FileOutcomes :
         backupRace' = IF o = "fail" THEN backupRace
                       ELSE backupRace \cup {backupReq}
    /\ backupPc' = "wait"
    /\ backupJob' = backupJob + 1
    /\ backupReq' = Null
    /\ numWorker' = numWorker + 1
    /\ UNCHANGED <<mainVars, numBackup, sharedShutdown, backupConn, workerVars,
                   mainRace, fileRace, points>>
-----------------------------------------------------------------------------
(* The worker thread.                                                      *)

\* Leave fail mode when m_NumWorker.GetApproximateValue() is zero.
WorkerTop ==
    /\ workerPc = "top"
    /\ failMode' = (failMode /\ numWorker # 0)
    /\ workerPc' = "take"
    /\ UNCHANGED <<mainVars, semVars, backupVars, workerJob, workerReq, connVars,
                   readServer, tried, success, results, tableVars>>

\* Wait on m_NumWorker and move the request out of its slot.
WorkerWait ==
    /\ workerPc = "take" /\ numWorker > 0
    /\ numWorker' = numWorker - 1
    /\ slots' = [slots EXCEPT ![SlotOf(workerJob)] = Null]
    /\ UNCHANGED <<requests, numBackup, mainPc, backupVars, workerJob,
                   connVars, failMode, readServer, results, tableVars>>

WorkerEndAtOnce ==                               \* mutant: ends when told to
    /\ WorkerWait
    /\ slots[SlotOf(workerJob)] = Null \/ sharedShutdown
    /\ sharedShutdown' = FALSE
    /\ workerPc' = "done"
    /\ UNCHANGED <<workerReq, tried, success>>

WorkerEndSilent ==                               \* mutant: no store(false)
    /\ WorkerWait
    /\ slots[SlotOf(workerJob)] = Null
    /\ workerPc' = "done"
    /\ UNCHANGED <<sharedShutdown, workerReq, tried, success>>

WorkerEnd ==
    /\ WorkerWait
    /\ slots[SlotOf(workerJob)] = Null
    /\ sharedShutdown' = FALSE
    /\ workerPc' = "done"
    /\ UNCHANGED <<workerReq, tried, success>>

WorkerTake ==
    /\ WorkerWait
    /\ slots[SlotOf(workerJob)] # Null
    /\ workerReq' = slots[SlotOf(workerJob)]
    /\ workerPc' = Kind(workerReq')
    /\ tried' = 0
    /\ success' = FALSE
    /\ UNCHANGED sharedShutdown

\* One round of the loop over the read connections, or its end.
Read ==
    /\ workerPc = "read"
    /\ \/ /\ tried >= readConns \/ sharedShutdown \/ failMode
          /\ failMode' = TRUE
          /\ workerPc' = "complete"
          /\ UNCHANGED <<readServer, tried, success>>
       \/ /\ tried < readConns /\ ~sharedShutdown /\ ~failMode
          /\ readServer' = (readServer + tried) % readConns
          /\ success' = TRUE
          /\ workerPc' = "complete"
          /\ UNCHANGED <<failMode, tried>>
       \/ /\ tried < readConns /\ ~sharedShutdown /\ ~failMode
          /\ tried' = tried + 1
          /\ UNCHANGED <<failMode, readServer, success, workerPc>>
    /\ UNCHANGED <<mainVars, semVars, backupVars, workerJob, workerReq, connVars,
                   results, tableVars>>

AfterNormalInShutdown(ok) ==                     \* mutant: w ignores Success
    /\ success' = ok
    /\ failMode' = (failMode \/ ~ok)
    /\ workerPc' = IF ~workerBackup THEN "complete"
                   ELSE IF ok /\ ~sharedShutdown THEN "succeeded" ELSE "failed"

\* What follows the attempt on the write connection: fail mode, and
\* NORMAL_SUCCEEDED or NORMAL_FAILED on the backup connection if there is one.
AfterNormal(ok) ==
    /\ success' = ok
    /\ failMode' = (failMode \/ ~ok)
    /\ workerPc' = IF ~workerBackup THEN "complete"
                   ELSE IF ok THEN "succeeded" ELSE "failed"

KeepOnWrite == UNCHANGED <<mainVars, semVars, backupVars, workerJob, workerReq,
                           connVars, readServer, tried, results>>

SkipToBackup == workerBackup /\ (sharedShutdown \/ failMode)

Finished(player) == \E id \in mainRace : Player(id) = player

\* The write connection is skipped, missing, or fails before a row changes.
WriteRefused ==
    /\ workerPc = "write"
    /\ SkipToBackup \/ ~writeConn \/ MainOutcomes # {"ok"}
    /\ AfterNormal(FALSE)
    /\ KeepOnWrite /\ UNCHANGED tableVars

WriteNormalNoCount ==                            \* mutant: NumFinished ignored
    /\ workerPc = "write"
    /\ ~SkipToBackup /\ writeConn
    /\ workerPc' = "points"
    /\ KeepOnWrite /\ UNCHANGED <<tableVars, success, failMode>>

\* SaveScore NORMAL: count the player's finishes.
WriteNormal ==
    /\ workerPc = "write"
    /\ ~SkipToBackup /\ writeConn
    /\ workerPc' = IF Finished(Player(workerReq)) THEN "insert" ELSE "points"
    /\ KeepOnWrite /\ UNCHANGED <<tableVars, success, failMode>>

\* SaveScore NORMAL: AddPoints for the first finish.
AddPoints ==
    /\ workerPc = "points"
    /\ \E o \in MainOutcomes :
         /\ points' = IF o = "fail" THEN points
                      ELSE [points EXCEPT ![Player(workerReq)] = @ + 1]
         /\ IF o = "ok" THEN workerPc' = "insert" /\ UNCHANGED <<success, failMode>>
                        ELSE AfterNormal(FALSE)
    /\ KeepOnWrite /\ UNCHANGED <<mainRace, fileRace, backupRace>>

\* SaveScore NORMAL: INSERT IGNORE INTO record_race.
InsertRank ==
    /\ workerPc = "insert"
    /\ \E o \in MainOutcomes :
         /\ mainRace' = IF o = "fail" THEN mainRace ELSE mainRace \cup {workerReq}
         /\ AfterNormal(o = "ok")
    /\ KeepOnWrite /\ UNCHANGED <<fileRace, backupRace, points>>

\* SaveScore NORMAL_SUCCEEDED: delete the backup row.
DeleteBackup ==
    /\ workerPc = "succeeded"
    /\ \E o \in FileOutcomes :
         backupRace' = IF o = "fail" THEN backupRace ELSE backupRace \ {workerReq}
    /\ workerPc' = "complete"
    /\ KeepOnWrite /\ UNCHANGED <<mainRace, fileRace, points, success, failMode>>

CopyBackupUnchecked ==                           \* mutant: error ignored
    /\ workerPc = "failed"
    /\ \E o \in FileOutcomes :
         fileRace' = IF o = "fail" THEN fileRace
                     ELSE fileRace \cup (backupRace \cap {workerReq})
    /\ workerPc' = "copied"
    /\ KeepOnWrite /\ UNCHANGED <<mainRace, backupRace, points, success, failMode>>

CopyBackupForgotten ==                           \* mutant: no INSERT
    /\ workerPc = "failed"
    /\ workerPc' = "copied"
    /\ KeepOnWrite /\ UNCHANGED <<tableVars, success, failMode>>

\* SaveScore NORMAL_FAILED: INSERT INTO record_race SELECT * FROM the backup.
CopyBackup ==
    /\ workerPc = "failed"
    /\ \E o \in FileOutcomes :
         /\ fileRace' = IF o = "fail" THEN fileRace
                        ELSE fileRace \cup (backupRace \cap {workerReq})
         /\ workerPc' = IF o = "ok" THEN "copied" ELSE "complete"
    /\ KeepOnWrite /\ UNCHANGED <<mainRace, backupRace, points, success, failMode>>

\* SaveScore NORMAL_FAILED: delete the copied row.
DeleteCopied ==
    /\ workerPc = "copied"
    /\ \E o \in FileOutcomes :
         /\ backupRace' = IF o = "fail" THEN backupRace ELSE backupRace \ {workerReq}
         /\ success' = (o = "ok")
    /\ workerPc' = "complete"
    /\ KeepOnWrite /\ UNCHANGED <<mainRace, fileRace, points, failMode>>

\* ADD_MYSQL, ADD_SQLITE and PRINT, which only CDumpSqlServers requests.
Configure ==
    /\ workerPc \in {"addRead", "addWrite", "addBackup", "print"}
    /\ readConns' = IF workerPc = "addRead" THEN readConns + 1 ELSE readConns
    /\ writeConn' = (writeConn \/ workerPc = "addWrite")
    /\ workerBackup' = (workerBackup \/ workerPc = "addBackup")
    /\ success' = TRUE
    /\ workerPc' = "complete"
    /\ UNCHANGED <<mainVars, semVars, backupVars, workerJob, workerReq, failMode,
                   readServer, tried, results, tableVars>>

CompleteIfDone ==                                \* mutant: failure not answered
    /\ workerPc = "complete"
    /\ results' = [results EXCEPT ![workerReq] = IF success THEN "ok" ELSE @]
    /\ workerJob' = workerJob + 1
    /\ workerReq' = Null
    /\ workerPc' = "top"
    /\ UNCHANGED <<mainVars, semVars, backupVars, connVars, localVars, tableVars>>

\* m_pResult->m_Success, m_Completed, and the next round.
Complete ==
    /\ workerPc = "complete"
    /\ results' = [results EXCEPT ![workerReq] = IF success THEN "ok" ELSE "failed"]
    /\ workerJob' = workerJob + 1
    /\ workerReq' = Null
    /\ workerPc' = "top"
    /\ UNCHANGED <<mainVars, semVars, backupVars, connVars, localVars, tableVars>>
-----------------------------------------------------------------------------
\* The process has exited.
Ended == mainPc = "ended" /\ UNCHANGED vars

Main   == \/ Register \/ Execute \/ ExecuteWrite
          \/ OnShutdown \/ ShutdownSeen \/ Join
Backup == BackupEnd \/ BackupPass \/ BackupTake \/ BackupExec
Write  == \/ WriteRefused \/ WriteNormal \/ AddPoints \/ InsertRank
          \/ DeleteBackup \/ CopyBackup \/ DeleteCopied
Worker == \/ WorkerTop \/ WorkerEnd \/ WorkerTake
          \/ Read \/ Write \/ Configure \/ Complete

Next == Main \/ Backup \/ Worker \/ Ended

Spec == Init /\ [][Next]_vars

\* The threads are scheduled, and the main thread polls and joins.  Nothing
\* obliges the server to queue requests or to shut down.
Fairness == /\ WF_vars(Backup) /\ WF_vars(Worker)
            /\ WF_vars(ShutdownSeen) /\ WF_vars(Join)

FairSpec == Spec /\ Fairness
-----------------------------------------------------------------------------
(* Properties.                                                             *)

WorkerPcs == {"top", "take", "done", "points", "insert", "succeeded",
              "failed", "copied", "complete"} \cup Kinds

\* The values of all variables.
TypeOK ==
    /\ requests \in Seq([kind : Kinds, player : Players \cup {NoPlayer}])
    /\ slots \in [Slot -> Nat]
    /\ numBackup \in Nat /\ numWorker \in Nat /\ sharedShutdown \in BOOLEAN
    /\ mainPc \in {"run", "await", "join", "ended"}
    /\ backupPc \in {"wait", "exec", "done"}
    /\ backupJob \in Nat /\ backupReq \in Nat /\ backupConn \in BOOLEAN
    /\ workerPc \in WorkerPcs
    /\ workerJob \in Nat /\ workerReq \in Nat
    /\ readConns \in Nat /\ writeConn \in BOOLEAN /\ workerBackup \in BOOLEAN
    /\ failMode \in BOOLEAN /\ readServer \in Nat /\ tried \in Nat
    /\ success \in BOOLEAN
    /\ results \in Seq({"pending", "ok", "failed"})
    /\ mainRace \subseteq RequestId /\ fileRace \subseteq RequestId
    /\ backupRace \subseteq RequestId
    /\ points \in [Players -> Nat]

\* The object a thread works on is its own: the request the backup thread
\* looks at through a raw pointer is still owned by its slot, and the one the
\* worker has moved out was first passed on by the backup thread.
Ownership ==
    /\ backupPc = "exec" => slots[SlotOf(backupJob)] = backupReq
    /\ Busy => workerReq <= backupJob

\* "work through all database jobs after OnShutdown is called before exiting
\* the thread" (connection_pool.cpp:216, 290): a thread that has ended was told
\* to, and left no request unanswered.
NothingLeftBehind ==
    workerPc = "done" =>
        /\ mainPc # "run"
        /\ \A id \in DOMAIN results : results[id] # "pending"

AllRanks == mainRace \cup fileRace \cup backupRace

\* A rank once stored in some table stays in one of them after every later
\* statement, so that the process may be killed at any point.
RankKept == [][AllRanks \subseteq AllRanks']_vars

BackedUp(id) == \E reg \in 1 .. id - 1 : Kind(reg) = "addBackup"

\* "This is done to not loose ranks when the server shuts down before all
\* queries are executed on the mysql server" (connection_pool.cpp:184): once
\* the backup thread has passed a rank on, it is in some table.
BackupProtects ==
    \A id \in 1 .. backupJob :
        Kind(id) = "write" /\ BackedUp(id) => id \in AllRanks

\* A write reported as done is stored.
SuccessStored ==
    \A id \in DOMAIN results :
        Kind(id) = "write" /\ results[id] = "ok" => id \in AllRanks

\* A rank is never both in the main database and in the record_race table of
\* the backup file, which an administrator later merges into it.
NoDoubleRank == mainRace \cap fileRace = {}

Attempts(player) ==
    {id \in 1 .. Taken : Kind(id) = "write" /\ Player(id) = player}

\* A player is given the points once, except that every attempt that did not
\* store its row may have given them already.
PointsBound ==
    \A p \in Players :
        points[p] <= Cardinality(Attempts(p) \ mainRace)
                     + (IF Finished(p) THEN 1 ELSE 0)

\* What the pool promises its callers.  The answers are counted wherever they
\* are, so that one given out of order leaves a request without an answer
\* among the first ones.
Answered == {id \in DOMAIN results : results[id] # "pending"}
Promise == INSTANCE RequestQueue WITH
    submitted <- Len(requests), answers <- SubSeq(results, 1, Cardinality(Answered)),
    open <- mainPc = "run", ended <- workerPc = "done"

\* Every request is answered once and in order, and the worker ends only after
\* OnShutdown and the last answer (CWorker::ProcessQueries, connection_pool.cpp:289).
ImplementsRequestQueue == Promise!Spec

\* While requests are unanswered, answers keep coming, and OnShutdown returns and
\* the destructor ends, wherever the worker is when m_Shutdown is set
\* (connection_pool.cpp:166).
RequestsAndShutdownEnd ==
    /\ Promise!Fairness
    /\ mainPc = "await" ~> mainPc = "ended"
=============================================================================
