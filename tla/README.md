# TLA+ models of the DDNet server with MQTT

This directory holds TLA+ specifications of the concurrent and distributed parts of the
DDNet server in this repository, the TLC configurations that check them on small
instances, and theorems about them that the TLAPS proof system checks for every value of
the constants. Paths below are relative to the root of the repository, which has the
code in `src/`; `PROJECT.json` gives the source lines of each definition.

Contents: 1. the system and its components - 2. the modules - 3. the runs - 4. the
proofs - 5. findings - 6. what is not modelled - 7. the plan.

## 1. The system

The server is one process with a main thread that runs the game in ticks, and a handful
of helper threads. Around it are the clients, reached over UDP, database servers, the
master server and an MQTT broker.

| component | state it keeps | operations | interacts with |
|---|---|---|---|
| Database pool (`engine/server/databases/connection_pool.cpp`) | ring of 512 requests, two semaphores, shutdown flag, connections, fail mode | `Execute`, `ExecuteWrite`, `Print`, `Register*`, `OnShutdown`, the loops of the backup and the worker thread | main thread queues; results are polled by the game |
| Score worker (`game/server/scoreworker.cpp`) | tables `race`, `race_backup`, `points`, `saves`, `saves_backup` | `SaveScore`, `SaveTeam`, `LoadTeam` in four write modes, queries | called by the two threads of the pool |
| Job pool (`engine/shared/jobs.cpp`) | queue, list of running jobs, semaphore, state of each job | `Init`, `Add`, `Shutdown`, `IJob::Abort`, `RunLoop` | used by registration, host lookup, the game client |
| Snapshot ids (`engine/server/snap_id_pool.cpp`) | free list and timed list in one array, counters | `NewId`, `FreeId`, `TimeoutIds` | entities take and give back ids on the main thread |
| Connection (`engine/shared/network_conn.cpp`, `network.cpp`) | sequence numbers, acks, resend buffer, packet under construction | `QueueChunk`, `Flush`, `Feed`, `Resend`, `Update`, `SetTimedOut`, `FetchChunk` | one end in the server, one in the client |
| Network server (`engine/shared/network_server.cpp`) | slots, flood counters, tokens | `Recv`, `Send`, three handshakes, `TryAcceptClient`, `Drop`, `SetTimedOut` | owns the connections, calls back into the server |
| Network client (`engine/shared/network_client.cpp`) | one connection | `Connect`, `Recv`, `Send`, `Disconnect` | the other end |
| Server (`engine/server/server.cpp`) | state of each client, map, snapshots, configuration | connection callbacks, `ProcessClientPacket`, `DoSnapshot`, `LoadMap` | everything |
| Teams and saves (`game/server/teams.cpp`, `save.cpp`) | team of each player, a pending save or load per team | `SaveTeam`, `LoadTeam`, `ProcessSaveTeam`, swaps | the database pool |
| MQTT (`engine/server/mqtt.cpp`, `main.cpp`) | connected flag, flags for map and heartbeat, callbacks by topic, missed messages | `Init`, `Run` on a detached thread, `Publish` and `RequestLogin` on the main thread, the message callback on Paho's thread | broker, console, game, the heartbeat of the main loop |
| Registration (`engine/server/register.cpp`) | per protocol: challenge token, request and response indices, status; shared info serial | `SendRegister`, `OnToken`, `SendDeleteIfRegistered`, the job that reads the answer | job pool, HTTP, master server |
| Master server (`mastersrv/src/main.rs`) | secret per address, newest info per secret, challenge seed | `handle_register`, `handle_delete`, `prune_before`, `reseed` | the registrations of the game servers |
| HTTP (`engine/shared/http.cpp`) | pending and running requests, state of each request | `Run`, `Wait`, `Abort`, the curl thread | registration, map downloads of clients |
| Ring buffer (`engine/shared/ringbuffer.cpp`) | items in a fixed block, free and used | `Allocate`, `PopFirst`, iteration | resend buffer, console history |
| Snapshots (`engine/shared/snapshot.cpp`, `server.cpp`, `client/client.cpp`) | storage of sent and of received snapshots, the acked tick, the rate | `DoSnapshot`, `Add`, `PurgeUntil`, `CreateDelta`, `UnpackDelta`, the handlers of `NETMSG_SNAP*` and `NETMSG_INPUT` | the acks in clients' input |

`PROJECT.json` lists these and the remaining parts (bans, codecs, console, file formats,
game rules, editor, tools), each with its status.

What is hard, and what makes each component correct:

- *Database pool.* Three threads share a ring without locks; ownership of a slot is only
  in the order of two semaphores. A rank must survive any failing statement and any point
  at which the process ends, must not be stored twice, and the points must be given once.
  Every request is answered once and in order, and the shutdown ends.
- *Job pool.* Aborts race with starts and ends of jobs; the semaphore counts visits to
  the queue, not jobs. No wake-up may be lost, jobs that are not abortable complete
  before the shutdown returns, aborts are final.
- *Snapshot ids.* A long sequence of legal calls must not tear the two lists, which share
  one array; an id has one owner; an id in a snapshot is not reused before the next.
- *Connection.* Packets are lost, repeated and reordered while ten bit sequence numbers
  wrap; messages arrive once and in order, nothing is given up that the peer lacks; a
  client that timed out can come back and take over its old slot.
- *Teams and saves.* The players of a team leave, die, change names and slots while the
  database works on its save; servers share the database and load at the same time. A
  saved run can be continued from one place at most, a reported save is not lost, and
  nobody gets the tee of somebody else.
- *MQTT.* Three threads share flags, kept messages and callbacks without a lock, and the
  connection comes late or goes: nothing is sent twice or forgotten.
- *Registration.* Requests, answers, challenges and deletes overtake each other, both ends
  restart and forget: in the end exactly the enabled protocols are listed, with the latest
  info, and the addresses of the master server agree with those of each server.
- *Snapshots.* A difference names its base by a tick only, and acks and parts of snapshots
  arrive in any order: the client never takes a wrong world for the right one, and it
  still has the bases that the server uses.

The hazards in `PROJECT.json` name the line where each of these bites and the properties
that look at it, or say why none does yet.

## 2. The modules

A component is a module with its state as variables, one action per operation or per
step between two points at which another thread can run, and its properties at the end.
`MC*` modules hold the values of constants that a `.cfg` cannot express, `*Proofs`
modules the theorems. Operators under a comment "mutant" are plausible bugs of the
operator that follows them; the models do not use them.

**ConnectionPool** (with the abstract **RequestQueue**). One action per critical step of
the main thread (`Register`, `Execute`, `ExecuteWrite`, `OnShutdown`, `ShutdownSeen`,
`Join`), of `CBackup::ProcessQueries` (`Backup*`) and of `CWorker::ProcessQueries`.
`SaveScore` is taken apart into its SQL statements (`WriteNormal`, `AddPoints`,
`InsertRank`, `CopyBackup`, `DeleteCopied`, `DeleteBackup`), because each of them can
fail on its own. `MainOutcomes` and `FileOutcomes` say what a statement may do: "ok",
"fail" (not done), or "lost" (done, reported as failed because the connection broke).
Ranks are the numbers of the requests that wrote them; the tables are sets of ranks. A
killed process is not an action: the properties about tables hold in, or between, all
states, so they hold at whatever point it is killed. `RequestQueue` is what the callers
may rely on: requests are answered once, in order, all of them before the executor ends
(its `Spec`), and they are answered at last (its `Fairness`).

**SnapIdPool** (with the abstract **SnapIds**). The array with its links, the heads of the
two lists and the counters; `RemoveFirstTimeout` is a step of the loops of `NewId` and
`TimeoutIds`. Entities own ids as `CEntity` does. The clock counts units of which an
`int` holds `IntHalf` on each side of zero, so that storing a deadline truncates it as the
code does. `SnapIds` has a set of free ids and a first-in-first-out quarantine.

**JobPool.** A step is what happens under a lock or in one atomic operation; the walk of
`Shutdown` over the queue is one step per job, since workers that already have a job go on
meanwhile. A job is added at most once, which `engine.cpp` and the callers keep to.

**NetConnection** (with the abstract **ReliableChannel**). Both ends of a connection that is
online, each with `m_Sequence`, `m_Ack`, `m_PeerAck`, `m_Buffer`, `m_Construct` and the
packet being unpacked, and the packets under way as a set: a packet in it can be delivered
any number of times, in any order, or dropped. Only vital chunks are modelled. A chunk has
its sequence number and, as a ghost, the number of its message, with which the properties
compare what arrives to what was sent. Timeout protection is `TimeOut`, `Reconnect` (the
client comes back in another slot), `TakeOver` (`SetTimedOut` moves that connection into
the old slot) and `ReuseSlot` (the slot that became free gets another client, which writes
over the memory the moved records still point to). `ReliableChannel` promises each end the
other's messages once and in order. Two assumptions about the environment are explicit: `Fresh`
(no packet is so late that half of the sequence numbers were used since it was sent; with
1024 of them and packets that live for seconds this is how the protocol was dimensioned),
and `Window` (an end does not send more than that many chunks beyond the last ack; the
code has no window, but a connection whose oldest chunk is not acknowledged for the
timeout is ended).

**TeamSave.** `/save` and `/load` from the command to the restored tees. The game (`Join`,
`Start`, `Leave`, `Die`, `Disconnect`, ...) knows who is in the team and which saved run a
tee continues; who has finished and whether the team is locked are choices. A request is
queued by `SaveTeam` or `LoadTeam`, and each SQL statement of `CScoreWorker` is a step of
its own on the main database or on the server's file (`SaveBackup`, `SaveNormal`,
`SaveRetry`, `SaveFailed`, ..., `LoadSelect`, `LoadDelete`); `At` keeps the order in which
`ConnectionPool` answers the requests of a server. `ProcessSaveTeam` applies the answer to
whoever is in the team then; if a loaded tee is not valid it kills the whole team
(`KillInvalid`), whose members stay in it and whose state stays STARTED, because
`OnCharacterDeath` still finds a team that is saving (teams.cpp:1083). `Reset` is a map change, which drops the pending result, and
`Restart` ends the process with its requests. A save is named by its request, which stands
for the random `SaveId`; generated codes are assumed fresh. Statements are done and
reported, or not done: with an answer lost after the DELETE a load loses its save, and
`SuccessKept` says what holds without that.

**Mqtt.** The runner (`CMqtt::Run` on its detached thread), the main thread and the callback
of the Paho library, each with the points between which the others can run: `Publish` tests
`m_connected` and `Keep` stores the message; `PublishMap` reads and `ClearMap` clears the
flag; `RequestLogin` stores its callback after it has waited for the publication
(`LoginPublished`). The broker delivers answers at least once and may be lost for good. A
message is a number; `asked` is a ghost that remembers requests for the map. `AckInCallback`
says that the library receives acks while the message callback runs, without which
`mqtt.cpp:64` waits for ever.

**Snapshots.** One client and the server with several maps. `built` remembers what the
server built for each tick of a map, `kept` and `stored` are the two `CSnapshotStorage`s,
`snaps` and `inputs` the packets under way, which are lost, repeated and reordered. What a
snapshot holds is a value and a difference is the pair of two; applied to another base it
gives `Broken`. The timing of `CClient::Update` is left out: `Advance` and `SendInput` may
come at any time after they are possible. Two assumptions: a snapshot packet is not so
late that it arrives after the round trips of a map change (`EnterGame`; the code would
then ignore every snapshot until the old tick is reached), and an unchanged difference is
never split into parts.

**Register** with **MasterServer.** `MasterServer` has the operators of `main.rs`
on the map of addresses, the map of servers and the addresses that each server keeps in its
`Vec` (`Add`, `Retained`, `Without`, `Deleted`, `Answer`), without dumps and locations;
`Register` composes them with the main thread (`Update`, `OnToken`, `OnNewInfo`,
`OnConfigChange`, `OnShutdown`), with the jobs that wait for answers (`NoteResponse` and
`NoteSerial` are what they do under the two locks), and with a network that loses and
reorders. The indices of requests are kept only as far as they are compared: a job is
`newer` than the latest response, or `last`. `due` stands for the timer. `Forget` is an
entry that times out although its server goes on, `Prune` one that nobody refreshes.

In `Snapshots` and `Register` the bounds of a behaviour are a variable (`limits`, `left`)
that `Init` chooses from a set of scenarios, so that one run covers several small
instances that would be too large as their product.

## 3. The runs

All runs finish without an error, except `snapid_reuse`, which exhibits the finding of
section 5.

| run | configuration | what it shows |
|---|---|---|
| `pool_mysql` | two players, ring of 3, at most 2 outstanding, 5 requests, every outcome of every statement | `Ownership`, `NothingLeftBehind`, `RankKept`, `PointsBound` |
| `pool_file` | two read servers, a main server and a backup file that works; reads, writes, prints; fair | `BackupProtects`, `SuccessStored`, `NoDoubleRank`, `ImplementsRequestQueue`, `RequestsAndShutdownEnd` |
| `snapid_lists` | 2 entities, 3 ids, clock up to 5 with an `int` of 3 units | `OneOwner`, `NoIdLost`, `ImplementsSnapIds` |
| `snapid_reuse` | the same | violation of `IdentifiesItem` |
| `jobs` | 3 jobs, 2 of them abortable, 2 workers, the pool started twice; fair | `AssertionsHold`, `CompletedAtShutdown`, `AbortedIsFinal`, `JobsEnd`, `CallsReturn` |
| `net_wrap` | 7 messages over 6 sequence numbers, 2 packets under way to the server and 1 to the client, 1 reconnect with takeover, 1 reuse | `AwaitedChunkIsKept`, `CurrentAckIsValid`, `ImplementsChannel` |
| `net_live` | 2 messages, up to 3 packets each way; fair | `EveryMessageArrives` |
| `saves_shared` | two servers with one player each, a main database that may fail, 2 saves, 2 loads, one code of the players' choice | `NoCopy`, `SuccessKept` |
| `saves_team` | one server, two players with two names, both databases may fail, a save, a load, a map change or restart; fair | `TypeOK`, `RestoredToOwner`, `LifeOfSave`, `SavingEnds` |
| `mqtt_threads` | 2 topics, 2 messages, a login, a heartbeat every second tick; fair | `TypeOK`, `NothingSentTwice`, `LoginHandledOnce`, `KeptAreSent`, `MapIsSent`, `HeartbeatsGoOn` |
| `snaps` | two maps of 3 ticks with snapshots of two parts, or one of 6 ticks with a storage that is purged | `TypeOK`, `SnapshotsTrue`, `BaseKept` |
| `register` | four scenarios: a forgetful master with two protocols; a protocol disabled and enabled with expiring challenges; a restart; overtaking and failing requests; fair | `AddressesServed`, `InfoForward`, `StaysListed`, `GetsUnlisted` |

*Bounds and why they are enough.* A ring of 3 with 5 requests wraps, and 2 outstanding
requests are the smallest number with which both threads are inside the ring at different
slots while the main thread adds a third one (`MaxOutstanding < RingSize` is the condition of the theorems, so
the runs sit at its edge). Two players and three finishes suffice for a first and a second
finish of one player and an unrelated one. Three ids allow a list with a first, a middle
and a last element; two entities leave one over. Two workers can be anywhere in the loop
at once, and of three jobs one can be queued while two run. Six sequence numbers with a
half of three and a window of two keep the proportions of the code (1024, 512, a few
chunks); the seventh message reuses the first number while packets with it may still be
under way.

Two servers with a save and a load each are what it takes for one to load what the other
saved while its code is used again; two players of one team can exchange names, slots and
places in it while it saves. Two messages of the main thread and two topics let one message
be kept while another one of the same topic is refused. Two ticks of a storage that keeps
one are enough for a base that the server has forgotten, two parts for parts of different
snapshots to mix, and six ticks for a purge while two snapshots are shown and a third is
the base. Two protocols share the info serial as four do; two requests of a protocol are
the smallest number that can overtake each other.

In `pool_mysql` rank and points are only bounded from one side, because a statement that
is done and reported as failed really does lead to duplicates; `NoDoubleRank` and
`SuccessStored` are therefore checked in `pool_file`, with a backup file whose statements
work and a main server whose statements report what they did. That `SuccessStored` needs the
first of these is disagreement 2 of section 5.

*Fairness.* `ConnectionPool` and `JobPool` assume weak fairness of each thread's next
step: threads are scheduled, statements and jobs return. The main thread is only obliged to
finish what it is in (`ShutdownSeen` polls, `Join` joins), never to queue requests or to
shut down. `NetConnection` assumes more, because it has a network: weak fairness of the
unpacking loop, strong fairness of the timers of `Update` (a packet that keeps being fed
disables `Update` for a moment again and again, and the timers fire all the same), and
strong fairness of the delivery of a chunk, or of an ack, that is sent again and again
(the network loses packets, but not every copy for ever). Without
the last, a connection may do nothing but lose packets until it times out; a timeout is
switched off in `net_live` (`MaxReconnects = 0`).

`TeamSave` assumes weak fairness of the steps of requests and of `ProcessSaveTeam`, which the
game calls in each tick, and nothing of the players. `Mqtt` assumes that its threads are
scheduled and that calls of the library return; the main loop ticks. `Register` assumes
weak fairness of the main loop, the timer, the oldest job of a protocol and the pruning of
the master. The arrival of a challenge has strong fairness, because the bound on
requests under way disables it now and then; challenges and requests may be lost as often
as the scenario says, and the master answers the others.

Deadlock is checked in the runs of `ConnectionPool`, `SnapIdPool`, `JobPool`,
`NetConnection` and `Mqtt`. `ConnectionPool` has an explicit step `Ended` for a process that
has exited. The bounded behaviours of `TeamSave`, `Snapshots` and `Register` end when their
saves, ticks or changes are used up.

## 4. The proofs

Every model is proved about, for every value of its constants: a theorem states
each safety invariant, action property and refinement that a passing run checks, and the
types of the variables where no run looks at them. Liveness is only model-checked.
Hardly any of the properties is inductive alone: what goes wrong in one step was prepared in
an earlier one, in a place the property does not mention, and the invariants name it.

**ConnectionPoolProofs.** All theorems share one hypothesis, `MaxOutstanding < RingSize`:
the code does not enforce it (section 5, disagreement 1). The inductive invariant `RingInv` says that the
tokens of both semaphores count the requests between the threads (`CountInv`), that the
slots between the worker's index and the main thread's hold exactly the requests of those
numbers (`WindowInv`), and that what a thread holds is the request of its index
(`HeldInv`). `Ownership` and `NothingLeftBehind` alone are not inductive, since they say nothing
of the slots that a thread is going to read next. Lemmas `SlotsDiffer` and `SlotWraps` give
the arithmetic of indices modulo the size of the ring.

- `RingDiscipline`: `Spec => []RingInv`; `TypeCorrect`: `Spec => []TypeOK`.
- `OwnershipHolds`: `Spec => []Ownership`.
- `NothingIsLeftBehind`: `Spec => []NothingLeftBehind`.
- `RanksAreKept`: `Spec => RankKept`, from `RankInv`: when the worker is about to delete a
  row of the backup, the rank is in one of the other two tables.

The tables need to know more about what the threads are doing: `WorkInv` (`WorkIsKnown`) gives
the kind of the request and the connections that each step of the worker implies. On it rest

- `BackupProtectsRanks` and `SuccessIsStored`, if no statement on the backup file fails
  (`"fail" \notin FileOutcomes`). `StoredInv` follows a rank from the moment the backup
  thread passes it on through the steps of the worker. The hypothesis is needed for the
  second (section 5, disagreement 2), and for the first because the result of the backup
  thread's insert is only logged (connection_pool.cpp:230).
- `RanksAreNotDoubled`, if the main database does what it reports (`"lost" \notin
  MainOutcomes`): `OnceInv` says that a rank is not yet in the tables to which the worker's
  next statements bring it. With a lost answer the rank is in both, as the code accepts.
- `PointsAreBounded`, for any outcomes of any statements. `PointsInv` strengthens the bound by
  one while the worker has yet to pay for its request (`Unpaid`): `AddPoints` uses that up,
  and `InsertRank`, which takes the request from the attempts without a row, is only reached
  when the points were paid or the player had finished the map already.
- `PoolImplementsRequestQueue`: every step of the three threads is a step of `RequestQueue` or
  a stutter; `AnswerInv` says that the requests beyond the worker's are unanswered, so that
  the answer it stores is the next one in order.

**SnapIdPoolProofs.** The lists are first described link by link (`LinkInv`, `HeadInv`): a link
leads to an id of the same list, to no head, and from one id only. With `EntityInv` this is
inductive, and enough for the owners of ids.

- `PoolTypes`: `Spec => []TypeOK`; `IdsHaveOneOwner`: `Spec => []OneOwner`, with which the
  assertion of `FreeId` never fails.

What is true of whole lists is proved with a witness in place of an induction: `ListInv` says
that there are two sequences without repetition which the array links (`ListsAre`), and
`RemoveLists`, `NewIdLists` and `DestroyLists` say what the operations do to them (the first
element is taken off, an element is put in front or at the end). The model finds the lists
from the array alone, as the longest chain from a head; `ChainsAreEqual` shows that this can
only be the sequence of the invariant, by the smallest place at which two of them differ.

- `NoIdIsLost`: `Spec => []NoIdLost`, at every step of the loops of `NewId` and `TimeoutIds`.
- `PoolImplementsSnapIds`: `Spec => ImplementsSnapIds`.

**JobPoolProofs.** `PoolInv` says that an added job is in the queue once, with one worker,
or settled (`QueueInv`, `HoldInv`, `SettledInv`), that before a shutdown every token and
every worker on its way to the queue has a job there (`TokenInv`), and that workers end
only after a shutdown has found the queue empty for good (`EndInv`).

- `PoolDiscipline`: `Spec => []PoolInv`; `AssertionsAlwaysHold`: `Spec => []AssertionsHold`;
  `ShutdownCompletes`: `Spec => []CompletedAtShutdown`; `AbortsAreFinal`: `Spec => AbortedIsFinal`.

**NetConnectionProofs.** `ConnectionTypes` holds in every behaviour. The other theorems are
about `Spec /\ [][~TakeOver]_vars`, a connection that may time out and be made anew but is
not moved into an old slot (they fail for one that is, section 5, disagreements 4 and 5), and assume
`Fitting`: the window fits in `m_Buffer`, and the window, like the chunks of one packet, is
with half of the numbers less than the whole circle. With 1024 numbers that is a window and
packets of at most 511 chunks; m_aChunkData has room for fewer of the 3-byte headers of
vital chunks, and the window is a matter of the timeout (section 2). `ConnectionInv` says that `m_Sequence` and
`m_Ack` are the numbers of messages sent and received modulo the circle (`CounterInv`), that
`m_Buffer` holds exactly the messages after the last one acknowledged (`BufferInv`), that
every chunk anywhere carries the number of its message (`ConstructInv`, `NetInv`,
`InboxInv`), and that no chunk to be unpacked is too old to be told from a new one. The
properties are not inductive, since they say nothing of the packets under way. The steps rest on four facts
about the circle: the difference of two numbers (`CircleDifference`), that numbers less than a
circle apart differ (`CircleInjective`), what lies in the backroom (`Backroom`), and which
acks the check of `Feed` accepts (`ValidAck`).

- `ConnectionTypes`: `Spec => []TypeOK`.
- `ConnectionInvariant`: `[]ConnectionInv`; from it `AwaitedChunksAreKept`, `CurrentAcksAreValid` and
  `ConnectionImplementsChannel`, the refinement of `ReliableChannel`.

The network of the model drops packets that are half a circle late (`Fresh`); a theorem
without that would be false for the code, too.

**TeamSaveProofs.** `BasicInv` holds whatever the databases do: a request is of one kind with
the steps of that kind (`RequestInv`), a team is EMPTY exactly when nobody is in it, and a team
that waits for an answer has only members who were there when it asked (`TeamInv`), and a tee
belongs to a client who has a seat in its save or in the load that found it (`OwnerInv`).

- `TeamSaveTypes`: `Spec => []TypeOK`; `TeesGoToTheirOwners`: `Spec => []RestoredToOwner`, for
  any players who come, leave, die and reconnect while the database works.

The other properties say where a saved run is, and assume `NothingLost`: no statement is
reported failed that was done. Otherwise a failed save gives the tees back although its row
is stored, and the run exists twice. `RunInv` places a run at each step of its save and of any
load: which step a save with a row in the main database (`MainInv`), in a file (`FileInv`) or in
its backup (`BackupInv`) has reached, that a load which found it took it out of every table and
is the only one (`LoadedInv`), what a tee that continues it implies (`TeeInv`), and that a
reported save is somewhere until it is loaded (`KeptInv`). `WorkStep` does the SQL statements of
all servers, `ProcessSaveTeam` and the moves of the players have their own lemmas.

- `RunsInvariant`: `Spec => [](BasicInv /\ RunInv)`; from it `RunsAreNotCopied` (`NoCopy`) and
  `ReportedSavesAreKept` (`SuccessKept`), for any number of servers, players, saves and loads
  with any codes, and for servers that are killed between any two statements.
- `LivesOfSaves`: `Spec => LifeOfSave`. `Placed` tells the place of a run from the status of its
  save and the load that took it, `Goes` says what a single step may do to those; the allowed
  moves are their consequence (`GoesMoves`).

**MqttProofs.** `MqttInv` says, for each place where a thread can be, which messages nobody has
published: one that is not made yet (`SentInv`), one that is kept, until the runner is about to
clear m_missedMessages (`KeptInv`), and the one that the main thread is about to keep
(`KeepInv`). In the same way `LoginInv` says that the callback of a login is stored and called
only in this order. The only assumption is that `NoLogin` is no login.

- `MqttTypes` (`TypeOK`), `MessagesAreSentOnce` (`NothingSentTwice`), `LoginsAreHandledOnce`
  (`LoginHandledOnce`).

**SnapshotsProofs.** `SnapshotsInv` says that every packet and part on its way is `Honest` (it
tells the truth about its snapshot and its base, `PacketInv`), that the client has stored only
true snapshots, older than what it accepts next (`StoredInv`), and still has the two that it
shows (`ShownInv`). `AckedInv` is a part of it only as long as no ack went backward: every
base the server has, or may get from an input under way, is in the client's storage, and later
packets have later bases, so that a purge takes none that is still needed.

- `SnapshotsTypes` (`TypeOK`), `SnapshotsAreTrue` (`SnapshotsTrue`), `BasesAreKept` (`BaseKept`),
  for any number of ticks, maps and parts.

**RegisterProofs.** `MasterStep` states of each operation of the master that it keeps the map
of addresses and the addresses of each server in agreement (`HasItsAddresses`, `Served`) and
replaces no info by an older one (`Forward`); `RetainedServes` is the removal of one address
from its server, on which replacements, deletes and timeouts rest. The rest of
`RegisterInv` are the types of the game server, its jobs and the network. The assumption is
that the game server's first secret is one (`1 \in Secrets`).

- `RegisterTypes` (`TypeOK`, which no run repeats), `MasterIsConsistent` (`AddressesServed`),
  `InfosGoForward` (`InfoForward`), for any addresses and any order of requests, deletes,
  timeouts and restarts.

Proving corrected the models in some places where TLC had nothing to say: arms of a `CASE`
that overlapped, and the chains of `SnapIdPool`, which were recursive operators.

Only model-checked: liveness (`RequestsAndShutdownEnd`, `JobsEnd`, `CallsReturn`,
`EveryMessageArrives`, `SavingEnds`, `KeptAreSent`, `MapIsSent`, `HeartbeatsGoOn`,
`StaysListed`, `GetsUnlisted`), which is out of the reach of the prover, and what `net_wrap`
shows of a connection that is taken over before the server has sent anything.

## 5. Where the code disagrees with its documents

One finding is shown by a violation run, with a trace that follows the code step by step:
*the quarantine of ids is void* (`snapid_reuse`, snap_id_pool.cpp:83), because the deadline
in nanoseconds is stored in an `int`.

The others are seen by changing a constant or a property of a run, as said in each case:

1. *Ring overflow* (connection_pool.cpp:156). Nothing keeps the main thread from writing
   into a slot the worker has not emptied. The overwritten request is lost, and when its
   slot is met a second time it looks like the end marker: the worker ends although the
   server goes on. `pool_mysql` with `MaxOutstanding = 4` violates `NothingLeftBehind`.
2. *Success of a rank stored nowhere* (scoreworker.cpp:518). If the insert into
   `record_race_backup` fails and the main server fails or is skipped, the move of zero rows
   counts as success. `pool_file` with `FileOutcomes = {"ok", "fail"}` violates `SuccessStored`.
3. *Abort misses a job* (jobs.cpp:101). Between the queue and the list of running jobs a job
   is in neither, and both passes of `Shutdown` miss it. `jobs` with `AllAborted` as its
   invariant fails.
4. *Takeover keeps the old packet* (network_conn.cpp:566). `SetTimedOut` does not clear
   `m_Construct`, whose chunks carry sequence numbers of the old connection. In the same way
   it keeps `m_PeerAck`: if that is ahead of the new connection's acks, `Feed` refuses every
   packet of the client until the connection times out again. `net_wrap` with
   `MaxSent <- MCServerTalks` violates `InOrder` and `CurrentAckIsValid`.
5. *Moved resend buffer* (network_conn.cpp:591). The records copied by `SetTimedOut` point
   into the freed slot, whose next client writes over them. `net_wrap` with
   `MaxSent <- MCServerTalks` violates `ResendBufferIntact`.
6. *A request for the map is lost* (mqtt.cpp:94). `m_rMapUpdate` is cleared after the map is
   published, so that a request in between is not answered. `mqtt_threads` with `MapIsResent`
   as its property fails.
   In the same way a message that is kept while `m_missedMessages` is about to be cleared
   (mqtt.cpp:109) is lost; `KeptAreSent` leaves out that moment, and fails without
   `runner # "clearMissed"`.
7. *A late challenge registers a disabled protocol* (register.cpp:697). `OnPacket` does not
   ask whether the protocol is enabled. The entry lasts until the master prunes it, which is
   why `GetsUnlisted` holds.
8. *Roles of database servers* (server.cpp:3594). `add_sqlserver` takes 'w' for a read server
   and 'r' for a write server, against its help text; in the models the registrations are the
   constant `Startup`.

## 6. Not modelled

- Pure data: codecs, file formats, SQL text, JSON, message contents. They are reached by unit tests.
- Game rules and physics: sequential, numeric, and without a specification to compare with.
- In `ConnectionPool`: the requests that only read, and the wording of answers.
- In `JobPool`: what a job does; a job that is added twice.
- In `NetConnection`: the handshakes, the close message, non-vital chunks, compression, the
  overflow of the one-byte count of chunks (network.cpp:190), and a full `m_Buffer`
  (network_conn.cpp:148), after which a chunk is sent once and never again, as the comment there says.
- In `TeamSave`: swaps, invitations, practice mode, teams of their own (`sv_team 3`, where the next
  client in a slot inherits the pending answer, teams.cpp:1080), and the commands of an
  administrator that put a player into a team while it saves (ddracecommands.cpp:809).
- In `Mqtt`: commands and chat from the broker; the MQTT thread's walk over the players while the
  main thread changes them (mqtt.cpp:460) and its life after the kernel (main.cpp:217) are
  undefined behaviour on the whole game state, of which a model would say no more than that.
- In `Snapshots`: other clients, the dummy, demo recording, the timing of the prediction.
- In `Register`: a change of `sv_register_url`, after which the server stays listed at the old
  master until it is pruned there; the dumps that master servers exchange.
- Map editor, tools, the graphical client and the MQTT consumer are other programs.

## 7. The plan

In this order, the most important first; items 1 to 8 exist with their proofs, 5 to 8 without
refinements.

1. `ConnectionPool` with `RequestQueue`, its proofs - the server's only durable data.
2. `SnapIdPool` with `SnapIds`, its proofs.
3. `JobPool`, its proofs.
4. `NetConnection` with `ReliableChannel`, its proofs.
5. `TeamSave`, its proofs.
6. `Mqtt`, its proofs.
7. `Snapshots`, its proofs.
8. `Register` with `MasterServer`, its proofs.
9. `NetServer`: the slots with the three handshakes, `Drop`, timeouts and `SetTimedOut`, over
   two addresses; slots of one address, states seen by the callbacks, no slot lost.
10. `RingBuffer` as a FIFO of items in a fixed block; `NetConnection`'s bound on `m_Buffer` is what
    it abstracts.

Theorems worth proving next: the properties of `NetConnection` with a takeover before the server
has sent anything; an abstract specification of `TeamSave`, in which a run is a token that is in
a game, on its way or in a table, and of the master server as one map from secrets to infos, with
their refinements; the slots of `NetServer` once it is modelled.
