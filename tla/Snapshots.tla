------------------------------ MODULE Snapshots ------------------------------
(***************************************************************************)
(* Snapshots of the world go from the server to a client as differences to *)
(* one that the client has acknowledged (CServer::DoSnapshot, NETMSG_SNAP* *)
(* and NETMSG_INPUT in engine/client/client.cpp, CSnapshotStorage in       *)
(* engine/shared/snapshot.cpp).  Both directions are plain UDP: packets    *)
(* are lost, repeated and reordered.  One client is modelled; what a       *)
(* snapshot holds is a value, and a difference is the pair of two of them. *)
(*                                                                         *)
(* Maps are numbered.  No snapshot is so late that it arrives after the    *)
(* three round trips of a map change (EnterGame drops those under way).    *)
(***************************************************************************)
EXTENDS Integers, FiniteSets

CONSTANTS
    Values,       \* what a snapshot can hold
    Nothing,      \* CSnapshot::EmptySnapshot
    Broken,       \* what a wrong base makes of a difference
    RecoverEvery, \* TickSpeed(), the rate of SNAPRATE_RECOVER
    InitEvery,    \* 10, the rate of SNAPRATE_INIT
    CrcLimit,     \* 10
    Scenarios     \* the limits that a behaviour can have

\* What is fixed for a behaviour, and its bounds.
Limits == [values : SUBSET Values,  \* what its snapshots hold
           keep   : Nat,            \* ticks that the server keeps one, TickSpeed() * 3
           parts  : Nat,            \* packets of a snapshot, at most
           ticks  : Nat,            \* ticks of a map
           maps   : Nat \ {0},      \* maps
           snaps  : Nat,            \* snapshot packets under way
           inputs : Nat]            \* input packets under way

ASSUME SnapshotsAssumption ==
    /\ Nothing \notin Values /\ Broken \notin Values \cup {Nothing}
    /\ RecoverEvery \in Nat \ {0} /\ InitEvery \in Nat \ {0}
    /\ CrcLimit \in Nat /\ Scenarios \subseteq Limits

NoTick == -1
MinOf(S) == CHOOSE t \in S : \A u \in S : t <= u
Contents == Values \cup {Nothing, Broken}
Ticks == Nat \ {0}
TickOrNone == Ticks \cup {NoTick}

VARIABLES
    map, tick,    \* the server's map and its tick
    snapped,      \* DoSnapshot was called in this tick
    built,        \* what the server built for a tick of a map, or Nothing
    state,        \* m_State of the client: "connecting" or "ingame"
    kept,         \* m_Snapshots of the server, the ticks
    lastAcked,    \* m_LastAckedSnapshot
    rate,         \* m_SnapRate
    snaps,        \* snapshot packets under way
    inputs,       \* input packets under way
    clientMap,    \* the map of the client, 0 before the first
    stored,       \* m_aSnapshotStorage of the client: tick and content
    ack,          \* m_aAckGameTick
    recvTick,     \* m_aCurrentRecvTick
    parts,        \* m_aSnapshotParts with the packets they came from
    received,     \* m_aReceivedSnapshots, counted to 2
    prev, cur,    \* ticks of SNAP_PREV and SNAP_CURRENT
    predicting,   \* m_aPredTick > 0
    crcErrors,    \* m_SnapCrcErrors
    limits,       \* the scenario
    backward      \* an ack of before was taken after a newer one

serverVars == <<map, tick, snapped, built, state, kept, lastAcked, rate, limits, backward>>
clientVars == <<clientMap, stored, ack, recvTick, parts, received, prev, cur, predicting, crcErrors>>
vars == <<serverVars, clientVars, snaps, inputs>>

Init ==
    /\ limits \in Scenarios
    /\ map = 1 /\ tick = 0 /\ snapped = TRUE
    /\ built = [m \in 1 .. limits.maps |-> [t \in 1 .. limits.ticks |-> Nothing]]
    /\ state = "connecting" /\ kept = {} /\ lastAcked = NoTick /\ rate = "INIT"
    /\ snaps = {} /\ inputs = {}
    /\ clientMap = 0 /\ stored = {} /\ ack = NoTick /\ recvTick = 0 /\ parts = {}
    /\ received = 0 /\ prev = NoTick /\ cur = NoTick
    /\ predicting = FALSE /\ crcErrors = 0
    /\ backward = FALSE
-----------------------------------------------------------------------------
(* The server.                                                             *)

\* The client is skipped while it joins or recovers.
Due == /\ state = "ingame"
       /\ rate = "RECOVER" => tick % RecoverEvery = 0
       /\ rate = "INIT"    => tick % InitEvery = 0

\* A tick; with sv_high_bandwidth a snapshot follows each of them.
Tick ==
    /\ tick < limits.ticks /\ (snapped \/ ~Due)
    /\ tick' = tick + 1
    /\ snapped' = FALSE
    /\ UNCHANGED <<map, built, state, kept, lastAcked, rate, limits, backward, clientVars, snaps, inputs>>

\* The acked snapshot, if it is still there.
DeltaTick(now) == IF lastAcked \in now THEN lastAcked ELSE NoTick

\* DoSnapshot.  A difference of nothing is NETMSG_SNAPEMPTY, without a checksum.
DoSnapshot(v, n) ==
    /\ ~snapped /\ Due
    /\ LET now   == {t \in kept : t >= tick - limits.keep} \cup {tick}
           delta == DeltaTick(now)
           from  == CASE delta = NoTick -> Nothing
                      [] delta = tick   -> v
                      [] OTHER          -> built[map][delta]
           count == IF from = v THEN 1 ELSE n
       IN  /\ kept' = now
           /\ built' = [built EXCEPT ![map][tick] = v]
           /\ rate' = IF delta = NoTick /\ rate = "FULL" THEN "RECOVER" ELSE rate
           /\ snaps' = snaps \cup {[map |-> map, tick |-> tick, delta |-> delta,
                 from |-> from, to |-> v, parts |-> count, part |-> p] : p \in 1 .. count}
    /\ Cardinality(snaps') <= limits.snaps
    /\ snapped' = TRUE
    /\ UNCHANGED <<map, tick, state, lastAcked, limits, backward, clientVars, inputs>>

\* NETMSG_INPUT, in any state of the client.
ReceiveInput(i) ==
    /\ lastAcked' = i.ack
    /\ rate' = IF i.ack > 0 THEN "FULL" ELSE rate
    /\ backward' = (backward \/ i.ack < lastAcked \/ i.map # map)
    /\ inputs' \in {inputs, inputs \ {i}}
    /\ UNCHANGED <<map, tick, snapped, built, state, kept, limits, clientVars, snaps>>

\* The main loop loads a new map: CClient::Reset, MIN_TICK, and SendMap.
ChangeMap ==
    /\ map < limits.maps
    /\ map' = map + 1 /\ tick' = 0 /\ snapped' = TRUE
    /\ state' = "connecting" /\ kept' = {} /\ lastAcked' = NoTick /\ rate' = "INIT"
    /\ UNCHANGED <<built, limits, backward, clientVars, snaps, inputs>>

\* NETMSG_ENTERGAME
Entered ==
    /\ state = "connecting" /\ clientMap = map
    /\ state' = "ingame"
    /\ UNCHANGED <<map, tick, snapped, built, kept, lastAcked, rate, limits, backward, clientVars, snaps, inputs>>
-----------------------------------------------------------------------------
(* The client.                                                             *)

StoredTicks == {e.tick : e \in stored}

\* OnEnterGame, after the new map is loaded and the server knows.
EnterGame ==
    /\ clientMap # map
    /\ clientMap' = map
    /\ stored' = {} /\ ack' = NoTick /\ recvTick' = 0 /\ parts' = {}
    /\ received' = 0 /\ prev' = NoTick /\ cur' = NoTick
    /\ predicting' = FALSE /\ crcErrors' = 0
    /\ snaps' = {}
    /\ UNCHANGED <<serverVars, inputs>>

\* SendInput does nothing before the first prediction.
Sent(a) == IF predicting THEN inputs \cup {[ack |-> a, map |-> clientMap]} ELSE inputs

\* Older than what is being received, or acknowledged already.
Acceptable(s) == s.tick >= recvTick /\ s.tick > ack

Arrived(s) == (IF s.tick = recvTick THEN parts ELSE {}) \cup {s}
Complete(s) == {q.part : q \in Arrived(s)} = 1 .. s.parts

BaseOrEmpty(s) ==                                \* mutant: goes on with EmptySnapshot
    IF s.delta \in StoredTicks THEN {e.value : e \in {e \in stored : e.tick = s.delta}}
    ELSE {Nothing}

\* The content of the base, if there is one.
BaseOf(s) == IF s.delta = NoTick THEN {Nothing} ELSE {e.value : e \in {e \in stored : e.tick = s.delta}}

\* UnpackDelta on a content of the base.
Unpacked(s, base) ==
    IF \E q \in Arrived(s) : q.tick # s.tick THEN Broken
    ELSE CASE s.from = s.to                  -> base
           [] s.from # s.to /\ base = s.from -> s.to
           [] OTHER                          -> Broken

PurgeDelta(s) == s.delta                         \* mutant: ignores SNAP_PREV and _CURRENT

PurgeShown(s) ==                                 \* mutant: ignores the base
    IF prev = NoTick THEN s.tick ELSE MinOf({prev, cur})

\* What is older than this is not needed any more.
PurgeTick(s) == MinOf({s.delta} \cup (IF prev = NoTick THEN {} ELSE {prev, cur}))

\* The part is taken, but the snapshot is not complete yet.
TakePart(s) ==
    /\ Acceptable(s) /\ ~Complete(s)
    /\ parts' = Arrived(s) /\ recvTick' = s.tick
    /\ UNCHANGED <<serverVars, clientMap, stored, ack, received, prev, cur, predicting, crcErrors, inputs>>

\* The base is not there: ask for a whole snapshot.
MissBase(s) ==
    /\ Acceptable(s) /\ Complete(s) /\ BaseOf(s) = {}
    /\ parts' = {} /\ recvTick' = s.tick
    /\ ack' = NoTick /\ inputs' = Sent(NoTick)
    /\ UNCHANGED <<serverVars, clientMap, stored, received, prev, cur, predicting, crcErrors>>

\* The checksum is wrong; after too many, ask for a whole snapshot.
FailCrc(s) ==
    /\ parts' = {} /\ recvTick' = s.tick
    /\ IF crcErrors + 1 > CrcLimit
       THEN ack' = NoTick /\ inputs' = Sent(NoTick) /\ crcErrors' = 0
       ELSE crcErrors' = crcErrors + 1 /\ UNCHANGED <<ack, inputs>>
    /\ UNCHANGED <<serverVars, clientMap, stored, received, prev, cur, predicting>>

Accept(s, v) ==
    /\ parts' = {} /\ recvTick' = s.tick /\ ack' = s.tick
    /\ crcErrors' = IF crcErrors > 0 THEN crcErrors - 1 ELSE 0
    /\ stored' = {e \in stored : e.tick >= PurgeTick(s)} \cup {[tick |-> s.tick, value |-> v]}
    /\ received' = IF received < 2 THEN received + 1 ELSE 2
    /\ IF received = 1
       THEN prev' = MinOf({e.tick : e \in stored'}) /\ cur' = s.tick
       ELSE UNCHANGED <<prev, cur>>
    /\ UNCHANGED <<serverVars, clientMap, predicting, inputs>>

\* All parts are there and the base is.
Unpack(s) ==
    /\ Acceptable(s) /\ Complete(s)
    /\ \E base \in BaseOf(s) :
         LET v == Unpacked(s, base)
         IN  IF s.from # s.to /\ v # s.to THEN FailCrc(s) ELSE Accept(s, v)

Ignore(s) == ~Acceptable(s) /\ UNCHANGED <<serverVars, clientVars, inputs>>

\* A packet that arrives may arrive again.
ReceiveSnap(s) ==
    /\ snaps' \in {snaps, snaps \ {s}}
    /\ TakePart(s) \/ MissBase(s) \/ Unpack(s) \/ Ignore(s)

\* Update shows the next snapshot when its time has come.
Advance ==
    /\ cur # NoTick
    /\ LET later == {t \in StoredTicks : t > cur}
       IN  later # {} /\ cur' = MinOf(later)
    /\ prev' = cur
    /\ UNCHANGED <<serverVars, clientMap, stored, ack, recvTick, parts, received, predicting,
                   crcErrors, snaps, inputs>>

\* and sends input for the tick it predicts.
SendInput ==
    /\ cur # NoTick
    /\ predicting' = TRUE
    /\ inputs' = inputs \cup {[ack |-> ack, map |-> clientMap]}
    /\ Cardinality(inputs') <= limits.inputs
    /\ UNCHANGED <<serverVars, clientMap, stored, ack, recvTick, parts, received, prev, cur,
                   crcErrors, snaps>>
-----------------------------------------------------------------------------
Lose ==
    /\ \/ \E s \in snaps : snaps' = snaps \ {s} /\ UNCHANGED inputs
       \/ \E i \in inputs : inputs' = inputs \ {i} /\ UNCHANGED snaps
    /\ UNCHANGED <<serverVars, clientVars>>

Next ==
    \/ Tick \/ ChangeMap \/ Entered
    \/ \E v \in limits.values, n \in 1 .. limits.parts : DoSnapshot(v, n)
    \/ \E i \in inputs : ReceiveInput(i)
    \/ \E s \in snaps : ReceiveSnap(s)
    \/ EnterGame \/ Advance \/ SendInput \/ Lose

Spec == Init /\ [][Next]_vars
-----------------------------------------------------------------------------
(* Properties.                                                             *)

\* Types; moreover, SNAP_PREV and SNAP_CURRENT are snapshots of the storage,
\* which frees what it purges (client.cpp:1967).
TypeOK ==
    /\ limits \in Limits /\ map \in 1 .. limits.maps /\ tick \in 0 .. limits.ticks /\ snapped \in BOOLEAN
    /\ built \in [1 .. limits.maps -> [1 .. limits.ticks -> Values \cup {Nothing}]]
    /\ state \in {"connecting", "ingame"} /\ kept \subseteq Ticks
    /\ lastAcked \in TickOrNone /\ rate \in {"INIT", "RECOVER", "FULL"}
    /\ inputs \subseteq [ack : TickOrNone, map : Nat]
    /\ clientMap \in 0 .. limits.maps
    /\ stored \subseteq [tick : Ticks, value : Contents]
    /\ ack \in TickOrNone /\ recvTick \in Nat
    /\ received \in 0 .. 2 /\ predicting \in BOOLEAN /\ crcErrors \in Nat
    /\ backward \in BOOLEAN
    /\ IF received < 2 THEN prev = NoTick /\ cur = NoTick
                       ELSE {prev, cur} \subseteq StoredTicks /\ prev < cur

\* What the client takes for the world at a tick is what the server built for
\* it, although a difference is applied to whatever the client has under the
\* tick of its base, an empty one without any checksum, and parts of several
\* snapshots arrive in any order; so no checksum is ever wrong (client.cpp:1894).
SnapshotsTrue ==
    /\ \A e \in stored : e.value = built[clientMap][e.tick]
    /\ crcErrors = 0

\* The client still has every base that the server uses, as long as no ack of
\* before, or of the last map, overtakes a newer one (client.cpp:1961).
BaseKept ==
    ~backward =>
      \A s \in snaps : Acceptable(s) /\ s.delta # NoTick => s.delta \in StoredTicks
=============================================================================
