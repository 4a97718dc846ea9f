--------------------------- MODULE SnapshotsProofs ---------------------------
(***************************************************************************)
(* Proofs about Snapshots for any scenario: any number of ticks, maps and  *)
(* packets, whatever is lost, repeated or overtaken.                       *)
(***************************************************************************)
EXTENDS Snapshots, WellFoundedInduction, NaturalsInduction, TLAPS

Packets == [map : Nat, tick : Ticks, delta : TickOrNone, from : Contents, to : Contents,
            parts : Nat, part : Nat]

\* The part of TypeOK about flags.
FlagTypes == snapped \in BOOLEAN /\ predicting \in BOOLEAN /\ backward \in BOOLEAN

\* The rest of it, about the server and the inputs.
ServerTypes ==
    /\ limits \in Limits /\ map \in 1 .. limits.maps /\ tick \in 0 .. limits.ticks
    /\ built \in [1 .. limits.maps -> [1 .. limits.ticks -> Values \cup {Nothing}]]
    /\ state \in {"connecting", "ingame"}
    /\ lastAcked \in TickOrNone /\ rate \in {"INIT", "RECOVER", "FULL"}
    /\ inputs \subseteq [ack : TickOrNone, map : Nat]

\* What the server keeps was made; the client that is in the game has its map.
ServerInv ==
    /\ ~snapped => tick >= 1
    /\ kept \subseteq 1 .. tick
    /\ clientMap \in 0 .. map
    /\ state = "ingame" => clientMap = map

\* A tick of which the client of the server's map can know the snapshot.
Known(t) == /\ t \in 1 .. limits.ticks /\ clientMap >= 1
            /\ clientMap = map => t <= tick /\ (~snapped => t < tick)

\* A packet says the truth about the snapshot and its base.
Honest(s) ==
    /\ s \in Packets /\ s.map = clientMap /\ Known(s.tick)
    /\ s.to = built[clientMap][s.tick]
    /\ s.delta = NoTick => s.from = Nothing
    /\ s.delta # NoTick => /\ s.delta \in 1 .. s.tick
                           /\ s.from = built[clientMap][s.delta]

PacketInv ==
    /\ \A s \in snaps \cup parts : Honest(s)
    /\ \A s \in parts : s.tick = recvTick

\* The storage of the client is true and older than what it accepts next.
StoredInv ==
    /\ stored \subseteq [tick : Ticks, value : Contents]
    /\ \A e \in stored : /\ Known(e.tick)
                         /\ e.value = built[clientMap][e.tick]
                         /\ e.tick <= ack \/ (ack = NoTick /\ e.tick < recvTick)
    /\ ack \in TickOrNone /\ recvTick \in Nat /\ crcErrors = 0
    /\ ack # NoTick => ack \in StoredTicks

\* SNAP_PREV and SNAP_CURRENT are there after two snapshots.
ShownInv ==
    /\ received \in 0 .. 2
    /\ received = 0 => stored = {}
    /\ received = 1 => \E e \in stored : stored = {e}
    /\ IF received < 2 THEN prev = NoTick /\ cur = NoTick
                       ELSE {prev, cur} \subseteq StoredTicks /\ prev < cur

\* The acks that the server has and may still take are of snapshots that the
\* client keeps; later packets have later bases.
AckedInv ==
    /\ lastAcked # NoTick => clientMap = map /\ lastAcked \in StoredTicks
    /\ \A i \in inputs : i.map = map /\ i.ack >= lastAcked /\ i.ack # NoTick
                            => i.ack \in StoredTicks
    /\ \A s \in snaps : clientMap = map => s.delta <= lastAcked
    /\ \A s, t \in snaps : s.tick < t.tick /\ t.delta # NoTick => s.delta <= t.delta
    /\ \A s \in snaps : Acceptable(s) /\ s.delta # NoTick => s.delta \in StoredTicks

InputInv == \A i \in inputs : i.map <= clientMap

SnapshotsInv ==
    /\ FlagTypes /\ ServerTypes /\ ServerInv /\ PacketInv /\ StoredInv /\ ShownInv
    /\ InputInv
    /\ ~backward => AckedInv
-----------------------------------------------------------------------------
(* The smallest of some ticks.                                             *)

LEMMA MinOfNaturals ==
    ASSUME NEW S \in SUBSET Nat, S # {}
    PROVE  MinOf(S) \in S /\ \A t \in S : MinOf(S) <= t
<1>1. PICK t \in S : \A u \in S : ~(<<u, t>> \in OpToRel(<, Nat))
  BY NatLessThanWellFounded, WFMin
<1>2. \A u, v \in Nat : u < v => <<u, v>> \in OpToRel(<, Nat)
  BY Zenon DEF OpToRel
<1>3. \A u \in S : ~(u < t)
  BY <1>1, <1>2, Zenon
<1>4. \A u \in S : t <= u
  BY <1>3
<1> QED
  BY <1>4 DEF MinOf

\* Nothing that is still needed is purged.
LEMMA PurgeSpares ==
    ASSUME NEW s \in Packets, prev \in TickOrNone, cur \in TickOrNone
    PROVE  /\ PurgeTick(s) <= s.delta
           /\ prev # NoTick => PurgeTick(s) <= prev /\ PurgeTick(s) <= cur
           /\ PurgeTick(s) \in Int
<1> DEFINE S == {s.delta} \cup (IF prev = NoTick THEN {} ELSE {prev, cur})
<1>1. s.delta \in Int /\ prev \in Int /\ cur \in Int
  BY DEF Packets, TickOrNone, Ticks, NoTick
<1>2. \E t \in S : \A u \in S : t <= u
  <2>1. CASE prev = NoTick
    BY <1>1, <2>1
  <2>2. CASE prev # NoTick
    <3>1. S = {s.delta, prev, cur}
      BY <2>2
    <3> HIDE DEF S
    <3>2. \E t \in {s.delta, prev, cur} : t <= s.delta /\ t <= prev /\ t <= cur
      BY <1>1
    <3> QED
      BY <3>1, <3>2
  <2> QED
    BY <2>1, <2>2
<1> HIDE DEF S
<1>3. MinOf(S) \in S /\ \A u \in S : MinOf(S) <= u
  BY <1>2 DEF MinOf
<1>4. PurgeTick(s) = MinOf(S)
  BY DEF PurgeTick, S
<1> QED
  BY <1>1, <1>3, <1>4 DEF S

-----------------------------------------------------------------------------
LEMMA FlagsStep == ASSUME FlagTypes, Next PROVE FlagTypes'
<1> USE DEF FlagTypes, serverVars, clientVars
<1>1. CASE Tick \/ ChangeMap \/ Entered
  BY <1>1, Zenon DEF Tick, ChangeMap, Entered
<1>2. ASSUME NEW v, NEW n, DoSnapshot(v, n) PROVE FlagTypes'
  BY <1>2, Zenon DEF DoSnapshot
<1>3. ASSUME NEW i, ReceiveInput(i) PROVE FlagTypes'
  BY <1>3, Zenon DEF ReceiveInput
<1>4. ASSUME NEW s, ReceiveSnap(s) PROVE FlagTypes'
  BY <1>4, Zenon DEF ReceiveSnap, TakePart, MissBase, Unpack, FailCrc, Accept, Ignore
<1>5. CASE EnterGame \/ Advance \/ SendInput \/ Lose
  BY <1>5, Zenon DEF EnterGame, Advance, SendInput, Lose
<1> QED
  BY <1>1, <1>2, <1>3, <1>4, <1>5 DEF Next

LEMMA InitSnapshots == Init => SnapshotsInv
<1> SUFFICES ASSUME Init PROVE SnapshotsInv
  OBVIOUS
<1>1. FlagTypes
  BY Zenon DEF Init, FlagTypes
<1>2. limits \in Limits /\ limits.maps \in Nat \ {0} /\ limits.ticks \in Nat
  BY SnapshotsAssumption DEF Init, Limits
<1>3. ServerTypes
  BY <1>2 DEF Init, ServerTypes, TickOrNone, NoTick
<1>4. ServerInv /\ PacketInv /\ StoredInv /\ ShownInv /\ InputInv
  BY <1>2 DEF Init, ServerInv, PacketInv, StoredInv, ShownInv, InputInv, TickOrNone, NoTick
<1>5. AckedInv
  BY DEF Init, AckedInv
<1> QED
  BY <1>1, <1>3, <1>4, <1>5 DEF SnapshotsInv

-----------------------------------------------------------------------------
(* What the client knows stays true.                                       *)

KnownStays ==
    /\ clientMap' = clientMap
    /\ \A t \in Ticks : Known(t) => /\ Known(t)'
                                    /\ built'[clientMap][t] = built[clientMap][t]

LEMMA HonestStays == ASSUME ServerTypes, KnownStays, NEW s, Honest(s) PROVE Honest(s)'
<1>1. s \in Packets /\ s.tick \in Nat \ {0} /\ s.delta \in TickOrNone
  BY DEF Honest, Packets, Ticks
<1>2. Known(s.tick)' /\ built'[clientMap][s.tick] = built[clientMap][s.tick]
  BY <1>1 DEF Honest, KnownStays, Ticks
<1>3. ASSUME s.delta # NoTick
      PROVE  s.delta \in 1 .. s.tick /\ built'[clientMap][s.delta] = built[clientMap][s.delta]
  <2>1. s.delta \in 1 .. s.tick /\ Known(s.tick)
    BY <1>3 DEF Honest
  <2>2. Known(s.delta)
    BY <1>1, <2>1 DEF Known, ServerTypes, Limits
  <2> QED
    BY <1>1, <2>1, <2>2 DEF KnownStays, Ticks
<1> QED
  BY <1>1, <1>2, <1>3 DEF Honest, KnownStays

\* Of all steps, only EnterGame makes the client forget.
LEMMA KnownStep ==
    ASSUME ServerTypes, ServerInv, [Next]_vars
    PROVE  KnownStays \/ EnterGame
<1> USE DEF serverVars, clientVars
<1>0. /\ map \in Nat /\ tick \in Nat /\ limits.maps \in Nat /\ limits.ticks \in Nat
      /\ clientMap \in 0 .. map
  BY DEF ServerTypes, ServerInv, Limits
<1>1. CASE UNCHANGED vars
  BY <1>1 DEF vars, KnownStays, Known
<1>2. CASE Tick
  <2>1. /\ UNCHANGED <<map, built, limits, clientMap>> /\ tick' = tick + 1
    BY <1>2 DEF Tick
  <2> QED
    BY <1>0, <2>1 DEF KnownStays, Known
<1>3. CASE ChangeMap
  <2>1. /\ UNCHANGED <<built, limits, clientMap>> /\ map' = map + 1
    BY <1>3 DEF ChangeMap
  <2> QED
    BY <1>0, <2>1 DEF KnownStays, Known
<1>4. ASSUME NEW v \in limits.values, NEW n \in 1 .. limits.parts, DoSnapshot(v, n) PROVE KnownStays
  <2>1. /\ UNCHANGED <<map, tick, limits, clientMap>> /\ snapped' = TRUE /\ ~snapped
        /\ built' = [built EXCEPT ![map][tick] = v] /\ state = "ingame"
    BY <1>4 DEF DoSnapshot, Due
  <2>2. clientMap = map
    BY <2>1 DEF ServerInv
  <2> QED
    BY <1>0, <2>1, <2>2 DEF KnownStays, Known, ServerTypes, Ticks
<1>5. CASE UNCHANGED serverVars /\ clientMap' = clientMap
  BY <1>5 DEF KnownStays, Known
<1>6. ASSUME NEW i \in inputs, ReceiveInput(i) PROVE KnownStays
  BY <1>6 DEF ReceiveInput, KnownStays, Known
<1>7. CASE Entered
  BY <1>7 DEF Entered, KnownStays, Known
<1>8. ASSUME NEW s \in snaps, ReceiveSnap(s) PROVE UNCHANGED serverVars /\ clientMap' = clientMap
  BY <1>8 DEF ReceiveSnap, TakePart, MissBase, Unpack, FailCrc, Accept, Ignore
<1>9. CASE Advance \/ SendInput \/ Lose
  BY <1>5, <1>9 DEF Advance, SendInput, Lose
<1> QED
  BY <1>1, <1>2, <1>3, <1>4, <1>5, <1>6, <1>7, <1>8, <1>9 DEF Next

-----------------------------------------------------------------------------
(* Steps that leave the client alone.                                      *)

\* The storage and the parts of the client stay as they are.
LEMMA ClientIdle ==
    ASSUME SnapshotsInv, KnownStays, UNCHANGED clientVars,
           \A s \in snaps' : s \in snaps \/ Honest(s)'
    PROVE  PacketInv' /\ StoredInv' /\ ShownInv'
<1> USE DEF clientVars
<1>1. ServerTypes /\ PacketInv /\ StoredInv /\ ShownInv
  BY DEF SnapshotsInv
<1>2. PacketInv'
  BY <1>1, HonestStays DEF PacketInv
<1>3. StoredInv'
  <2>1. \A e \in stored : e.tick \in Ticks
    BY <1>1 DEF StoredInv
  <2> QED
    BY <1>1, <2>1 DEF StoredInv, KnownStays, StoredTicks
<1>4. ShownInv'
  BY <1>1 DEF ShownInv, StoredTicks
<1> QED
  BY <1>2, <1>3, <1>4

LEMMA TickStep == ASSUME SnapshotsInv, Tick PROVE SnapshotsInv'
<1>1. /\ tick < limits.ticks /\ tick' = tick + 1
      /\ UNCHANGED <<map, built, state, kept, lastAcked, rate, limits, backward, snaps, inputs>>
      /\ UNCHANGED clientVars
  BY DEF Tick
<1>2. FlagTypes'
  BY FlagsStep DEF Next, SnapshotsInv
<1>3. tick \in Nat /\ limits.ticks \in Nat
  BY DEF SnapshotsInv, ServerTypes, Limits
<1>4. ServerTypes' /\ ServerInv' /\ InputInv'
  BY <1>1, <1>3 DEF SnapshotsInv, ServerTypes, ServerInv, InputInv, clientVars
<1>5. KnownStays
  <2>1. map \in Nat /\ clientMap \in Nat /\ snapped' = FALSE
    BY DEF SnapshotsInv, ServerTypes, ServerInv, Tick
  <2> QED
    BY <1>1, <1>3, <2>1 DEF KnownStays, Known, clientVars
<1>6. PacketInv' /\ StoredInv' /\ ShownInv'
  BY <1>1, <1>5, ClientIdle
<1>7. ~backward => AckedInv'
  BY <1>1 DEF SnapshotsInv, AckedInv, clientVars, Acceptable, StoredTicks
<1> QED
  BY <1>1, <1>2, <1>4, <1>6, <1>7 DEF SnapshotsInv

LEMMA ChangeMapStep == ASSUME SnapshotsInv, ChangeMap PROVE SnapshotsInv'
<1>1. /\ map < limits.maps /\ map' = map + 1 /\ tick' = 0 /\ snapped' = TRUE
      /\ state' = "connecting" /\ kept' = {} /\ lastAcked' = NoTick /\ rate' = "INIT"
      /\ UNCHANGED <<built, limits, backward, clientVars, snaps, inputs>>
  BY DEF ChangeMap
<1>2. FlagTypes'
  BY FlagsStep DEF Next, SnapshotsInv
<1>3. map \in Nat /\ limits.maps \in Nat /\ limits.ticks \in Nat /\ clientMap \in 0 .. map
  BY DEF SnapshotsInv, ServerTypes, ServerInv, Limits
<1>4. ServerTypes' /\ ServerInv' /\ InputInv'
  BY <1>1, <1>3 DEF SnapshotsInv, ServerTypes, ServerInv, InputInv, clientVars, TickOrNone
<1>5. KnownStays
  BY <1>1, <1>3, KnownStep DEF Next, SnapshotsInv, EnterGame, clientVars
<1>6. PacketInv' /\ StoredInv' /\ ShownInv'
  BY <1>1, <1>5, ClientIdle
<1>7. ~backward => AckedInv'
  <2>1. \A i \in inputs : i.map # map + 1
    <3>1. \A i \in inputs : i.map \in Nat /\ i.map <= clientMap
      BY DEF SnapshotsInv, InputInv, ServerTypes
    <3> QED
      BY <1>3, <3>1
  <2>2. clientMap # map + 1
    BY <1>3
  <2> QED
    BY <1>1, <2>1, <2>2 DEF SnapshotsInv, AckedInv, clientVars, Acceptable, StoredTicks
<1> QED
  BY <1>1, <1>2, <1>4, <1>6, <1>7 DEF SnapshotsInv

LEMMA EnteredStep == ASSUME SnapshotsInv, Entered PROVE SnapshotsInv'
<1>1. /\ clientMap = map /\ state' = "ingame"
      /\ UNCHANGED <<map, tick, snapped, built, kept, lastAcked, rate, limits, backward, clientVars,
                     snaps, inputs>>
  BY DEF Entered
<1>2. FlagTypes'
  BY FlagsStep DEF Next, SnapshotsInv
<1>3. ServerTypes' /\ ServerInv' /\ InputInv'
  BY <1>1 DEF SnapshotsInv, ServerTypes, ServerInv, InputInv, clientVars
<1>4. KnownStays
  BY <1>1 DEF KnownStays, Known, clientVars
<1>5. PacketInv' /\ StoredInv' /\ ShownInv'
  BY <1>1, <1>4, ClientIdle
<1>6. ~backward => AckedInv'
  BY <1>1 DEF SnapshotsInv, AckedInv, clientVars, Acceptable, StoredTicks
<1> QED
  BY <1>1, <1>2, <1>3, <1>5, <1>6 DEF SnapshotsInv

-----------------------------------------------------------------------------
(* The server makes a snapshot and takes an input.                         *)

\* The packets of a new snapshot.
NewPackets(delta, from, v, count) ==
    {[map |-> map, tick |-> tick, delta |-> delta, from |-> from, to |-> v, parts |-> count,
      part |-> p] : p \in 1 .. count}

\* The base is none, the new snapshot itself or the one that the client acked.
LEMMA DoSnapshotMakes ==
    ASSUME SnapshotsInv, NEW v \in limits.values, NEW n \in 1 .. limits.parts, DoSnapshot(v, n)
    PROVE  \E delta \in {NoTick, lastAcked} \cap ({NoTick} \cup 1 .. tick), count \in Nat,
              from \in Values \cup {Nothing} :
             /\ snaps' = snaps \cup NewPackets(delta, from, v, count)
             /\ delta = NoTick => from = Nothing
             /\ delta = tick => from = v
             /\ delta \in 1 .. tick - 1 => from = built[map][delta]
<1> DEFINE now == {t \in kept : t >= tick - limits.keep} \cup {tick}
           delta == DeltaTick(now)
           from == CASE delta = NoTick -> Nothing
                     [] delta = tick   -> v
                     [] OTHER          -> built[map][delta]
           count == IF from = v THEN 1 ELSE n
<1>1. snaps' = snaps \cup NewPackets(delta, from, v, count)
  BY Zenon DEF DoSnapshot, NewPackets
<1>2. /\ tick \in 1 .. limits.ticks /\ tick \in Nat /\ kept \subseteq 1 .. tick /\ limits.ticks \in Nat
      /\ map \in 1 .. limits.maps /\ limits.values \subseteq Values /\ limits.parts \in Nat
  BY DEF DoSnapshot, SnapshotsInv, ServerTypes, ServerInv, Limits
<1>3. delta \in {NoTick, lastAcked} /\ delta \in {NoTick} \cup 1 .. tick
  <2>1. now \subseteq 1 .. tick
    <3>1. tick \in 1 .. tick
      BY <1>2
    <3> QED
      BY <1>2, <3>1, Zenon
  <2>2. delta = NoTick \/ (delta = lastAcked /\ lastAcked \in now)
    BY Zenon DEF DeltaTick
  <2> QED
    BY <2>1, <2>2, Zenon
<1>4. delta # NoTick => delta \in 1 .. tick
  BY <1>3
<1>5. NoTick # tick
  BY <1>2 DEF NoTick
<1> HIDE DEF delta
<1>6. /\ delta = NoTick => from = Nothing
      /\ delta = tick => from = v
      /\ delta \in 1 .. tick /\ delta # tick /\ delta # NoTick => from = built[map][delta]
  BY <1>5
<1>7. from \in Values \cup {Nothing}
  <2>1. CASE delta = NoTick
    BY <1>6, <2>1
  <2>2. CASE delta = tick
    BY <1>2, <1>6, <2>2
  <2>3. CASE delta # NoTick /\ delta # tick
    <3>1. delta \in 1 .. limits.ticks
      BY <1>2, <1>4, <2>3
    <3> QED
      BY <1>2, <1>4, <1>6, <2>3, <3>1 DEF SnapshotsInv, ServerTypes
  <2> QED
    BY <2>1, <2>2, <2>3
<1>8. count \in Nat
  BY <1>2
<1>9. delta \in 1 .. tick - 1 => from = built[map][delta]
  <2>1. delta \in 1 .. tick - 1 => delta \in 1 .. tick /\ delta # tick /\ delta # NoTick
    BY <1>2 DEF NoTick
  <2> QED
    BY <1>6, <2>1
<1> HIDE DEF from, count
<1> QED
  BY <1>1, <1>3, <1>6, <1>7, <1>8, <1>9

LEMMA DoSnapshotStep ==
    ASSUME SnapshotsInv, NEW v \in limits.values, NEW n \in 1 .. limits.parts, DoSnapshot(v, n)
    PROVE  SnapshotsInv'
<1>1. PICK delta \in {NoTick, lastAcked} \cap ({NoTick} \cup 1 .. tick), count \in Nat,
           from \in Values \cup {Nothing} :
        /\ snaps' = snaps \cup NewPackets(delta, from, v, count)
        /\ delta = NoTick => from = Nothing
        /\ delta = tick => from = v
        /\ delta \in 1 .. tick - 1 => from = built[map][delta]
  BY DoSnapshotMakes
<1>2. /\ ~snapped /\ state = "ingame" /\ snapped' = TRUE
      /\ kept' = {t \in kept : t >= tick - limits.keep} \cup {tick}
      /\ built' = [built EXCEPT ![map][tick] = v]
      /\ UNCHANGED <<map, tick, state, lastAcked, limits, backward, clientVars, inputs>>
  BY DEF DoSnapshot, Due
<1>3. rate' \in {"INIT", "RECOVER", "FULL"}
  BY DEF DoSnapshot, SnapshotsInv, ServerTypes
<1>4. /\ tick \in 1 .. limits.ticks /\ tick \in Nat /\ limits.ticks \in Nat
      /\ map \in 1 .. limits.maps /\ map \in Nat \ {0} /\ clientMap = map
      /\ limits.values \subseteq Values
  BY <1>2 DEF SnapshotsInv, ServerTypes, ServerInv, Limits
<1>5. FlagTypes'
  BY FlagsStep DEF Next, SnapshotsInv
<1>6. ServerTypes'
  BY <1>2, <1>3, <1>4 DEF SnapshotsInv, ServerTypes
<1>7. ServerInv' /\ InputInv'
  BY <1>2, <1>4 DEF SnapshotsInv, ServerInv, InputInv, clientVars
<1>8. KnownStays
  BY <1>2, <1>4, KnownStep DEF Next, SnapshotsInv, EnterGame
<1>9. ASSUME NEW q \in NewPackets(delta, from, v, count)
      PROVE  /\ q.map = map /\ q.tick = tick /\ q.delta = delta /\ q.from = from /\ q.to = v
             /\ q \in Packets
  <2>1. PICK p \in 1 .. count :
          q = [map |-> map, tick |-> tick, delta |-> delta, from |-> from, to |-> v,
               parts |-> count, part |-> p]
    BY DEF NewPackets
  <2>2. /\ map \in Nat /\ tick \in Ticks /\ delta \in TickOrNone /\ from \in Contents
        /\ v \in Contents /\ p \in Nat
    BY <1>4 DEF TickOrNone, Ticks, Contents
  <2> QED
    BY <2>1, <2>2, Zenon DEF Packets
<1>10. ASSUME NEW q \in NewPackets(delta, from, v, count) PROVE Honest(q)'
  <2>1. Known(tick)'
    BY <1>2, <1>4 DEF Known, clientVars
  <2>2. built'[map][tick] = v
    BY <1>2, <1>4 DEF SnapshotsInv, ServerTypes
  <2>3. delta # NoTick => delta \in 1 .. tick
    OBVIOUS
  <2>4. delta # NoTick => from = built'[map][delta]
    <3>1. CASE delta = tick
      BY <1>1, <2>2, <3>1
    <3>2. CASE delta \in 1 .. tick - 1
      <4>1. delta # tick
        BY <1>4, <3>2
      <4>2. delta \in 1 .. limits.ticks
        BY <1>4, <3>2
      <4> QED
        BY <1>1, <1>2, <1>4, <3>2, <4>1, <4>2 DEF SnapshotsInv, ServerTypes
    <3>3. delta # NoTick => delta = tick \/ delta \in 1 .. tick - 1
      BY <1>4, <2>3
    <3> QED
      BY <3>1, <3>2, <3>3
  <2>5. clientMap' = map
    BY <1>2, <1>4 DEF clientVars
  <2> QED
    BY <1>1, <1>2, <1>9, <2>1, <2>2, <2>3, <2>4, <2>5 DEF Honest, Known
<1>11. PacketInv' /\ StoredInv' /\ ShownInv'
  <2>1. \A q \in snaps' : q \in snaps \/ Honest(q)'
    BY <1>1, <1>10
  <2> QED
    BY <1>2, <1>8, <2>1, ClientIdle
<1>12. ASSUME ~backward PROVE AckedInv'
  <2>1. AckedInv
    BY <1>12 DEF SnapshotsInv
  <2>2. lastAcked \in TickOrNone /\ \A q \in snaps : q.tick < tick
    BY <1>2, <1>4 DEF SnapshotsInv, ServerTypes, PacketInv, Honest, Known
  <2>3. lastAcked \in Int /\ NoTick <= lastAcked /\ delta <= lastAcked
    BY <2>2 DEF TickOrNone, Ticks, NoTick
  <2>4. delta # NoTick => delta \in StoredTicks
    BY <2>1 DEF AckedInv
  <2>5. StoredTicks' = StoredTicks /\ \A q : Acceptable(q)' => Acceptable(q)
    BY <1>2 DEF StoredTicks, Acceptable, clientVars
  <2>6. \A q \in snaps : q.delta <= lastAcked /\ q.delta \in Int /\ q.tick \in Int
    BY <1>4, <2>1 DEF AckedInv, SnapshotsInv, PacketInv, Honest, Packets, TickOrNone, Ticks, NoTick
  <2>7. \A q \in snaps' : q \in snaps \/ (q.tick = tick /\ q.delta = delta)
    BY <1>1, <1>9
  <2>8. /\ lastAcked' # NoTick => clientMap' = map' /\ lastAcked' \in StoredTicks'
        /\ \A i \in inputs' : i.map = map' /\ i.ack >= lastAcked' /\ i.ack # NoTick
                                => i.ack \in StoredTicks'
    BY <1>2, <2>1, <2>5 DEF AckedInv, clientVars
  <2>9. \A q \in snaps' : q.delta <= lastAcked'
    BY <1>2, <2>3, <2>6, <2>7
  <2>10. ASSUME NEW s \in snaps', NEW t \in snaps', s.tick < t.tick, t.delta # NoTick
         PROVE  s.delta <= t.delta
    <3>1. s \in snaps
      BY <1>4, <2>2, <2>6, <2>7, <2>10
    <3>2. CASE t \in snaps
      BY <2>1, <2>10, <3>1, <3>2 DEF AckedInv
    <3>3. CASE t.delta = delta
      BY <2>6, <2>10, <3>1, <3>3
    <3> QED
      BY <2>7, <3>2, <3>3
  <2>11. \A q \in snaps' : Acceptable(q)' /\ q.delta # NoTick => q.delta \in StoredTicks'
    BY <2>1, <2>4, <2>5, <2>7 DEF AckedInv
  <2> QED
    BY <2>8, <2>9, <2>10, <2>11 DEF AckedInv
<1> QED
  BY <1>2, <1>5, <1>6, <1>7, <1>11, <1>12 DEF SnapshotsInv

LEMMA ReceiveInputStep ==
    ASSUME SnapshotsInv, NEW i \in inputs, ReceiveInput(i)
    PROVE  SnapshotsInv'
<1>1. /\ lastAcked' = i.ack /\ inputs' \subseteq inputs
      /\ UNCHANGED <<map, tick, snapped, built, state, kept, limits, clientVars, snaps>>
  BY DEF ReceiveInput
<1>2. ~backward' => ~backward /\ ~(i.ack < lastAcked) /\ i.map = map
  BY DEF ReceiveInput
<1>3. FlagTypes'
  BY FlagsStep DEF Next, SnapshotsInv
<1>4. i.ack \in TickOrNone /\ i.map <= clientMap /\ clientMap <= map /\ i.map \in Nat
      /\ clientMap \in Nat /\ map \in Nat /\ lastAcked \in TickOrNone
  BY DEF SnapshotsInv, ServerTypes, ServerInv, InputInv
<1>5. rate' \in {"INIT", "RECOVER", "FULL"}
  BY DEF ReceiveInput, SnapshotsInv, ServerTypes
<1>6. ServerTypes' /\ ServerInv' /\ InputInv'
  BY <1>1, <1>4, <1>5 DEF SnapshotsInv, ServerTypes, ServerInv, InputInv, clientVars
<1>7. KnownStays
  BY <1>1 DEF KnownStays, Known, clientVars
<1>8. PacketInv' /\ StoredInv' /\ ShownInv'
  BY <1>1, <1>7, ClientIdle
<1>9. ASSUME ~backward' PROVE AckedInv'
  <2>1. AckedInv /\ i.map = map /\ clientMap = map
    BY <1>2, <1>4, <1>9 DEF SnapshotsInv
  <2>2. i.ack \in Int /\ lastAcked \in Int /\ lastAcked <= i.ack
    BY <1>2, <1>4, <1>9 DEF TickOrNone, Ticks, NoTick
  <2>3. i.ack # NoTick => i.ack \in StoredTicks
    BY <2>1, <2>2 DEF AckedInv
  <2>4. \A j \in inputs : j.map = map /\ j.ack >= i.ack /\ j.ack # NoTick => j.ack \in StoredTicks
    <3>1. \A j \in inputs : j.ack \in Int
      BY DEF SnapshotsInv, ServerTypes, TickOrNone, Ticks, NoTick
    <3> QED
      BY <2>1, <2>2, <3>1 DEF AckedInv
  <2>5. \A s \in snaps : s.delta <= i.ack
    <3>1. \A s \in snaps : s.delta \in Int
      BY DEF SnapshotsInv, PacketInv, Honest, Packets, TickOrNone, Ticks, NoTick
    <3> QED
      BY <2>1, <2>2, <3>1 DEF AckedInv
  <2> QED
    BY <1>1, <2>1, <2>3, <2>4, <2>5 DEF AckedInv, clientVars, StoredTicks, Acceptable
<1> QED
  BY <1>3, <1>6, <1>8, <1>9 DEF SnapshotsInv

-----------------------------------------------------------------------------
(* The client enters a map.                                                *)

LEMMA EnterGameStep == ASSUME SnapshotsInv, EnterGame PROVE SnapshotsInv'
<1>1. /\ clientMap # map /\ clientMap' = map
      /\ stored' = {} /\ ack' = NoTick /\ recvTick' = 0 /\ parts' = {}
      /\ received' = 0 /\ prev' = NoTick /\ cur' = NoTick /\ crcErrors' = 0 /\ snaps' = {}
      /\ UNCHANGED <<map, tick, snapped, built, state, kept, lastAcked, rate, limits, backward, inputs>>
  BY DEF EnterGame, serverVars
<1>2. map \in Nat \ {0} /\ clientMap \in Nat /\ clientMap <= map
  BY DEF SnapshotsInv, ServerTypes, ServerInv, Limits
<1>3. \A i \in inputs : i.map \in Nat /\ i.map <= clientMap
  BY DEF SnapshotsInv, ServerTypes, InputInv
<1>4. FlagTypes'
  BY FlagsStep DEF Next, SnapshotsInv
<1>5. ServerTypes' /\ ServerInv' /\ InputInv'
  BY <1>1, <1>2, <1>3 DEF SnapshotsInv, ServerTypes, ServerInv, InputInv
<1>6. PacketInv' /\ StoredInv' /\ ShownInv'
  BY <1>1 DEF PacketInv, StoredInv, ShownInv, StoredTicks, TickOrNone
<1>7. ~backward => AckedInv'
  <2>1. \A i \in inputs : i.map # map
    BY <1>1, <1>2, <1>3
  <2> QED
    BY <1>1, <2>1 DEF SnapshotsInv, AckedInv
<1> QED
  BY <1>1, <1>4, <1>5, <1>6, <1>7 DEF SnapshotsInv

-----------------------------------------------------------------------------
(* A packet arrives.                                                       *)

\* What holds when a packet is received, whatever becomes of it.
Receiving(s) ==
    /\ s \in snaps /\ snaps' \subseteq snaps /\ UNCHANGED <<serverVars, clientMap>>
    /\ FlagTypes'

LEMMA ReceiveSnapBegins ==
    ASSUME SnapshotsInv, NEW s \in snaps, ReceiveSnap(s)
    PROVE  Receiving(s)
<1>1. FlagTypes'
  BY FlagsStep DEF Next, SnapshotsInv
<1> QED
  BY <1>1 DEF Receiving, ReceiveSnap, TakePart, MissBase, Unpack, FailCrc, Accept, Ignore, clientVars

\* The server's side is the same; the packets and the known ticks stay.
LEMMA ReceivingKeeps ==
    ASSUME SnapshotsInv, NEW s, Receiving(s),
           inputs' \subseteq [ack : TickOrNone, map : Nat], \A i \in inputs' : i.map <= clientMap
    PROVE  /\ ServerTypes' /\ ServerInv' /\ InputInv'
           /\ \A q : Honest(q) => Honest(q)'
           /\ \A t : Known(t) => Known(t)'
<1>1. KnownStays
  BY DEF Receiving, KnownStays, Known, serverVars
<1>2. ServerTypes' /\ ServerInv' /\ InputInv'
  BY DEF Receiving, SnapshotsInv, ServerTypes, ServerInv, InputInv, serverVars
<1>3. \A q : Honest(q) => Honest(q)'
  BY <1>1, HonestStays DEF SnapshotsInv
<1>4. \A t : Known(t) => Known(t)'
  BY DEF Receiving, Known, serverVars
<1> QED
  BY <1>2, <1>3, <1>4

\* Facts about the packet and the client.
LEMMA PacketFacts ==
    ASSUME SnapshotsInv, NEW s \in snaps
    PROVE  /\ Honest(s) /\ s \in Packets /\ s.tick \in Ticks /\ s.delta \in TickOrNone
           /\ s.tick \in Int /\ s.delta \in Int /\ s.to \in Contents
           /\ ack \in Int /\ recvTick \in Int
           /\ \A e \in stored : e.tick \in Ticks
           /\ Acceptable(s) => \A t \in StoredTicks : t < s.tick
<1>1. Honest(s) /\ s \in Packets /\ s.tick \in Ticks /\ s.delta \in TickOrNone /\ s.to \in Contents
  BY DEF SnapshotsInv, PacketInv, Honest, Packets
<1>2. s.tick \in Int /\ s.delta \in Int /\ ack \in Int /\ recvTick \in Int
  BY <1>1 DEF SnapshotsInv, StoredInv, TickOrNone, Ticks, NoTick
<1>3. \A e \in stored : e.tick \in Ticks /\ (e.tick <= ack \/ (ack = NoTick /\ e.tick < recvTick))
  BY DEF SnapshotsInv, StoredInv
<1>4. Acceptable(s) => \A t \in StoredTicks : t < s.tick
  BY <1>2, <1>3 DEF StoredTicks, Acceptable, Ticks
<1> QED
  BY <1>1, <1>2, <1>3, <1>4

\* The acks are as they were when neither the storage nor the inputs change
\* and no packet becomes acceptable again.
LEMMA AckedStays ==
    ASSUME SnapshotsInv, NEW s, Receiving(s), AckedInv, UNCHANGED <<stored, inputs>>,
           \A q \in snaps : Acceptable(q)' => Acceptable(q)
    PROVE  AckedInv'
BY DEF Receiving, AckedInv, StoredTicks, serverVars

LEMMA TakePartStep ==
    ASSUME SnapshotsInv, NEW s \in snaps, Receiving(s), TakePart(s)
    PROVE  SnapshotsInv'
<1>1. /\ Acceptable(s) /\ parts' = Arrived(s) /\ recvTick' = s.tick
      /\ UNCHANGED <<stored, ack, received, prev, cur, crcErrors, inputs>>
      /\ UNCHANGED <<serverVars, clientMap>>
  BY DEF TakePart
<1>2. /\ ServerTypes' /\ ServerInv' /\ InputInv'
      /\ \A q : Honest(q) => Honest(q)'
      /\ \A t : Known(t) => Known(t)'
  BY <1>1, ReceivingKeeps DEF SnapshotsInv, ServerTypes, InputInv
<1>3. /\ Honest(s) /\ s.tick \in Int /\ ack \in Int /\ recvTick \in Int /\ s.tick \in Ticks
      /\ recvTick <= s.tick
  BY <1>1, PacketFacts DEF Acceptable
<1>4. PacketInv'
  <2>1. \A q \in parts' : q = s \/ (q \in parts /\ s.tick = recvTick)
    BY <1>1 DEF Arrived
  <2> QED
    BY <1>1, <1>2, <1>3, <2>1 DEF SnapshotsInv, PacketInv, Receiving
<1>5. StoredInv'
  <2>1. \A e \in stored : e.tick <= ack \/ (ack = NoTick /\ e.tick < s.tick)
    BY <1>3 DEF SnapshotsInv, StoredInv, Ticks
  <2> QED
    BY <1>1, <1>2, <1>3, <2>1 DEF SnapshotsInv, StoredInv, StoredTicks, Ticks, serverVars
<1>6. ShownInv'
  BY <1>1 DEF SnapshotsInv, ShownInv, StoredTicks
<1>7. ~backward => AckedInv'
  <2>1. \A q \in snaps : Acceptable(q)' => Acceptable(q)
    <3>1. \A q \in snaps : q.tick \in Int
      BY PacketFacts
    <3> QED
      BY <1>1, <1>3, <3>1 DEF Acceptable
  <2> QED
    BY <1>1, <2>1, AckedStays DEF SnapshotsInv
<1> QED
  BY <1>1, <1>2, <1>4, <1>5, <1>6, <1>7 DEF SnapshotsInv, Receiving, serverVars

\* Without an ack that went backward, the base is never missing.
LEMMA MissBaseStep ==
    ASSUME SnapshotsInv, NEW s \in snaps, Receiving(s), MissBase(s)
    PROVE  SnapshotsInv'
<1>1. /\ Acceptable(s) /\ BaseOf(s) = {} /\ parts' = {} /\ recvTick' = s.tick
      /\ ack' = NoTick /\ inputs' = Sent(NoTick)
      /\ UNCHANGED <<stored, received, prev, cur, crcErrors>> /\ UNCHANGED <<serverVars, clientMap>>
  BY DEF MissBase
<1>2. /\ inputs' \subseteq [ack : TickOrNone, map : Nat] /\ \A i \in inputs' : i.map <= clientMap
  <2>1. NoTick \in TickOrNone /\ clientMap \in Nat /\ clientMap <= clientMap
    BY DEF SnapshotsInv, ServerInv, ServerTypes, TickOrNone
  <2>2. \A i \in inputs' : i \in inputs \/ i = [ack |-> NoTick, map |-> clientMap]
    BY <1>1 DEF Sent
  <2>3. inputs \subseteq [ack : TickOrNone, map : Nat] /\ \A i \in inputs : i.map <= clientMap
    BY DEF SnapshotsInv, ServerTypes, InputInv
  <2> QED
    BY <2>1, <2>2, <2>3
<1>3. /\ ServerTypes' /\ ServerInv' /\ InputInv'
      /\ \A q : Honest(q) => Honest(q)'
      /\ \A t : Known(t) => Known(t)'
  BY <1>2, ReceivingKeeps
<1>4. s.tick \in Ticks /\ \A t \in StoredTicks : t < s.tick
  BY <1>1, PacketFacts
<1>5. PacketInv'
  BY <1>1, <1>3 DEF SnapshotsInv, PacketInv, Receiving
<1>6. StoredInv'
  BY <1>1, <1>3, <1>4 DEF SnapshotsInv, StoredInv, StoredTicks, Ticks, TickOrNone, serverVars
<1>7. ShownInv'
  BY <1>1 DEF SnapshotsInv, ShownInv, StoredTicks
<1>8. backward
  <2>1. s.delta # NoTick /\ s.delta \notin StoredTicks
    BY <1>1 DEF BaseOf, StoredTicks
  <2> QED
    BY <1>1, <2>1 DEF SnapshotsInv, AckedInv
<1>9. backward' = backward
  BY <1>1 DEF serverVars
<1> QED
  BY <1>3, <1>5, <1>6, <1>7, <1>8, <1>9 DEF SnapshotsInv, Receiving

-----------------------------------------------------------------------------
(* A snapshot is complete and its base is there.                           *)

\* The base has the content that the server used: no checksum is wrong.
LEMMA UnpackAccepts ==
    ASSUME SnapshotsInv, NEW s \in snaps, Unpack(s)
    PROVE  /\ Acceptable(s) /\ Accept(s, s.to)
           /\ s.delta # NoTick => s.delta \in StoredTicks
<1>1. PICK base \in BaseOf(s) :
        IF s.from # s.to /\ Unpacked(s, base) # s.to THEN FailCrc(s) ELSE Accept(s, Unpacked(s, base))
  BY DEF Unpack
<1>2. Honest(s)
  BY PacketFacts
<1>3. base = s.from /\ (s.delta # NoTick => s.delta \in StoredTicks)
  <2>1. CASE s.delta = NoTick
    BY <1>1, <1>2, <2>1 DEF BaseOf, Honest
  <2>2. CASE s.delta # NoTick
    <3>1. PICK e \in stored : e.tick = s.delta /\ e.value = base
      BY <1>1, <2>2 DEF BaseOf
    <3>2. e.value = built[clientMap][e.tick]
      BY DEF SnapshotsInv, StoredInv
    <3> QED
      BY <1>2, <2>2, <3>1, <3>2 DEF Honest, StoredTicks
  <2> QED
    BY <2>1, <2>2
<1>4. \A q \in Arrived(s) : q.tick = s.tick
  BY DEF Arrived, SnapshotsInv, PacketInv
<1>5. Unpacked(s, base) = s.to
  BY <1>3, <1>4 DEF Unpacked
<1> QED
  BY <1>1, <1>3, <1>5 DEF Unpack

\* What the storage has after it: what is older than the base and what is
\* shown goes, and the new snapshot comes.
LEMMA AcceptStores ==
    ASSUME SnapshotsInv, NEW s \in snaps, Acceptable(s), Accept(s, s.to)
    PROVE  /\ \A e \in stored' : e \in stored \/ e = [tick |-> s.tick, value |-> s.to]
           /\ [tick |-> s.tick, value |-> s.to] \in stored'
           /\ \A e \in stored : e.tick >= s.delta => e \in stored'
           /\ \A e \in stored : prev # NoTick /\ e.tick \in {prev, cur} => e \in stored'
           /\ \A t \in StoredTicks' : t <= s.tick
           /\ StoredTicks' \subseteq Ticks
<1>1. stored' = {e \in stored : e.tick >= PurgeTick(s)} \cup {[tick |-> s.tick, value |-> s.to]}
  BY DEF Accept
<1>2. /\ s \in Packets /\ s.tick \in Ticks /\ s.tick \in Int /\ s.delta \in Int
      /\ \A e \in stored : e.tick \in Ticks
      /\ \A t \in StoredTicks : t < s.tick
  BY PacketFacts
<1>3. prev \in TickOrNone /\ cur \in TickOrNone
  BY <1>2 DEF SnapshotsInv, ShownInv, StoredTicks, TickOrNone
<1>4. /\ PurgeTick(s) <= s.delta /\ PurgeTick(s) \in Int
      /\ prev # NoTick => PurgeTick(s) <= prev /\ PurgeTick(s) <= cur
  BY <1>2, <1>3, PurgeSpares
<1>5. \A e \in stored' : e \in stored \/ e = [tick |-> s.tick, value |-> s.to]
  BY <1>1
<1>6. \A e \in stored : e.tick >= s.delta => e \in stored'
  BY <1>1, <1>2, <1>4 DEF Ticks
<1>7. \A e \in stored : prev # NoTick /\ e.tick \in {prev, cur} => e \in stored'
  BY <1>1, <1>2, <1>4 DEF Ticks
<1>8. \A t \in StoredTicks' : t \in StoredTicks \/ t = s.tick
  BY <1>5 DEF StoredTicks
<1>9. StoredTicks \subseteq Ticks
  BY <1>2 DEF StoredTicks
<1>10. (\A t \in StoredTicks' : t <= s.tick) /\ StoredTicks' \subseteq Ticks
  <2>1. \A t \in StoredTicks : t \in Ticks /\ t < s.tick
    BY <1>2, <1>9
  <2> HIDE DEF StoredTicks
  <2>2. \A t \in StoredTicks : t \in Int /\ t <= s.tick
    BY <1>2, <2>1 DEF Ticks
  <2> QED
    BY <1>2, <1>8, <2>1, <2>2
<1> QED
  BY <1>1, <1>5, <1>6, <1>7, <1>10

LEMMA UnpackStep ==
    ASSUME SnapshotsInv, NEW s \in snaps, Receiving(s), Unpack(s)
    PROVE  SnapshotsInv'
<1> DEFINE new == [tick |-> s.tick, value |-> s.to]
<1>1. /\ Acceptable(s) /\ Accept(s, s.to)
      /\ s.delta # NoTick => s.delta \in StoredTicks
  BY UnpackAccepts
<1>2. /\ parts' = {} /\ recvTick' = s.tick /\ ack' = s.tick
      /\ crcErrors' = IF crcErrors > 0 THEN crcErrors - 1 ELSE 0
      /\ received' = IF received < 2 THEN received + 1 ELSE 2
      /\ IF received = 1
         THEN prev' = MinOf({e.tick : e \in stored'}) /\ cur' = s.tick
         ELSE UNCHANGED <<prev, cur>>
      /\ UNCHANGED inputs /\ UNCHANGED <<serverVars, clientMap>>
  BY <1>1 DEF Accept
<1>3. /\ \A e \in stored' : e \in stored \/ e = new
      /\ new \in stored'
      /\ \A e \in stored : e.tick >= s.delta => e \in stored'
      /\ \A e \in stored : prev # NoTick /\ e.tick \in {prev, cur} => e \in stored'
      /\ \A t \in StoredTicks' : t <= s.tick
      /\ StoredTicks' \subseteq Ticks
  BY <1>1, AcceptStores
<1>4. /\ Honest(s) /\ s \in Packets /\ s.tick \in Ticks /\ s.delta \in TickOrNone
      /\ s.tick \in Int /\ s.delta \in Int /\ s.to \in Contents
      /\ ack \in Int /\ recvTick \in Int
      /\ \A e \in stored : e.tick \in Ticks
      /\ \A t \in StoredTicks : t < s.tick
  BY <1>1, PacketFacts
<1>5. /\ ServerTypes' /\ ServerInv' /\ InputInv'
      /\ \A q : Honest(q) => Honest(q)'
      /\ \A t : Known(t) => Known(t)'
  BY <1>2, ReceivingKeeps DEF SnapshotsInv, ServerTypes, InputInv
<1>6. PacketInv'
  BY <1>2, <1>5 DEF SnapshotsInv, PacketInv, Receiving
<1>7. new.tick = s.tick /\ new.value = s.to /\ new \in [tick : Ticks, value : Contents]
  BY <1>4
<1> HIDE DEF new
<1>8. s.tick \in StoredTicks'
  BY <1>3, <1>7 DEF StoredTicks
<1>9. StoredInv'
  <2>1. \A e \in stored : e \in [tick : Ticks, value : Contents] /\ Known(e.tick)
                          /\ e.value = built[clientMap][e.tick]
    BY DEF SnapshotsInv, StoredInv
  <2>2. Known(s.tick) /\ s.to = built[clientMap][s.tick]
    BY <1>4 DEF Honest
  <2>3. \A e \in stored' : e \in [tick : Ticks, value : Contents] /\ Known(e.tick)
                           /\ e.value = built[clientMap][e.tick]
    BY <1>3, <1>7, <2>1, <2>2
  <2>4. \A e \in stored' : e.tick <= ack'
    BY <1>2, <1>3 DEF StoredTicks
  <2>5. \A e \in stored' : Known(e.tick)'
    <3>1. \A e : Known(e.tick) => Known(e.tick)'
      BY <1>2 DEF Known, serverVars
    <3> QED
      BY <2>3, <3>1
  <2>6. crcErrors' = 0 /\ ack' \in TickOrNone /\ recvTick' \in Nat
    BY <1>2, <1>4 DEF SnapshotsInv, StoredInv, TickOrNone, Ticks
  <2>7. UNCHANGED <<built, clientMap>>
    BY <1>2 DEF serverVars
  <2> QED
    BY <1>2, <1>8, <2>3, <2>4, <2>5, <2>6, <2>7 DEF StoredInv
<1>10. ShownInv'
  <2>1. CASE received = 0
    <3>1. stored = {} /\ prev = NoTick /\ cur = NoTick
      BY <2>1 DEF SnapshotsInv, ShownInv
    <3>2. stored' = {new}
      BY <1>3, <3>1
    <3>3. received' = 1 /\ prev' = NoTick /\ cur' = NoTick
      BY <1>2, <2>1, <3>1
    <3> QED
      BY <3>2, <3>3 DEF ShownInv
  <2>2. CASE received = 1
    <3>1. PICK e \in stored : stored = {e}
      BY <2>2 DEF SnapshotsInv, ShownInv
    <3>2. e.tick \in Ticks /\ e.tick < s.tick /\ e.tick >= s.delta
      <4>1. e.tick \in Ticks /\ e.tick < s.tick
        BY <1>4 DEF StoredTicks
      <4>2. s.delta = NoTick \/ s.delta = e.tick
        BY <1>1, <3>1 DEF StoredTicks
      <4> QED
        BY <4>1, <4>2 DEF Ticks, NoTick
    <3>3. StoredTicks' = {e.tick, s.tick}
      BY <1>3, <1>7, <3>1, <3>2 DEF StoredTicks
    <3>4. /\ MinOf({e.tick, s.tick}) \in {e.tick, s.tick}
          /\ \A t \in {e.tick, s.tick} : MinOf({e.tick, s.tick}) <= t
      BY <1>4, <3>2, MinOfNaturals DEF Ticks
    <3>5. MinOf({e.tick, s.tick}) = e.tick
      BY <1>4, <3>2, <3>4 DEF Ticks
    <3>6. prev' = e.tick /\ cur' = s.tick /\ received' = 2
      BY <1>2, <2>2, <3>3, <3>5 DEF StoredTicks
    <3> QED
      BY <3>2, <3>3, <3>6 DEF ShownInv
  <2>3. CASE received = 2
    <3>1. {prev, cur} \subseteq StoredTicks /\ prev < cur
      BY <2>3 DEF SnapshotsInv, ShownInv
    <3>2. prev # NoTick
      BY <1>4, <3>1 DEF StoredTicks, Ticks, NoTick
    <3>3. {prev, cur} \subseteq StoredTicks'
      BY <1>3, <3>1, <3>2 DEF StoredTicks
    <3>4. received' = 2 /\ UNCHANGED <<prev, cur>>
      BY <1>2, <2>3
    <3> QED
      BY <3>1, <3>3, <3>4 DEF ShownInv
  <2> QED
    BY <2>1, <2>2, <2>3 DEF SnapshotsInv, ShownInv
<1>11. ASSUME ~backward PROVE AckedInv'
  <2>1. AckedInv /\ snaps' \subseteq snaps
    BY <1>11 DEF SnapshotsInv, Receiving
  <2>2. \A t \in StoredTicks : t >= s.delta => t \in StoredTicks'
    BY <1>3 DEF StoredTicks
  <2>3. UNCHANGED <<map, lastAcked, inputs, clientMap>>
    BY <1>2 DEF serverVars
  <2>4. /\ clientMap \in Nat /\ map \in Nat /\ clientMap <= map /\ lastAcked \in Int
        /\ \A i \in inputs : i.map \in Nat /\ i.map <= clientMap /\ i.ack \in Int
    BY DEF SnapshotsInv, ServerTypes, ServerInv, InputInv, TickOrNone, Ticks, NoTick
  <2>5. clientMap = map => s.delta <= lastAcked
    BY <2>1 DEF AckedInv
  <2>6. lastAcked # NoTick => clientMap = map /\ lastAcked \in StoredTicks'
    BY <1>4, <2>1, <2>2, <2>4, <2>5 DEF AckedInv
  <2>7. ASSUME NEW i \in inputs, i.map = map, i.ack >= lastAcked, i.ack # NoTick
        PROVE  i.ack \in StoredTicks'
    <3>1. i.ack \in StoredTicks
      BY <2>1, <2>7 DEF AckedInv
    <3>2. i.ack >= s.delta
      BY <1>4, <2>4, <2>5, <2>7
    <3> QED
      BY <2>2, <3>1, <3>2
  <2>8. \A q \in snaps : clientMap = map => q.delta <= lastAcked
    BY <2>1 DEF AckedInv
  <2>9. ASSUME NEW q \in snaps, Acceptable(q)', q.delta # NoTick
        PROVE  q.delta \in StoredTicks'
    <3>1. q.tick \in Int /\ q.delta \in Int
      BY PacketFacts
    <3>2. q.tick > s.tick /\ Acceptable(q)
      BY <1>1, <1>2, <1>4, <2>9, <3>1 DEF Acceptable
    <3>3. q.delta \in StoredTicks /\ s.delta <= q.delta
      BY <1>4, <2>1, <2>9, <3>1, <3>2 DEF AckedInv
    <3> QED
      BY <1>4, <2>2, <3>1, <3>3
  <2>10. \A p, q \in snaps : p.tick < q.tick /\ q.delta # NoTick => p.delta <= q.delta
    BY <2>1 DEF AckedInv
  <2> QED
    BY <2>1, <2>3, <2>6, <2>7, <2>8, <2>9, <2>10 DEF AckedInv
<1>12. backward' = backward
  BY <1>2 DEF serverVars
<1> QED
  BY <1>5, <1>6, <1>9, <1>10, <1>11, <1>12 DEF SnapshotsInv, Receiving

\* Packets and inputs are lost, or a packet is ignored.
LEMMA LessUnderWay ==
    ASSUME SnapshotsInv, UNCHANGED <<serverVars, clientVars>>,
           snaps' \subseteq snaps, inputs' \subseteq inputs
    PROVE  SnapshotsInv'
<1> USE DEF serverVars, clientVars
<1>1. FlagTypes' /\ ServerTypes' /\ ServerInv' /\ InputInv'
  BY DEF SnapshotsInv, FlagTypes, ServerTypes, ServerInv, InputInv
<1>2. PacketInv' /\ StoredInv' /\ ShownInv'
  <2>1. KnownStays
    BY DEF KnownStays, Known
  <2> QED
    BY <2>1, ClientIdle
<1>3. ~backward => AckedInv'
  BY DEF SnapshotsInv, AckedInv, Acceptable, StoredTicks
<1> QED
  BY <1>1, <1>2, <1>3 DEF SnapshotsInv

LEMMA ReceiveSnapStep ==
    ASSUME SnapshotsInv, NEW s \in snaps, ReceiveSnap(s) PROVE SnapshotsInv'
<1>1. Receiving(s)
  BY ReceiveSnapBegins
<1>2. CASE TakePart(s)
  BY <1>1, <1>2, TakePartStep
<1>3. CASE MissBase(s)
  BY <1>1, <1>3, MissBaseStep
<1>4. CASE Unpack(s)
  BY <1>1, <1>4, UnpackStep
<1>5. CASE Ignore(s)
  BY <1>1, <1>5, LessUnderWay DEF Ignore, Receiving
<1> QED
  BY <1>2, <1>3, <1>4, <1>5 DEF ReceiveSnap

-----------------------------------------------------------------------------
(* The client shows snapshots and sends input.                             *)

LEMMA AdvanceStep == ASSUME SnapshotsInv, Advance PROVE SnapshotsInv'
<1> DEFINE later == {t \in StoredTicks : t > cur}
<1>1. /\ cur # NoTick /\ later # {} /\ cur' = MinOf(later) /\ prev' = cur
      /\ UNCHANGED <<clientMap, stored, ack, recvTick, parts, received, predicting, crcErrors>>
      /\ UNCHANGED <<serverVars, snaps, inputs>>
  BY DEF Advance
<1>2. FlagTypes' /\ ServerTypes' /\ ServerInv' /\ InputInv'
  BY <1>1, FlagsStep
    DEF SnapshotsInv, FlagTypes, ServerTypes, ServerInv, InputInv, serverVars, Next
<1>3. \A e \in stored : e.tick \in Ticks
  BY DEF SnapshotsInv, StoredInv
<1>4. later \subseteq Nat
  BY <1>3 DEF StoredTicks, Ticks
<1>5. cur' \in later
  BY <1>1, <1>4, MinOfNaturals
<1>6. received = 2 /\ cur \in StoredTicks
  BY <1>1 DEF SnapshotsInv, ShownInv
<1>7. ShownInv'
  BY <1>1, <1>5, <1>6 DEF ShownInv, StoredTicks
<1>8. PacketInv' /\ StoredInv'
  BY <1>1 DEF SnapshotsInv, PacketInv, StoredInv, StoredTicks, Honest, Known, serverVars
<1>9. ~backward => AckedInv'
  BY <1>1 DEF SnapshotsInv, AckedInv, StoredTicks, Acceptable, serverVars
<1>10. backward' = backward
  BY <1>1 DEF serverVars
<1> QED
  BY <1>2, <1>7, <1>8, <1>9, <1>10 DEF SnapshotsInv

LEMMA SendInputStep == ASSUME SnapshotsInv, SendInput PROVE SnapshotsInv'
<1> DEFINE new == [ack |-> ack, map |-> clientMap]
<1>1. /\ inputs' = inputs \cup {new}
      /\ UNCHANGED <<clientMap, stored, ack, recvTick, parts, received, prev, cur, crcErrors>>
      /\ UNCHANGED <<serverVars, snaps>>
  BY DEF SendInput
<1>2. FlagTypes'
  BY FlagsStep DEF SnapshotsInv, Next
<1>3. new \in [ack : TickOrNone, map : Nat] /\ new.map = clientMap /\ new.ack = ack
      /\ clientMap <= clientMap
  BY DEF SnapshotsInv, StoredInv, ServerTypes, ServerInv
<1> HIDE DEF new
<1>4. ServerTypes' /\ ServerInv' /\ InputInv'
  BY <1>1, <1>3 DEF SnapshotsInv, ServerTypes, ServerInv, InputInv, serverVars
<1>5. PacketInv' /\ StoredInv' /\ ShownInv'
  BY <1>1 DEF SnapshotsInv, PacketInv, StoredInv, ShownInv, StoredTicks, Honest, Known, serverVars
<1>6. ~backward => AckedInv'
  <2>1. ack # NoTick => ack \in StoredTicks
    BY DEF SnapshotsInv, StoredInv
  <2> QED
    BY <1>1, <1>3, <2>1 DEF SnapshotsInv, AckedInv, StoredTicks, Acceptable, serverVars
<1>7. backward' = backward
  BY <1>1 DEF serverVars
<1> QED
  BY <1>2, <1>4, <1>5, <1>6, <1>7 DEF SnapshotsInv

LEMMA SnapshotsStep == SnapshotsInv /\ [Next]_vars => SnapshotsInv'
<1> SUFFICES ASSUME SnapshotsInv, [Next]_vars PROVE SnapshotsInv'
  OBVIOUS
<1>1. CASE Tick
  BY <1>1, TickStep
<1>2. CASE ChangeMap
  BY <1>2, ChangeMapStep
<1>3. CASE Entered
  BY <1>3, EnteredStep
<1>4. ASSUME NEW v \in limits.values, NEW n \in 1 .. limits.parts, DoSnapshot(v, n)
      PROVE  SnapshotsInv'
  BY <1>4, DoSnapshotStep
<1>5. ASSUME NEW i \in inputs, ReceiveInput(i) PROVE SnapshotsInv'
  BY <1>5, ReceiveInputStep
<1>6. ASSUME NEW s \in snaps, ReceiveSnap(s) PROVE SnapshotsInv'
  BY <1>6, ReceiveSnapStep
<1>7. CASE EnterGame
  BY <1>7, EnterGameStep
<1>8. CASE Advance
  BY <1>8, AdvanceStep
<1>9. CASE SendInput
  BY <1>9, SendInputStep
<1>10. CASE Lose
  BY <1>10, LessUnderWay DEF Lose
<1>11. CASE UNCHANGED vars
  BY <1>11, LessUnderWay DEF vars
<1> QED
  BY <1>1, <1>2, <1>3, <1>4, <1>5, <1>6, <1>7, <1>8, <1>9, <1>10, <1>11 DEF Next

-----------------------------------------------------------------------------
(* The theorems.                                                           *)

\* Whatever is lost, repeated or overtaken, packets and the storage of the
\* client say the truth about the server's snapshots, and without an ack that
\* goes backward the acknowledged ones are kept (client.cpp:1894-1967).
THEOREM SnapshotsInvariant == Spec => []SnapshotsInv
<1> QED
  BY InitSnapshots, SnapshotsStep, PTL DEF Spec

\* TypeOK, so SNAP_PREV and SNAP_CURRENT are never freed (client.cpp:1967).
THEOREM SnapshotsTypes == Spec => []TypeOK
<1>1. SnapshotsInv => TypeOK
  <2> SUFFICES ASSUME SnapshotsInv PROVE TypeOK
    OBVIOUS
  <2>1. clientMap \in 0 .. limits.maps
    BY DEF SnapshotsInv, ServerInv, ServerTypes, Limits
  <2>2. kept \subseteq Ticks
    BY DEF SnapshotsInv, ServerInv, ServerTypes, Limits, Ticks
  <2>3. crcErrors \in Nat /\ ack \in TickOrNone /\ recvTick \in Nat
        /\ stored \subseteq [tick : Ticks, value : Contents]
    BY DEF SnapshotsInv, StoredInv
  <2>4. received \in 0 .. 2
        /\ IF received < 2 THEN prev = NoTick /\ cur = NoTick
                           ELSE {prev, cur} \subseteq StoredTicks /\ prev < cur
    BY DEF SnapshotsInv, ShownInv
  <2>5. ServerTypes /\ FlagTypes
    BY DEF SnapshotsInv
  <2> HIDE DEF StoredTicks
  <2> QED
    BY <2>1, <2>2, <2>3, <2>4, <2>5, Zenon DEF TypeOK, ServerTypes, FlagTypes
<1> QED
  BY <1>1, SnapshotsInvariant, PTL

\* What the client has for a tick is what the server built for it, and no
\* checksum is ever wrong (client.cpp:1894).
THEOREM SnapshotsAreTrue == Spec => []SnapshotsTrue
<1>1. SnapshotsInv => SnapshotsTrue
  BY DEF SnapshotsInv, StoredInv, SnapshotsTrue
<1> QED
  BY <1>1, SnapshotsInvariant, PTL

\* Without an ack that goes backward, the client has the base of every
\* snapshot that it still accepts (client.cpp:1961).
THEOREM BasesAreKept == Spec => []BaseKept
<1>1. SnapshotsInv => BaseKept
  BY DEF SnapshotsInv, AckedInv, BaseKept
<1> QED
  BY <1>1, SnapshotsInvariant, PTL
=============================================================================
