----------------------------- MODULE SnapIdPool -----------------------------
(***************************************************************************)
(* CSnapIdPool (engine/server/snap_id_pool.cpp): the ids under which       *)
(* entities appear in snapshots.  Free ids and ids in quarantine are kept  *)
(* in two lists threaded through one array.  The loops of NewId and        *)
(* TimeoutIds take one step per RemoveFirstTimeout; everything runs on the *)
(* main thread, so nothing else happens until the call returns.            *)
(***************************************************************************)
EXTENDS Integers, Sequences, FiniteSets

CONSTANTS
    Entities,    \* game entities that may exist at once (external)
    MaxIds,      \* MAX_IDS
    IntHalf,     \* an int holds -IntHalf .. IntHalf - 1
    Quarantine,  \* time_freq() * 5 in the same units
    MaxTime      \* bound on the clock

ASSUME IdAssumption == /\ MaxIds \in Nat \ {0}
                       /\ IntHalf \in Nat \ {0}
                       /\ Quarantine \in Nat
                       /\ MaxTime \in Nat

VARIABLES
    next, state, timeout,             \* m_aIds
    firstFree, firstTimed, lastTimed, \* heads of the lists, -1 when empty
    usage, inUsage,                   \* m_Usage, m_InUsage
    pc,       \* "idle", or inside "NewId" or "TimeoutIds"
    entity,   \* "absent", "creating" (inside NewId) or "alive"
    mId,      \* CEntity::m_Id
    now,      \* time_get(), which does not change inside a call
    snap,     \* ids in the last snapshot sent
    fresh     \* ids handed out since then

pool == <<next, state, timeout, firstFree, firstTimed, lastTimed, usage, inUsage>>
game == <<entity, mId, now, snap, fresh>>
vars == <<pool, pc, game>>

Ids == 0 .. MaxIds - 1
Links == Ids \cup {-1}
Int32 == -IntHalf .. IntHalf - 1

\* Storing an int64_t in the int m_Timeout keeps its low bits.
Truncate(t) == ((t + IntHalf) % (2 * IntHalf)) - IntHalf

TypeOK ==
    /\ next \in [Ids -> Links]
    /\ state \in [Ids -> {"free", "allocated", "timed"}]
    /\ timeout \in [Ids -> Int32]
    /\ {firstFree, firstTimed, lastTimed} \subseteq Links
    /\ usage \in Int /\ inUsage \in Int
    /\ pc \in {"idle", "NewId", "TimeoutIds"}
    /\ entity \in [Entities -> {"absent", "creating", "alive"}]
    /\ mId \in [Entities -> Links]
    /\ now \in Nat
    /\ snap \subseteq Ids /\ fresh \subseteq Ids

-----------------------------------------------------------------------------
\* Reset, called by the constructor.
Init ==
    /\ next = [i \in Ids |-> IF i = MaxIds - 1 THEN -1 ELSE i + 1]
    /\ state = [i \in Ids |-> "free"]
    /\ timeout = [i \in Ids |-> 0]
    /\ firstFree = 0 /\ firstTimed = -1 /\ lastTimed = -1
    /\ usage = 0 /\ inUsage = 0
    /\ pc = "idle"
    /\ entity = [e \in Entities |-> "absent"]
    /\ mId = [e \in Entities |-> -1]
    /\ now = 0 /\ snap = {} /\ fresh = {}

\* The loop condition of NewId and of TimeoutIds.
LoopGoesOn == /\ firstTimed # -1
              /\ pc = "NewId" => timeout[firstTimed] < now
\* mutant: lastTimed is not reset when the list becomes empty
RemoveKeepsLast ==
    /\ pc # "idle" /\ LoopGoesOn
    /\ firstTimed' = next[firstTimed]
    /\ next' = [next EXCEPT ![firstTimed] = firstFree]
    /\ state' = [state EXCEPT ![firstTimed] = "free"]
    /\ firstFree' = firstTimed
    /\ usage' = usage - 1
    /\ UNCHANGED <<lastTimed, timeout, inUsage, pc, game>>
\* RemoveFirstTimeout: the oldest id in quarantine becomes the first free one.
RemoveFirstTimeout ==
    /\ pc # "idle" /\ LoopGoesOn
    /\ firstTimed' = next[firstTimed]
    /\ lastTimed' = IF next[firstTimed] = -1 THEN -1 ELSE lastTimed
    /\ next' = [next EXCEPT ![firstTimed] = firstFree]
    /\ state' = [state EXCEPT ![firstTimed] = "free"]
    /\ firstFree' = firstTimed
    /\ usage' = usage - 1
    /\ UNCHANGED <<timeout, inUsage, pc, game>>

\* CEntity::CEntity calls SnapNewId.
Create(e) ==
    /\ pc = "idle" /\ entity[e] = "absent"
    /\ pc' = "NewId"
    /\ entity' = [entity EXCEPT ![e] = "creating"]
    /\ UNCHANGED <<pool, mId, now, snap, fresh>>

\* NewId found no free id; the entity lives with the id -1.
NewIdFails(e) ==
    /\ pc = "NewId" /\ entity[e] = "creating" /\ ~LoopGoesOn
    /\ firstFree = -1
    /\ pc' = "idle"
    /\ entity' = [entity EXCEPT ![e] = "alive"]
    /\ mId' = [mId EXCEPT ![e] = -1]
    /\ UNCHANGED <<pool, now, snap, fresh>>

\* mutant: the free list is not advanced
NewIdReturnsSame(e) ==
    /\ pc = "NewId" /\ entity[e] = "creating" /\ ~LoopGoesOn
    /\ firstFree # -1
    /\ state' = [state EXCEPT ![firstFree] = "allocated"]
    /\ usage' = usage + 1 /\ inUsage' = inUsage + 1
    /\ pc' = "idle"
    /\ entity' = [entity EXCEPT ![e] = "alive"]
    /\ mId' = [mId EXCEPT ![e] = firstFree]
    /\ fresh' = fresh \cup {firstFree}
    /\ UNCHANGED <<firstFree, next, timeout, firstTimed, lastTimed, now, snap>>
\* NewId takes the first free id.
NewIdReturns(e) ==
    /\ pc = "NewId" /\ entity[e] = "creating" /\ ~LoopGoesOn
    /\ firstFree # -1
    /\ firstFree' = next[firstFree]
    /\ state' = [state EXCEPT ![firstFree] = "allocated"]
    /\ usage' = usage + 1 /\ inUsage' = inUsage + 1
    /\ pc' = "idle"
    /\ entity' = [entity EXCEPT ![e] = "alive"]
    /\ mId' = [mId EXCEPT ![e] = firstFree]
    /\ fresh' = fresh \cup {firstFree}
    /\ UNCHANGED <<next, timeout, firstTimed, lastTimed, now, snap>>

\* mutant: the old end of the list is not linked to the new one
EnqueueUnlinked(id) ==
    /\ next' = [next EXCEPT ![id] = -1]
    /\ firstTimed' = IF lastTimed = -1 THEN id ELSE firstTimed
    /\ lastTimed' = id
\* FreeId appends the id to the list of timed ids.
Enqueue(id) ==
    /\ next' = [i \in Ids |-> IF i = id THEN -1
                              ELSE IF i = lastTimed THEN id ELSE next[i]]
    /\ firstTimed' = IF lastTimed = -1 THEN id ELSE firstTimed
    /\ lastTimed' = id

\* FreeId(id) for an allocated id.
FreeId(id) ==
    /\ inUsage' = inUsage - 1
    /\ state' = [state EXCEPT ![id] = "timed"]
    /\ timeout' = [timeout EXCEPT ![id] = Truncate(now + Quarantine)]
    /\ Enqueue(id)
    /\ UNCHANGED <<firstFree, usage>>

\* CEntity::~CEntity calls SnapFreeId, which ignores a negative id.
Destroy(e) ==
    /\ pc = "idle" /\ entity[e] = "alive"
    /\ IF mId[e] < 0 THEN UNCHANGED pool ELSE FreeId(mId[e])
    /\ fresh' = fresh \ {mId[e]}
    /\ entity' = [entity EXCEPT ![e] = "absent"]
    /\ mId' = [mId EXCEPT ![e] = -1]
    /\ UNCHANGED <<pc, now, snap>>

\* CServer::LoadMap calls TimeoutIds; clients start over with an empty snapshot.
TimeoutIds ==
    /\ pc = "idle"
    /\ pc' = "TimeoutIds"
    /\ snap' = {}
    /\ UNCHANGED <<pool, entity, mId, now, fresh>>

\* TimeoutIds returns when the list of timed ids is empty.
TimeoutIdsReturns ==
    /\ pc = "TimeoutIds" /\ ~LoopGoesOn
    /\ pc' = "idle"
    /\ UNCHANGED <<pool, game>>

\* Time passes and the server sends a snapshot of the entities.
Tick ==
    /\ pc = "idle" /\ now < MaxTime
    /\ now' = now + 1
    /\ snap' = {mId[e] : e \in {x \in Entities : entity[x] = "alive"}} \ {-1}
    /\ fresh' = {}
    /\ UNCHANGED <<pool, pc, entity, mId>>

Next == \/ RemoveFirstTimeout \/ TimeoutIds \/ TimeoutIdsReturns \/ Tick
        \/ \E e \in Entities : Create(e) \/ NewIdFails(e) \/ NewIdReturns(e) \/ Destroy(e)

Spec == Init /\ [][Next]_vars

-----------------------------------------------------------------------------
\* Long enough for every list that visits no id twice.
Lists == UNION {[1 .. n -> Ids] : n \in 0 .. MaxIds}
Elements(s) == {s[k] : k \in DOMAIN s}

\* The ids met on the way from a head to the end of its list.
IsChain(s, head) ==
    /\ head = IF s = <<>> THEN -1 ELSE s[1]
    /\ \A k \in 1 .. Len(s) : next[s[k]] = IF k = Len(s) THEN -1 ELSE s[k + 1]
Chain(head) == CHOOSE s \in Lists : IsChain(s, head)

Held(e) == IF mId[e] = -1 THEN {} ELSE {mId[e]}

(***************************************************************************)
(* Every id an entity holds is marked allocated and held by that entity    *)
(* alone.  With it the assertion of FreeId, "id is not allocated", never   *)
(* fails (snap_id_pool.cpp:79), and two entities never share an id.        *)
(***************************************************************************)
OneOwner ==
    \A e \in Entities : mId[e] # -1 =>
        /\ state[mId[e]] = "allocated"
        /\ \A f \in Entities \ {e} : mId[f] # mId[e]

(***************************************************************************)
(* No id is ever lost: at any point between or inside calls each id is on  *)
(* the free list, on the timed list or with an entity, on one of them      *)
(* only, and the last timed id ends the timed list.                        *)
(***************************************************************************)
NoIdLost ==
    \E f \in Lists : IsChain(f, firstFree) /\ \E t \in Lists :
        /\ IsChain(t, firstTimed)
        /\ lastTimed = IF t = <<>> THEN -1 ELSE t[Len(t)]
        /\ \A i \in Ids :
             /\ state[i] = "free" <=> i \in Elements(f)
             /\ state[i] = "timed" <=> i \in Elements(t)
             /\ state[i] = "allocated" <=> \E e \in Entities : mId[e] = i

\* The pool implements the quarantine of SnapIds, for the entities with an id.
Abstract == INSTANCE SnapIds WITH free <- Elements(Chain(firstFree)),
                                  timed <- Chain(firstTimed),
                                  held <- [e \in Entities |-> Held(e)]

(***************************************************************************)
(* Ids leave the quarantine in the order they entered it and only a free   *)
(* id is handed out: the linked lists implement SnapIds.                   *)
(***************************************************************************)
ImplementsSnapIds == Abstract!Spec

(***************************************************************************)
(* engine/docs/snapshots.txt:15: "A unique id so the client can identify   *)
(* the item between two snapshots."  An id of the last snapshot is not     *)
(* given to another entity before the next one.                            *)
(***************************************************************************)
IdentifiesItem == snap \cap fresh = {}
=============================================================================
