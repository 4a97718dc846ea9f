-------------------------- MODULE SnapIdPoolProofs --------------------------
(***************************************************************************)
(* Proofs about SnapIdPool for any number of ids and entities, any width   *)
(* of int and any quarantine.  First what holds at each link, which is     *)
(* enough for the owners of the ids; then the two lists as sequences, and  *)
(* what each operation does to them.                                       *)
(***************************************************************************)
EXTENDS SnapIdPool, TLAPS, FiniteSetTheorems, WellFoundedInduction

\* Storing a time in an int yields an int.
LEMMA TruncateType ==
    ASSUME NEW t \in Int
    PROVE  Truncate(t) \in Int32
<1>1. IntHalf \in Nat \ {0}
  BY IdAssumption
<1>2. (t + IntHalf) % (2 * IntHalf) \in 0 .. (2 * IntHalf) - 1
  BY <1>1
<1> QED
  BY <1>1, <1>2 DEF Truncate, Int32

\* Following a link from a listed id leads to an id of the same list, which
\* is not its first and to which no other id of the list links.
LinkInv ==
    \A i \in Ids : state[i] # "allocated" /\ next[i] # -1 =>
        /\ state[next[i]] = state[i]
        /\ next[i] # firstFree /\ next[i] # firstTimed
        /\ \A j \in Ids : state[j] = state[i] /\ next[j] = next[i] => j = i

\* The heads of the lists and the end of the timed list.
HeadInv ==
    /\ firstFree # -1 => state[firstFree] = "free"
    /\ firstTimed # -1 => state[firstTimed] = "timed"
    /\ lastTimed # -1 => state[lastTimed] = "timed" /\ next[lastTimed] = -1
    /\ firstTimed = -1 <=> lastTimed = -1

\* Only a living entity has an id.
EntityInv == \A e \in Entities : entity[e] # "alive" => mId[e] = -1

PoolInv == TypeOK /\ LinkInv /\ HeadInv /\ OneOwner /\ EntityInv

LEMMA InitPool == Init => PoolInv
<1> SUFFICES ASSUME Init PROVE PoolInv
  OBVIOUS
<1> USE DEF Init, Ids, Links
<1>0. MaxIds \in Nat \ {0} /\ IntHalf \in Nat \ {0}
  BY IdAssumption
<1>1. TypeOK
  BY <1>0 DEF TypeOK, Int32
<1>2. LinkInv
  <2>1. \A i \in Ids : next[i] # -1 => i # MaxIds - 1 /\ next[i] = i + 1
    BY <1>0
  <2>2. \A i \in Ids : next[i] # -1 => next[i] \in Ids /\ next[i] # 0
    BY <1>0, <2>1
  <2> SUFFICES ASSUME NEW i \in Ids, next[i] # -1
               PROVE  /\ state[next[i]] = state[i]
                      /\ next[i] # firstFree /\ next[i] # firstTimed
                      /\ \A j \in Ids : next[j] = next[i] => j = i
    BY DEF LinkInv
  <2>3. state[next[i]] = "free" /\ state[i] = "free"
    BY <2>2
  <2>4. firstFree = 0 /\ firstTimed = -1
    OBVIOUS
  <2>5. \A j \in Ids : next[j] = next[i] => j = i
    BY <2>1
  <2> QED
    BY <2>2, <2>3, <2>4, <2>5
<1>3. HeadInv /\ OneOwner /\ EntityInv
  BY <1>0 DEF HeadInv, OneOwner, EntityInv
<1> QED
  BY <1>1, <1>2, <1>3 DEF PoolInv

LEMMA RemovePool == PoolInv /\ RemoveFirstTimeout => PoolInv'
<1> SUFFICES ASSUME PoolInv, RemoveFirstTimeout PROVE PoolInv'
  OBVIOUS
<1> USE DEF RemoveFirstTimeout, LoopGoesOn, game
<1>0. TypeOK /\ LinkInv /\ HeadInv /\ OneOwner /\ EntityInv
  BY DEF PoolInv
<1>1. firstTimed \in Ids /\ firstTimed # firstFree /\ state[firstTimed] = "timed"
  BY <1>0 DEF TypeOK, HeadInv, Links
<1>2. TypeOK'
  BY <1>0, <1>1 DEF TypeOK, Links
<1>3. LinkInv'
  <2> SUFFICES ASSUME NEW i \in Ids, state'[i] # "allocated", next'[i] # -1
               PROVE  /\ state'[next'[i]] = state'[i]
                      /\ next'[i] # firstFree' /\ next'[i] # firstTimed'
                      /\ \A j \in Ids : state'[j] = state'[i] /\ next'[j] = next'[i] => j = i
    BY DEF LinkInv
  <2> USE DEF TypeOK, LinkInv, HeadInv, Links
  <2>1. CASE i = firstTimed
    <3>1. next'[i] = firstFree /\ firstFree \in Ids /\ state'[i] = "free"
      BY <1>0, <1>1, <2>1
    <3>2. state'[firstFree] = "free" /\ firstFree # firstFree'
      BY <1>0, <1>1, <3>1
    <3>3. firstFree # firstTimed'
      BY <1>0, <1>1, <3>1
    <3>4. ASSUME NEW j \in Ids, state'[j] = "free", next'[j] = firstFree PROVE j = i
      BY <1>0, <1>1, <2>1, <3>1, <3>4
    <3> QED
      BY <3>1, <3>2, <3>3, <3>4
  <2>2. CASE i # firstTimed
    <3>1. next'[i] = next[i] /\ state'[i] = state[i] /\ next[i] \in Ids
      BY <1>0, <1>1, <2>2
    <3>2. next[i] # firstTimed /\ next[i] # firstFree
      BY <1>0, <3>1
    <3>3. state'[next[i]] = state[i] /\ next[i] # firstFree'
      BY <1>0, <1>1, <3>1, <3>2
    <3>4. next[i] # firstTimed'
      BY <1>0, <1>1, <2>2, <3>1
    <3>5. ASSUME NEW j \in Ids, state'[j] = state'[i], next'[j] = next'[i] PROVE j = i
      <4>1. j # firstTimed
        BY <1>0, <1>1, <3>1, <3>2, <3>5
      <4> QED
        BY <1>0, <1>1, <3>1, <3>5, <4>1
    <3> QED
      BY <3>1, <3>3, <3>4, <3>5
  <2> QED
    BY <2>1, <2>2
<1>4. HeadInv'
  <2> USE DEF TypeOK, LinkInv, HeadInv, Links
  <2>1. firstFree' = firstTimed /\ state'[firstTimed] = "free"
    BY <1>0, <1>1
  <2>2. CASE next[firstTimed] = -1
    BY <1>0, <1>1, <2>1, <2>2
  <2>3. CASE next[firstTimed] # -1
    <3>1. lastTimed # firstTimed /\ lastTimed' = lastTimed /\ lastTimed \in Ids
      BY <1>0, <1>1, <2>3
    <3>2. next[firstTimed] \in Ids /\ next[firstTimed] # firstTimed
      BY <1>0, <1>1, <2>3
    <3>3. state'[next[firstTimed]] = "timed"
      BY <1>0, <1>1, <2>3, <3>2
    <3> QED
      BY <1>0, <1>1, <2>1, <2>3, <3>1, <3>2, <3>3
  <2> QED
    BY <2>2, <2>3
<1>5. OneOwner' /\ EntityInv'
  BY <1>0, <1>1 DEF TypeOK, OneOwner, EntityInv, Links
<1> QED
  BY <1>2, <1>3, <1>4, <1>5 DEF PoolInv

LEMMA NewIdPool ==
    ASSUME NEW e \in Entities, PoolInv, NewIdReturns(e) PROVE PoolInv'
<1> USE DEF NewIdReturns
<1>0. TypeOK /\ LinkInv /\ HeadInv /\ OneOwner /\ EntityInv
  BY DEF PoolInv
<1>1. firstFree \in Ids /\ firstFree # firstTimed /\ state[firstFree] = "free"
  BY <1>0 DEF TypeOK, HeadInv, Links
<1>2. TypeOK'
  BY <1>0, <1>1 DEF TypeOK, Links
<1>3. LinkInv'
  <2> SUFFICES ASSUME NEW i \in Ids, state'[i] # "allocated", next[i] # -1
               PROVE  /\ state'[next[i]] = state'[i]
                      /\ next[i] # firstFree' /\ next[i] # firstTimed
                      /\ \A j \in Ids : state'[j] = state'[i] /\ next[j] = next[i] => j = i
    BY DEF LinkInv
  <2> USE DEF TypeOK, LinkInv, HeadInv, Links
  <2>1. i # firstFree /\ state'[i] = state[i] /\ next[i] \in Ids
    BY <1>0, <1>1
  <2>2. next[i] # firstFree /\ state'[next[i]] = state[i] /\ next[i] # firstTimed
    BY <1>0, <1>1, <2>1
  <2>3. next[i] # next[firstFree]
    BY <1>0, <1>1, <2>1
  <2>4. ASSUME NEW j \in Ids, state'[j] = state'[i], next[j] = next[i] PROVE j = i
    BY <1>0, <1>1, <2>1, <2>4
  <2> QED
    BY <2>1, <2>2, <2>3, <2>4
<1>4. HeadInv'
  <2> USE DEF TypeOK, LinkInv, HeadInv, Links
  <2>1. firstFree' # -1 => state'[firstFree'] = "free"
    BY <1>0, <1>1
  <2> QED
    BY <1>0, <1>1, <2>1
<1>5. OneOwner'
  BY <1>0, <1>1 DEF TypeOK, OneOwner, Links, Ids
<1>6. EntityInv'
  BY <1>0, <1>1 DEF TypeOK, EntityInv
<1> QED
  BY <1>2, <1>3, <1>4, <1>5, <1>6 DEF PoolInv

LEMMA DestroyPool ==
    ASSUME NEW e \in Entities, PoolInv, Destroy(e) PROVE PoolInv'
<1> USE DEF Destroy
<1>0. TypeOK /\ LinkInv /\ HeadInv /\ OneOwner /\ EntityInv
  BY DEF PoolInv
<1>1. CASE mId[e] < 0
  <2>1. UNCHANGED pool
    BY <1>1
  <2>2. TypeOK'
    BY <1>0, <2>1 DEF TypeOK, pool, Links
  <2> QED
    BY <1>0, <2>1, <2>2 DEF PoolInv, LinkInv, HeadInv, OneOwner, EntityInv, pool, TypeOK
<1>2. CASE mId[e] \in Ids
  <2> DEFINE id == mId[e]
  <2>1. FreeId(id) /\ id \in Ids /\ state[id] = "allocated"
    BY <1>0, <1>2 DEF OneOwner, Ids
  <2>2. Truncate(now + Quarantine) \in Int32
    BY <1>0, TruncateType, IdAssumption DEF TypeOK
  <2> HIDE DEF id
  <2> USE DEF FreeId, Enqueue
  <2>3. TypeOK'
    <3>1. next' \in [Ids -> Links]
      BY <1>0, <2>1 DEF TypeOK, Links
    <3>2. {firstFree', firstTimed', lastTimed'} \subseteq Links
      BY <1>0, <2>1 DEF TypeOK, Links
    <3>3. state' \in [Ids -> {"free", "allocated", "timed"}]
      BY <1>0, <2>1 DEF TypeOK
    <3>4. timeout' \in [Ids -> Int32]
      BY <1>0, <2>1, <2>2 DEF TypeOK
    <3>5. usage' \in Int /\ inUsage' \in Int
      BY <1>0, <2>1 DEF TypeOK
    <3>6. fresh' \subseteq Ids /\ snap' \subseteq Ids /\ now' \in Nat /\ pc' = pc
      BY <1>0 DEF TypeOK
    <3>7. entity' \in [Entities -> {"absent", "creating", "alive"}]
      BY <1>0 DEF TypeOK
    <3>8. mId' \in [Entities -> Links]
      BY <1>0 DEF TypeOK, Links
    <3> QED
      BY <1>0, <3>1, <3>2, <3>3, <3>4, <3>5, <3>6, <3>7, <3>8 DEF TypeOK
  <2>4. id # lastTimed /\ id # firstTimed /\ id # firstFree
    BY <1>0, <2>1 DEF HeadInv, Ids
  <2>5. LinkInv'
    <3> SUFFICES ASSUME NEW i \in Ids, state'[i] # "allocated", next'[i] # -1
                 PROVE  /\ state'[next'[i]] = state'[i]
                        /\ next'[i] # firstFree' /\ next'[i] # firstTimed'
                        /\ \A j \in Ids : state'[j] = state'[i] /\ next'[j] = next'[i] => j = i
      BY DEF LinkInv
    <3> USE DEF TypeOK, LinkInv, HeadInv, Links
    <3>1. i # id
      BY <1>0, <2>1
    <3>2. ASSUME NEW j \in Ids, j # id, state[j] # "allocated"
          PROVE  next'[j] = id <=> j = lastTimed
      <4>1. CASE j = lastTimed
        BY <2>1, <2>4, <4>1, <3>2
      <4>2. CASE j # lastTimed
        <5>1. next'[j] = next[j]
          BY <2>1, <3>2, <4>2
        <5> QED
          BY <1>0, <2>1, <3>2, <4>2, <5>1 DEF Ids
      <4> QED
        BY <4>1, <4>2
    <3>3. state'[i] = state[i]
      BY <1>0, <2>1, <3>1
    <3>4. CASE i = lastTimed
      <4>1. next'[i] = id /\ state'[id] = state'[i] /\ state[i] = "timed"
        BY <1>0, <2>1, <2>4, <3>1, <3>3, <3>4 DEF Ids
      <4>2. id # firstFree' /\ id # firstTimed'
        BY <1>0, <2>1, <2>4, <3>4 DEF Ids
      <4>3. ASSUME NEW j \in Ids, state'[j] = state'[i], next'[j] = id PROVE j = i
        <5>1. j # id
          BY <2>1, <4>3 DEF Ids
        <5> QED
          BY <1>0, <2>1, <3>2, <3>3, <3>4, <4>1, <4>3, <5>1
      <4> QED
        BY <4>1, <4>2, <4>3
    <3>5. CASE i # lastTimed
      <4>1. next'[i] = next[i] /\ next[i] \in Ids
        BY <1>0, <2>1, <3>1, <3>5
      <4>2. next[i] # id /\ state'[next[i]] = state'[i]
        BY <1>0, <2>1, <3>1, <3>3, <4>1
      <4>3. next[i] # firstFree' /\ next[i] # firstTimed'
        BY <1>0, <2>1, <3>1, <3>3, <4>1, <4>2
      <4>4. ASSUME NEW j \in Ids, state'[j] = state'[i], next'[j] = next[i] PROVE j = i
        <5>1. j # id
          BY <2>1, <4>1, <4>4 DEF Ids
        <5>2. state[j] = state[i] /\ j # lastTimed
          BY <1>0, <2>1, <3>2, <3>3, <3>5, <4>1, <4>2, <4>4, <5>1
        <5> QED
          BY <1>0, <2>1, <3>1, <3>3, <4>1, <4>4, <5>1, <5>2
      <4> QED
        BY <4>1, <4>2, <4>3, <4>4
    <3> QED
      BY <3>4, <3>5
  <2>6. HeadInv'
    <3> USE DEF TypeOK, HeadInv, Links, Ids
    <3>1. lastTimed' = id /\ state'[id] = "timed" /\ next'[id] = -1
      BY <1>0, <2>1
    <3> QED
      BY <1>0, <2>1, <2>4, <3>1
  <2>7. OneOwner' /\ EntityInv'
    BY <1>0, <2>1 DEF TypeOK, OneOwner, EntityInv, id
  <2> QED
    BY <2>3, <2>5, <2>6, <2>7 DEF PoolInv
<1> QED
  BY <1>0, <1>1, <1>2, IdAssumption DEF TypeOK, Links, Ids

LEMMA StepPool == PoolInv /\ [Next]_vars => PoolInv'
<1> SUFFICES ASSUME PoolInv, [Next]_vars PROVE PoolInv'
  OBVIOUS
<1>0. TypeOK /\ LinkInv /\ HeadInv /\ OneOwner /\ EntityInv
  BY DEF PoolInv
<1>1. CASE RemoveFirstTimeout
  BY <1>1, RemovePool
<1>2. CASE \E e \in Entities : NewIdReturns(e)
  BY <1>2, NewIdPool
<1>3. CASE \E e \in Entities : Destroy(e)
  BY <1>3, DestroyPool
<1>4. ASSUME NEW e \in Entities, NewIdFails(e) \/ Create(e) PROVE PoolInv'
  <2>1. UNCHANGED pool
    BY <1>4 DEF NewIdFails, Create
  <2>2. TypeOK'
    BY <1>0, <1>4, <2>1 DEF TypeOK, NewIdFails, Create, pool, Links
  <2>3. LinkInv' /\ HeadInv'
    BY <1>0, <2>1 DEF LinkInv, HeadInv, pool
  <2>4. OneOwner' /\ EntityInv'
    BY <1>0, <1>4, <2>1 DEF NewIdFails, Create, OneOwner, EntityInv, pool, TypeOK
  <2> QED
    BY <2>2, <2>3, <2>4 DEF PoolInv
<1>5. CASE TimeoutIds \/ TimeoutIdsReturns \/ Tick
  <2>1. UNCHANGED <<pool, entity, mId>>
    BY <1>5 DEF TimeoutIds, TimeoutIdsReturns, Tick, game
  <2>2. TypeOK'
    <3>1. pc' \in {"idle", "NewId", "TimeoutIds"} /\ now' \in Nat
      BY <1>0, <1>5 DEF TypeOK, TimeoutIds, TimeoutIdsReturns, Tick, game
    <3>2. {mId[e] : e \in {x \in Entities : entity[x] = "alive"}} \ {-1} \subseteq Ids
      BY <1>0 DEF TypeOK, Links
    <3>3. snap' \subseteq Ids /\ fresh' \subseteq Ids
      BY <1>0, <1>5, <3>2 DEF TypeOK, TimeoutIds, TimeoutIdsReturns, Tick, game
    <3> QED
      BY <1>0, <2>1, <3>1, <3>3 DEF TypeOK, pool
  <2> QED
    BY <1>0, <2>1, <2>2 DEF PoolInv, LinkInv, HeadInv, OneOwner, EntityInv, pool
<1>6. CASE UNCHANGED vars
  BY <1>0, <1>6 DEF vars, pool, game, PoolInv, TypeOK, LinkInv, HeadInv, OneOwner, EntityInv
<1> QED
  BY <1>1, <1>2, <1>3, <1>4, <1>5, <1>6 DEF Next

(***************************************************************************)
(* The types of the array, the heads, the counters and the game's side.    *)
(***************************************************************************)
THEOREM PoolTypes == Spec => []TypeOK
<1>1. PoolInv => TypeOK
  BY DEF PoolInv
<1> QED
  BY <1>1, InitPool, StepPool, PTL DEF Spec

(***************************************************************************)
(* NewId never returns an id that another entity holds, and FreeId's       *)
(* assertion "id is not allocated" never fails, whatever the number of ids *)
(* and entities and however the deadlines are truncated.                   *)
(***************************************************************************)
THEOREM IdsHaveOneOwner == Spec => []OneOwner
<1>1. PoolInv => OneOwner
  BY DEF PoolInv
<1> QED
  BY <1>1, InitPool, StepPool, PTL DEF Spec
-----------------------------------------------------------------------------
(* Sequences without repetition.                                           *)

Distinct(s) == \A j, k \in 1 .. Len(s) : s[j] = s[k] => j = k

LEMMA WithoutFirst ==
    ASSUME NEW S, NEW s \in Seq(S), s # <<>>, Distinct(s)
    PROVE  /\ Tail(s) \in Seq(S) /\ Len(s) \in Nat \ {0} /\ Len(Tail(s)) = Len(s) - 1
           /\ \A k \in 1 .. Len(s) - 1 : Tail(s)[k] = s[k + 1]
           /\ Distinct(Tail(s))
           /\ s[1] \in S /\ s[1] \in Elements(s)
           /\ Elements(Tail(s)) = Elements(s) \ {s[1]}
<1>1. /\ Tail(s) \in Seq(S) /\ Len(s) \in Nat \ {0} /\ Len(Tail(s)) = Len(s) - 1
      /\ \A k \in 1 .. Len(s) - 1 : Tail(s)[k] = s[k + 1]
      /\ s[1] \in S
  OBVIOUS
<1>2. DOMAIN s = 1 .. Len(s) /\ DOMAIN Tail(s) = 1 .. Len(s) - 1
  BY <1>1
<1>3. Distinct(Tail(s))
  BY <1>1 DEF Distinct
<1>4. ASSUME NEW x \in Elements(s), x # s[1] PROVE x \in Elements(Tail(s))
  <2>1. PICK k \in 1 .. Len(s) : x = s[k]
    BY <1>2, <1>4 DEF Elements
  <2>2. k - 1 \in 1 .. Len(s) - 1 /\ Tail(s)[k - 1] = s[k]
    BY <1>1, <1>4, <2>1
  <2> QED
    BY <1>2, <2>1, <2>2 DEF Elements
<1>5. ASSUME NEW x \in Elements(Tail(s)) PROVE x \in Elements(s) /\ x # s[1]
  <2>1. PICK k \in 1 .. Len(s) - 1 : x = Tail(s)[k]
    BY <1>2, <1>5 DEF Elements
  <2>2. x = s[k + 1] /\ k + 1 \in 1 .. Len(s) /\ k + 1 # 1
    BY <1>1, <2>1
  <2> QED
    BY <1>1, <1>2, <2>2 DEF Elements, Distinct
<1>6. s[1] \in Elements(s)
  BY <1>1, <1>2 DEF Elements
<1> QED
  BY <1>1, <1>3, <1>4, <1>5, <1>6

LEMMA WithFirst ==
    ASSUME NEW S, NEW s \in Seq(S), NEW x \in S, Distinct(s), x \notin Elements(s)
    PROVE  /\ <<x>> \o s \in Seq(S) /\ Len(<<x>> \o s) = Len(s) + 1
           /\ (<<x>> \o s)[1] = x
           /\ \A k \in 1 .. Len(s) : (<<x>> \o s)[k + 1] = s[k]
           /\ Distinct(<<x>> \o s)
           /\ Elements(<<x>> \o s) = Elements(s) \cup {x}
<1> DEFINE u == <<x>> \o s
<1>1. /\ u \in Seq(S) /\ Len(s) \in Nat /\ Len(u) = Len(s) + 1 /\ u[1] = x
      /\ \A k \in 1 .. Len(s) : u[k + 1] = s[k]
      /\ DOMAIN s = 1 .. Len(s) /\ DOMAIN u = 1 .. Len(s) + 1
  OBVIOUS
<1> HIDE DEF u
<1>2. \A k \in 1 .. Len(u) : k = 1 \/ (k - 1 \in 1 .. Len(s) /\ u[k] = s[k - 1])
  BY <1>1
<1>3. \A k \in 1 .. Len(s) : s[k] \in Elements(s)
  BY <1>1 DEF Elements
<1>4. Distinct(u)
  BY <1>1, <1>2, <1>3 DEF Distinct
<1>5. Elements(u) = Elements(s) \cup {x}
  <2>1. ASSUME NEW y \in Elements(u) PROVE y \in Elements(s) \cup {x}
    <3>1. PICK k \in 1 .. Len(u) : y = u[k]
      BY <1>1, <2>1 DEF Elements
    <3> QED
      BY <1>1, <1>2, <1>3, <3>1
  <2>2. x \in Elements(u)
    BY <1>1 DEF Elements
  <2>3. ASSUME NEW y \in Elements(s) PROVE y \in Elements(u)
    <3>1. PICK k \in 1 .. Len(s) : y = s[k]
      BY <1>1, <2>3 DEF Elements
    <3>2. y = u[k + 1] /\ k + 1 \in DOMAIN u
      BY <1>1, <3>1
    <3> QED
      BY <3>2 DEF Elements
  <2> QED
    BY <2>1, <2>2, <2>3
<1> QED
  BY <1>1, <1>4, <1>5 DEF u

LEMMA WithLast ==
    ASSUME NEW S, NEW s \in Seq(S), NEW x \in S, Distinct(s), x \notin Elements(s)
    PROVE  /\ Append(s, x) \in Seq(S) /\ Len(Append(s, x)) = Len(s) + 1
           /\ Append(s, x)[Len(s) + 1] = x
           /\ \A k \in 1 .. Len(s) : Append(s, x)[k] = s[k]
           /\ Distinct(Append(s, x))
           /\ Elements(Append(s, x)) = Elements(s) \cup {x}
<1> DEFINE u == Append(s, x)
<1>1. /\ u \in Seq(S) /\ Len(s) \in Nat /\ Len(u) = Len(s) + 1 /\ u[Len(s) + 1] = x
      /\ \A k \in 1 .. Len(s) : u[k] = s[k]
      /\ DOMAIN s = 1 .. Len(s) /\ DOMAIN u = 1 .. Len(s) + 1
  OBVIOUS
<1> HIDE DEF u
<1>2. \A k \in 1 .. Len(s) : s[k] \in Elements(s)
  BY <1>1 DEF Elements
<1>3. \A k \in 1 .. Len(u) : k = Len(s) + 1 \/ k \in 1 .. Len(s)
  BY <1>1
<1>4. Distinct(u)
  BY <1>1, <1>2, <1>3 DEF Distinct
<1>5. Elements(u) = Elements(s) \cup {x}
  BY <1>1, <1>3 DEF Elements
<1> QED
  BY <1>1, <1>4, <1>5 DEF u
-----------------------------------------------------------------------------
(* The lists as a whole.                                                   *)

\* f and t are the free and the timed ids in the order of their lists.
ListsAre(f, t) ==
    /\ f \in Seq(Ids) /\ t \in Seq(Ids)
    /\ Distinct(f) /\ Distinct(t)
    /\ IsChain(f, firstFree) /\ IsChain(t, firstTimed)
    /\ lastTimed = IF t = <<>> THEN -1 ELSE t[Len(t)]
    /\ \A i \in Ids : /\ state[i] = "free" <=> i \in Elements(f)
                      /\ state[i] = "timed" <=> i \in Elements(t)

\* A step that is about neither list.
LEMMA ListsStay ==
    ASSUME NEW f, NEW t, ListsAre(f, t),
           UNCHANGED <<next, state, firstFree, firstTimed, lastTimed>>
    PROVE  ListsAre(f, t)'
BY DEF ListsAre, IsChain

LEMMA RemoveLists ==
    ASSUME PoolInv, NEW f, NEW t, ListsAre(f, t), RemoveFirstTimeout
    PROVE  t # <<>> /\ firstTimed = t[1] /\ ListsAre(<<t[1]>> \o f, Tail(t))'
<1>0. /\ f \in Seq(Ids) /\ t \in Seq(Ids) /\ Distinct(f) /\ Distinct(t)
      /\ IsChain(f, firstFree) /\ IsChain(t, firstTimed)
      /\ TypeOK
  BY DEF ListsAre, PoolInv
<1>1. t # <<>> /\ firstTimed = t[1] /\ firstTimed \in Ids
  BY <1>0 DEF RemoveFirstTimeout, LoopGoesOn, IsChain, TypeOK, Links
<1>2. state[firstTimed] = "timed" /\ firstTimed \notin Elements(f)
  BY <1>0, <1>1, WithoutFirst DEF ListsAre
<1> DEFINE x == firstTimed
<1>3. /\ x \in Ids /\ x \notin Elements(f) /\ x = t[1]
      /\ next' = [next EXCEPT ![x] = firstFree] /\ state' = [state EXCEPT ![x] = "free"]
      /\ firstFree' = x /\ firstTimed' = next[x]
      /\ lastTimed' = IF next[x] = -1 THEN -1 ELSE lastTimed
      /\ next \in [Ids -> Links]
  BY <1>0, <1>1, <1>2 DEF RemoveFirstTimeout, TypeOK
<1>4. PICK n : n = x /\ n = t[1]
  BY <1>1
<1> HIDE DEF x
<1> DEFINE u == <<n>> \o f
           v == Tail(t)
<1>5. /\ u \in Seq(Ids) /\ Len(u) = Len(f) + 1 /\ u[1] = n /\ Distinct(u)
      /\ \A k \in 1 .. Len(f) : u[k + 1] = f[k]
      /\ Elements(u) = Elements(f) \cup {n} /\ Len(f) \in Nat
  BY <1>0, <1>3, <1>4, WithFirst
<1>6. /\ v \in Seq(Ids) /\ Len(t) \in Nat \ {0} /\ Len(v) = Len(t) - 1 /\ Distinct(v)
      /\ \A k \in 1 .. Len(t) - 1 : v[k] = t[k + 1]
      /\ Elements(v) = Elements(t) \ {n}
  BY <1>0, <1>1, <1>3, <1>4, WithoutFirst
<1> HIDE DEF u, v
<1>7. /\ \A k \in 1 .. Len(f) : f[k] \in Ids \ {n}
      /\ \A k \in 1 .. Len(v) : v[k] \in Ids \ {n}
  <2>1. DOMAIN f = 1 .. Len(f) /\ DOMAIN v = 1 .. Len(v)
    BY <1>0, <1>6
  <2>2. \A k \in 1 .. Len(f) : f[k] \in Ids /\ f[k] \in Elements(f)
    BY <1>0, <2>1 DEF Elements
  <2>3. \A k \in 1 .. Len(v) : v[k] \in Ids /\ v[k] \in Elements(v)
    BY <1>6, <2>1 DEF Elements
  <2> QED
    BY <1>3, <1>4, <1>6, <2>2, <2>3
<1>8. IsChain(u, firstFree)'
  <2>1. firstFree' = IF u = <<>> THEN -1 ELSE u[1]
    <3>1. u # <<>>
      BY <1>5
    <3> QED
      BY <1>3, <1>4, <1>5, <3>1
  <2>2. ASSUME NEW k \in 1 .. Len(u)
        PROVE  next'[u[k]] = IF k = Len(u) THEN -1 ELSE u[k + 1]
    <3>1. CASE k = 1
      <4>1. next'[u[k]] = firstFree
        BY <1>3, <1>4, <1>5, <3>1
      <4>2. firstFree = IF f = <<>> THEN -1 ELSE f[1]
        BY <1>0 DEF IsChain
      <4>3. CASE f = <<>>
        BY <1>5, <3>1, <4>1, <4>2, <4>3
      <4>4. CASE f # <<>>
        <5>1. Len(f) >= 1
          BY <1>0, <4>4
        <5> QED
          BY <1>5, <3>1, <4>1, <4>2, <4>4, <5>1
      <4> QED
        BY <4>3, <4>4
    <3>2. CASE k # 1
      <4>1. k - 1 \in 1 .. Len(f) /\ u[k] = f[k - 1]
        BY <1>5, <2>2, <3>2
      <4>2. next'[u[k]] = next[f[k - 1]]
        BY <1>3, <1>4, <1>7, <4>1
      <4>3. next[f[k - 1]] = IF k - 1 = Len(f) THEN -1 ELSE f[k]
        BY <1>0, <4>1 DEF IsChain
      <4>4. k - 1 # Len(f) => u[k + 1] = f[k]
        BY <1>5, <4>1
      <4> QED
        BY <1>5, <4>1, <4>2, <4>3, <4>4
    <3> QED
      BY <3>1, <3>2
  <2> QED
    BY <2>1, <2>2 DEF IsChain
<1>9. IsChain(v, firstTimed)'
  <2>1. next[n] = IF Len(t) = 1 THEN -1 ELSE t[2]
    BY <1>0, <1>3, <1>4, <1>6 DEF IsChain
  <2>2. firstTimed' = IF v = <<>> THEN -1 ELSE v[1]
    <3>1. CASE Len(t) = 1
      <4>1. v = <<>>
        BY <1>6, <3>1
      <4> QED
        BY <1>3, <1>4, <2>1, <3>1, <4>1
    <3>2. CASE Len(t) # 1
      <4>1. v # <<>> /\ v[1] = t[2]
        BY <1>6, <3>2
      <4> QED
        BY <1>3, <1>4, <2>1, <3>2, <4>1
    <3> QED
      BY <3>1, <3>2
  <2>3. ASSUME NEW k \in 1 .. Len(v)
        PROVE  next'[v[k]] = IF k = Len(v) THEN -1 ELSE v[k + 1]
    <3>1. next'[v[k]] = next[v[k]] /\ v[k] = t[k + 1] /\ k + 1 \in 1 .. Len(t)
      BY <1>3, <1>4, <1>6, <1>7, <2>3
    <3>2. next[t[k + 1]] = IF k + 1 = Len(t) THEN -1 ELSE t[k + 2]
      BY <1>0, <3>1 DEF IsChain
    <3>3. k # Len(v) => v[k + 1] = t[k + 2]
      BY <1>6, <2>3
    <3> QED
      BY <1>6, <2>3, <3>1, <3>2, <3>3
  <2> QED
    BY <2>2, <2>3 DEF IsChain
<1>10. lastTimed' = IF v = <<>> THEN -1 ELSE v[Len(v)]
  <2>1. next[n] = IF Len(t) = 1 THEN -1 ELSE t[2]
    BY <1>0, <1>3, <1>4, <1>6 DEF IsChain
  <2>2. lastTimed = t[Len(t)]
    BY <1>1 DEF ListsAre
  <2>3. CASE Len(t) = 1
    <3>1. v = <<>>
      BY <1>6, <2>3
    <3> QED
      BY <1>3, <1>4, <2>1, <2>3, <3>1
  <2>4. CASE Len(t) # 1
    <3>1. v # <<>> /\ v[Len(v)] = t[Len(t)]
      BY <1>6, <2>4
    <3>2. t[2] # -1
      <4>1. t[2] \in Ids
        BY <1>0, <1>6, <2>4
      <4> QED
        BY <4>1 DEF Ids
    <3> QED
      BY <1>3, <1>4, <2>1, <2>2, <2>4, <3>1, <3>2
  <2> QED
    BY <2>3, <2>4
<1>11. \A i \in Ids : /\ state'[i] = "free" <=> i \in Elements(u)
                      /\ state'[i] = "timed" <=> i \in Elements(v)
  <2>1. state \in [Ids -> {"free", "allocated", "timed"}]
    BY <1>0 DEF TypeOK
  <2> QED
    BY <1>3, <1>4, <1>5, <1>6, <2>1 DEF ListsAre
<1>12. ListsAre(u, v)'
  BY <1>5, <1>6, <1>8, <1>9, <1>10, <1>11 DEF ListsAre
<1> QED
  BY <1>1, <1>4, <1>12 DEF u, v

LEMMA NewIdLists ==
    ASSUME PoolInv, NEW f, NEW t, ListsAre(f, t), NEW e \in Entities, NewIdReturns(e)
    PROVE  f # <<>> /\ firstFree = f[1] /\ ListsAre(Tail(f), t)'
<1>0. /\ f \in Seq(Ids) /\ t \in Seq(Ids) /\ Distinct(f) /\ Distinct(t)
      /\ IsChain(f, firstFree) /\ IsChain(t, firstTimed)
      /\ TypeOK
  BY DEF ListsAre, PoolInv
<1>1. f # <<>> /\ firstFree = f[1] /\ firstFree \in Ids
  BY <1>0 DEF NewIdReturns, IsChain, TypeOK, Links
<1> DEFINE v == Tail(f)
<1>2. /\ v \in Seq(Ids) /\ Len(f) \in Nat \ {0} /\ Len(v) = Len(f) - 1 /\ Distinct(v)
      /\ \A k \in 1 .. Len(f) - 1 : v[k] = f[k + 1]
      /\ Elements(v) = Elements(f) \ {f[1]} /\ f[1] \in Elements(f)
  BY <1>0, <1>1, WithoutFirst
<1> HIDE DEF v
<1>3. /\ firstFree' = next[f[1]] /\ state' = [state EXCEPT ![f[1]] = "allocated"]
      /\ UNCHANGED <<next, firstTimed, lastTimed>>
  BY <1>1 DEF NewIdReturns
<1>4. IsChain(v, firstFree)'
  <2>1. firstFree' = IF Len(f) = 1 THEN -1 ELSE f[2]
    BY <1>0, <1>2, <1>3 DEF IsChain
  <2>2. firstFree' = IF v = <<>> THEN -1 ELSE v[1]
    <3>1. CASE Len(f) = 1
      <4>1. v = <<>>
        BY <1>2, <3>1
      <4> QED
        BY <2>1, <3>1, <4>1
    <3>2. CASE Len(f) # 1
      <4>1. v # <<>> /\ v[1] = f[2]
        BY <1>2, <3>2
      <4> QED
        BY <2>1, <3>2, <4>1
    <3> QED
      BY <3>1, <3>2
  <2>3. ASSUME NEW k \in 1 .. Len(v)
        PROVE  next'[v[k]] = IF k = Len(v) THEN -1 ELSE v[k + 1]
    <3>1. next'[v[k]] = next[f[k + 1]] /\ k + 1 \in 1 .. Len(f)
      BY <1>2, <1>3
    <3>2. next[f[k + 1]] = IF k + 1 = Len(f) THEN -1 ELSE f[k + 2]
      BY <1>0, <3>1 DEF IsChain
    <3>3. k # Len(v) => v[k + 1] = f[k + 2]
      BY <1>2
    <3> QED
      BY <1>2, <3>1, <3>2, <3>3
  <2> QED
    BY <2>2, <2>3 DEF IsChain
<1>5. IsChain(t, firstTimed)' /\ lastTimed' = IF t = <<>> THEN -1 ELSE t[Len(t)]
  BY <1>3 DEF ListsAre, IsChain
<1>6. \A i \in Ids : /\ state'[i] = "free" <=> i \in Elements(v)
                     /\ state'[i] = "timed" <=> i \in Elements(t)
  <2>1. state \in [Ids -> {"free", "allocated", "timed"}] /\ f[1] \in Ids
    BY <1>0, <1>1 DEF TypeOK
  <2>2. state[f[1]] = "free"
    BY <1>2, <2>1 DEF ListsAre
  <2> QED
    BY <1>2, <1>3, <2>1, <2>2 DEF ListsAre
<1>7. ListsAre(v, t)'
  BY <1>0, <1>2, <1>4, <1>5, <1>6 DEF ListsAre
<1> QED
  BY <1>1, <1>7 DEF v

LEMMA DestroyLists ==
    ASSUME PoolInv, NEW f, NEW t, ListsAre(f, t),
           NEW id \in Ids, state[id] = "allocated", FreeId(id)
    PROVE  ListsAre(f, Append(t, id))'
<1>0. /\ f \in Seq(Ids) /\ t \in Seq(Ids) /\ Distinct(f) /\ Distinct(t)
      /\ IsChain(f, firstFree) /\ IsChain(t, firstTimed)
      /\ TypeOK
      /\ lastTimed = IF t = <<>> THEN -1 ELSE t[Len(t)]
  BY DEF ListsAre, PoolInv
<1>1. id \notin Elements(t) /\ id \notin Elements(f)
  BY DEF ListsAre
<1> DEFINE u == Append(t, id)
<1>2. /\ u \in Seq(Ids) /\ Len(t) \in Nat /\ Len(u) = Len(t) + 1 /\ Distinct(u)
      /\ u[Len(t) + 1] = id
      /\ \A k \in 1 .. Len(t) : u[k] = t[k]
      /\ Elements(u) = Elements(t) \cup {id}
  BY <1>0, <1>1, WithLast
<1> HIDE DEF u
<1>3. /\ next' = [i \in Ids |-> IF i = id THEN -1 ELSE IF i = lastTimed THEN id ELSE next[i]]
      /\ firstTimed' = (IF lastTimed = -1 THEN id ELSE firstTimed)
      /\ lastTimed' = id /\ firstFree' = firstFree
      /\ state' = [state EXCEPT ![id] = "timed"]
  BY DEF FreeId, Enqueue
<1>4. /\ \A k \in 1 .. Len(f) : f[k] \in Ids \ {id} /\ f[k] \in Elements(f)
      /\ \A k \in 1 .. Len(t) : t[k] \in Ids \ {id} /\ t[k] \in Elements(t)
  <2>1. DOMAIN f = 1 .. Len(f) /\ DOMAIN t = 1 .. Len(t)
    BY <1>0
  <2> QED
    BY <1>0, <1>1, <2>1 DEF Elements
<1>5. lastTimed # -1 => t # <<>> /\ lastTimed = t[Len(t)] /\ Len(t) \in 1 .. Len(t)
  BY <1>0, <1>2
<1>6. \A k \in 1 .. Len(f) : f[k] # lastTimed
  <2>1. ASSUME NEW k \in 1 .. Len(f), f[k] = lastTimed PROVE FALSE
    <3>1. lastTimed # -1 /\ lastTimed \in Elements(t) /\ lastTimed \in Elements(f)
      BY <1>4, <1>5, <2>1 DEF Ids
    <3>2. lastTimed \in Ids
      BY <1>4, <2>1
    <3> QED
      BY <3>1, <3>2 DEF ListsAre
  <2> QED
    BY <2>1
<1>7. IsChain(f, firstFree)'
  BY <1>0, <1>3, <1>4, <1>6 DEF IsChain
<1>8. IsChain(u, firstTimed)'
  <2>1. firstTimed' = IF u = <<>> THEN -1 ELSE u[1]
    <3>1. u # <<>>
      BY <1>2
    <3>2. CASE t = <<>>
      BY <1>0, <1>2, <1>3, <3>1, <3>2
    <3>3. CASE t # <<>>
      <4>1. lastTimed # -1 /\ u[1] = t[1]
        BY <1>0, <1>2, <1>4, <3>3 DEF Ids
      <4> QED
        BY <1>0, <1>3, <3>1, <3>3, <4>1 DEF IsChain
    <3> QED
      BY <3>2, <3>3
  <2>2. ASSUME NEW k \in 1 .. Len(u)
        PROVE  next'[u[k]] = IF k = Len(u) THEN -1 ELSE u[k + 1]
    <3>1. CASE k = Len(u)
      BY <1>2, <1>3, <3>1
    <3>2. CASE k = Len(t)
      <4>1. u[k] = lastTimed /\ u[k] \in Ids \ {id}
        BY <1>0, <1>2, <1>4, <2>2, <3>2
      <4> QED
        BY <1>2, <1>3, <3>2, <4>1
    <3>3. CASE k < Len(t)
      <4>1. u[k] = t[k] /\ t[k] \in Ids \ {id} /\ u[k + 1] = t[k + 1]
        BY <1>2, <1>4, <2>2, <3>3
      <4>2. t[k] # lastTimed
        BY <1>0, <1>2, <1>5, <2>2, <3>3, <4>1 DEF Distinct, Ids
      <4>3. next[t[k]] = t[k + 1]
        BY <1>0, <1>2, <2>2, <3>3 DEF IsChain
      <4> QED
        BY <1>2, <1>3, <3>3, <4>1, <4>2, <4>3
    <3> QED
      BY <1>2, <2>2, <3>1, <3>2, <3>3
  <2> QED
    BY <2>1, <2>2 DEF IsChain
<1>9. lastTimed' = IF u = <<>> THEN -1 ELSE u[Len(u)]
  <2>1. u # <<>>
    BY <1>2
  <2> QED
    BY <1>2, <1>3, <2>1
<1>10. \A i \in Ids : /\ state'[i] = "free" <=> i \in Elements(f)
                      /\ state'[i] = "timed" <=> i \in Elements(u)
  <2>1. state \in [Ids -> {"free", "allocated", "timed"}]
    BY <1>0 DEF TypeOK
  <2> QED
    BY <1>1, <1>2, <1>3, <2>1 DEF ListsAre
<1>11. ListsAre(f, u)'
  BY <1>0, <1>2, <1>7, <1>8, <1>9, <1>10 DEF ListsAre
<1> QED
  BY <1>11 DEF u

\* A list without repetition has at most MaxIds ids.
LEMMA ListsAreShort ==
    ASSUME NEW s \in Seq(Ids), Distinct(s) PROVE s \in Lists
<1>1. Len(s) \in Nat /\ DOMAIN s = 1 .. Len(s) /\ s \in [1 .. Len(s) -> Ids]
  OBVIOUS
<1>2. s \in Injection(1 .. Len(s), Ids)
  BY <1>1 DEF Distinct, Injection, IsInjective
<1>3. /\ IsFiniteSet(Ids) /\ Cardinality(Ids) = MaxIds
      /\ IsFiniteSet(1 .. Len(s)) /\ Cardinality(1 .. Len(s)) = Len(s)
  <2>1. MaxIds \in Nat \ {0}
    BY IdAssumption
  <2>2. /\ IsFiniteSet(0 .. MaxIds - 1)
        /\ Cardinality(0 .. MaxIds - 1)
             = IF 0 > MaxIds - 1 THEN 0 ELSE MaxIds - 1 - 0 + 1
    BY <2>1, FS_Interval
  <2>3. /\ IsFiniteSet(1 .. Len(s))
        /\ Cardinality(1 .. Len(s)) = IF 1 > Len(s) THEN 0 ELSE Len(s) - 1 + 1
    BY <1>1, FS_Interval
  <2> QED
    BY <1>1, <2>1, <2>2, <2>3 DEF Ids
<1>4. Len(s) <= MaxIds
  BY <1>2, <1>3, FS_Injection
<1>5. Len(s) \in 0 .. MaxIds
  BY <1>1, <1>4, IdAssumption
<1> QED
  BY <1>1, <1>5 DEF Lists

\* Every id marked allocated is held by an entity.
AllocatedInv ==
    \A i \in Ids : state[i] = "allocated" => \E e \in Entities : mId[e] = i

ListInv == AllocatedInv /\ \E f, t \in Seq(Ids) : ListsAre(f, t)

LEMMA InitLists == Init => ListInv
<1> SUFFICES ASSUME Init PROVE ListInv
  OBVIOUS
<1>0. MaxIds \in Nat \ {0}
  BY IdAssumption
<1> DEFINE f == [k \in 1 .. MaxIds |-> k - 1]
<1>1. f \in Seq(Ids) /\ Len(f) = MaxIds /\ \A k \in 1 .. MaxIds : f[k] = k - 1
  <2>1. f \in [1 .. MaxIds -> Ids]
    BY <1>0 DEF Ids
  <2> QED
    BY <1>0, <2>1
<1>2. DOMAIN f = 1 .. MaxIds
  OBVIOUS
<1> HIDE DEF f
<1>3. Distinct(f)
  BY <1>0, <1>1 DEF Distinct
<1>4. Elements(f) = Ids
  <2>1. \A i \in Ids : i + 1 \in 1 .. MaxIds /\ f[i + 1] = i
    BY <1>0, <1>1 DEF Ids
  <2>2. \A k \in 1 .. MaxIds : f[k] \in Ids
    BY <1>0, <1>1 DEF Ids
  <2> QED
    BY <1>2, <2>1, <2>2 DEF Elements
<1>5. IsChain(f, firstFree)
  <2>1. firstFree = IF f = <<>> THEN -1 ELSE f[1]
    <3>1. f # <<>> /\ f[1] = 0
      BY <1>0, <1>1
    <3> QED
      BY <3>1 DEF Init
  <2>2. \A k \in 1 .. MaxIds : next[f[k]] = IF k = MaxIds THEN -1 ELSE f[k + 1]
    BY <1>0, <1>1 DEF Init, Ids
  <2> QED
    BY <1>1, <2>1, <2>2 DEF IsChain
<1>6. /\ <<>> \in Seq(Ids) /\ Distinct(<<>>) /\ Elements(<<>>) = {}
      /\ IsChain(<<>>, firstTimed) /\ lastTimed = -1
  BY DEF Init, IsChain, Distinct, Elements
<1>7. ListsAre(f, <<>>)
  BY <1>1, <1>3, <1>4, <1>5, <1>6 DEF ListsAre, Init
<1> QED
  BY <1>1, <1>6, <1>7 DEF ListInv, AllocatedInv, Init

LEMMA StepLists == PoolInv /\ ListInv /\ [Next]_vars => ListInv'
<1> SUFFICES ASSUME PoolInv, ListInv, [Next]_vars PROVE ListInv'
  OBVIOUS
<1>0. PICK f \in Seq(Ids), t \in Seq(Ids) : ListsAre(f, t)
  BY DEF ListInv
<1>1. /\ TypeOK /\ OneOwner /\ EntityInv /\ AllocatedInv
      /\ state \in [Ids -> {"free", "allocated", "timed"}]
      /\ mId \in [Entities -> Links]
  BY DEF PoolInv, ListInv, TypeOK
<1>2. ASSUME UNCHANGED <<pool, mId>> PROVE ListInv'
  <2>1. ListsAre(f, t)'
    BY <1>0, <1>2, ListsStay DEF pool
  <2>2. AllocatedInv'
    BY <1>1, <1>2 DEF AllocatedInv, pool
  <2> QED
    BY <2>1, <2>2 DEF ListInv
<1>3. CASE RemoveFirstTimeout
  <2>1. t # <<>> /\ ListsAre(<<t[1]>> \o f, Tail(t))'
    BY <1>0, <1>3, RemoveLists
  <2>2. <<t[1]>> \o f \in Seq(Ids) /\ Tail(t) \in Seq(Ids)
    BY <2>1
  <2>3. AllocatedInv'
    BY <1>1, <1>3 DEF RemoveFirstTimeout, game, AllocatedInv
  <2> QED
    BY <2>1, <2>2, <2>3 DEF ListInv
<1>4. ASSUME NEW e \in Entities, NewIdReturns(e) PROVE ListInv'
  <2>1. f # <<>> /\ firstFree = f[1] /\ ListsAre(Tail(f), t)'
    BY <1>0, <1>4, NewIdLists
  <2>2. Tail(f) \in Seq(Ids) /\ f[1] \in Ids
    BY <2>1
  <2>3. mId[e] = -1
    BY <1>1, <1>4 DEF NewIdReturns, EntityInv
  <2>4. AllocatedInv'
    <3>1. ASSUME NEW i \in Ids, state'[i] = "allocated"
          PROVE  \E d \in Entities : mId'[d] = i
      <4>1. CASE i = f[1]
        BY <1>1, <1>4, <2>1, <4>1 DEF NewIdReturns
      <4>2. CASE i # f[1]
        <5>1. state[i] = "allocated"
          BY <1>1, <1>4, <2>1, <2>2, <3>1, <4>2 DEF NewIdReturns
        <5>2. PICK d \in Entities : mId[d] = i
          BY <1>1, <5>1 DEF AllocatedInv
        <5>3. d # e
          BY <2>3, <5>2 DEF Ids
        <5> QED
          BY <1>1, <1>4, <5>2, <5>3 DEF NewIdReturns
      <4> QED
        BY <4>1, <4>2
    <3> QED
      BY <3>1 DEF AllocatedInv
  <2> QED
    BY <2>1, <2>2, <2>4 DEF ListInv
<1>5. ASSUME NEW e \in Entities, NewIdFails(e) PROVE ListInv'
  <2>1. mId[e] = -1
    BY <1>1, <1>5 DEF NewIdFails, EntityInv
  <2>2. mId' = mId /\ UNCHANGED pool
    BY <1>1, <1>5, <2>1 DEF NewIdFails
  <2> QED
    BY <1>2, <2>2
<1>6. ASSUME NEW e \in Entities, Destroy(e) PROVE ListInv'
  <2>1. CASE mId[e] < 0
    <3>1. mId[e] = -1
      BY <1>1, <2>1 DEF Links, Ids
    <3>2. mId' = mId /\ UNCHANGED pool
      BY <1>1, <1>6, <2>1, <3>1 DEF Destroy
    <3> QED
      BY <1>2, <3>2
  <2>2. CASE ~ mId[e] < 0
    <3> DEFINE id == mId[e]
    <3>1. id \in Ids /\ state[id] = "allocated" /\ FreeId(id)
      BY <1>1, <1>6, <2>2 DEF Destroy, Links, OneOwner, Ids
    <3>2. PICK n \in Ids : n = id
      BY <3>1
    <3>3. ListsAre(f, Append(t, n))'
      BY <1>0, <3>1, <3>2, DestroyLists
    <3>4. AllocatedInv'
      <4>1. ASSUME NEW i \in Ids, state'[i] = "allocated"
            PROVE  \E d \in Entities : mId'[d] = i
        <5>1. i # n /\ state[i] = "allocated"
          BY <1>1, <3>1, <3>2, <4>1 DEF FreeId
        <5>2. PICK d \in Entities : mId[d] = i
          BY <1>1, <5>1 DEF AllocatedInv
        <5>3. d # e
          BY <3>2, <5>1, <5>2
        <5> QED
          BY <1>1, <1>6, <5>2, <5>3 DEF Destroy
      <4> QED
        BY <4>1 DEF AllocatedInv
    <3>5. Append(t, n) \in Seq(Ids)
      OBVIOUS
    <3> QED
      BY <1>0, <3>3, <3>4, <3>5 DEF ListInv
  <2> QED
    BY <2>1, <2>2
<1>7. CASE UNCHANGED vars
  BY <1>2, <1>7 DEF vars, game
<1>8. CASE TimeoutIds \/ TimeoutIdsReturns \/ Tick \/ \E e \in Entities : Create(e)
  BY <1>2, <1>8 DEF TimeoutIds, TimeoutIdsReturns, Tick, Create, game
<1> QED
  BY <1>3, <1>4, <1>5, <1>6, <1>7, <1>8 DEF Next

LEMMA ListsAlways == Spec => [](PoolInv /\ ListInv)
BY InitPool, StepPool, InitLists, StepLists, PTL DEF Spec

(***************************************************************************)
(* RemoveFirstTimeout, NewId and FreeId never drop an id: at every step    *)
(* each id is on one of the two lists or with an entity, and the last      *)
(* timed id ends its list.                                                 *)
(***************************************************************************)
THEOREM NoIdIsLost == Spec => []NoIdLost
<1>1. PoolInv /\ ListInv => NoIdLost
  <2> SUFFICES ASSUME PoolInv, ListInv PROVE NoIdLost
    OBVIOUS
  <2>1. PICK f \in Seq(Ids), t \in Seq(Ids) : ListsAre(f, t)
    BY DEF ListInv
  <2>2. f \in Lists /\ t \in Lists
    BY <2>1, ListsAreShort DEF ListsAre
  <2>3. \A i \in Ids : state[i] = "allocated" <=> \E e \in Entities : mId[e] = i
    <3>1. ASSUME NEW i \in Ids, NEW e \in Entities, mId[e] = i PROVE state[i] = "allocated"
      <4>1. mId[e] # -1
        BY <3>1 DEF Ids
      <4> QED
        BY <3>1, <4>1 DEF PoolInv, OneOwner
    <3> QED
      BY <3>1 DEF ListInv, AllocatedInv
  <2> QED
    BY <2>1, <2>2, <2>3 DEF NoIdLost, ListsAre
<1> QED
  BY <1>1, ListsAlways, PTL
-----------------------------------------------------------------------------
(* The lists implement the free set and the first-in first-out quarantine. *)

\* Every set of natural numbers that is not empty has a least element: the
\* form of induction that ChainsAreEqual needs.
LEMMA Least ==
    ASSUME NEW D \in SUBSET Nat, D # {}
    PROVE  \E m \in D : \A k \in D : m <= k
<1> DEFINE T == {0 .. d : d \in D}
<1>1. IsWellFoundedOn(StrictSubsetOrdering(Nat), FiniteSubsetsOf(Nat))
  BY FS_StrictSubsetOrderingWellFounded
<1>2. T \subseteq FiniteSubsetsOf(Nat) /\ T # {}
  <2>1. \A d \in D : IsFiniteSet(0 .. d) /\ 0 .. d \subseteq Nat
    BY FS_Interval
  <2> QED
    BY <2>1 DEF FiniteSubsetsOf
<1> HIDE DEF T
<1>3. PICK x \in T : \A y \in T : ~ (<<y, x>> \in StrictSubsetOrdering(Nat))
  BY <1>1, <1>2, WFMin
<1> USE DEF T
<1>4. PICK m \in D : x = 0 .. m
  OBVIOUS
<1>5. ASSUME NEW k \in D, k < m PROVE FALSE
  <2>1. 0 .. k \subseteq 0 .. m /\ 0 .. k # 0 .. m
    <3>1. m \in 0 .. m /\ m \notin 0 .. k
      BY <1>5
    <3> QED
      BY <1>5, <3>1
  <2>2. 0 .. k \in SUBSET Nat /\ 0 .. m \in SUBSET Nat
    OBVIOUS
  <2>3. <<0 .. k, 0 .. m>> \in StrictSubsetOrdering(Nat)
    BY <2>1, <2>2, Zenon DEF StrictSubsetOrdering
  <2> QED
    BY <1>3, <1>4, <2>3
<1> QED
  BY <1>5

\* There is one way to follow the links nx from a head to the end.
Follows(nx, s, h) ==
    /\ h = IF s = <<>> THEN -1 ELSE s[1]
    /\ \A k \in 1 .. Len(s) : nx[s[k]] = IF k = Len(s) THEN -1 ELSE s[k + 1]

LEMMA ChainsAreEqual ==
    ASSUME NEW nx, NEW h, NEW s \in Seq(Ids), NEW u \in Seq(Ids),
           Follows(nx, s, h), Follows(nx, u, h)
    PROVE  s = u
<1>0. /\ h = IF s = <<>> THEN -1 ELSE s[1]
      /\ h = IF u = <<>> THEN -1 ELSE u[1]
      /\ \A k \in 1 .. Len(s) : nx[s[k]] = IF k = Len(s) THEN -1 ELSE s[k + 1]
      /\ \A k \in 1 .. Len(u) : nx[u[k]] = IF k = Len(u) THEN -1 ELSE u[k + 1]
  BY DEF Follows
<1>1. /\ Len(s) \in Nat /\ Len(u) \in Nat
      /\ \A k \in 1 .. Len(s) : s[k] \in Ids /\ s[k] # -1
      /\ \A k \in 1 .. Len(u) : u[k] \in Ids /\ u[k] # -1
  <2>1. \A i \in Ids : i # -1
    BY DEF Ids
  <2> QED
    BY <2>1
<1> DEFINE D == {k \in Nat \ {0} : /\ k <= Len(s) \/ k <= Len(u)
                                   /\ k <= Len(s) /\ k <= Len(u) => s[k] # u[k]}
<1>2. ASSUME NEW m \in D, \A k \in D : m <= k PROVE FALSE
  <2>1. CASE m = 1
    <3>1. s # <<>> \/ u # <<>>
      BY <1>1, <2>1
    <3>2. s # <<>> /\ u # <<>> /\ s[1] = u[1]
      <4>1. s # <<>> => s[1] # -1
        BY <1>1
      <4>2. u # <<>> => u[1] # -1
        BY <1>1
      <4> QED
        BY <1>0, <3>1, <4>1, <4>2
    <3>3. 1 <= Len(s) /\ 1 <= Len(u)
      BY <3>2
    <3> QED
      BY <2>1, <3>2, <3>3
  <2>2. CASE m # 1
    <3>1. m - 1 \in Nat \ {0} /\ m - 1 \notin D
      <4>1. m \in Nat \ {0}
        OBVIOUS
      <4> HIDE DEF D
      <4> QED
        BY <1>2, <2>2, <4>1
    <3>2. m - 1 <= Len(s) /\ m - 1 <= Len(u) /\ s[m - 1] = u[m - 1]
      BY <1>1, <3>1
    <3>3. /\ nx[s[m - 1]] = IF m - 1 = Len(s) THEN -1 ELSE s[m]
          /\ nx[u[m - 1]] = IF m - 1 = Len(u) THEN -1 ELSE u[m]
      BY <1>0, <1>1, <3>1, <3>2
    <3>4. m <= Len(s) \/ m <= Len(u)
      OBVIOUS
    <3>5. m <= Len(s) /\ m <= Len(u) /\ s[m] = u[m]
      <4>1. m <= Len(s) => s[m] # -1
        BY <1>1
      <4>2. m <= Len(u) => u[m] # -1
        BY <1>1
      <4> QED
        BY <1>1, <3>1, <3>2, <3>3, <3>4, <4>1, <4>2
    <3> QED
      BY <3>5
  <2> QED
    BY <2>1, <2>2
<1>3. D \in SUBSET Nat
  OBVIOUS
<1>4. D = {}
  <2> HIDE DEF D
  <2> QED
    BY <1>2, <1>3, Least
<1>5. Len(s) = Len(u)
  <2>1. CASE Len(s) < Len(u)
    <3>1. Len(u) \in D
      BY <1>1, <2>1
    <3> QED
      BY <1>4, <3>1
  <2>2. CASE Len(u) < Len(s)
    <3>1. Len(s) \in D
      BY <1>1, <2>2
    <3> QED
      BY <1>4, <3>1
  <2> QED
    BY <1>1, <2>1, <2>2
<1>6. \A k \in 1 .. Len(s) : s[k] = u[k]
  BY <1>1, <1>4, <1>5
<1> QED
  BY <1>5, <1>6

\* The lists are the chains from their heads.
ChainInv ==
    \A f, t \in Seq(Ids) :
        ListsAre(f, t) => Chain(firstFree) = f /\ Chain(firstTimed) = t

LEMMA ChainsAreTheLists == ChainInv
<1> SUFFICES ASSUME NEW f \in Seq(Ids), NEW t \in Seq(Ids), ListsAre(f, t)
             PROVE  Chain(firstFree) = f /\ Chain(firstTimed) = t
  BY DEF ChainInv
<1>1. ASSUME NEW s \in Seq(Ids), Distinct(s), NEW h, IsChain(s, h) PROVE Chain(h) = s
  <2> DEFINE c == Chain(h)
  <2>1. s \in Lists
    BY <1>1, ListsAreShort
  <2>2. c \in Lists /\ IsChain(c, h)
    BY <1>1, <2>1 DEF Chain
  <2> HIDE DEF c
  <2>3. c \in Seq(Ids)
    BY <2>2 DEF Lists
  <2>4. Follows(next, s, h) /\ Follows(next, c, h)
    BY <1>1, <2>2 DEF IsChain, Follows
  <2>5. c = s
    BY <1>1, <2>3, <2>4, ChainsAreEqual
  <2> QED
    BY <2>5 DEF c
<1> QED
  BY <1>1 DEF ListsAre

\* A step of the pool is a step of SnapIds or none.
LEMMA SnapIdsStep ==
    PoolInv /\ ListInv /\ ChainInv /\ ChainInv' /\ [Next]_vars
      => [Abstract!Next]_Abstract!vars
<1> SUFFICES ASSUME PoolInv, ListInv, ChainInv, ChainInv', [Next]_vars
             PROVE  [Abstract!Next]_Abstract!vars
  OBVIOUS
<1>0. PICK f \in Seq(Ids), t \in Seq(Ids) : ListsAre(f, t)
  BY DEF ListInv
<1>1. /\ Chain(firstFree) = f /\ Chain(firstTimed) = t
      /\ Distinct(f) /\ Distinct(t)
      /\ EntityInv /\ OneOwner /\ mId \in [Entities -> Links]
  BY <1>0 DEF ChainInv, ListsAre, PoolInv, TypeOK
<1>2. ASSUME NEW g \in Seq(Ids), NEW u \in Seq(Ids), ListsAre(g, u)'
      PROVE  Chain(firstFree)' = g /\ Chain(firstTimed)' = u
  BY <1>2 DEF ChainInv
<1>3. \A e \in Entities : Held(e) = IF mId[e] = -1 THEN {} ELSE {mId[e]}
  BY DEF Held
<1>4. \A e \in Entities : Held(e)' = IF mId'[e] = -1 THEN {} ELSE {mId'[e]}
  BY DEF Held
<1>5. ASSUME NEW g, Chain(firstFree)' = g
      PROVE  Elements(Chain(firstFree))' = Elements(g)
  BY <1>5 DEF Elements
<1>6. ASSUME UNCHANGED <<pool, mId>> PROVE [Abstract!Next]_Abstract!vars
  <2>1. ListsAre(f, t)'
    BY <1>0, <1>6, ListsStay DEF pool
  <2>2. Chain(firstFree)' = Chain(firstFree) /\ Chain(firstTimed)' = Chain(firstTimed)
    BY <1>1, <1>2, <2>1
  <2>3. Elements(Chain(firstFree))' = Elements(Chain(firstFree))
    BY <2>2 DEF Elements
  <2>4. [e \in Entities |-> Held(e)]' = [e \in Entities |-> Held(e)]
    BY <1>6 DEF Held
  <2> QED
    BY <2>2, <2>3, <2>4 DEF Abstract!vars
<1>7. CASE RemoveFirstTimeout
  <2>1. t # <<>> /\ firstTimed = t[1] /\ ListsAre(<<t[1]>> \o f, Tail(t))'
    BY <1>0, <1>7, RemoveLists
  <2>2. <<t[1]>> \o f \in Seq(Ids) /\ Tail(t) \in Seq(Ids) /\ t[1] \in Ids /\ Head(t) = t[1]
    BY <2>1
  <2>3. t[1] \notin Elements(f)
    BY <1>0, <1>1, <2>1, <2>2, WithoutFirst DEF ListsAre
  <2>4. Elements(<<t[1]>> \o f) = Elements(f) \cup {t[1]}
    BY <1>1, <2>2, <2>3, WithFirst
  <2>5. Chain(firstFree)' = <<t[1]>> \o f /\ Chain(firstTimed)' = Tail(t)
    BY <1>2, <2>1, <2>2
  <2>6. Elements(Chain(firstFree))' = Elements(Chain(firstFree)) \cup {Head(Chain(firstTimed))}
    BY <1>1, <1>5, <2>2, <2>4, <2>5
  <2>7. [e \in Entities |-> Held(e)]' = [e \in Entities |-> Held(e)]
    BY <1>7 DEF Held, RemoveFirstTimeout, game
  <2>8. Abstract!Release
    BY <1>1, <2>1, <2>5, <2>6, <2>7 DEF Abstract!Release
  <2> QED
    BY <2>8 DEF Abstract!Next
<1>8. ASSUME NEW e \in Entities, NewIdReturns(e) PROVE [Abstract!Next]_Abstract!vars
  <2>1. f # <<>> /\ firstFree = f[1] /\ ListsAre(Tail(f), t)'
    BY <1>0, <1>8, NewIdLists
  <2>2. /\ Tail(f) \in Seq(Ids) /\ f[1] \in Ids /\ f[1] \in Elements(f)
        /\ Elements(Tail(f)) = Elements(f) \ {f[1]}
    BY <1>1, <2>1, WithoutFirst
  <2>3. Chain(firstFree)' = Tail(f) /\ Chain(firstTimed)' = t
    BY <1>2, <2>1, <2>2
  <2>4. Elements(Chain(firstFree))' = Elements(Chain(firstFree)) \ {f[1]}
    BY <1>1, <1>5, <2>2, <2>3
  <2>5. mId[e] = -1 /\ mId' = [mId EXCEPT ![e] = f[1]] /\ f[1] # -1
    BY <1>1, <1>8, <2>1, <2>2 DEF NewIdReturns, EntityInv, Ids
  <2> DEFINE held == [d \in Entities |-> Held(d)]
  <2>6. held[e] = {}
    BY <1>3, <2>5
  <2>7. held' = [held EXCEPT ![e] = {f[1]}]
    BY <1>1, <1>3, <1>4, <2>5
  <2>8. Abstract!Allocate(e)
    <3>1. f[1] \in Elements(Chain(firstFree))
      BY <1>1, <2>2
    <3> QED
      BY <1>1, <2>3, <2>4, <2>6, <2>7, <3>1 DEF Abstract!Allocate
  <2> QED
    BY <2>8 DEF Abstract!Next
<1>9. ASSUME NEW e \in Entities, NewIdFails(e) PROVE [Abstract!Next]_Abstract!vars
  <2>1. mId' = mId /\ UNCHANGED pool
    BY <1>1, <1>9 DEF NewIdFails, EntityInv
  <2> QED
    BY <1>6, <2>1
<1>10. ASSUME NEW e \in Entities, Destroy(e) PROVE [Abstract!Next]_Abstract!vars
  <2>1. CASE mId[e] < 0
    <3>1. mId' = mId /\ UNCHANGED pool
      BY <1>1, <1>10, <2>1 DEF Destroy, Links, Ids
    <3> QED
      BY <1>6, <3>1
  <2>2. CASE ~ mId[e] < 0
    <3>1. /\ mId[e] \in Ids /\ state[mId[e]] = "allocated" /\ FreeId(mId[e])
          /\ mId[e] # -1
      BY <1>1, <1>10, <2>2 DEF Destroy, Links, OneOwner, Ids
    <3>2. PICK n \in Ids : n = mId[e]
      BY <3>1
    <3>3. ListsAre(f, Append(t, n))' /\ Append(t, n) \in Seq(Ids)
      BY <1>0, <3>1, <3>2, DestroyLists
    <3>4. Chain(firstFree)' = f /\ Chain(firstTimed)' = Append(t, n)
      BY <1>2, <3>3
    <3>5. Elements(Chain(firstFree))' = Elements(Chain(firstFree))
      BY <1>1, <1>5, <3>4
    <3>6. mId' = [mId EXCEPT ![e] = -1]
      BY <1>10 DEF Destroy
    <3> DEFINE held == [d \in Entities |-> Held(d)]
    <3>7. n \in held[e]
      BY <1>3, <3>1, <3>2
    <3>8. held' = [held EXCEPT ![e] = {}]
      BY <1>1, <1>3, <1>4, <3>6
    <3>9. Abstract!GiveBack(e)
      BY <1>1, <3>4, <3>5, <3>7, <3>8 DEF Abstract!GiveBack
    <3> QED
      BY <3>9 DEF Abstract!Next
  <2> QED
    BY <2>1, <2>2
<1>11. CASE UNCHANGED vars
  BY <1>6, <1>11 DEF vars, game
<1>12. CASE TimeoutIds \/ TimeoutIdsReturns \/ Tick \/ \E e \in Entities : Create(e)
  BY <1>6, <1>12 DEF TimeoutIds, TimeoutIdsReturns, Tick, Create, game
<1> QED
  BY <1>7, <1>8, <1>9, <1>10, <1>11, <1>12 DEF Next

(***************************************************************************)
(* The two linked lists of CSnapIdPool implement SnapIds: NewId hands out  *)
(* only a free id, FreeId queues it, and ids come out of the quarantine in *)
(* the order they went in, for any number of ids and entities.             *)
(***************************************************************************)
THEOREM PoolImplementsSnapIds == Spec => ImplementsSnapIds
<1>1. Init => Abstract!Init
  <2> SUFFICES ASSUME Init PROVE Abstract!Init
    OBVIOUS
  <2>1. PICK f \in Seq(Ids), t \in Seq(Ids) : ListsAre(f, t)
    BY InitLists DEF ListInv
  <2>2. Chain(firstFree) = f /\ Chain(firstTimed) = t
    BY <2>1, ChainsAreTheLists DEF ChainInv
  <2>3. Elements(f) = Ids
    <3>1. \A i \in Ids : i \in Elements(f)
      BY <2>1 DEF ListsAre, Init
    <3>2. Elements(f) \subseteq Ids
      BY DEF Elements
    <3> QED
      BY <3>1, <3>2
  <2>4. t = <<>>
    <3>1. t # <<>> => t[1] \in Ids /\ t[1] \in Elements(t)
      BY DEF Elements
    <3> QED
      BY <2>1, <3>1 DEF ListsAre, Init
  <2>5. \A e \in Entities : Held(e) = {}
    BY DEF Held, Init
  <2> QED
    BY <2>2, <2>3, <2>4, <2>5 DEF Abstract!Init
<1> QED
  BY <1>1, ListsAlways, ChainsAreTheLists, SnapIdsStep, PTL
  DEF Spec, ImplementsSnapIds, Abstract!Spec
=============================================================================
