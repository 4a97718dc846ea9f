---------------------------- MODULE RegisterProofs ----------------------------
(***************************************************************************)
(* Proofs about MasterServer and Register for any addresses, any number of *)
(* processes of the game server, and any bounds.                           *)
(***************************************************************************)
EXTENDS Register, SequenceTheorems, TLAPS

-----------------------------------------------------------------------------
(* The operations of the master.                                           *)

Masters == [addresses : [Addresses -> Secrets \cup {NoOne}],
            servers : [Secrets -> Nat \cup {NoInfo}],
            listed : [Secrets -> [Addresses -> Nat]]]

\* The server s has its addresses, and is there as long as it has one.
HasItsAddresses(m, s) ==
    /\ \A a \in Addresses : m.listed[s][a] = IF m.addresses[a] = s THEN 1 ELSE 0
    /\ m.servers[s] # NoInfo <=> \E a \in Addresses : m.listed[s][a] # 0

\* AddressesServed of any value of the master.
Served(m) == \A s \in Secrets : HasItsAddresses(m, s)

\* No info is replaced by an older one.
Forward(m, n) == \A s \in Secrets :
                    m.servers[s] # NoInfo /\ n.servers[s] # NoInfo
                      => n.servers[s] >= m.servers[s]

LEMMA ForwardReflexive == ASSUME NEW m \in Masters PROVE Forward(m, m)
BY DEF Masters, Forward, NoInfo

LEMMA NobodyServed == Nobody \in Masters /\ Served(Nobody)
BY MasterAssumption DEF Nobody, Masters, Served, HasItsAddresses, NoOne, NoInfo

\* What remains of the server of an address: all but that address, or nothing.
LEMMA RetainedFields ==
    ASSUME NEW m \in Masters, NEW a \in Addresses, NEW s \in Secrets, s = m.addresses[a],
           NEW kept, kept = [m.listed[s] EXCEPT ![a] = 0]
    PROVE  /\ Retained(m, a) \in Masters
           /\ Retained(m, a).addresses = m.addresses
           /\ Retained(m, a).listed = [m.listed EXCEPT ![s] = kept]
           /\ Retained(m, a).servers
                = [m.servers EXCEPT ![s] =
                     IF \A b \in Addresses : kept[b] = 0 THEN NoInfo ELSE @]
<1>1. kept \in [Addresses -> Nat]
  BY DEF Masters
<1>2. Retained(m, a)
        = [addresses |-> m.addresses,
           servers |-> [m.servers EXCEPT ![s] =
                          IF \A b \in Addresses : kept[b] = 0 THEN NoInfo ELSE @],
           listed |-> [m.listed EXCEPT ![s] = kept]]
  BY DEF Retained, Masters
<1> QED
  BY <1>1, <1>2 DEF Masters

\* The other servers do not notice, and no info gets older.
LEMMA RetainedServes ==
    ASSUME NEW m \in Masters, Served(m), NEW a \in Addresses, m.addresses[a] \in Secrets
    PROVE  /\ Forward(m, Retained(m, a))
           /\ \A s \in Secrets : s # m.addresses[a] =>
                /\ Retained(m, a).servers[s] = m.servers[s]
                /\ Retained(m, a).listed[s] = m.listed[s]
           /\ LET s == m.addresses[a]
                  n == Retained(m, a)
              IN  /\ \A b \in Addresses \ {a} : n.listed[s][b] = m.listed[s][b]
                  /\ n.listed[s][a] = 0
                  /\ n.servers[s] # NoInfo <=> \E b \in Addresses : n.listed[s][b] # 0
<1> DEFINE n == Retained(m, a)
<1>a. PICK s \in Secrets : s = m.addresses[a]
  OBVIOUS
<1>b. PICK kept : kept = [m.listed[s] EXCEPT ![a] = 0]
  OBVIOUS
<1>1. /\ n.listed = [m.listed EXCEPT ![s] = kept]
      /\ n.servers = [m.servers EXCEPT ![s] =
                        IF \A b \in Addresses : kept[b] = 0 THEN NoInfo ELSE @]
  BY <1>a, <1>b DEF Retained
<1>2. /\ kept \in [Addresses -> Nat] /\ kept[a] = 0
      /\ \A b \in Addresses \ {a} : kept[b] = m.listed[s][b]
  BY <1>b DEF Masters
<1>3. HasItsAddresses(m, s)
  BY DEF Served
<1>4. (\E b \in Addresses : kept[b] # 0) => m.servers[s] # NoInfo
  BY <1>2, <1>3 DEF HasItsAddresses
<1> HIDE DEF n
<1>5. /\ n.listed[s] = kept
      /\ n.servers[s] = IF \A b \in Addresses : kept[b] = 0 THEN NoInfo ELSE m.servers[s]
      /\ \A t \in Secrets \ {s} : n.servers[t] = m.servers[t] /\ n.listed[t] = m.listed[t]
  BY <1>1 DEF Masters
<1>6. Forward(m, n)
  BY <1>5 DEF Masters, Forward, NoInfo
<1> QED
  BY <1>a, <1>2, <1>4, <1>5, <1>6 DEF n

\* An address that is removed takes its server along exactly if it is the last.
LEMMA WithoutServed ==
    ASSUME NEW m \in Masters, Served(m), NEW a \in Addresses, m.addresses[a] # NoOne
    PROVE  /\ Without(m, a) \in Masters
           /\ Served(Without(m, a))
           /\ Forward(m, Without(m, a))
<1> DEFINE s == m.addresses[a]
           r == Retained(m, a)
           n == Without(m, a)
<1>1. s \in Secrets /\ s # NoOne
  BY DEF Masters
<1>2. /\ r \in Masters /\ r.addresses = m.addresses /\ Forward(m, r)
      /\ \A t \in Secrets : t # s => r.servers[t] = m.servers[t] /\ r.listed[t] = m.listed[t]
      /\ \A b \in Addresses \ {a} : r.listed[s][b] = m.listed[s][b]
      /\ r.listed[s][a] = 0
      /\ r.servers[s] # NoInfo <=> \E b \in Addresses : r.listed[s][b] # 0
  BY <1>1, RetainedFields, RetainedServes
<1> HIDE DEF r
<1>3. /\ n \in Masters
      /\ n.addresses = [m.addresses EXCEPT ![a] = NoOne]
      /\ n.servers = r.servers /\ n.listed = r.listed
  BY <1>2 DEF Without, r, Masters
<1> HIDE DEF n
<1>4. ASSUME NEW t \in Secrets PROVE HasItsAddresses(n, t)
  <2>1. HasItsAddresses(m, t)
    BY DEF Served
  <2>2. t # NoOne
    BY MasterAssumption DEF NoOne
  <2>3. \A b \in Addresses \ {a} : n.addresses[b] = m.addresses[b]
    BY <1>3 DEF Masters
  <2>4. n.addresses[a] = NoOne
    BY <1>3 DEF Masters
  <2>5. CASE t # s
    BY <1>2, <1>3, <2>1, <2>2, <2>3, <2>4, <2>5 DEF HasItsAddresses
  <2>6. CASE t = s
    BY <1>2, <1>3, <2>1, <2>2, <2>3, <2>4, <2>6 DEF HasItsAddresses
  <2> QED
    BY <2>5, <2>6
<1>5. Forward(m, n)
  BY <1>2, <1>3 DEF Forward
<1> QED
  BY <1>3, <1>4, <1>5 DEF n, Served

\* A request that is taken moves its address to its server.
LEMMA AddServed ==
    ASSUME NEW m \in Masters, Served(m), NEW a \in Addresses, NEW s \in Secrets,
           NEW sn \in Nat
    PROVE  /\ Add(m, a, s, sn) \in Masters
           /\ Served(Add(m, a, s, sn))
           /\ Forward(m, Add(m, a, s, sn))
<1> DEFINE old == m.addresses[a]
           r == Replaced(m, a, s)
           n == Add(m, a, s, sn)
<1>0. old \in Secrets \cup {NoOne} /\ s # NoOne
  BY MasterAssumption DEF Masters, NoOne
<1>1. /\ r \in Masters /\ r.addresses = m.addresses /\ Forward(m, r)
      /\ \A t \in Secrets : t # old \/ t = s =>
           r.servers[t] = m.servers[t] /\ r.listed[t] = m.listed[t]
      /\ old \in Secrets /\ old # s =>
           /\ \A b \in Addresses \ {a} : r.listed[old][b] = m.listed[old][b]
           /\ r.listed[old][a] = 0
           /\ r.servers[old] # NoInfo <=> \E b \in Addresses : r.listed[old][b] # 0
  <2>1. CASE old \in {NoOne, s}
    <3>1. r = m
      BY <2>1 DEF Replaced
    <3>2. ~(old \in Secrets /\ old # s)
      BY <2>1, MasterAssumption DEF NoOne
    <3> HIDE DEF r
    <3> QED
      BY <3>1, <3>2, ForwardReflexive
  <2>2. CASE old \notin {NoOne, s}
    <3>1. r = Retained(m, a) /\ old \in Secrets
      BY <1>0, <2>2 DEF Replaced
    <3> HIDE DEF r
    <3>2. /\ r \in Masters /\ r.addresses = m.addresses
      BY <3>1, RetainedFields
    <3>3. /\ Forward(m, r)
          /\ \A t \in Secrets : t # old =>
               r.servers[t] = m.servers[t] /\ r.listed[t] = m.listed[t]
          /\ \A b \in Addresses \ {a} : r.listed[old][b] = m.listed[old][b]
          /\ r.listed[old][a] = 0
          /\ r.servers[old] # NoInfo <=> \E b \in Addresses : r.listed[old][b] # 0
      BY <3>1, RetainedServes
    <3> QED
      BY <2>2, <3>2, <3>3
  <2> QED
    BY <2>1, <2>2
<1> HIDE DEF r
<1>2. /\ n.addresses = [m.addresses EXCEPT ![a] = s]
      /\ n.servers = [r.servers EXCEPT ![s] = Newest(sn, @)]
      /\ n.listed = IF old = s THEN r.listed ELSE [r.listed EXCEPT ![s][a] = @ + 1]
      /\ n = [addresses |-> n.addresses, servers |-> n.servers, listed |-> n.listed]
  BY <1>1 DEF Add, r
<1> HIDE DEF n
<1>3. /\ Newest(sn, r.servers[s]) \in Nat
      /\ Newest(sn, r.servers[s]) >= r.servers[s]
  BY <1>1 DEF Newest, Masters, NoInfo
<1>4. n \in Masters
  <2>1. n.addresses \in [Addresses -> Secrets \cup {NoOne}]
    BY <1>1, <1>2 DEF Masters
  <2>2. n.servers \in [Secrets -> Nat \cup {NoInfo}]
    BY <1>1, <1>2, <1>3 DEF Masters
  <2>3. n.listed \in [Secrets -> [Addresses -> Nat]]
    <3>1. r.listed \in [Secrets -> [Addresses -> Nat]]
      BY <1>1 DEF Masters
    <3>2. [r.listed[s] EXCEPT ![a] = @ + 1] \in [Addresses -> Nat]
      BY <3>1
    <3>3. [r.listed EXCEPT ![s][a] = @ + 1]
            = [r.listed EXCEPT ![s] = [r.listed[s] EXCEPT ![a] = @ + 1]]
      BY <3>1
    <3> QED
      BY <1>2, <3>1, <3>2, <3>3
  <2> QED
    BY <1>2, <2>1, <2>2, <2>3 DEF Masters
<1>5. ASSUME NEW t \in Secrets PROVE HasItsAddresses(n, t)
  <2>1. HasItsAddresses(m, t) /\ t # NoOne
    BY MasterAssumption DEF Served, NoOne
  <2>2. /\ n.addresses[a] = s
        /\ \A b \in Addresses \ {a} : n.addresses[b] = m.addresses[b]
    BY <1>2 DEF Masters
  <2>3. CASE t # s
    <3>1. n.servers[t] = r.servers[t] /\ n.listed[t] = r.listed[t]
      BY <1>1, <1>2, <2>3 DEF Masters
    <3>2. CASE t # old
      BY <1>1, <2>1, <2>2, <2>3, <3>1, <3>2 DEF HasItsAddresses
    <3>3. CASE t = old
      BY <1>1, <2>1, <2>2, <2>3, <3>1, <3>3 DEF HasItsAddresses
    <3> QED
      BY <3>2, <3>3
  <2>4. CASE t = s
    <3>1. n.servers[s] # NoInfo
      BY <1>1, <1>2, <1>3 DEF Masters, NoInfo
    <3>2. n.listed[s][a] = 1 /\ \A b \in Addresses \ {a} : n.listed[s][b] = m.listed[s][b]
      <4>1. m.listed[s][a] = IF old = s THEN 1 ELSE 0
        BY <2>1, <2>4 DEF HasItsAddresses
      <4>2. r.listed[s] = m.listed[s]
        BY <1>1
      <4>3. CASE old = s
        BY <1>2, <4>1, <4>2, <4>3
      <4>4. CASE old # s
        <5>1. n.listed[s] = [r.listed[s] EXCEPT ![a] = @ + 1]
          BY <1>1, <1>2, <4>4 DEF Masters
        <5>2. r.listed[s] \in [Addresses -> Nat]
          BY <1>1 DEF Masters
        <5> QED
          BY <4>1, <4>2, <4>4, <5>1, <5>2
      <4> QED
        BY <4>3, <4>4
    <3> QED
      BY <2>1, <2>2, <2>4, <3>1, <3>2 DEF HasItsAddresses
  <2> QED
    BY <2>3, <2>4
<1>6. Forward(m, n)
  <2>1. \A t \in Secrets : n.servers[t] # NoInfo /\ r.servers[t] # NoInfo
                             => n.servers[t] >= r.servers[t]
    BY <1>1, <1>2, <1>3 DEF Masters, NoInfo
  <2>2. ASSUME NEW t \in Secrets, m.servers[t] # NoInfo, n.servers[t] # NoInfo
        PROVE  n.servers[t] >= m.servers[t]
    <3>1. CASE t = s
      BY <1>1, <1>2, <1>3, <3>1 DEF Masters
    <3>2. CASE t # s
      <4>1. n.servers[t] = r.servers[t]
        BY <1>1, <1>2, <3>2 DEF Masters
      <4> QED
        BY <1>1, <2>2, <4>1 DEF Forward
    <3> QED
      BY <3>1, <3>2
  <2> QED
    BY <2>2 DEF Forward
<1> QED
  BY <1>4, <1>5, <1>6 DEF n, Served

\* A register request that the master takes.
RegisterRequests == [address : Addresses, secret : Secrets, serial : Nat, info : BOOLEAN,
                     token : Nat]

\* Each operation of the master keeps the addresses and infos consistent.
LEMMA MasterStep ==
    ASSUME NEW m \in Masters, Served(m)
    PROVE  /\ \A a \in Addresses, s \in Secrets :
                /\ Deleted(m, a, s) \in Masters /\ Served(Deleted(m, a, s))
                /\ Forward(m, Deleted(m, a, s))
           /\ \A challenge, r : \A a \in Addresses, s \in Secrets, sn \in Nat :
                r.address = a /\ r.secret = s /\ r.serial = sn =>
                  /\ Registered(m, challenge, r) \in Masters
                  /\ Served(Registered(m, challenge, r))
                  /\ Forward(m, Registered(m, challenge, r))
<1>1. ASSUME NEW a \in Addresses, NEW s \in Secrets
      PROVE  /\ Deleted(m, a, s) \in Masters /\ Served(Deleted(m, a, s))
             /\ Forward(m, Deleted(m, a, s))
  <2>1. s # NoOne
    BY MasterAssumption DEF NoOne
  <2> QED
    BY <2>1, WithoutServed, ForwardReflexive DEF Deleted
<1>2. ASSUME NEW a \in Addresses, NEW s \in Secrets, NEW sn \in Nat, NEW challenge, NEW r,
             r.address = a, r.secret = s, r.serial = sn
      PROVE  /\ Registered(m, challenge, r) \in Masters
             /\ Served(Registered(m, challenge, r))
             /\ Forward(m, Registered(m, challenge, r))
  BY <1>2, AddServed, ForwardReflexive DEF Registered
<1> QED
  BY <1>1, <1>2
-----------------------------------------------------------------------------
(* Types of the state.  Requests know only infos that were already made.    *)

JobsUpTo(n) ==
    [at : {"sent", "noted OK", "noted NEEDINFO"} \cup Statuses, newer : BOOLEAN, last : BOOLEAN,
     address : Protocols, secret : Secrets, serial : 0 .. n, info : BOOLEAN, token : Nat]

ProtocolStates(n) ==
    [due : BOOLEAN, answered : BOOLEAN, status : Statuses \cup {"NONE"},
     newToken : BOOLEAN, token : Nat, jobs : Seq(JobsUpTo(n))]

ServerTypes ==
    /\ secret \in Secrets /\ running \in BOOLEAN /\ enabled \subseteq Protocols
    /\ serial \in Nat /\ successful \in -1 .. serial

ProtocolTypes ==
    /\ protocol \in [Protocols -> ProtocolStates(serial)]
    /\ \A p \in Protocols : Len(protocol[p].jobs) <= left.jobs

NetworkTypes ==
    /\ strays \subseteq RegisterRequests
    /\ deletes \subseteq [address : Protocols, secret : Secrets]
    /\ tokens \subseteq [address : Protocols, token : Nat \ {NoToken}]

LimitTypes == seed \in Nat \ {0} /\ left \in Bounds

MasterInv == master \in Masters /\ Served(master)

RegisterInv == ServerTypes /\ ProtocolTypes /\ NetworkTypes /\ LimitTypes /\ MasterInv

-----------------------------------------------------------------------------
(* What the operations make of a protocol.                                 *)

LEMMA SeqOfFunction ==
    ASSUME NEW S, NEW s \in Seq(S), NEW t \in [DOMAIN s -> S]
    PROVE  t \in Seq(S) /\ Len(t) = Len(s) /\ DOMAIN t = DOMAIN s
<1>1. DOMAIN s = 1 .. Len(s) /\ Len(s) \in Nat
  BY LenProperties
<1>2. t = [i \in 1 .. Len(s) |-> t[i]] /\ \A i \in 1 .. Len(s) : t[i] \in S
  BY <1>1, Zenon
<1>3. /\ [i \in 1 .. Len(s) |-> t[i]] \in Seq(S)
      /\ Len([i \in 1 .. Len(s) |-> t[i]]) = Len(s)
  BY <1>1, <1>2
<1> QED
  BY <1>1, <1>2, <1>3, LenProperties

LEMMA MoreJobs ==
    ASSUME NEW n \in Nat
    PROVE  /\ JobsUpTo(n) \subseteq Jobs
           /\ \A m \in Nat : m >= n => JobsUpTo(n) \subseteq JobsUpTo(m)
<1>1. 0 .. n \subseteq Nat
  OBVIOUS
<1>2. ASSUME NEW m \in Nat, m >= n PROVE 0 .. n \subseteq 0 .. m
  BY <1>2
<1>3. ASSUME NEW m \in Nat, m >= n PROVE JobsUpTo(n) \subseteq JobsUpTo(m)
  BY <1>2, <1>3, Zenon DEF JobsUpTo
<1> QED
  BY <1>1, <1>3, Zenon DEF JobsUpTo, Jobs

LEMMA JobFields ==
    ASSUME NEW n, NEW j \in JobsUpTo(n), NEW b \in BOOLEAN,
           NEW at \in {"sent", "noted OK", "noted NEEDINFO"} \cup Statuses
    PROVE  /\ [j EXCEPT !.last = b] \in JobsUpTo(n)
           /\ [j EXCEPT !.newer = b] \in JobsUpTo(n)
           /\ [j EXCEPT !.at = at] \in JobsUpTo(n)
BY Zenon DEF JobsUpTo

LEMMA SendRegisterTypes ==
    ASSUME ServerTypes, NEW p \in Protocols, NEW n \in Nat, NEW r \in ProtocolStates(n)
    PROVE  /\ SendRegister(p, r, n) \in ProtocolStates(n)
           /\ Len(SendRegister(p, r, n).jobs) = Len(r.jobs) + 1
<1> DEFINE older == [i \in DOMAIN r.jobs |-> [r.jobs[i] EXCEPT !.last = FALSE]]
           new == [at |-> "sent", newer |-> TRUE, last |-> TRUE, address |-> p,
                   secret |-> secret, serial |-> n, info |-> n > successful,
                   token |-> r.token]
<1>1. r.jobs \in Seq(JobsUpTo(n)) /\ r.token \in Nat
  BY DEF ProtocolStates
<1>2. new \in JobsUpTo(n)
  <2>1. (n > successful) \in BOOLEAN /\ n \in 0 .. n
    OBVIOUS
  <2> QED
    BY <1>1, <2>1, Zenon DEF JobsUpTo, ServerTypes
<1>3. older \in Seq(JobsUpTo(n)) /\ Len(older) = Len(r.jobs)
  <2>1. \A i \in DOMAIN r.jobs : [r.jobs[i] EXCEPT !.last = FALSE] \in JobsUpTo(n)
    <3> SUFFICES ASSUME NEW i \in DOMAIN r.jobs
                 PROVE  [r.jobs[i] EXCEPT !.last = FALSE] \in JobsUpTo(n)
      OBVIOUS
    <3>1. r.jobs[i] \in JobsUpTo(n)
      BY <1>1
    <3> QED
      BY <3>1, JobFields, Zenon
  <2>2. older \in [DOMAIN r.jobs -> JobsUpTo(n)]
    BY <2>1
  <2> QED
    BY <1>1, <2>2, SeqOfFunction, Zenon
<1> HIDE DEF older, new
<1>4. Append(older, new) \in Seq(JobsUpTo(n)) /\ Len(Append(older, new)) = Len(r.jobs) + 1
  BY <1>1, <1>2, <1>3
<1>5. SendRegister(p, r, n) = [r EXCEPT !.due = FALSE, !.answered = FALSE, !.newToken = FALSE,
                                        !.jobs = Append(older, new)]
  BY DEF SendRegister, older, new
<1> QED
  BY <1>4, <1>5 DEF ProtocolStates

LEMMA CheckTypes ==
    ASSUME NEW n \in Nat, NEW r \in ProtocolStates(n)
    PROVE  /\ CheckChallengeStatus(r) \in ProtocolStates(n)
           /\ CheckChallengeStatus(r).jobs = r.jobs
BY Zenon DEF CheckChallengeStatus, ProtocolStates

LEMMA DoneTypes ==
    ASSUME NEW n \in Nat, NEW r \in ProtocolStates(n), NEW i \in DOMAIN r.jobs
    PROVE  Done(r, i) \in ProtocolStates(n) /\ Len(Done(r, i).jobs) <= Len(r.jobs)
<1> DEFINE front == SubSeq(r.jobs, 1, i - 1)
           back == SubSeq(r.jobs, i + 1, Len(r.jobs))
<1>1. r.jobs \in Seq(JobsUpTo(n)) /\ i \in 1 .. Len(r.jobs)
  BY DEF ProtocolStates
<1>2. front \in Seq(JobsUpTo(n)) /\ Len(front) = i - 1
  BY <1>1
<1>3. back \in Seq(JobsUpTo(n)) /\ Len(back) = Len(r.jobs) - i
  BY <1>1
<1>4. Done(r, i) = [r EXCEPT !.jobs = front \o back]
  BY DEF Done
<1> HIDE DEF front, back
<1>5. front \o back \in Seq(JobsUpTo(n)) /\ Len(front \o back) <= Len(r.jobs)
  BY <1>1, <1>2, <1>3
<1> QED
  BY <1>4, <1>5 DEF ProtocolStates

\* A job moves on to another stage.
LEMMA StageTypes ==
    ASSUME NEW n \in Nat, NEW r \in ProtocolStates(n), NEW i \in DOMAIN r.jobs,
           NEW at \in {"sent", "noted OK", "noted NEEDINFO"} \cup Statuses
    PROVE  /\ [r EXCEPT !.jobs[i].at = at] \in ProtocolStates(n)
           /\ Len([r EXCEPT !.jobs[i].at = at].jobs) = Len(r.jobs)
<1> DEFINE j == [r.jobs[i] EXCEPT !.at = at]
           js == [r.jobs EXCEPT ![i] = j]
<1>1. r.jobs \in Seq(JobsUpTo(n)) /\ i \in 1 .. Len(r.jobs) /\ r.jobs[i] \in JobsUpTo(n)
  <2>1. r.jobs \in Seq(JobsUpTo(n))
    BY DEF ProtocolStates
  <2> QED
    BY <2>1, LenProperties, ElementOfSeq, Zenon
<1>2. j \in JobsUpTo(n)
  BY <1>1, JobFields, Zenon
<1> HIDE DEF j
<1>3. js \in Seq(JobsUpTo(n)) /\ Len(js) = Len(r.jobs)
  BY <1>1, <1>2, ExceptSeq, Zenon
<1>4. [r EXCEPT !.jobs[i].at = at] = [r EXCEPT !.jobs = js]
  BY DEF j
<1> HIDE DEF js
<1> QED
  BY <1>3, <1>4 DEF ProtocolStates

LEMMA NotedTypes ==
    ASSUME NEW n \in Nat, NEW r \in ProtocolStates(n), NEW i \in DOMAIN r.jobs,
           r.jobs[i].at \in Statuses
    PROVE  /\ Noted(r, i) \in ProtocolStates(n)
           /\ DOMAIN Noted(r, i).jobs = DOMAIN r.jobs
           /\ Len(Noted(r, i).jobs) = Len(r.jobs)
<1> DEFINE js == [k \in DOMAIN r.jobs |->
                    IF k <= i THEN [r.jobs[k] EXCEPT !.newer = FALSE] ELSE r.jobs[k]]
<1>1. r.jobs \in Seq(JobsUpTo(n)) /\ r.jobs[i] \in JobsUpTo(n)
  <2>1. r.jobs \in Seq(JobsUpTo(n))
    BY DEF ProtocolStates
  <2> QED
    BY <2>1, LenProperties, ElementOfSeq, Zenon
<1>2. \A k \in DOMAIN r.jobs : [r.jobs[k] EXCEPT !.newer = FALSE] \in JobsUpTo(n)
  <2> SUFFICES ASSUME NEW k \in DOMAIN r.jobs
               PROVE  [r.jobs[k] EXCEPT !.newer = FALSE] \in JobsUpTo(n)
    OBVIOUS
  <2>1. r.jobs[k] \in JobsUpTo(n)
    BY <1>1
  <2> QED
    BY <2>1, JobFields
<1>3. js \in Seq(JobsUpTo(n)) /\ Len(js) = Len(r.jobs) /\ DOMAIN js = DOMAIN r.jobs
  <2>1. \A k \in DOMAIN r.jobs : r.jobs[k] \in JobsUpTo(n)
    BY <1>1, LenProperties, ElementOfSeq
  <2>2. js \in [DOMAIN r.jobs -> JobsUpTo(n)]
    BY <1>2, <2>1
  <2> QED
    BY <1>1, <2>2, SeqOfFunction, Zenon
<1> HIDE DEF js
<1>4. CASE r.jobs[i].newer
  <2>1. Noted(r, i) = [r EXCEPT !.status = r.jobs[i].at, !.answered = r.jobs[i].last, !.jobs = js]
    BY <1>4 DEF Noted, js
  <2>2. r.jobs[i].last \in BOOLEAN
    BY <1>1, Zenon DEF JobsUpTo
  <2> QED
    BY <1>3, <2>1, <2>2 DEF ProtocolStates
<1>5. CASE ~r.jobs[i].newer
  BY <1>5 DEF Noted
<1> QED
  BY <1>4, <1>5

\* A protocol that is fine stays so when newer infos are made.
LEMMA LaterTypes ==
    ASSUME NEW m \in Nat, NEW n \in Nat, m <= n
    PROVE  ProtocolStates(m) \subseteq ProtocolStates(n)
<1>1. JobsUpTo(m) \subseteq JobsUpTo(n)
  BY MoreJobs
<1>2. Seq(JobsUpTo(m)) \subseteq Seq(JobsUpTo(n))
  BY <1>1
<1> QED
  BY <1>2 DEF ProtocolStates

LEMMA RegisterInvTypes == RegisterInv => TypeOK /\ AddressesServed
<1> SUFFICES ASSUME RegisterInv PROVE TypeOK /\ AddressesServed
  OBVIOUS
<1>1. ASSUME NEW p \in Protocols
      PROVE  /\ protocol[p].due \in BOOLEAN /\ protocol[p].answered \in BOOLEAN
             /\ protocol[p].status \in Statuses \cup {"NONE"}
             /\ protocol[p].newToken \in BOOLEAN /\ protocol[p].token \in Nat
             /\ \A i \in DOMAIN protocol[p].jobs : protocol[p].jobs[i] \in Jobs
             /\ Len(protocol[p].jobs) <= left.jobs
  <2>1. protocol[p] \in ProtocolStates(serial)
    BY DEF RegisterInv, ProtocolTypes
  <2>2. protocol[p].jobs \in Seq(Jobs)
    <3>1. JobsUpTo(serial) \subseteq Jobs
      BY MoreJobs DEF RegisterInv, ServerTypes
    <3> QED
      BY <2>1, <3>1 DEF ProtocolStates
  <2> QED
    BY <2>1, <2>2 DEF RegisterInv, ProtocolTypes, ProtocolStates
<1>2. AddressesServed
  BY DEF RegisterInv, MasterInv, Served, HasItsAddresses, AddressesServed, Protocols
<1> QED
  BY <1>1, <1>2 DEF RegisterInv, ServerTypes, NetworkTypes, LimitTypes, MasterInv, Masters,
     TypeOK, Protocols


-----------------------------------------------------------------------------
(* The steps.                                                              *)

\* What is left of the bounds is still of their type.
LEMMA UsesBounds ==
    ASSUME left \in Bounds,
           NEW what \in {"starts", "infos", "seeds", "changes", "forgets", "fails"}, Uses(what)
    PROVE  left' \in Bounds /\ left'.jobs = left.jobs
BY DEF Uses, Bounds

LEMMA InitRegister == Init => RegisterInv
<1> SUFFICES ASSUME Init PROVE RegisterInv
  OBVIOUS
<1>1. Created \in ProtocolStates(0) /\ Len(Created.jobs) = 0
  BY EmptySeq DEF Created, ProtocolStates, NoToken
<1>2. left \in Bounds
  BY ScenariosAssumption DEF Init
<1>3. ServerTypes
  <2>1. secret = 1 /\ serial = 0 /\ successful = -1 /\ running = TRUE /\ enabled = left.protocols
    BY DEF Init
  <2>2. left.protocols \subseteq Protocols
    BY <1>2 DEF Bounds
  <2>3. running \in BOOLEAN
    BY <2>1, Zenon
  <2> QED
    BY <2>1, <2>2, <2>3, ScenariosAssumption DEF ServerTypes
<1>4. ProtocolTypes
  BY <1>1, <1>2 DEF Init, ProtocolTypes, Bounds
<1>5. NetworkTypes /\ LimitTypes
  BY <1>2 DEF Init, NetworkTypes, LimitTypes
<1> QED
  BY <1>3, <1>4, <1>5, NobodyServed DEF Init, RegisterInv, MasterInv

\* Sending a request of one protocol, with room for it.
LEMMA SendOne ==
    ASSUME RegisterInv, NEW p \in Protocols, NEW r \in ProtocolStates(serial),
           r.jobs = protocol[p].jobs, Room(p)
    PROVE  /\ SendRegister(p, r, serial) \in ProtocolStates(serial)
           /\ Len(SendRegister(p, r, serial).jobs) <= left.jobs
<1>1. serial \in Nat /\ left.jobs \in Nat
  BY DEF RegisterInv, ServerTypes, LimitTypes, Bounds
<1>2. Len(r.jobs) \in Nat
  BY DEF ProtocolStates
<1> QED
  BY <1>1, <1>2, SendRegisterTypes DEF Room, RegisterInv

\* A step of one protocol alone.
LEMMA OneProtocol ==
    ASSUME RegisterInv, NEW p \in Protocols, NEW r \in ProtocolStates(serial),
           Len(r.jobs) <= left.jobs, protocol' = [protocol EXCEPT ![p] = r],
           serial' = serial, left'.jobs = left.jobs
    PROVE  ProtocolTypes'
BY DEF RegisterInv, ProtocolTypes

LEMMA UpdateStep == ASSUME RegisterInv, NEW p \in Protocols, Update(p) PROVE RegisterInv'
<1> DEFINE r == CheckChallengeStatus(protocol[p])
<1>1. r \in ProtocolStates(serial) /\ r.jobs = protocol[p].jobs
  BY CheckTypes DEF RegisterInv, ProtocolTypes, ServerTypes
<1>2. /\ protocol' = [protocol EXCEPT ![p] = SendRegister(p, r, serial)] /\ Room(p)
      /\ UNCHANGED <<secret, running, enabled, global, strays, deletes, tokens, seed, master, left>>
  BY DEF Update
<1> HIDE DEF r
<1>3. ProtocolTypes'
  BY <1>1, <1>2, SendOne, OneProtocol DEF global
<1> QED
  BY <1>2, <1>3 DEF RegisterInv, ServerTypes, NetworkTypes, LimitTypes, MasterInv, global

LEMMA OnTokenStep == ASSUME RegisterInv, NEW t \in tokens, OnToken(t) PROVE RegisterInv'
<1> DEFINE p == t.address
           q == [protocol[p] EXCEPT !.newToken = TRUE, !.token = t.token]
           r == CheckChallengeStatus(q)
<1>0. t \in [address : Protocols, token : Nat \ {NoToken}]
  BY DEF RegisterInv, NetworkTypes
<1>1. p \in Protocols /\ t.token \in Nat
  BY <1>0
<1>2. q \in ProtocolStates(serial) /\ q.jobs = protocol[p].jobs
  BY <1>1, Zenon DEF RegisterInv, ProtocolTypes, ProtocolStates
<1>3. /\ protocol' = [protocol EXCEPT ![p] = IF r.due THEN SendRegister(p, r, serial) ELSE r]
      /\ r.due => Room(p)
      /\ tokens' = tokens \ {t}
      /\ UNCHANGED <<secret, running, enabled, global, strays, deletes, seed, master, left>>
  BY DEF OnToken
<1> HIDE DEF q
<1>4. r \in ProtocolStates(serial) /\ r.jobs = protocol[p].jobs
  BY <1>2, CheckTypes DEF RegisterInv, ServerTypes
<1> HIDE DEF r, p
<1>5. ProtocolTypes'
  <2>1. CASE r.due
    BY <1>1, <1>3, <1>4, <2>1, SendOne, OneProtocol DEF global
  <2>2. CASE ~r.due
    <3>1. Len(r.jobs) <= left.jobs
      BY <1>1, <1>4 DEF RegisterInv, ProtocolTypes
    <3> QED
      BY <1>1, <1>3, <1>4, <2>2, <3>1, OneProtocol DEF global
  <2> QED
    BY <2>1, <2>2
<1> QED
  BY <1>3, <1>5 DEF RegisterInv, ServerTypes, NetworkTypes, LimitTypes, MasterInv, global

LEMMA OnNewInfoStep == ASSUME RegisterInv, OnNewInfo PROVE RegisterInv'
<1>1. /\ left' \in Bounds /\ left'.jobs = left.jobs /\ left.jobs \in Nat
      /\ serial \in Nat /\ serial' = serial + 1
      /\ UNCHANGED <<secret, running, enabled, successful, strays, deletes, tokens, seed, master>>
  BY UsesBounds DEF OnNewInfo, RegisterInv, LimitTypes, ServerTypes, Bounds
<1>2. PICK now \in SUBSET enabled :
        /\ \A p \in now : Room(p)
        /\ protocol' = [p \in Protocols |-> IF p \in now THEN SendRegister(p, protocol[p], serial')
                                                         ELSE protocol[p]]
  <2>1. PICK early \in {{}} \cup {{p} : p \in enabled} :
          LET now == {p \in enabled : protocol[p].due} \cup early
          IN  /\ \A p \in now : Room(p)
              /\ protocol' = [p \in Protocols |->
                     IF p \in now THEN SendRegister(p, protocol[p], serial') ELSE protocol[p]]
    BY DEF OnNewInfo
  <2> QED
    BY <2>1
<1>3. ASSUME NEW p \in Protocols
      PROVE  protocol'[p] \in ProtocolStates(serial') /\ Len(protocol'[p].jobs) <= left.jobs
  <2>1. protocol[p] \in ProtocolStates(serial) /\ Len(protocol[p].jobs) <= left.jobs
    BY DEF RegisterInv, ProtocolTypes
  <2>2. protocol[p] \in ProtocolStates(serial') /\ Len(protocol[p].jobs) \in Nat
    <3>1. ProtocolStates(serial) \subseteq ProtocolStates(serial + 1)
      BY <1>1, LaterTypes
    <3>2. Len(protocol[p].jobs) \in Nat
      BY <2>1 DEF ProtocolStates
    <3> QED
      BY <1>1, <2>1, <3>1, <3>2
  <2>3. CASE p \in now
    <3>1. /\ SendRegister(p, protocol[p], serial') \in ProtocolStates(serial')
          /\ Len(SendRegister(p, protocol[p], serial').jobs) = Len(protocol[p].jobs) + 1
      BY <1>1, <2>2, SendRegisterTypes DEF RegisterInv
    <3>2. Len(protocol[p].jobs) < left.jobs
      BY <1>2, <2>3 DEF Room
    <3> QED
      BY <1>1, <1>2, <2>2, <2>3, <3>1, <3>2
  <2>4. CASE p \notin now
    BY <1>2, <2>1, <2>2, <2>4
  <2> QED
    BY <2>3, <2>4
<1>4. ProtocolTypes'
  BY <1>1, <1>2, <1>3 DEF ProtocolTypes
<1>5. ServerTypes'
  BY <1>1 DEF RegisterInv, ServerTypes
<1> QED
  BY <1>1, <1>4, <1>5 DEF RegisterInv, NetworkTypes, LimitTypes, MasterInv

LEMMA SendDeleteTypes ==
    ASSUME RegisterInv, NEW ps \in SUBSET Protocols, SendDelete(ps)
    PROVE  deletes' \subseteq [address : Protocols, secret : Secrets]
BY DEF SendDelete, RegisterInv, NetworkTypes, ServerTypes

\* A protocol that is not listed any more.
LEMMA NoStatus ==
    ASSUME RegisterInv, NEW p \in Protocols
    PROVE  LET r == [protocol[p] EXCEPT !.status = "NONE"]
           IN  r \in ProtocolStates(serial) /\ r.jobs = protocol[p].jobs
BY Zenon DEF RegisterInv, ProtocolTypes, ProtocolStates

LEMMA OnConfigChangeStep ==
    ASSUME RegisterInv, NEW ps \in SUBSET left.protocols, OnConfigChange(ps)
    PROVE  RegisterInv'
<1>1. left' \in Bounds /\ left'.jobs = left.jobs /\ ps \subseteq Protocols
  BY UsesBounds DEF OnConfigChange, RegisterInv, LimitTypes, Bounds
<1>2. /\ \A p \in ps \ enabled : Room(p)
      /\ enabled' = ps /\ SendDelete(enabled \ ps)
      /\ protocol' = [p \in Protocols |->
           CASE p \in ps \ enabled -> SendRegister(p, protocol[p], serial)
             [] p \in enabled \ ps -> [protocol[p] EXCEPT !.status = "NONE"]
             [] OTHER              -> protocol[p]]
      /\ UNCHANGED <<secret, running, global, strays, tokens, seed, master>>
  BY DEF OnConfigChange
<1>3. ASSUME NEW p \in Protocols
      PROVE  protocol'[p] \in ProtocolStates(serial) /\ Len(protocol'[p].jobs) <= left.jobs
  <2>1. protocol[p] \in ProtocolStates(serial) /\ Len(protocol[p].jobs) <= left.jobs
    BY DEF RegisterInv, ProtocolTypes
  <2>2. CASE p \in ps \ enabled
    BY <1>2, <2>1, <2>2, SendOne
  <2>3. CASE p \in enabled \ ps
    BY <1>2, <2>1, <2>3, NoStatus
  <2>4. CASE p \notin ps \ enabled /\ p \notin enabled \ ps
    BY <1>2, <2>1, <2>4
  <2> QED
    BY <2>2, <2>3, <2>4
<1>4. ProtocolTypes'
  BY <1>1, <1>2, <1>3 DEF ProtocolTypes, global
<1>5. enabled \ ps \in SUBSET Protocols
  BY DEF RegisterInv, ServerTypes
<1>6. ServerTypes' /\ NetworkTypes'
  BY <1>1, <1>2, <1>5, SendDeleteTypes DEF RegisterInv, ServerTypes, NetworkTypes, global
<1> QED
  BY <1>1, <1>2, <1>4, <1>6 DEF RegisterInv, LimitTypes, MasterInv

LEMMA OnShutdownStep == ASSUME RegisterInv, OnShutdown PROVE RegisterInv'
<1>1. left' \in Bounds /\ left'.jobs = left.jobs
  BY UsesBounds DEF OnShutdown, RegisterInv, LimitTypes
<1>2. /\ running' = FALSE /\ SendDelete(enabled)
      /\ protocol' = [p \in Protocols |->
           IF p \in enabled THEN [protocol[p] EXCEPT !.status = "NONE"] ELSE protocol[p]]
      /\ UNCHANGED <<secret, enabled, global, strays, tokens, seed, master>>
  BY DEF OnShutdown
<1>3. ASSUME NEW p \in Protocols
      PROVE  protocol'[p] \in ProtocolStates(serial) /\ Len(protocol'[p].jobs) <= left.jobs
  <2>1. protocol[p] \in ProtocolStates(serial) /\ Len(protocol[p].jobs) <= left.jobs
    BY DEF RegisterInv, ProtocolTypes
  <2> QED
    BY <1>2, <2>1, NoStatus
<1>4. ProtocolTypes'
  BY <1>1, <1>2, <1>3 DEF ProtocolTypes, global
<1>5. ServerTypes'
  <2>1. running' \in BOOLEAN
    BY <1>2, Zenon
  <2> QED
    BY <1>2, <2>1 DEF RegisterInv, ServerTypes, global
<1>6. NetworkTypes'
  BY <1>2, SendDeleteTypes DEF RegisterInv, ServerTypes, NetworkTypes
<1> QED
  BY <1>1, <1>2, <1>4, <1>5, <1>6 DEF RegisterInv, LimitTypes, MasterInv

LEMMA RequestTypes ==
    ASSUME NEW n \in Nat, NEW r \in ProtocolStates(n)
    PROVE  Requests(r) \subseteq RegisterRequests
<1>1. ASSUME NEW i \in DOMAIN r.jobs PROVE r.jobs[i] \in JobsUpTo(n)
  <2>1. r.jobs \in Seq(JobsUpTo(n))
    BY DEF ProtocolStates
  <2> QED
    BY <2>1, LenProperties, ElementOfSeq
<1>2. ASSUME NEW j \in JobsUpTo(n)
      PROVE  [address |-> j.address, secret |-> j.secret, serial |-> j.serial,
              info |-> j.info, token |-> j.token] \in RegisterRequests
  <2>1. j \in Jobs
    BY MoreJobs
  <2> QED
    BY <2>1, Zenon DEF Jobs, RegisterRequests, Protocols
<1> QED
  BY <1>1, <1>2 DEF Requests

LEMMA RestartStep == ASSUME RegisterInv, Restart PROVE RegisterInv'
<1>1. left' \in Bounds /\ left'.protocols \subseteq Protocols /\ left.protocols \subseteq Protocols
  BY UsesBounds DEF Restart, RegisterInv, LimitTypes, Bounds
<1>2. /\ secret' \in Secrets /\ running' = TRUE /\ enabled' = left.protocols
      /\ serial' = 0 /\ successful' = -1
      /\ strays' = strays \cup UNION {Requests(protocol[p]) : p \in Protocols}
      /\ protocol' = [p \in Protocols |-> Created]
      /\ tokens' = {}
      /\ UNCHANGED <<deletes, seed, master>>
  BY DEF Restart
<1>3. ServerTypes'
  <2>1. running' \in BOOLEAN
    BY <1>2, Zenon
  <2> QED
    BY <1>1, <1>2, <2>1 DEF ServerTypes
<1>4. ProtocolTypes'
  <2>1. Created \in ProtocolStates(0) /\ Len(Created.jobs) = 0
    BY EmptySeq DEF Created, ProtocolStates, NoToken
  <2> QED
    BY <1>1, <1>2, <2>1 DEF ProtocolTypes, Bounds
<1>5. NetworkTypes'
  <2>1. \A p \in Protocols : Requests(protocol[p]) \subseteq RegisterRequests
    BY RequestTypes DEF RegisterInv, ProtocolTypes, ServerTypes
  <2> QED
    BY <1>2, <2>1 DEF RegisterInv, NetworkTypes
<1> QED
  BY <1>1, <1>2, <1>3, <1>4, <1>5 DEF RegisterInv, LimitTypes, MasterInv

LEMMA IntervalStep == ASSUME RegisterInv, NEW p \in Protocols, Interval(p) PROVE RegisterInv'
<1> DEFINE r == [protocol[p] EXCEPT !.due = TRUE]
<1>1. /\ protocol' = [protocol EXCEPT ![p] = r]
      /\ UNCHANGED <<secret, running, enabled, global, strays, deletes, tokens, seed, master, left>>
  BY DEF Interval
<1>2. r \in ProtocolStates(serial) /\ r.jobs = protocol[p].jobs
  BY Zenon DEF RegisterInv, ProtocolTypes, ProtocolStates
<1> HIDE DEF r
<1>3. ProtocolTypes'
  BY <1>1, <1>2, OneProtocol DEF RegisterInv, ProtocolTypes, global
<1> QED
  BY <1>1, <1>3 DEF RegisterInv, ServerTypes, NetworkTypes, LimitTypes, MasterInv, global

\* A job of a protocol, and what it knows.
LEMMA JobOfProtocol ==
    ASSUME RegisterInv, NEW p \in Protocols, NEW i \in DOMAIN protocol[p].jobs
    PROVE  /\ serial \in Nat /\ protocol[p] \in ProtocolStates(serial)
           /\ Len(protocol[p].jobs) <= left.jobs
           /\ protocol[p].jobs[i] \in JobsUpTo(serial)
           /\ Len(protocol[p].jobs) \in Nat /\ left.jobs \in Nat
<1>1. /\ serial \in Nat /\ protocol[p] \in ProtocolStates(serial)
      /\ Len(protocol[p].jobs) <= left.jobs /\ left.jobs \in Nat
  BY DEF RegisterInv, ServerTypes, ProtocolTypes, LimitTypes, Bounds
<1>2. protocol[p].jobs \in Seq(JobsUpTo(serial))
  BY <1>1 DEF ProtocolStates
<1> QED
  BY <1>1, <1>2, LenProperties, ElementOfSeq

LEMMA NoteResponseStep ==
    ASSUME RegisterInv, NEW p \in Protocols, NEW i, NoteResponse(p, i)
    PROVE  RegisterInv'
<1> DEFINE r == Noted(protocol[p], i)
<1>1. i \in DOMAIN protocol[p].jobs /\ protocol[p].jobs[i].at \in Statuses
  BY DEF NoteResponse, JobAt
<1>2. UNCHANGED <<secret, running, enabled, global, strays, deletes, tokens, seed, master, left>>
  BY DEF NoteResponse
<1>3. /\ r \in ProtocolStates(serial) /\ i \in DOMAIN r.jobs
      /\ Len(r.jobs) <= left.jobs /\ Len(r.jobs) \in Nat /\ left.jobs \in Nat
  BY <1>1, JobOfProtocol, NotedTypes
<1> HIDE DEF r
<1>4. \/ protocol' = [protocol EXCEPT ![p] = Done(r, i)]
      \/ \E at \in {"noted OK", "noted NEEDINFO"} :
           protocol' = [protocol EXCEPT ![p] = [r EXCEPT !.jobs[i].at = at]]
  BY DEF NoteResponse, r
<1>5. ProtocolTypes'
  <2>1. CASE protocol' = [protocol EXCEPT ![p] = Done(r, i)]
    <3>1. Done(r, i) \in ProtocolStates(serial) /\ Len(Done(r, i).jobs) <= Len(r.jobs)
      BY <1>1, <1>3, JobOfProtocol, DoneTypes
    <3>2. Len(Done(r, i).jobs) \in Nat
      BY <3>1 DEF ProtocolStates
    <3>3. Len(Done(r, i).jobs) <= left.jobs
      BY <1>3, <3>1, <3>2
    <3> QED
      BY <1>2, <2>1, <3>1, <3>3, OneProtocol DEF global
  <2>2. ASSUME NEW at \in {"noted OK", "noted NEEDINFO"},
               protocol' = [protocol EXCEPT ![p] = [r EXCEPT !.jobs[i].at = at]]
        PROVE  ProtocolTypes'
    <3>1. /\ [r EXCEPT !.jobs[i].at = at] \in ProtocolStates(serial)
          /\ Len([r EXCEPT !.jobs[i].at = at].jobs) = Len(r.jobs)
      <4>1. serial \in Nat /\ at \in {"sent", "noted OK", "noted NEEDINFO"} \cup Statuses
        BY <1>1, JobOfProtocol
      <4> QED
        BY <1>3, <4>1, StageTypes, Zenon
    <3> QED
      BY <1>2, <1>3, <2>2, <3>1, OneProtocol DEF global
  <2> QED
    BY <1>4, <2>1, <2>2
<1> QED
  BY <1>2, <1>5 DEF RegisterInv, ServerTypes, NetworkTypes, LimitTypes, MasterInv, global

\* A job ends.
LEMMA DoneStep ==
    ASSUME RegisterInv, NEW p \in Protocols, NEW i \in DOMAIN protocol[p].jobs,
           protocol' = [protocol EXCEPT ![p] = Done(@, i)],
           serial' = serial, left'.jobs = left.jobs
    PROVE  ProtocolTypes'
<1>1. /\ Done(protocol[p], i) \in ProtocolStates(serial)
      /\ Len(Done(protocol[p], i).jobs) <= Len(protocol[p].jobs)
  BY JobOfProtocol, DoneTypes
<1>2. Len(Done(protocol[p], i).jobs) \in Nat
  BY <1>1 DEF ProtocolStates
<1>3. Len(Done(protocol[p], i).jobs) <= left.jobs
  BY <1>1, <1>2, JobOfProtocol
<1> QED
  BY <1>1, <1>3, OneProtocol

LEMMA SuccessfulBounds ==
    ASSUME NEW n \in Nat, successful \in -1 .. n, NEW k \in 0 .. n, NEW answer
    PROVE  SuccessfulAfter(answer, k) \in -1 .. n
<1>1. CASE answer = "noted OK" /\ k > successful
  <2>1. SuccessfulAfter(answer, k) = k
    BY <1>1, Zenon DEF SuccessfulAfter
  <2> QED
    BY <2>1
<1>2. CASE answer # "noted OK" /\ answer = "noted NEEDINFO" /\ k = successful
  <2>1. SuccessfulAfter(answer, k) = successful - 1
    BY <1>2, Zenon DEF SuccessfulAfter
  <2>2. successful \in 0 .. n
    BY <1>2, Zenon
  <2>3. successful - 1 \in -1 .. n
    BY <2>2
  <2> QED
    BY <2>1, <2>3
<1>3. CASE /\ ~(answer = "noted OK" /\ k > successful)
           /\ ~(answer = "noted NEEDINFO" /\ k = successful)
  <2>1. SuccessfulAfter(answer, k) = successful
    BY <1>3, Zenon DEF SuccessfulAfter
  <2> QED
    BY <2>1
<1> QED
  BY <1>1, <1>2, <1>3

LEMMA NoteSerialStep ==
    ASSUME RegisterInv, NEW p \in Protocols, NEW i, NoteSerial(p, i)
    PROVE  RegisterInv'
<1>1. i \in DOMAIN protocol[p].jobs
  BY DEF NoteSerial, JobAt
<1>2. /\ successful' = SuccessfulAfter(protocol[p].jobs[i].at, protocol[p].jobs[i].serial)
      /\ protocol' = [protocol EXCEPT ![p] = Done(@, i)]
      /\ UNCHANGED <<secret, running, enabled, serial, strays, deletes, tokens, seed, master, left>>
  BY DEF NoteSerial
<1>3. protocol[p].jobs[i].serial \in 0 .. serial
  BY <1>1, JobOfProtocol DEF JobsUpTo
<1>4. ServerTypes'
  <2>1. successful \in -1 .. serial /\ serial \in Nat
    BY DEF RegisterInv, ServerTypes
  <2>2. successful' \in -1 .. serial
    BY <1>2, <1>3, <2>1, SuccessfulBounds
  <2> QED
    BY <1>2, <2>2 DEF RegisterInv, ServerTypes
<1>5. ProtocolTypes'
  BY <1>1, <1>2, DoneStep
<1> QED
  BY <1>2, <1>4, <1>5 DEF RegisterInv, NetworkTypes, LimitTypes, MasterInv

LEMMA FailStep ==
    ASSUME RegisterInv, NEW p \in Protocols, NEW i, Fail(p, i)
    PROVE  RegisterInv'
<1>1. i \in DOMAIN protocol[p].jobs
  BY DEF Fail, JobAt
<1>2. left' \in Bounds /\ left'.jobs = left.jobs
  BY UsesBounds DEF Fail, RegisterInv, LimitTypes
<1>3. /\ protocol' = [protocol EXCEPT ![p] = Done(@, i)]
      /\ UNCHANGED <<secret, running, enabled, global, strays, deletes, tokens, seed, master>>
  BY DEF Fail
<1>4. ProtocolTypes'
  BY <1>1, <1>2, <1>3, DoneStep DEF global
<1> QED
  BY <1>2, <1>3, <1>4 DEF RegisterInv, ServerTypes, NetworkTypes, LimitTypes, MasterInv, global

-----------------------------------------------------------------------------
(* The steps of the master and the network.                                *)

LEMMA HandleRegisterStep ==
    ASSUME RegisterInv, NEW p \in Protocols, NEW i, HandleRegister(p, i)
    PROVE  RegisterInv' /\ Forward(master, master')
<1> DEFINE j == protocol[p].jobs[i]
           at == Answer(master, seed, j)
           r == [protocol[p] EXCEPT !.jobs[i].at = at]
<1>1. /\ i \in DOMAIN protocol[p].jobs
      /\ master' = Registered(master, seed, j)
      /\ protocol' = [protocol EXCEPT ![p].jobs[i].at = at]
      /\ tokens' = IF ShouldSendChallenge(j.token, seed)
                   THEN tokens \cup {[address |-> p, token |-> seed]} ELSE tokens
      /\ UNCHANGED <<secret, running, enabled, global, strays, deletes, seed, left>>
  BY DEF HandleRegister, JobAt
<1>2. j \in JobsUpTo(serial) /\ serial \in Nat
  BY <1>1, JobOfProtocol
<1>3. j.address \in Addresses /\ j.secret \in Secrets /\ j.serial \in Nat
  <2>1. j \in Jobs
    BY <1>2, MoreJobs
  <2> QED
    BY <2>1 DEF Jobs, Protocols
<1>4. master' \in Masters /\ Served(master') /\ Forward(master, master')
  BY <1>1, <1>3, MasterStep DEF RegisterInv, MasterInv
<1>5. at \in {"sent", "noted OK", "noted NEEDINFO"} \cup Statuses
  BY DEF Answer, Statuses
<1>6. protocol' = [protocol EXCEPT ![p] = r]
  BY <1>1 DEF RegisterInv, ProtocolTypes
<1> HIDE DEF at
<1>7. r \in ProtocolStates(serial) /\ Len(r.jobs) = Len(protocol[p].jobs)
  BY <1>1, <1>5, JobOfProtocol, StageTypes
<1> HIDE DEF r, j
<1>8. ProtocolTypes'
  BY <1>1, <1>6, <1>7, OneProtocol, JobOfProtocol DEF global
<1>9. NetworkTypes'
  BY <1>1 DEF RegisterInv, NetworkTypes, LimitTypes, NoToken
<1> QED
  BY <1>1, <1>4, <1>8, <1>9 DEF RegisterInv, ServerTypes, LimitTypes, MasterInv, global

\* Steps of the master that leave the game server alone.
LEMMA MasterOnly ==
    ASSUME RegisterInv, NetworkTypes', LimitTypes', left'.jobs = left.jobs,
           master' \in Masters, Served(master'),
           UNCHANGED <<secret, running, enabled, global, protocol>>
    PROVE  RegisterInv'
BY DEF RegisterInv, ServerTypes, ProtocolTypes, MasterInv, global

LEMMA HandleStrayStep ==
    ASSUME RegisterInv, NEW r \in strays, HandleStray(r)
    PROVE  RegisterInv' /\ Forward(master, master')
<1>1. r.address \in Addresses /\ r.secret \in Secrets /\ r.serial \in Nat
  BY DEF RegisterInv, NetworkTypes, RegisterRequests
<1>2. master' \in Masters /\ Served(master') /\ Forward(master, master')
  BY <1>1, MasterStep DEF HandleStray, RegisterInv, MasterInv
<1>3. NetworkTypes' /\ LimitTypes'
  BY DEF HandleStray, RegisterInv, NetworkTypes, LimitTypes
<1> QED
  BY <1>2, <1>3, MasterOnly DEF HandleStray

LEMMA HandleDeleteStep ==
    ASSUME RegisterInv, NEW d \in deletes, HandleDelete(d)
    PROVE  RegisterInv' /\ Forward(master, master')
<1>1. d.address \in Addresses /\ d.secret \in Secrets
  BY DEF RegisterInv, NetworkTypes, Protocols
<1>2. master' \in Masters /\ Served(master') /\ Forward(master, master')
  BY <1>1, MasterStep DEF HandleDelete, RegisterInv, MasterInv
<1>3. NetworkTypes' /\ LimitTypes'
  BY DEF HandleDelete, RegisterInv, NetworkTypes, LimitTypes
<1> QED
  BY <1>2, <1>3, MasterOnly DEF HandleDelete

LEMMA ForgetStep ==
    ASSUME RegisterInv, NEW p \in Protocols, Forget(p) \/ Prune(p)
    PROVE  RegisterInv' /\ Forward(master, master')
<1>1. master' \in Masters /\ Served(master') /\ Forward(master, master')
  BY WithoutServed DEF Forget, Prune, RegisterInv, MasterInv, Protocols
<1>2. left' \in Bounds /\ left'.jobs = left.jobs
  BY UsesBounds DEF Forget, Prune, RegisterInv, LimitTypes
<1>3. NetworkTypes' /\ LimitTypes'
  BY <1>2 DEF Forget, Prune, RegisterInv, NetworkTypes, LimitTypes
<1> QED
  BY <1>1, <1>2, <1>3, MasterOnly DEF Forget, Prune

LEMMA LoseStep == ASSUME RegisterInv, Lose \/ Reseed PROVE RegisterInv'
<1>1. left' \in Bounds /\ left'.jobs = left.jobs
  BY UsesBounds DEF Lose, Reseed, RegisterInv, LimitTypes
<1>2. NetworkTypes' /\ LimitTypes'
  BY <1>1 DEF Lose, Reseed, RegisterInv, NetworkTypes, LimitTypes
<1>3. master' \in Masters /\ Served(master')
  BY DEF Lose, Reseed, RegisterInv, MasterInv
<1> QED
  BY <1>1, <1>2, <1>3, MasterOnly DEF Lose, Reseed

-----------------------------------------------------------------------------
LEMMA NextRegister == ASSUME RegisterInv, [Next]_vars PROVE RegisterInv' /\ Forward(master, master')
<1>1. CASE UNCHANGED vars
  <2>1. RegisterInv'
    BY <1>1 DEF vars, global, RegisterInv, ServerTypes, ProtocolTypes, NetworkTypes, LimitTypes,
       MasterInv
  <2>2. master' = master
    BY <1>1 DEF vars
  <2> QED
    BY <2>1, <2>2, ForwardReflexive DEF RegisterInv, MasterInv
<1>2. ASSUME NEW p \in Protocols, Update(p) \/ Interval(p) PROVE RegisterInv' /\ master' = master
  BY <1>2, UpdateStep, IntervalStep DEF Update, Interval
<1>3. ASSUME NEW t \in tokens, OnToken(t) PROVE RegisterInv' /\ master' = master
  BY <1>3, OnTokenStep DEF OnToken
<1>4. CASE OnNewInfo \/ OnShutdown \/ Restart
  BY <1>4, OnNewInfoStep, OnShutdownStep, RestartStep, ForwardReflexive
     DEF OnNewInfo, OnShutdown, Restart, RegisterInv, MasterInv
<1>5. ASSUME NEW ps \in SUBSET left.protocols, OnConfigChange(ps)
      PROVE  RegisterInv' /\ master' = master
  BY <1>5, OnConfigChangeStep DEF OnConfigChange
<1>6. ASSUME NEW p \in Protocols, NEW i, NoteResponse(p, i) \/ NoteSerial(p, i) \/ Fail(p, i)
      PROVE  RegisterInv' /\ master' = master
  BY <1>6, NoteResponseStep, NoteSerialStep, FailStep DEF NoteResponse, NoteSerial, Fail
<1>7. CASE Lose \/ Reseed
  BY <1>7, LoseStep, ForwardReflexive DEF Lose, Reseed, RegisterInv, MasterInv
<1>8. ASSUME master' = master PROVE Forward(master, master')
  BY <1>8, ForwardReflexive DEF RegisterInv, MasterInv
<1>9. ASSUME NEW p \in Protocols, NEW i, JobGoesOn(p, i) \/ Fail(p, i)
      PROVE  RegisterInv' /\ Forward(master, master')
  BY <1>6, <1>8, <1>9, HandleRegisterStep DEF JobGoesOn
<1> QED
  BY <1>1, <1>2, <1>3, <1>4, <1>5, <1>7, <1>8, <1>9, ForgetStep, HandleStrayStep,
     HandleDeleteStep DEF Next

\* RegisterInv: types of the protocols, of the requests under way and of the
\* challenges, and a master whose addresses agree, whatever is lost, overtaken,
\* disabled or restarted (register.cpp, main.rs).
THEOREM RegisterInvariant == Spec => []RegisterInv
<1>1. RegisterInv /\ [Next]_vars => RegisterInv'
  BY NextRegister
<1> QED
  BY <1>1, InitRegister, PTL DEF Spec

\* The variables have their types: the serial that the game server believes
\* known never falls below -1 nor exceeds its own (register.cpp:476).
THEOREM RegisterTypes == Spec => []TypeOK
BY RegisterInvariant, RegisterInvTypes, PTL

\* The addresses of the master and of its servers agree whatever requests, deletes
\* and timeouts come in whatever order, so that its unwraps and asserts never fail
\* (main.rs:393, 403, 413, 434).
THEOREM MasterIsConsistent == Spec => []AddressesServed
BY RegisterInvariant, RegisterInvTypes, PTL

\* No request that was overtaken replaces an info by an older one (main.rs:416).
THEOREM InfosGoForward == Spec => InfoForward
<1>1. RegisterInv /\ [Next]_vars =>
        [\A s \in Secrets : master.servers[s] # NoInfo /\ master'.servers[s] # NoInfo
                              => master'.servers[s] >= master.servers[s]]_vars
  BY NextRegister DEF Forward
<1> QED
  BY <1>1, RegisterInvariant, PTL DEF Spec, InfoForward
=============================================================================
