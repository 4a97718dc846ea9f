------------------------------ MODULE Register ------------------------------
(***************************************************************************)
(* A game server keeps itself listed at the master server                  *)
(* (engine/server/register.cpp).  The main thread sends register requests, *)
(* one at a time per protocol or more when answers are late; each is a job *)
(* of the job pool that waits for the answer and notes it under two locks. *)
(* The master proves the address with a challenge that it sends by UDP.    *)
(* Requests, answers and challenges are lost and overtake each other, the  *)
(* master forgets, both programs restart.                                  *)
(*                                                                         *)
(* Time is abstract: due says that time_get() >= m_NextRegister, and comes *)
(* true at any moment.                                                     *)
(***************************************************************************)
EXTENDS MasterServer, Sequences, FiniteSets

CONSTANT Scenarios  \* what a behaviour may still do, see below

Protocols == Addresses

\* The bounds of a behaviour.
Bounds == [protocols : SUBSET Protocols,  \* the protocols that are used
           jobs      : Nat,               \* requests under way of a protocol
           starts    : Nat,               \* starts of the process again
           infos     : Nat,               \* changes of the info
           seeds     : Nat,               \* changes of the seed of the master
           changes   : Nat,               \* changes of sv_register, and OnShutdown
           forgets   : Nat,               \* entries that the master forgets too early
           fails     : Nat]               \* exchanges and challenges that fail
ASSUME ScenariosAssumption == Scenarios \subseteq Bounds /\ 1 \in Secrets

Statuses  == {"OK", "NEEDCHALLENGE", "NEEDINFO"}

VARIABLES
    secret,      \* m_Secret, one for each start of the process
    running,     \* OnShutdown was not called yet
    enabled,     \* m_aProtocolEnabled
    serial,      \* m_InfoSerial
    successful,  \* m_LatestSuccessfulInfoSerial
    protocol,    \* per protocol, the fields of CProtocol and CShared, and its jobs
    strays,      \* register requests of a process that is gone
    deletes,     \* delete requests under way
    tokens,      \* challenge packets under way
    seed,        \* the seed of the master
    master,      \* its addresses and servers
    left         \* what is left of the bounds

global == <<serial, successful>>
vars == <<secret, running, enabled, global, protocol, strays, deletes, tokens, seed, master, left>>

\* m_LatestResponseIndex = m_NumTotalRequests - 1 is kept as answered; a job
\* knows whether its index is above m_LatestResponseIndex (newer) and whether
\* it is the last one that was given (last).
Created == [due |-> TRUE, answered |-> TRUE, status |-> "NONE", newToken |-> FALSE,
            token |-> NoToken, jobs |-> <<>>]

Init ==
    /\ left \in Scenarios
    /\ secret = 1 /\ running = TRUE /\ enabled = left.protocols
    /\ serial = 0 /\ successful = -1
    /\ protocol = [p \in Protocols |-> Created]
    /\ strays = {} /\ deletes = {} /\ tokens = {}
    /\ seed = 1 /\ master = Nobody
-----------------------------------------------------------------------------
(* The main thread of the game server.                                     *)

\* SendRegister of a protocol r, with the info if it is newer than what the
\* master is known to have.
SendRegister(p, r, ser) ==
    [r EXCEPT !.due = FALSE, !.answered = FALSE, !.newToken = FALSE,
              !.jobs = Append([i \in DOMAIN @ |-> [@[i] EXCEPT !.last = FALSE]],
                              [at |-> "sent", newer |-> TRUE, last |-> TRUE,
                               address |-> p, secret |-> secret, serial |-> ser,
                               info |-> ser > successful, token |-> r.token])]

\* CheckChallengeStatus: the latest answer asks for another request.
CheckChallengeStatus(r) ==
    [r EXCEPT !.due = \/ @
                      \/ /\ r.answered
                         /\ \/ r.status = "NEEDCHALLENGE" /\ r.newToken
                            \/ r.status = "NEEDINFO"]

Uses(what) == left[what] > 0 /\ left' = [left EXCEPT ![what] = @ - 1]

Room(p) == Len(protocol[p].jobs) < left.jobs

\* Update, for one of the protocols that its loop passes.
Update(p) ==
    LET r == CheckChallengeStatus(protocol[p])
    IN  /\ running /\ p \in enabled /\ r.due /\ Room(p)
        /\ protocol' = [protocol EXCEPT ![p] = SendRegister(p, r, serial)]
        /\ UNCHANGED <<secret, running, enabled, global, strays, deletes, tokens, seed, master, left>>

\* OnPacket with a challenge, whether the protocol is enabled or not.
OnToken(t) ==
    LET p == t.address
        r == CheckChallengeStatus([protocol[p] EXCEPT !.newToken = TRUE, !.token = t.token])
    IN  /\ running /\ (r.due => Room(p))
        /\ protocol' = [protocol EXCEPT ![p] = IF r.due THEN SendRegister(p, r, serial) ELSE r]
        /\ tokens' = tokens \ {t}
        /\ UNCHANGED <<secret, running, enabled, global, strays, deletes, seed, master, left>>

\* OnNewInfo: one of the protocols may be due earlier than it was.
OnNewInfo ==
    /\ running /\ Uses("infos")
    /\ serial' = serial + 1
    /\ \E early \in {{}} \cup {{p} : p \in enabled} :
         LET now == {p \in enabled : protocol[p].due} \cup early
         IN  /\ \A p \in now : Room(p)
             /\ protocol' = [p \in Protocols |->
                    IF p \in now THEN SendRegister(p, protocol[p], serial') ELSE protocol[p]]
    /\ UNCHANGED <<secret, running, enabled, successful, strays, deletes, tokens, seed, master>>

\* SendDeleteIfRegistered for the protocols ps.
SendDelete(ps) ==
    /\ deletes' = deletes \cup {[address |-> p, secret |-> secret] :
                                   p \in {q \in ps : protocol[q].status = "OK"}}

\* OnConfigChange
OnConfigChange(ps) ==
    /\ running /\ ps # enabled /\ Uses("changes")
    /\ \A p \in ps \ enabled : Room(p)
    /\ enabled' = ps
    /\ SendDelete(enabled \ ps)
    /\ protocol' = [p \in Protocols |->
           CASE p \in ps \ enabled -> SendRegister(p, protocol[p], serial)
             [] p \in enabled \ ps -> [protocol[p] EXCEPT !.status = "NONE"]
             [] OTHER              -> protocol[p]]
    /\ UNCHANGED <<secret, running, global, strays, tokens, seed, master>>

\* OnShutdown; the jobs go on until they have their answers.
OnShutdown ==
    /\ running /\ Uses("changes")
    /\ running' = FALSE
    /\ SendDelete(enabled)
    /\ protocol' = [p \in Protocols |->
           IF p \in enabled THEN [protocol[p] EXCEPT !.status = "NONE"] ELSE protocol[p]]
    /\ UNCHANGED <<secret, enabled, global, strays, tokens, seed, master>>

\* The process starts again, after an orderly end or a crash.  Challenges for
\* the old one do not have the prefix that the new one looks for.
Requests(r) == {[address |-> j.address, secret |-> j.secret, serial |-> j.serial,
                 info |-> j.info, token |-> j.token] :
                   j \in {r.jobs[i] : i \in {i \in DOMAIN r.jobs : r.jobs[i].at = "sent"}}}
Restart ==
    /\ secret + 1 \in Secrets /\ Uses("starts")
    /\ secret' = secret + 1 /\ running' = TRUE /\ enabled' = left.protocols
    /\ serial' = 0 /\ successful' = -1
    /\ strays' = strays \cup UNION {Requests(protocol[p]) : p \in Protocols}
    /\ protocol' = [p \in Protocols |-> Created]
    /\ tokens' = {}
    /\ UNCHANGED <<deletes, seed, master>>

\* Fifteen seconds after the last request.
Interval(p) ==
    /\ running /\ ~protocol[p].due
    /\ protocol' = [protocol EXCEPT ![p].due = TRUE]
    /\ UNCHANGED <<secret, running, enabled, global, strays, deletes, tokens, seed, master, left>>
-----------------------------------------------------------------------------
(* The jobs.                                                               *)

JobAt(p, i, stages) == i \in DOMAIN protocol[p].jobs /\ protocol[p].jobs[i].at \in stages
Done(r, i) == [r EXCEPT !.jobs = SubSeq(@, 1, i - 1) \o SubSeq(@, i + 1, Len(@))]

\* The status and the index of the answer, under the lock of the protocol.
Noted(r, i) ==
    IF ~r.jobs[i].newer THEN r
    ELSE [r EXCEPT !.status = r.jobs[i].at, !.answered = r.jobs[i].last,
                   !.jobs = [k \in DOMAIN @ |-> IF k <= i THEN [@[k] EXCEPT !.newer = FALSE] ELSE @[k]]]

NoteResponse(p, i) ==
    /\ JobAt(p, i, Statuses)
    /\ LET answer == protocol[p].jobs[i].at
           r      == Noted(protocol[p], i)
       IN  protocol' = [protocol EXCEPT ![p] =
               IF answer = "NEEDCHALLENGE" THEN Done(r, i)
               ELSE [r EXCEPT !.jobs[i].at = IF answer = "OK" THEN "noted OK" ELSE "noted NEEDINFO"]]
    /\ UNCHANGED <<secret, running, enabled, global, strays, deletes, tokens, seed, master, left>>

\* What an answer says of the info with the serial s, under the global lock.
SuccessfulNeverBack(answer, s) ==                \* mutant: NEEDINFO is not noted
    IF answer = "noted OK" /\ s > successful THEN s ELSE successful

SuccessfulAfter(answer, s) ==
    CASE answer = "noted OK" /\ s > successful       -> s
      [] answer = "noted NEEDINFO" /\ s = successful -> successful - 1
      [] OTHER                                       -> successful

NoteSerial(p, i) ==
    /\ JobAt(p, i, {"noted OK", "noted NEEDINFO"})
    /\ successful' = SuccessfulAfter(protocol[p].jobs[i].at, protocol[p].jobs[i].serial)
    /\ protocol' = [protocol EXCEPT ![p] = Done(@, i)]
    /\ UNCHANGED <<secret, running, enabled, serial, strays, deletes, tokens, seed, master, left>>

\* No answer, or none that makes sense.
Fail(p, i) ==
    /\ JobAt(p, i, {"sent"} \cup Statuses) /\ Uses("fails")
    /\ protocol' = [protocol EXCEPT ![p] = Done(@, i)]
    /\ UNCHANGED <<secret, running, enabled, global, strays, deletes, tokens, seed, master>>
-----------------------------------------------------------------------------
(* The master and the network.                                             *)

HandleRegister(p, i) ==
    /\ JobAt(p, i, {"sent"})
    /\ LET r == protocol[p].jobs[i]
       IN  /\ master' = Registered(master, seed, r)
           /\ protocol' = [protocol EXCEPT ![p].jobs[i].at = Answer(master, seed, r)]
           /\ tokens' = IF ShouldSendChallenge(r.token, seed)
                        THEN tokens \cup {[address |-> p, token |-> seed]} ELSE tokens
    /\ UNCHANGED <<secret, running, enabled, global, strays, deletes, seed, left>>

JobGoesOn(p, i) == HandleRegister(p, i) \/ NoteResponse(p, i) \/ NoteSerial(p, i)

HandleStray(r) ==
    /\ master' = Registered(master, seed, r)
    /\ strays' = strays \ {r}
    /\ UNCHANGED <<secret, running, enabled, global, protocol, deletes, tokens, seed, left>>

HandleDelete(d) ==
    /\ master' = Deleted(master, d.address, d.secret)
    /\ deletes' = deletes \ {d}
    /\ UNCHANGED <<secret, running, enabled, global, protocol, strays, tokens, seed, left>>

Lose ==
    /\ Uses("fails")
    /\ \/ \E t \in tokens : tokens' = tokens \ {t} /\ UNCHANGED <<strays, deletes>>
       \/ \E r \in strays : strays' = strays \ {r} /\ UNCHANGED <<tokens, deletes>>
       \/ \E d \in deletes : deletes' = deletes \ {d} /\ UNCHANGED <<tokens, strays>>
    /\ UNCHANGED <<secret, running, enabled, global, protocol, seed, master>>

Reseed ==
    /\ Uses("seeds")
    /\ seed' = seed + 1
    /\ UNCHANGED <<secret, running, enabled, global, protocol, strays, deletes, tokens, master>>

\* An entry times out although its server goes on.
Forget(p) ==
    /\ master.addresses[p] # NoOne /\ Uses("forgets")
    /\ master' = Without(master, p)
    /\ UNCHANGED <<secret, running, enabled, global, protocol, strays, deletes, tokens, seed>>

\* No request refreshes the entry any more.
Abandoned(p) == /\ ~running \/ p \notin enabled \/ master.addresses[p] # secret
                /\ \A i \in DOMAIN protocol[p].jobs : protocol[p].jobs[i].at # "sent"
                /\ \A r \in strays : r.address # p

PruneCopy(p) == UNCHANGED vars                  \* mutant: only what is written to servers.json

\* prune_before, thirty seconds later.
Prune(p) ==
    /\ master.addresses[p] # NoOne /\ Abandoned(p)
    /\ master' = Without(master, p)
    /\ UNCHANGED <<secret, running, enabled, global, protocol, strays, deletes, tokens, seed, left>>

Next ==
    \/ \E p \in Protocols : Update(p) \/ Interval(p) \/ Forget(p) \/ Prune(p)
    \/ \E t \in tokens : OnToken(t)
    \/ OnNewInfo \/ OnShutdown \/ Restart
    \/ \E ps \in SUBSET left.protocols : OnConfigChange(ps)
    \/ \E p \in Protocols : \E i \in 1 .. left.jobs : JobGoesOn(p, i) \/ Fail(p, i)
    \/ \E r \in strays : HandleStray(r)
    \/ \E d \in deletes : HandleDelete(d)
    \/ Lose \/ Reseed

Spec == Init /\ [][Next]_vars

\* The main loop, the timers, the network and the master go on, and the workers
\* with the oldest job of a protocol.
\* The bound on the requests under way holds a challenge up now and then, so
\* its arrival needs strong fairness.
Fairness ==
    /\ \A p \in Protocols : WF_vars(Update(p)) /\ WF_vars(Interval(p)) /\ WF_vars(Prune(p))
                           /\ WF_vars(JobGoesOn(p, 1))
    /\ \A p \in Protocols : SF_vars(\E t \in tokens : t.address = p /\ OnToken(t))
    /\ WF_vars(\E r \in strays : HandleStray(r))
    /\ WF_vars(\E d \in deletes : HandleDelete(d))

FairSpec == Spec /\ Fairness
-----------------------------------------------------------------------------
(* Properties.                                                             *)

Jobs == [at : {"sent", "noted OK", "noted NEEDINFO"} \cup Statuses, newer : BOOLEAN, last : BOOLEAN,
         address : Protocols, secret : Secrets, serial : Nat, info : BOOLEAN, token : Nat]

\* Types; a serial below -1 would make the next process of NEEDINFO fail.
TypeOK ==
    /\ secret \in Secrets /\ running \in BOOLEAN /\ enabled \subseteq Protocols
    /\ serial \in Nat /\ successful \in -1 .. serial
    /\ \A p \in Protocols :
         /\ protocol[p].due \in BOOLEAN /\ protocol[p].answered \in BOOLEAN
         /\ protocol[p].status \in Statuses \cup {"NONE"}
         /\ protocol[p].newToken \in BOOLEAN /\ protocol[p].token \in Nat
         /\ \A i \in DOMAIN protocol[p].jobs : protocol[p].jobs[i] \in Jobs
         /\ Len(protocol[p].jobs) <= left.jobs
    /\ deletes \subseteq [address : Protocols, secret : Secrets]
    /\ tokens \subseteq [address : Protocols, token : Nat \ {NoToken}]
    /\ seed \in Nat \ {0} /\ left \in Bounds
    /\ master \in [addresses : [Protocols -> Secrets \cup {NoOne}],
                   servers : [Secrets -> Nat \cup {NoInfo}],
                   listed : [Secrets -> [Protocols -> Nat]]]

\* The map of addresses and the addresses that each server keeps agree, so that
\* none of the unwraps and asserts of the master fails: a server has each of its
\* addresses once and no other, and is there as long as it has one
\* (main.rs:393, 403, 413, 434, 453).
AddressesServed ==
    \A s \in Secrets :
      /\ \A p \in Protocols :
           master.listed[s][p] = IF master.addresses[p] = s THEN 1 ELSE 0
      /\ master.servers[s] # NoInfo <=> \E p \in Protocols : master.listed[s][p] # 0

\* As long as the master knows a server, its info is never replaced by an
\* older one, although requests overtake each other on the jobs (main.rs:416).
InfoForward ==
    [][\A s \in Secrets :
         master.servers[s] # NoInfo /\ master'.servers[s] # NoInfo
           => master'.servers[s] >= master.servers[s]]_vars

\* When faults and changes have ended, each enabled protocol gets and stays
\* listed with the latest info: the challenge and the shared serial of the
\* four protocols never leave it waiting (register.cpp:375, 495).
StaysListed ==
    \A p \in Protocols :
      <>[](running /\ p \in enabled =>
             master.addresses[p] = secret /\ master.servers[secret] = serial)

\* A protocol that was disabled, or a server that was shut down, leaves the
\* list, although register requests overtake the delete (register.cpp:333).
GetsUnlisted ==
    \A p \in Protocols :
      <>[](~running \/ p \notin enabled => master.addresses[p] # secret)
=============================================================================
