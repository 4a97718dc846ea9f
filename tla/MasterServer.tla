---------------------------- MODULE MasterServer ----------------------------
(***************************************************************************)
(* What the master server (src/mastersrv/src/main.rs) keeps of the servers *)
(* that register: per address the secret of the server that last           *)
(* registered it, and per secret the serial of the newest info and the     *)
(* addresses of the server, which is forgotten with the last of them.      *)
(* Each operation runs under the lock of Servers.  Dumps of other masters  *)
(* only go into a copy of it and are left out; the challenge for an        *)
(* address is the seed it is hashed from.                                  *)
(***************************************************************************)
EXTENDS Integers

CONSTANTS Addresses, Secrets
ASSUME MasterAssumption == Secrets \subseteq Nat \ {0}

NoOne   == 0     \* no secret
NoInfo  == -1    \* a secret that is not in Servers.servers
NoToken == 0     \* no challenge token; a seed is a positive number

\* listed is the Vec of each server: how often an address is in it.
Nobody == [addresses |-> [a \in Addresses |-> NoOne],
           servers   |-> [s \in Secrets |-> NoInfo],
           listed    |-> [s \in Secrets |-> [a \in Addresses |-> 0]]]

\* The server of an address keeps the others (retain), and goes with the last.
Retained(m, a) ==
    LET s    == m.addresses[a]
        kept == [m.listed[s] EXCEPT ![a] = 0]
    IN  [addresses |-> m.addresses,
         servers   |-> [m.servers EXCEPT ![s] =
                          IF \A b \in Addresses : kept[b] = 0 THEN NoInfo ELSE @],
         listed    |-> [m.listed EXCEPT ![s] = kept]]

\* A known address goes: remove, prune_before.
Without(m, a) == [Retained(m, a) EXCEPT !.addresses[a] = NoOne]

ReplacedOnly(m, a, s) == m                       \* mutant: keeps the old server

\* An address that changes its server leaves the old one.
Replaced(m, a, s) == IF m.addresses[a] \in {NoOne, s} THEN m ELSE Retained(m, a)

NewestInfo(serial, old) == serial                \* mutant: takes any info

Newest(serial, old) == IF serial > old THEN serial ELSE old

\* Servers::add, when it does not need the info or has it.  The address is pushed
\* into the Vec, or makes a new one, unless it was of this server before.
Add(m, a, s, serial) ==
    LET r == Replaced(m, a, s)
    IN  [addresses |-> [r.addresses EXCEPT ![a] = s],
         servers   |-> [r.servers EXCEPT ![s] = Newest(serial, @)],
         listed    |-> IF m.addresses[a] = s THEN r.listed
                       ELSE [r.listed EXCEPT ![s][a] = @ + 1]]

CorrectChallenge(token, seed) == token # NoToken /\ token \in {seed, seed - 1}
ShouldSendChallenge(token, seed) == token # seed

\* The answer of handle_register to a request.
Answer(m, seed, r) ==
    IF ~CorrectChallenge(r.token, seed) THEN "NEEDCHALLENGE"
    ELSE IF r.serial > m.servers[r.secret] /\ ~r.info THEN "NEEDINFO" ELSE "OK"

\* handle_register
Registered(m, seed, r) ==
    IF Answer(m, seed, r) = "OK" THEN Add(m, r.address, r.secret, r.serial) ELSE m

\* handle_delete
Deleted(m, a, s) == IF m.addresses[a] = s THEN Without(m, a) ELSE m
=============================================================================
