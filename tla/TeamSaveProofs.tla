--------------------------- MODULE TeamSaveProofs ---------------------------
(***************************************************************************)
(* Proofs about TeamSave for any servers, players, codes and numbers of    *)
(* saves and loads.                                                        *)
(***************************************************************************)
EXTENDS TeamSave, FiniteSetTheorems, SequenceTheorems, TLAPS

Codes == {Generated(id) : id \in RequestId} \cup {User(u) : u \in UserCodes}
AllSeats == UNION {[ns -> Clients] : ns \in SUBSET Names}
SaveSteps == {"backup", "normal", "retry", "failed", "moved", "succeeded", "done", "killed"}
LoadSteps == {"normal", "delete", "failed", "fileDelete", "done", "killed"}
SaveStatus == {"SAVE_FAILED", "SAVE_SUCCESS"}
LoadStatus == {"LOAD_FAILED", "LOAD_SUCCESS"}

Requests == [server : Servers, kind : {"save", "load"}, code : Codes,
             save : RequestId \cup {None}, seats : AllSeats,
             status : SaveStatus \cup LoadStatus, step : SaveSteps \cup LoadSteps]

IsSave(n) == n \in DOMAIN requests /\ requests[n].kind = "save"
OfKind(kind) == {id \in DOMAIN requests : requests[id].kind = kind}

\* What a request can be: a save is named by itself, a load has found none or
\* a save, and has an answer for the team only when it is done.
RequestInv ==
    /\ requests \in Seq(Requests)
    /\ Cardinality(OfKind("save")) <= MaxSaves /\ Cardinality(OfKind("load")) <= MaxLoads
    /\ \A id \in DOMAIN requests : requests[id].kind = "save" =>
         /\ requests[id].save = id
         /\ requests[id].step \in SaveSteps /\ requests[id].status \in SaveStatus
         /\ \A k \in RequestId : requests[id].code = Generated(k) => k = id
         /\ requests[id].step = "backup" => requests[id].status = "SAVE_FAILED"
    /\ \A id \in DOMAIN requests : requests[id].kind = "load" =>
         /\ requests[id].step \in LoadSteps /\ requests[id].status \in LoadStatus
         /\ requests[id].save # None => IsSave(requests[id].save)
         /\ requests[id].status = "LOAD_SUCCESS" =>
               requests[id].step = "done" /\ requests[id].save # None

GameTypes ==
    /\ who \in [Clients -> Names \cup {NoName}]
    /\ inTeam \in [Clients -> BOOLEAN]
    /\ tee \in [Clients -> RequestId \cup {None}]
    /\ teamState \in [Servers -> {"EMPTY", "OPEN", "STARTED", "FINISHED"}]
    /\ result \in [Servers -> DOMAIN requests \cup {None}]

TableTypes ==
    /\ mainSaves \subseteq Rows
    /\ fileSaves \in [Servers -> SUBSET Rows]
    /\ backupSaves \in [Servers -> SUBSET Rows]
    /\ \A row \in mainSaves : IsSave(row.save)
    /\ \A s \in Servers : \A row \in fileSaves[s] \cup backupSaves[s] : IsSave(row.save)

\* The player c is seated in the request as who has the client id now.
Seated(c, id) == /\ who[c] \in DOMAIN requests[id].seats
                 /\ requests[id].seats[who[c]] = c

\* A team that waits has only members that were there when it asked; the tees
\* of a team that saves are gone.
TeamInv ==
    /\ \A c, d \in Clients :
         Home[c] = Home[d] /\ who[c] = who[d] /\ who[c] # NoName => c = d
    /\ \A c \in Clients : inTeam[c] => who[c] # NoName
    /\ \A c \in Clients : tee[c] # None => inTeam[c]
    /\ \A s \in Servers : result[s] # None =>
         /\ requests[result[s]].server = s
         /\ \A c \in Members(s) : Seated(c, result[s])
         /\ requests[result[s]].kind = "save" => \A c \in Clients : Home[c] = s => tee[c] = None
    /\ \A s \in Servers : teamState[s] = "EMPTY" <=> Members(s) = {}

\* The owner of a saved tee is in the save, or in the load that found it.
OwnerInv ==
    \A c \in Clients : tee[c] # None =>
      \E id \in DOMAIN requests :
        /\ requests[id].save = tee[c] /\ Seated(c, id)
        /\ requests[id].kind = "save" \/ requests[id].status = "LOAD_SUCCESS"

BasicInv == RequestInv /\ GameTypes /\ TableTypes /\ TeamInv /\ OwnerInv
-----------------------------------------------------------------------------
(* Where a saved run is, if no statement is reported failed that was done. *)

\* A row of the main database is of a save that is through with it.
MainInv ==
    \A row \in mainSaves :
      /\ IsSave(row.save) /\ requests[row.save].status = "SAVE_SUCCESS"
      /\ requests[row.save].step \in {"succeeded", "done", "killed"}
      /\ \A k \in RequestId : row.code = Generated(k) => k = row.save
      /\ \A other \in mainSaves : other.save = row.save => other = row

\* A row of a file is of a save that the main database did not take.
FileInv ==
    \A s \in Servers : \A row \in fileSaves[s] :
      /\ IsSave(row.save) /\ requests[row.save].status = "SAVE_SUCCESS"
      /\ requests[row.save].step \in {"moved", "done", "killed"}
      /\ requests[row.save].server = s /\ row.code = Generated(row.save)
      /\ ~Stored(row.save, mainSaves)

BackupInv ==
    \A s \in Servers : \A row \in backupSaves[s] :
      /\ IsSave(row.save) /\ requests[row.save].status = "SAVE_SUCCESS"
      /\ requests[row.save].step # "backup"
      /\ requests[row.save].server = s /\ row.code = Generated(row.save)

\* A load that found a save took it out of the tables, and no other did.
LoadedInv ==
    \A n \in DOMAIN requests : \A id \in LoadedBy(n) :
      /\ requests[n].status = "SAVE_SUCCESS"
      /\ requests[n].step \in {"moved", "succeeded", "done", "killed"}
      /\ ~Stored(n, mainSaves) /\ \A s \in Servers : ~Stored(n, fileSaves[s])
      /\ \A other \in LoadedBy(n) : other = id

\* A tee continues a save that failed or was loaded, and whose answer was applied.
TeeInv ==
    \A c \in Clients : tee[c] # None =>
      /\ IsSave(tee[c])
      /\ \/ /\ requests[tee[c]].status = "SAVE_FAILED" /\ requests[tee[c]].step = "done"
            /\ requests[tee[c]].server = Home[c] /\ result[Home[c]] # tee[c]
         \/ \E id \in LoadedBy(tee[c]) :
              requests[id].server = Home[c] /\ result[Home[c]] # id

\* A save that was reported is in a table; in the backup only while no other
\* table has it.
KeptInv ==
    \A n \in DOMAIN requests :
      IsSave(n) /\ requests[n].status = "SAVE_SUCCESS" /\ LoadedBy(n) = {} =>
        \/ Stored(n, mainSaves)
        \/ Stored(n, fileSaves[requests[n].server])
        \/ /\ Stored(n, backupSaves[requests[n].server])
           /\ requests[n].step \notin {"moved", "succeeded"}

RunInv == MainInv /\ FileInv /\ BackupInv /\ LoadedInv /\ TeeInv /\ KeptInv

-----------------------------------------------------------------------------
(* Codes and requests.                                                     *)

LEMMA RequestsMapped ==
    ASSUME NEW t \in [DOMAIN requests -> Requests], requests \in Seq(Requests)
    PROVE  t \in Seq(Requests)
<1>1. DOMAIN requests = 1 .. Len(requests) /\ Len(requests) \in Nat
  OBVIOUS
<1>2. t = [i \in 1 .. Len(requests) |-> t[i]] /\ \A i \in 1 .. Len(requests) : t[i] \in Requests
  BY <1>1, Zenon
<1> HIDE DEF Requests
<1>3. [i \in 1 .. Len(requests) |-> t[i]] \in Seq(Requests)
  BY <1>1, <1>2
<1> QED
  BY <1>2, <1>3

LEMMA CodesDiffer ==
    /\ \A j, k : Generated(j) = Generated(k) => j = k
    /\ \A u, k : User(u) # Generated(k)
BY DEF Generated, User

\* The bounds of the two kinds bound the requests.
LEMMA RequestsBounded ==
    ASSUME RequestInv
    PROVE  /\ DOMAIN requests = 1 .. Len(requests) /\ Len(requests) \in Nat
           /\ Len(requests) = Cardinality(OfKind("save")) + Cardinality(OfKind("load"))
           /\ Cardinality(OfKind("save")) \in Nat /\ Cardinality(OfKind("load")) \in Nat
           /\ Len(requests) <= MaxSaves + MaxLoads
           /\ DOMAIN requests \subseteq RequestId
           /\ IsFiniteSet(OfKind("save")) /\ IsFiniteSet(OfKind("load"))
           /\ \A id \in DOMAIN requests : requests[id] \in Requests
<1>1. /\ DOMAIN requests = 1 .. Len(requests) /\ Len(requests) \in Nat
      /\ \A id \in DOMAIN requests : requests[id] \in Requests
  BY DEF RequestInv
<1>2. /\ IsFiniteSet(DOMAIN requests) /\ Cardinality(DOMAIN requests) = Len(requests)
  BY <1>1, FS_Interval
<1>3. IsFiniteSet(OfKind("save")) /\ IsFiniteSet(OfKind("load"))
  BY <1>2, FS_Subset DEF OfKind
<1>4. DOMAIN requests = OfKind("save") \cup OfKind("load")
  BY <1>1 DEF OfKind, Requests
<1>5. OfKind("save") \cap OfKind("load") = {}
  BY DEF OfKind
<1>6. Cardinality(OfKind("save")) \in Nat /\ Cardinality(OfKind("load")) \in Nat
  BY <1>3, FS_CardinalityType
<1>7. Cardinality(OfKind("save") \cup OfKind("load"))
        = Cardinality(OfKind("save")) + Cardinality(OfKind("load"))
          - Cardinality(OfKind("save") \cap OfKind("load"))
  BY <1>3, FS_Union
<1>8. Cardinality(OfKind("save") \cap OfKind("load")) = 0
  BY <1>5, FS_EmptySet
<1>9. Len(requests) = Cardinality(OfKind("save")) + Cardinality(OfKind("load"))
  BY <1>2, <1>4, <1>6, <1>7, <1>8
<1>10. Len(requests) <= MaxSaves + MaxLoads
  BY <1>6, <1>9, SaveAssumption DEF RequestInv
<1> QED
  BY <1>1, <1>3, <1>6, <1>9, <1>10, SaveAssumption DEF RequestId

\* What a statement does to its request.
Changed(id, step, status, save) ==
    /\ requests' \in Seq(Requests) /\ DOMAIN requests' = DOMAIN requests
    /\ \A k \in DOMAIN requests \ {id} : requests'[k] = requests[k]
    /\ requests'[id].server = requests[id].server /\ requests'[id].kind = requests[id].kind
    /\ requests'[id].code = requests[id].code /\ requests'[id].seats = requests[id].seats
    /\ requests'[id].step = step /\ requests'[id].status = status
    /\ requests'[id].save = save

\* A request of the sequence is replaced.
LEMMA RequestReplaced ==
    ASSUME RequestInv, NEW id \in DOMAIN requests, NEW r \in Requests,
           requests' = [requests EXCEPT ![id] = r]
    PROVE  /\ requests' \in Seq(Requests) /\ DOMAIN requests' = DOMAIN requests
           /\ \A k \in DOMAIN requests \ {id} : requests'[k] = requests[k]
           /\ requests'[id] = r
<1>1. requests \in Seq(Requests)
  BY DEF RequestInv
<1>2. requests' \in Seq(Requests)
  <2>1. requests' \in [DOMAIN requests -> Requests]
    BY <1>1, RequestsBounded
  <2> QED
    BY <1>1, <2>1, RequestsMapped
<1> QED
  BY <1>2

LEMMA StepChanges ==
    ASSUME RequestInv, NEW id \in DOMAIN requests,
           NEW step \in SaveSteps \cup LoadSteps, NEW status \in SaveStatus \cup LoadStatus,
           Step(id, step, status)
    PROVE  Changed(id, step, status, requests[id].save)
<1> DEFINE r == [requests[id] EXCEPT !.step = step, !.status = status]
<1>1. requests[id] \in Requests
  BY RequestsBounded
<1>2. r \in Requests
  BY <1>1, Zenon DEF Requests
<1>3. requests' = [requests EXCEPT ![id] = r]
  BY Zenon DEF Step
<1>4. /\ r.server = requests[id].server /\ r.kind = requests[id].kind
      /\ r.code = requests[id].code /\ r.seats = requests[id].seats
      /\ r.step = step /\ r.status = status /\ r.save = requests[id].save
  BY <1>1 DEF Requests
<1> HIDE DEF r
<1> QED
  BY <1>2, <1>3, <1>4, RequestReplaced DEF Changed

\* SELECT that finds a save.
LEMMA FoundChanges ==
    ASSUME RequestInv, NEW id \in DOMAIN requests,
           NEW step \in LoadSteps, NEW save \in RequestId,
           requests' = [requests EXCEPT ![id].step = step, ![id].save = save]
    PROVE  Changed(id, step, requests[id].status, save)
<1> DEFINE r == [requests[id] EXCEPT !.step = step, !.save = save]
<1>1. requests[id] \in Requests
  BY RequestsBounded
<1>2. r \in Requests
  BY <1>1, Zenon DEF Requests
<1>3. requests' = [requests EXCEPT ![id] = r]
  BY Zenon
<1>4. /\ r.server = requests[id].server /\ r.kind = requests[id].kind
      /\ r.code = requests[id].code /\ r.seats = requests[id].seats
      /\ r.step = step /\ r.status = requests[id].status /\ r.save = save
  BY <1>1 DEF Requests
<1> HIDE DEF r
<1> QED
  BY <1>2, <1>3, <1>4, RequestReplaced DEF Changed

\* A request that changes keeps the shape of its kind.
LEMMA ChangedShape ==
    ASSUME RequestInv, NEW id \in DOMAIN requests, NEW step, NEW status, NEW save,
           Changed(id, step, status, save),
           requests[id].kind = "save" =>
             step \in SaveSteps \ {"backup"} /\ status \in SaveStatus /\ save = id,
           requests[id].kind = "load" =>
             /\ step \in LoadSteps /\ status \in LoadStatus
             /\ save # None => IsSave(save)
             /\ status = "LOAD_SUCCESS" => step = "done" /\ save # None
    PROVE  /\ RequestInv'
           /\ \A k \in DOMAIN requests : /\ requests'[k].kind = requests[k].kind
                                         /\ requests'[k].server = requests[k].server
                                         /\ requests'[k].code = requests[k].code
                                         /\ requests'[k].seats = requests[k].seats
<1>1. \A k \in DOMAIN requests : /\ requests'[k].kind = requests[k].kind
                                 /\ requests'[k].server = requests[k].server
                                 /\ requests'[k].code = requests[k].code
                                 /\ requests'[k].seats = requests[k].seats
  BY DEF Changed
<1>2. \A kind : OfKind(kind)' = OfKind(kind)
  BY <1>1 DEF Changed, OfKind
<1>3. \A k : IsSave(k)' <=> IsSave(k)
  BY <1>1 DEF Changed, IsSave
<1>4. ASSUME NEW k \in DOMAIN requests, requests[k].kind = "save"
      PROVE  /\ requests'[k].save = k
             /\ requests'[k].step \in SaveSteps /\ requests'[k].status \in SaveStatus
             /\ \A j \in RequestId : requests'[k].code = Generated(j) => j = k
             /\ requests'[k].step = "backup" => requests'[k].status = "SAVE_FAILED"
  BY <1>4 DEF Changed, RequestInv
<1>5. ASSUME NEW k \in DOMAIN requests, requests[k].kind = "load"
      PROVE  /\ requests'[k].step \in LoadSteps /\ requests'[k].status \in LoadStatus
             /\ requests'[k].save # None => IsSave(requests'[k].save)
             /\ requests'[k].status = "LOAD_SUCCESS" =>
                  requests'[k].step = "done" /\ requests'[k].save # None
  BY <1>5 DEF Changed, RequestInv
<1>6. Cardinality(OfKind("save"))' <= MaxSaves /\ Cardinality(OfKind("load"))' <= MaxLoads
  BY <1>2 DEF RequestInv
<1> QED
  BY <1>1, <1>3, <1>4, <1>5, <1>6 DEF RequestInv, Changed

-----------------------------------------------------------------------------
(* The game: tees only lose the state of a save, and while a team waits it *)
(* only loses members.                                                     *)

NamesUnique(names) ==
    \A c, d \in Clients : Home[c] = Home[d] /\ names[c] = names[d] /\ names[c] # NoName => c = d

PlayDoes ==
    /\ UNCHANGED <<result, requests, tableVars>>
    /\ who' \in [Clients -> Names \cup {NoName}] /\ inTeam' \in [Clients -> BOOLEAN]
    /\ tee' \in [Clients -> RequestId \cup {None}]
    /\ teamState' \in [Servers -> {"EMPTY", "OPEN", "STARTED", "FINISHED"}]
    /\ NamesUnique(who')
    /\ \A c \in Clients : /\ inTeam'[c] => who'[c] # NoName
                          /\ tee'[c] \in {tee[c], None}
                          /\ tee'[c] # None => inTeam'[c] /\ who'[c] = who[c]
    /\ \A c \in Clients : result[Home[c]] # None /\ inTeam'[c] => inTeam[c] /\ who'[c] = who[c]
    /\ \A s \in Servers : teamState'[s] = "EMPTY" <=> Members(s)' = {}

LEMMA PlayKeepsBasic == ASSUME BasicInv, PlayDoes PROVE BasicInv'
<1>1. RequestInv' /\ TableTypes'
  BY DEF BasicInv, PlayDoes, RequestInv, TableTypes, OfKind, IsSave, tableVars
<1>2. GameTypes'
  BY DEF BasicInv, PlayDoes, GameTypes
<1>3. TeamInv'
  <2>1. \A s \in Servers : result[s] # None =>
          \A c \in Members(s)' : c \in Members(s) /\ who'[c] = who[c]
    BY SaveAssumption DEF PlayDoes, Members
  <2>2. \A s \in Servers : result'[s] # None =>
          /\ requests'[result'[s]].server = s
          /\ \A c \in Members(s)' : Seated(c, result[s])'
    BY <2>1 DEF BasicInv, TeamInv, PlayDoes, Seated
  <2>3. \A s \in Servers : result'[s] # None /\ requests'[result'[s]].kind = "save" =>
          \A c \in Clients : Home[c] = s => tee'[c] = None
    BY DEF BasicInv, TeamInv, PlayDoes
  <2>4. \A c \in Clients : inTeam'[c] => who'[c] # NoName
    BY DEF PlayDoes
  <2>5. \A c \in Clients : tee'[c] # None => inTeam'[c]
    BY DEF PlayDoes
  <2>6. NamesUnique(who') /\ \A s \in Servers : teamState'[s] = "EMPTY" <=> Members(s)' = {}
    BY DEF PlayDoes
  <2> HIDE DEF Members, Seated
  <2> QED
    BY <2>2, <2>3, <2>4, <2>5, <2>6, Zenon DEF TeamInv, NamesUnique
<1>4. OwnerInv'
  BY DEF BasicInv, OwnerInv, PlayDoes, Seated
<1> QED
  BY <1>1, <1>2, <1>3, <1>4 DEF BasicInv

LEMMA PlayKeepsRun == ASSUME RunInv, PlayDoes PROVE RunInv'
<1> USE DEF PlayDoes, tableVars
<1>1. MainInv' /\ FileInv' /\ BackupInv'
  BY DEF RunInv, MainInv, FileInv, BackupInv, IsSave, Stored
<1>2. LoadedInv' /\ KeptInv'
  BY DEF RunInv, LoadedInv, KeptInv, IsSave, Stored, LoadedBy
<1>3. TeeInv'
  BY DEF RunInv, TeeInv, IsSave, LoadedBy
<1> QED
  BY <1>1, <1>2, <1>3 DEF RunInv

LEMMA LeaveDoes ==
    ASSUME BasicInv, NEW c \in Clients, inTeam[c], Leave(c)
    PROVE  /\ inTeam' \in [Clients -> BOOLEAN] /\ tee' \in [Clients -> RequestId \cup {None}]
           /\ teamState' \in [Servers -> {"EMPTY", "OPEN", "STARTED", "FINISHED"}]
           /\ ~inTeam'[c] /\ \A d \in Clients \ {c} : inTeam'[d] = inTeam[d]
           /\ tee'[c] = None /\ \A d \in Clients : tee'[d] \in {tee[d], None}
           /\ \A s \in Servers : teamState'[s] = "EMPTY" <=> Members(s)' = {}
<1>1. /\ inTeam \in [Clients -> BOOLEAN] /\ tee \in [Clients -> RequestId \cup {None}]
      /\ teamState \in [Servers -> {"EMPTY", "OPEN", "STARTED", "FINISHED"}]
      /\ Home[c] \in Servers /\ \A s \in Servers : teamState[s] = "EMPTY" <=> Members(s) = {}
  BY SaveAssumption DEF BasicInv, GameTypes, TeamInv
<1>2. /\ inTeam' = [inTeam EXCEPT ![c] = FALSE] /\ inTeam' \in [Clients -> BOOLEAN]
      /\ ~inTeam'[c] /\ \A d \in Clients \ {c} : inTeam'[d] = inTeam[d]
  BY <1>1, Zenon DEF Leave
<1>3. /\ Members(Home[c])' = Members(Home[c]) \ {c} /\ c \in Members(Home[c])
      /\ \A s \in Servers \ {Home[c]} : Members(s)' = Members(s)
  BY <1>2, Zenon DEF Members
<1>4. CASE /\ teamState' = [teamState EXCEPT ![Home[c]] =
                             IF Members(Home[c]) \ {c} = {} THEN "EMPTY" ELSE @]
           /\ tee' = [tee EXCEPT ![c] = None]
  <2>1. /\ tee' \in [Clients -> RequestId \cup {None}]
        /\ teamState' \in [Servers -> {"EMPTY", "OPEN", "STARTED", "FINISHED"}]
        /\ tee'[c] = None /\ \A d \in Clients : tee'[d] \in {tee[d], None}
    BY <1>1, <1>4
  <2>2. \A s \in Servers : teamState'[s] = "EMPTY" <=> Members(s)' = {}
    BY <1>1, <1>3, <1>4
  <2> QED
    BY <1>2, <2>1, <2>2
<1>5. CASE /\ Members(Home[c]) \ {c} # {}
           /\ teamState' = [teamState EXCEPT ![Home[c]] = "FINISHED"]
           /\ tee' = [d \in Clients |-> IF d \in Members(Home[c]) THEN None ELSE tee[d]]
  <2>1. /\ tee' \in [Clients -> RequestId \cup {None}]
        /\ teamState' \in [Servers -> {"EMPTY", "OPEN", "STARTED", "FINISHED"}]
        /\ tee'[c] = None /\ \A d \in Clients : tee'[d] \in {tee[d], None}
    BY <1>1, <1>3, <1>5
  <2>2. \A s \in Servers : teamState'[s] = "EMPTY" <=> Members(s)' = {}
    BY <1>1, <1>3, <1>5
  <2> QED
    BY <1>2, <2>1, <2>2
<1> QED
  BY <1>4, <1>5, Zenon DEF Leave

\* What a step of the game does to who, inTeam, tee and teamState.
LEMMA PlayStep ==
    ASSUME BasicInv, Play, \A s \in Servers : ~SaveTeam(s) /\ ~LoadTeam(s)
    PROVE  PlayDoes
<1> USE DEF KeepData
<1>1. /\ who \in [Clients -> Names \cup {NoName}] /\ inTeam \in [Clients -> BOOLEAN]
      /\ tee \in [Clients -> RequestId \cup {None}]
      /\ teamState \in [Servers -> {"EMPTY", "OPEN", "STARTED", "FINISHED"}]
      /\ NamesUnique(who)
      /\ \A c \in Clients : Home[c] \in Servers
      /\ \A c \in Clients : inTeam[c] => who[c] # NoName
      /\ \A c \in Clients : tee[c] # None => inTeam[c]
      /\ \A s \in Servers : teamState[s] = "EMPTY" <=> Members(s) = {}
  BY SaveAssumption DEF BasicInv, GameTypes, TeamInv, NamesUnique
<1>2. ASSUME NEW c \in Clients, NEW n \in Names, Connect(c, n) PROVE PlayDoes
  <2>1. /\ who[c] = NoName /\ \A d \in Clients : Home[d] = Home[c] => who[d] # n
        /\ who' = [who EXCEPT ![c] = n]
        /\ UNCHANGED <<inTeam, tee, teamState>> /\ UNCHANGED <<result, requests, tableVars>>
    BY <1>2 DEF Connect
  <2>2. NamesUnique(who')
    BY <1>1, <2>1 DEF NamesUnique
  <2>3. \A s \in Servers : Members(s)' = Members(s)
    BY <2>1 DEF Members
  <2>4. \A d \in Clients : inTeam[d] => who'[d] = who[d]
    BY <1>1, <2>1
  <2> QED
    BY <1>1, <2>1, <2>2, <2>3, <2>4 DEF PlayDoes
<1>3. ASSUME NEW c \in Clients, Join(c) PROVE PlayDoes
  <2>1. /\ who[c] # NoName /\ ~inTeam[c] /\ result[Home[c]] = None
        /\ inTeam' = [inTeam EXCEPT ![c] = TRUE]
        /\ teamState' = [teamState EXCEPT ![Home[c]] = "OPEN"]
        /\ UNCHANGED <<who, tee>> /\ UNCHANGED <<result, requests, tableVars>>
    BY <1>3 DEF Join, Saving
  <2>2. inTeam' \in [Clients -> BOOLEAN] /\ \A d \in Clients : inTeam'[d] <=> inTeam[d] \/ d = c
    BY <1>1, <2>1, Zenon
  <2>3. c \in Members(Home[c])' /\ \A s \in Servers \ {Home[c]} : Members(s)' = Members(s)
    BY <2>2, Zenon DEF Members
  <2>4. \A s \in Servers : teamState'[s] = "EMPTY" <=> Members(s)' = {}
    BY <1>1, <2>1, <2>3
  <2> QED
    BY <1>1, <2>1, <2>2, <2>4 DEF PlayDoes
<1>4. ASSUME NEW s \in Servers, Start(s) PROVE PlayDoes
  <2>1. \A r \in Servers : Members(r)' = Members(r)
    BY <1>4 DEF Start, Members
  <2> QED
    BY <1>1, <1>4, <2>1 DEF Start, PlayDoes
<1>5. ASSUME NEW c \in Clients, inTeam[c], Leave(c), UNCHANGED <<result, requests, tableVars>>,
             who' = who \/ who' = [who EXCEPT ![c] = NoName]
      PROVE  PlayDoes
  <2>1. /\ inTeam' \in [Clients -> BOOLEAN] /\ tee' \in [Clients -> RequestId \cup {None}]
        /\ teamState' \in [Servers -> {"EMPTY", "OPEN", "STARTED", "FINISHED"}]
        /\ ~inTeam'[c] /\ \A d \in Clients \ {c} : inTeam'[d] = inTeam[d]
        /\ tee'[c] = None /\ \A d \in Clients : tee'[d] \in {tee[d], None}
        /\ \A s \in Servers : teamState'[s] = "EMPTY" <=> Members(s)' = {}
    BY <1>5, LeaveDoes
  <2>2. /\ who' \in [Clients -> Names \cup {NoName}]
        /\ \A d \in Clients \ {c} : who'[d] = who[d]
        /\ who'[c] \in {who[c], NoName}
    BY <1>1, <1>5
  <2>3. NamesUnique(who')
    BY <1>1, <2>2 DEF NamesUnique
  <2> QED
    BY <1>1, <1>5, <2>1, <2>2, <2>3 DEF PlayDoes
<1>6. ASSUME NEW c \in Clients, Spectate(c) PROVE PlayDoes
  BY <1>5, <1>6 DEF Spectate
<1>7. ASSUME NEW s \in Servers, UNCHANGED <<who, inTeam, result, requests, tableVars>>,
             NEW st \in {"OPEN", "FINISHED"}, Members(s) # {},
             teamState' = [teamState EXCEPT ![s] = st],
             tee' = [d \in Clients |-> IF d \in Members(s) THEN None ELSE tee[d]]
      PROVE  PlayDoes
  <2>1. \A r \in Servers : Members(r)' = Members(r)
    BY <1>7 DEF Members
  <2> QED
    BY <1>1, <1>7, <2>1 DEF PlayDoes
<1>8. ASSUME NEW c \in Clients, Die(c) PROVE PlayDoes
  <2>1. CASE Leave(c)
    BY <1>5, <1>8, <2>1 DEF Die
  <2>2. CASE KillLocked(Home[c]) /\ UNCHANGED inTeam
    <3>1. Members(Home[c]) # {}
      BY <1>8 DEF Die, Members
    <3> QED
      BY <1>1, <1>7, <1>8, <2>2, <3>1 DEF Die, KillLocked
  <2> QED
    BY <1>8, <2>1, <2>2 DEF Die
<1>9. ASSUME NEW c \in Clients, Disconnect(c) PROVE PlayDoes
  <2>1. CASE inTeam[c]
    BY <1>5, <1>9, <2>1 DEF Disconnect
  <2>2. CASE ~inTeam[c]
    <3>1. /\ who' = [who EXCEPT ![c] = NoName]
          /\ UNCHANGED <<inTeam, tee, teamState>> /\ UNCHANGED <<result, requests, tableVars>>
      BY <1>9, <2>2 DEF Disconnect
    <3>2. /\ who' \in [Clients -> Names \cup {NoName}]
          /\ \A d \in Clients \ {c} : who'[d] = who[d]
          /\ who'[c] = NoName
      BY <1>1, <3>1
    <3>3. NamesUnique(who')
      BY <1>1, <3>2 DEF NamesUnique
    <3>4. \A r \in Servers : Members(r)' = Members(r)
      BY <3>1 DEF Members
    <3>5. \A d \in Clients : inTeam[d] => who'[d] = who[d]
      BY <2>2, <3>2
    <3> QED
      BY <1>1, <3>1, <3>2, <3>3, <3>4, <3>5 DEF PlayDoes
  <2> QED
    BY <2>1, <2>2
<1>10. ASSUME NEW s \in Servers, Finish(s) PROVE PlayDoes
  BY <1>7, <1>10 DEF Finish
<1> QED
  BY <1>2, <1>3, <1>4, <1>6, <1>8, <1>9, <1>10 DEF Play

-----------------------------------------------------------------------------
(* A request is made.                                                      *)

\* Everybody in the team has a seat.
LEMMA SeatsOfAll ==
    ASSUME BasicInv, NEW s \in Servers
    PROVE  /\ Seats(s) \in AllSeats
           /\ \A c \in Members(s) : who[c] \in DOMAIN Seats(s) /\ Seats(s)[who[c]] = c
<1>1. /\ \A c \in Members(s) : c \in Clients /\ Home[c] = s /\ who[c] # NoName
      /\ who \in [Clients -> Names \cup {NoName}]
  BY DEF Members, BasicInv, TeamInv, GameTypes
<1> DEFINE ns == {who[c] : c \in Members(s)}
           seat(n) == CHOOSE c \in Members(s) : who[c] = n
<1>2. \A n \in ns : seat(n) \in Members(s) /\ who[seat(n)] = n
  <2> SUFFICES ASSUME NEW n \in ns PROVE seat(n) \in Members(s) /\ who[seat(n)] = n
    OBVIOUS
  <2>1. \E c \in Members(s) : who[c] = n
    OBVIOUS
  <2> QED
    BY <2>1, Zenon
<1>3. ns \in SUBSET Names
  BY <1>1
<1>4. Seats(s) = [n \in ns |-> seat(n)]
  BY Zenon DEF Seats
<1> HIDE DEF seat
<1>5. Seats(s) \in [ns -> Clients]
  BY <1>1, <1>2, <1>4
<1>6. \A c \in Members(s) : seat(who[c]) = c
  <2> SUFFICES ASSUME NEW c \in Members(s) PROVE seat(who[c]) = c
    OBVIOUS
  <2>1. who[c] \in ns
    OBVIOUS
  <2>2. seat(who[c]) \in Members(s) /\ who[seat(who[c])] = who[c]
    BY <1>2, <2>1
  <2> QED
    BY <1>1, <2>2 DEF BasicInv, TeamInv
<1> QED
  BY <1>3, <1>4, <1>5, <1>6 DEF AllSeats

LEMMA RequestNumber ==
    ASSUME BasicInv, NEW s \in Servers, NEW kind \in {"save", "load"}, NEW code, NEW save,
           NEW status, NEW step, Request(s, kind, code, save, status, step)
    PROVE  /\ Len(requests) + 1 \in RequestId /\ Len(requests) + 1 \notin DOMAIN requests
           /\ Cardinality(OfKind(kind)) < (IF kind = "save" THEN MaxSaves ELSE MaxLoads)
<1>1. RequestInv
  BY DEF BasicInv
<1>2. /\ DOMAIN requests = 1 .. Len(requests) /\ Len(requests) \in Nat
      /\ Len(requests) = Cardinality(OfKind("save")) + Cardinality(OfKind("load"))
      /\ Cardinality(OfKind("save")) \in Nat /\ Cardinality(OfKind("load")) \in Nat
  BY <1>1, RequestsBounded
<1>3. Cardinality(OfKind(kind)) < (IF kind = "save" THEN MaxSaves ELSE MaxLoads)
  BY DEF Request, OfKind
<1>4. Cardinality(OfKind("save")) <= MaxSaves /\ Cardinality(OfKind("load")) <= MaxLoads
  BY <1>1 DEF RequestInv
<1>5. Len(requests) + 1 <= MaxSaves + MaxLoads
  BY <1>2, <1>3, <1>4, SaveAssumption
<1> QED
  BY <1>2, <1>3, <1>5, SaveAssumption DEF RequestId

\* The request that is new has its team as it is; the others stay.
Asked(s, r) ==
    /\ requests' \in Seq(Requests) /\ DOMAIN requests' = DOMAIN requests \cup {Len(requests) + 1}
    /\ \A k \in DOMAIN requests : requests'[k] = requests[k]
    /\ requests'[Len(requests) + 1] = r
    /\ result[s] = None /\ result' = [result EXCEPT ![s] = Len(requests) + 1]

LEMMA RequestMade ==
    ASSUME BasicInv, NEW s \in Servers, NEW kind \in {"save", "load"}, NEW code \in Codes,
           NEW save \in RequestId \cup {None}, NEW status \in SaveStatus \cup LoadStatus,
           NEW step \in SaveSteps \cup LoadSteps, Request(s, kind, code, save, status, step)
    PROVE  /\ Asked(s, [server |-> s, kind |-> kind, code |-> code, save |-> save,
                        seats |-> Seats(s), status |-> status, step |-> step])
           /\ Cardinality(OfKind("save"))' <= MaxSaves
           /\ Cardinality(OfKind("load"))' <= MaxLoads
<1> DEFINE r == [server |-> s, kind |-> kind, code |-> code, save |-> save,
                 seats |-> Seats(s), status |-> status, step |-> step]
           new == Len(requests) + 1
<1>1. requests \in Seq(Requests) /\ Len(requests) \in Nat
      /\ DOMAIN requests = 1 .. Len(requests)
      /\ IsFiniteSet(OfKind("save")) /\ IsFiniteSet(OfKind("load"))
  BY RequestsBounded DEF BasicInv, RequestInv
<1>2. r \in Requests
  BY SeatsOfAll, Zenon DEF Requests
<1>3. requests' = Append(requests, r) /\ result' = [result EXCEPT ![s] = new] /\ result[s] = None
  BY DEF Request, Saving
<1>4. r.kind = kind
  OBVIOUS
<1> HIDE DEF r
<1>5. /\ requests' \in Seq(Requests) /\ DOMAIN requests' = DOMAIN requests \cup {new}
      /\ \A k \in DOMAIN requests : requests'[k] = requests[k]
      /\ requests'[new] = r
  BY <1>1, <1>2, <1>3
<1>6. new \notin DOMAIN requests
      /\ Cardinality(OfKind(kind)) < (IF kind = "save" THEN MaxSaves ELSE MaxLoads)
  BY RequestNumber
<1>7. /\ OfKind(kind)' = OfKind(kind) \cup {new} /\ new \notin OfKind(kind)
      /\ \A k : k # kind => OfKind(k)' = OfKind(k)
  BY <1>4, <1>5, <1>6 DEF OfKind
<1>8. Cardinality(OfKind(kind)) \in Nat /\ IsFiniteSet(OfKind(kind))
  BY <1>1, FS_CardinalityType
<1>9. Cardinality(OfKind(kind) \cup {new}) = Cardinality(OfKind(kind)) + 1
  BY <1>7, <1>8, FS_AddElement
<1>10. Cardinality(OfKind("save")) <= MaxSaves /\ Cardinality(OfKind("load")) <= MaxLoads
  BY DEF BasicInv, RequestInv
<1>11. Cardinality(OfKind("save"))' <= MaxSaves /\ Cardinality(OfKind("load"))' <= MaxLoads
  <2>1. CASE kind = "save"
    <3>1. OfKind("save")' = OfKind("save") \cup {new} /\ OfKind("load")' = OfKind("load")
      BY <1>7, <2>1
    <3>2. Cardinality(OfKind("save") \cup {new}) <= MaxSaves
      BY <1>6, <1>8, <1>9, <2>1, SaveAssumption
    <3> QED
      BY <1>10, <3>1, <3>2
  <2>2. CASE kind = "load"
    <3>1. OfKind("load")' = OfKind("load") \cup {new} /\ OfKind("save")' = OfKind("save")
      BY <1>7, <2>2
    <3>2. Cardinality(OfKind("load") \cup {new}) <= MaxLoads
      BY <1>6, <1>8, <1>9, <2>2, SaveAssumption
    <3> QED
      BY <1>10, <3>1, <3>2
  <2> QED
    BY <2>1, <2>2
<1> QED
  BY <1>3, <1>5, <1>11 DEF Asked, r

\* The shape of the requests, when the new one has it.
LEMMA AskedShape ==
    ASSUME BasicInv, NEW s \in Servers, NEW r, Asked(s, r),
           UNCHANGED <<who, inTeam, teamState, tableVars>>,
           Len(requests) + 1 \in RequestId, Len(requests) + 1 \notin DOMAIN requests,
           Cardinality(OfKind("save"))' <= MaxSaves, Cardinality(OfKind("load"))' <= MaxLoads,
           r.kind \in {"save", "load"}, r.server = s, r.seats = Seats(s),
           r.kind = "save" =>
             /\ r.save = Len(requests) + 1 /\ r.step = "backup" /\ r.status = "SAVE_FAILED"
             /\ \A k \in RequestId : r.code = Generated(k) => k = Len(requests) + 1
             /\ tee' = [d \in Clients |-> IF d \in Members(s) THEN None ELSE tee[d]],
           r.kind = "load" =>
             /\ r.step = "normal" /\ r.status = "LOAD_FAILED" /\ r.save = None /\ UNCHANGED tee
    PROVE  BasicInv'
<1> DEFINE new == Len(requests) + 1
<1>1. /\ DOMAIN requests' = DOMAIN requests \cup {new} /\ requests' \in Seq(Requests)
      /\ \A k \in DOMAIN requests : requests'[k] = requests[k]
      /\ requests'[new] = r /\ result[s] = None
      /\ result' = [result EXCEPT ![s] = new]
  BY DEF Asked
<1>2. new \in RequestId /\ new \notin DOMAIN requests /\ new # None
  BY SaveAssumption DEF RequestId, None
<1> HIDE DEF new
<1>3. RequestInv'
  <2>1. \A k : IsSave(k) => IsSave(k)'
    BY <1>1 DEF IsSave
  <2>2. ASSUME NEW k \in DOMAIN requests, requests[k].kind = "save"
        PROVE  /\ requests'[k].save = k
               /\ requests'[k].step \in SaveSteps /\ requests'[k].status \in SaveStatus
               /\ \A j \in RequestId : requests'[k].code = Generated(j) => j = k
               /\ requests'[k].step = "backup" => requests'[k].status = "SAVE_FAILED"
    BY <1>1, <2>2 DEF BasicInv, RequestInv
  <2>3. ASSUME r.kind = "save"
        PROVE  /\ r.save = new
               /\ r.step \in SaveSteps /\ r.status \in SaveStatus
               /\ \A j \in RequestId : r.code = Generated(j) => j = new
               /\ r.step = "backup" => r.status = "SAVE_FAILED"
    BY <2>3 DEF SaveSteps, SaveStatus, new
  <2>4. ASSUME NEW k \in DOMAIN requests, requests[k].kind = "load"
        PROVE  /\ requests'[k].step \in LoadSteps /\ requests'[k].status \in LoadStatus
               /\ requests'[k].save # None => IsSave(requests[k].save)'
               /\ requests'[k].status = "LOAD_SUCCESS" =>
                     requests'[k].step = "done" /\ requests'[k].save # None
    BY <1>1, <2>1, <2>4 DEF BasicInv, RequestInv, IsSave
  <2>5. ASSUME r.kind = "load"
        PROVE  /\ r.step \in LoadSteps /\ r.status \in LoadStatus
               /\ r.save = None /\ r.status # "LOAD_SUCCESS"
    BY <2>5 DEF LoadSteps, LoadStatus
  <2> QED
    BY <1>1, <2>2, <2>3, <2>4, <2>5 DEF RequestInv, IsSave
<1>4. TableTypes' /\ GameTypes'
  <2>1. tee' \in [Clients -> RequestId \cup {None}]
    BY DEF BasicInv, GameTypes
  <2>2. \A k : IsSave(k) => IsSave(k)'
    BY <1>1 DEF IsSave
  <2>3. TableTypes'
    BY <2>2 DEF BasicInv, TableTypes, tableVars
  <2> QED
    BY <1>1, <2>1, <2>3 DEF BasicInv, GameTypes
<1>5. \A q \in Servers : Members(q)' = Members(q)
  BY DEF Members
<1>6. \A c \in Clients : tee'[c] \in {tee[c], None}
  BY DEF BasicInv, GameTypes
<1>7. OwnerInv'
  BY <1>1, <1>6 DEF BasicInv, OwnerInv, Seated
<1>8. ASSUME NEW q \in Servers, result'[q] # None
      PROVE  /\ requests'[result'[q]].server = q
             /\ \A c \in Members(q)' : Seated(c, result[q])'
             /\ requests'[result'[q]].kind = "save" =>
                  \A c \in Clients : Home[c] = q => tee'[c] = None
  <2>1. CASE q # s
    <3>1. result'[q] = result[q] /\ result[q] \in DOMAIN requests
      BY <1>1, <1>8, <2>1 DEF BasicInv, GameTypes
    <3> QED
      BY <1>1, <1>5, <1>6, <1>8, <3>1 DEF BasicInv, TeamInv, Seated
  <2>2. CASE q = s
    <3>1. result'[s] = new
      BY <1>1 DEF BasicInv, GameTypes
    <3>2. \A c \in Members(s) : Seated(c, result[s])'
      BY <1>1, <3>1, SeatsOfAll DEF Seated
    <3>3. r.kind = "save" => \A c \in Clients : Home[c] = s => tee'[c] = None
      BY DEF BasicInv, TeamInv, Members
    <3> QED
      BY <1>1, <1>5, <2>2, <3>1, <3>2, <3>3
  <2> QED
    BY <2>1, <2>2
<1>9. TeamInv'
  <2>1. \A c \in Clients : tee'[c] # None => inTeam'[c]
    BY <1>6 DEF BasicInv, TeamInv
  <2>2. \A q \in Servers : teamState'[q] = "EMPTY" <=> Members(q)' = {}
    BY <1>5 DEF BasicInv, TeamInv
  <2>3. NamesUnique(who') /\ \A c \in Clients : inTeam'[c] => who'[c] # NoName
    BY DEF BasicInv, TeamInv, NamesUnique
  <2> HIDE DEF Members, Seated
  <2> QED
    BY <1>8, <2>1, <2>2, <2>3, Zenon DEF TeamInv, NamesUnique
<1> QED
  BY <1>3, <1>4, <1>7, <1>9 DEF BasicInv

LEMMA AskedKeepsRun ==
    ASSUME BasicInv, RunInv, NEW s \in Servers, NEW r, Asked(s, r), UNCHANGED tableVars,
           Len(requests) + 1 \notin DOMAIN requests,
           r.status \in {"SAVE_FAILED", "LOAD_FAILED"},
           \A c \in Clients : tee'[c] \in {tee[c], None}
    PROVE  RunInv'
<1> DEFINE new == Len(requests) + 1
<1>1. /\ DOMAIN requests' = DOMAIN requests \cup {new} /\ new \notin DOMAIN requests
      /\ \A k \in DOMAIN requests : requests'[k] = requests[k]
      /\ requests'[new] = r
      /\ \A q \in Servers : result'[q] \in {result[q], new}
      /\ UNCHANGED <<mainSaves, fileSaves, backupSaves>>
  BY DEF Asked, BasicInv, GameTypes, tableVars
<1> HIDE DEF new
<1>2. \A n : IsSave(n) => n \in DOMAIN requests /\ IsSave(n)' /\ requests'[n] = requests[n]
  BY <1>1 DEF IsSave
<1>3. \A n : LoadedBy(n)' = LoadedBy(n)
  BY <1>1 DEF LoadedBy
<1>4. \A n : LoadedBy(n) # {} => n = None \/ IsSave(n)
  BY DEF LoadedBy, BasicInv, RequestInv
<1>5. MainInv' /\ FileInv' /\ BackupInv'
  BY <1>1, <1>2 DEF RunInv, MainInv, FileInv, BackupInv, Stored
<1>6. LoadedInv'
  <2>1. ASSUME NEW n \in DOMAIN requests', NEW id \in LoadedBy(n)' PROVE n \in DOMAIN requests
    <3>1. new # None
      BY DEF BasicInv, RequestInv, new, None
    <3> QED
      BY <1>1, <1>3, <1>4, <2>1, <3>1 DEF IsSave
  <2> QED
    BY <1>1, <1>3, <2>1 DEF RunInv, LoadedInv, Stored
<1>7. TeeInv'
  <2>1. ASSUME NEW c \in Clients, tee'[c] # None
        PROVE  /\ IsSave(tee[c])' /\ tee'[c] = tee[c]
               /\ \/ /\ requests'[tee[c]].status = "SAVE_FAILED" /\ requests'[tee[c]].step = "done"
                     /\ requests'[tee[c]].server = Home[c] /\ result'[Home[c]] # tee[c]
                  \/ \E id \in LoadedBy(tee[c]) :
                        requests'[id].server = Home[c] /\ result'[Home[c]] # id
    <3>1. /\ tee'[c] = tee[c] /\ IsSave(tee[c])
          /\ \/ /\ requests[tee[c]].status = "SAVE_FAILED" /\ requests[tee[c]].step = "done"
                /\ requests[tee[c]].server = Home[c] /\ result[Home[c]] # tee[c]
             \/ \E id \in LoadedBy(tee[c]) :
                   requests[id].server = Home[c] /\ result[Home[c]] # id
      BY <2>1 DEF RunInv, TeeInv
    <3>2. Home[c] \in Servers
      BY SaveAssumption
    <3>3. \A id \in LoadedBy(tee[c]) : id \in DOMAIN requests
      BY DEF LoadedBy
    <3>4. IsSave(tee[c])'
      BY <1>1, <3>1 DEF IsSave
    <3> QED
      BY <1>1, <1>2, <3>1, <3>2, <3>3, <3>4
  <2> QED
    BY <1>3, <2>1 DEF TeeInv
<1>8. KeptInv'
  <2>1. \A n \in DOMAIN requests' :
          IsSave(n)' /\ requests'[n].status = "SAVE_SUCCESS" => n \in DOMAIN requests
    BY <1>1
  <2>2. \A n \in DOMAIN requests : IsSave(n)' => IsSave(n)
    BY <1>1 DEF IsSave
  <2> QED
    BY <1>1, <1>3, <2>1, <2>2 DEF RunInv, KeptInv, Stored
<1> QED
  BY <1>5, <1>6, <1>7, <1>8 DEF RunInv

LEMMA SaveTeamStep ==
    ASSUME BasicInv, NEW s \in Servers, SaveTeam(s)
    PROVE  BasicInv' /\ (RunInv => RunInv')
<1> DEFINE new == Len(requests) + 1
<1>1. PICK code \in {Generated(new)} \cup {User(u) : u \in UserCodes} :
        Request(s, "save", code, new, "SAVE_FAILED", "backup")
  BY DEF SaveTeam
<1>2. /\ UNCHANGED <<who, inTeam, teamState, tableVars>>
      /\ tee' = [d \in Clients |-> IF d \in Members(s) THEN None ELSE tee[d]]
  BY DEF SaveTeam
<1>3. new \in RequestId /\ new \notin DOMAIN requests
  BY <1>1, RequestNumber
<1> HIDE DEF new
<1>4. code \in Codes
  BY <1>1, <1>3 DEF Codes
<1>5. "backup" \in SaveSteps /\ "SAVE_FAILED" \in SaveStatus
  BY DEF SaveSteps, SaveStatus
<1> DEFINE r == [server |-> s, kind |-> "save", code |-> code, save |-> new,
                 seats |-> Seats(s), status |-> "SAVE_FAILED", step |-> "backup"]
<1>6. /\ Asked(s, r) /\ Cardinality(OfKind("save"))' <= MaxSaves
      /\ Cardinality(OfKind("load"))' <= MaxLoads
  BY <1>1, <1>3, <1>4, <1>5, RequestMade
<1>7. \A k \in RequestId : r.code = Generated(k) => k = new
  BY <1>1, CodesDiffer
<1>8. /\ r.kind = "save" /\ r.server = s /\ r.seats = Seats(s) /\ r.save = new
      /\ r.status = "SAVE_FAILED" /\ r.step = "backup"
  OBVIOUS
<1> HIDE DEF r
<1>9. BasicInv'
  BY <1>2, <1>3, <1>6, <1>7, <1>8, AskedShape DEF new
<1>10. RunInv => RunInv'
  <2>1. \A c \in Clients : tee'[c] \in {tee[c], None}
    BY <1>2
  <2> QED
    BY <1>2, <1>3, <1>6, <1>8, <2>1, AskedKeepsRun DEF new
<1> QED
  BY <1>9, <1>10

LEMMA LoadTeamStep ==
    ASSUME BasicInv, NEW s \in Servers, LoadTeam(s)
    PROVE  BasicInv' /\ (RunInv => RunInv')
<1> DEFINE new == Len(requests) + 1
<1>1. PICK row \in mainSaves \cup fileSaves[s] :
        Request(s, "load", row.code, None, "LOAD_FAILED", "normal")
  BY DEF LoadTeam
<1>2. UNCHANGED <<who, inTeam, teamState, tee>> /\ UNCHANGED tableVars
  BY DEF LoadTeam, gameVars
<1>3. new \in RequestId /\ new \notin DOMAIN requests
  BY <1>1, RequestNumber
<1> HIDE DEF new
<1>4. row.code \in Codes
  <2>1. row \in Rows
    BY DEF BasicInv, TableTypes
  <2> QED
    BY <2>1 DEF Rows, Codes
<1>5. "normal" \in LoadSteps /\ "LOAD_FAILED" \in LoadStatus
  BY DEF LoadSteps, LoadStatus
<1> DEFINE r == [server |-> s, kind |-> "load", code |-> row.code, save |-> None,
                 seats |-> Seats(s), status |-> "LOAD_FAILED", step |-> "normal"]
<1>6. /\ Asked(s, r) /\ Cardinality(OfKind("save"))' <= MaxSaves
      /\ Cardinality(OfKind("load"))' <= MaxLoads
  BY <1>1, <1>4, <1>5, RequestMade
<1>7. /\ r.kind = "load" /\ r.server = s /\ r.seats = Seats(s) /\ r.save = None
      /\ r.status = "LOAD_FAILED" /\ r.step = "normal"
  OBVIOUS
<1> HIDE DEF r
<1>8. BasicInv'
  BY <1>2, <1>3, <1>6, <1>7, AskedShape DEF new
<1>9. RunInv => RunInv'
  BY <1>2, <1>3, <1>6, <1>7, AskedKeepsRun DEF new
<1> QED
  BY <1>8, <1>9

-----------------------------------------------------------------------------
(* The answer is applied.                                                  *)

\* Whom RestoreInto gives a tee: members in their own seats, and what they get.
LEMMA Restored ==
    ASSUME BasicInv, NEW s \in Servers, result[s] # None,
           requests[result[s]].step = "done",
           requests[result[s]].status \in {"SAVE_FAILED", "LOAD_SUCCESS"},
           Members(s) # {}, RestoreInto(s, result[s])
    PROVE  LET id == result[s]  n == requests[id].save
           IN  /\ id \in DOMAIN requests /\ IsSave(n) /\ requests[id].server = s
               /\ n \in RequestId
               /\ \/ id = n /\ requests[n].status = "SAVE_FAILED"
                  \/ id \in LoadedBy(n)
               /\ teamState' = [teamState EXCEPT ![s] = "STARTED"] /\ UNCHANGED inTeam
               /\ tee' \in [Clients -> RequestId \cup {None}]
               /\ \A c \in Clients : \/ tee'[c] = tee[c]
                                     \/ tee'[c] = n /\ c \in Members(s) /\ Seated(c, id)
<1> DEFINE id == result[s]
           n == requests[id].save
<1>1. /\ id \in DOMAIN requests /\ requests[id].server = s
      /\ \A c \in Members(s) : Seated(c, id)
      /\ tee \in [Clients -> RequestId \cup {None}]
  BY DEF BasicInv, GameTypes, TeamInv
<1>2. /\ requests[id] \in Requests /\ DOMAIN requests \subseteq RequestId
  BY <1>1, RequestsBounded DEF BasicInv
<1>3. IsSave(n) /\ ((id = n /\ requests[n].status = "SAVE_FAILED") \/ id \in LoadedBy(n))
  <2>1. CASE requests[id].kind = "save"
    <3>1. n = id /\ requests[id].status \in SaveStatus
      BY <1>1, <2>1 DEF BasicInv, RequestInv
    <3> QED
      BY <1>1, <2>1, <3>1 DEF IsSave, SaveStatus
  <2>2. CASE requests[id].kind = "load"
    <3>1. requests[id].status \in LoadStatus
      BY <1>1, <2>2 DEF BasicInv, RequestInv
    <3>2. requests[id].status = "LOAD_SUCCESS"
      BY <3>1 DEF LoadStatus
    <3>3. IsSave(n)
      BY <1>1, <2>2, <3>2 DEF BasicInv, RequestInv
    <3> QED
      BY <1>1, <2>2, <3>2, <3>3 DEF LoadedBy
  <2> QED
    BY <1>2, <2>1, <2>2 DEF Requests
<1>4. n \in RequestId
  BY <1>2, <1>3 DEF IsSave
<1>5. /\ teamState' = [teamState EXCEPT ![s] = "STARTED"] /\ UNCHANGED inTeam
      /\ tee' = [c \in Clients |->
                   IF c \in Members(s) /\ c \in Range(requests[id].seats) THEN n ELSE tee[c]]
  BY DEF RestoreInto
<1> HIDE DEF id, n
<1>6. /\ tee' \in [Clients -> RequestId \cup {None}]
      /\ \A c \in Clients : \/ tee'[c] = tee[c]
                            \/ tee'[c] = n /\ c \in Members(s) /\ Seated(c, id)
  BY <1>1, <1>4, <1>5
<1> QED
  BY <1>1, <1>3, <1>4, <1>5, <1>6 DEF id, n

LEMMA ProcessSaveTeamStep ==
    ASSUME BasicInv, NEW s \in Servers, ProcessSaveTeam(s)
    PROVE  BasicInv' /\ (RunInv => RunInv')
<1> DEFINE id == result[s]
<1>1. /\ id # None /\ requests[id].step = "done" /\ result' = [result EXCEPT ![s] = None]
      /\ UNCHANGED <<who, requests, mainSaves, fileSaves, backupSaves>>
  BY DEF ProcessSaveTeam, Saving, tableVars
<1>2. /\ who \in [Clients -> Names \cup {NoName}] /\ inTeam \in [Clients -> BOOLEAN]
      /\ tee \in [Clients -> RequestId \cup {None}]
      /\ teamState \in [Servers -> {"EMPTY", "OPEN", "STARTED", "FINISHED"}]
      /\ result \in [Servers -> DOMAIN requests \cup {None}]
      /\ id \in DOMAIN requests /\ requests[id].server = s
      /\ \A c \in Clients : Home[c] \in Servers
      /\ \A c \in Clients : tee[c] # None => inTeam[c]
      /\ \A q \in Servers : teamState[q] = "EMPTY" <=> Members(q) = {}
  BY <1>1, SaveAssumption DEF BasicInv, GameTypes, TeamInv
<1>3. RequestInv' /\ TableTypes'
  BY <1>1 DEF BasicInv, RequestInv, TableTypes, OfKind, IsSave
<1>4. /\ result' \in [Servers -> DOMAIN requests \cup {None}] /\ result'[s] = None
      /\ \A q \in Servers \ {s} : result'[q] = result[q]
  BY <1>1, <1>2
<1>5. ASSUME inTeam' \in [Clients -> BOOLEAN],
             tee' \in [Clients -> RequestId \cup {None}],
             teamState' \in [Servers -> {"EMPTY", "OPEN", "STARTED", "FINISHED"}],
             \A c \in Clients : inTeam'[c] => inTeam[c],
             \A c \in Clients : tee'[c] # None => inTeam'[c],
             \A c \in Clients : tee'[c] = tee[c] \/ Home[c] = s,
             \A q \in Servers : teamState'[q] = "EMPTY" <=> Members(q)' = {}
      PROVE  GameTypes' /\ TeamInv'
  <2>1. GameTypes'
    BY <1>1, <1>2, <1>4, <1>5 DEF GameTypes
  <2>2. ASSUME NEW q \in Servers, result'[q] # None
        PROVE  /\ requests'[result'[q]].server = q
               /\ \A c \in Members(q)' : Seated(c, result[q])'
               /\ requests'[result'[q]].kind = "save" =>
                    \A c \in Clients : Home[c] = q => tee'[c] = None
    <3>1. q # s /\ result'[q] = result[q] /\ result[q] # None
      BY <1>4, <2>2
    <3>2. \A c \in Members(q)' : c \in Members(q)
      BY <1>5 DEF Members
    <3>3. /\ requests[result[q]].server = q
          /\ \A c \in Members(q) : Seated(c, result[q])
          /\ requests[result[q]].kind = "save" => \A c \in Clients : Home[c] = q => tee[c] = None
      BY <3>1 DEF BasicInv, TeamInv
    <3>4. \A c \in Clients : Home[c] = q => tee'[c] = tee[c]
      BY <1>5, <3>1
    <3> QED
      BY <1>1, <3>1, <3>2, <3>3, <3>4 DEF Seated
  <2>3. NamesUnique(who') /\ \A c \in Clients : inTeam'[c] => who'[c] # NoName
    BY <1>1, <1>5 DEF BasicInv, TeamInv, NamesUnique
  <2> HIDE DEF Members, Seated
  <2>4. TeamInv'
    BY <1>5, <2>2, <2>3, Zenon DEF TeamInv, NamesUnique
  <2> QED
    BY <2>1, <2>4
<1>6. ASSUME \A c \in Clients : tee'[c] = tee[c] \/ tee'[c] = None
      PROVE  OwnerInv' /\ (RunInv => RunInv')
  <2>1. OwnerInv'
    BY <1>1, <1>6 DEF BasicInv, OwnerInv, Seated
  <2>2. ASSUME RunInv PROVE RunInv'
    <3>1. MainInv' /\ FileInv' /\ BackupInv' /\ LoadedInv' /\ KeptInv'
      BY <1>1, <2>2
        DEF RunInv, MainInv, FileInv, BackupInv, LoadedInv, KeptInv, IsSave, Stored, LoadedBy
    <3>2. \A q \in Servers : result'[q] \in {result[q], None}
      BY <1>4
    <3>3. TeeInv'
      <4>1. \A n : IsSave(n) => n # None
        BY DEF IsSave, BasicInv, RequestInv, None
      <4>2. \A n : \A k \in LoadedBy(n) : k # None
        BY DEF LoadedBy, BasicInv, RequestInv, None
      <4>3. \A n : LoadedBy(n)' = LoadedBy(n) /\ (IsSave(n)' <=> IsSave(n))
        BY <1>1 DEF LoadedBy, IsSave
      <4> QED
        BY <1>1, <1>2, <1>6, <2>2, <3>2, <4>1, <4>2, <4>3 DEF RunInv, TeeInv
    <3> QED
      BY <3>1, <3>3 DEF RunInv
  <2> QED
    BY <2>1, <2>2
<1>7. CASE requests[id].status = "SAVE_SUCCESS"
  <2>1. /\ inTeam' = [c \in Clients |-> inTeam[c] /\ Home[c] # s]
        /\ teamState' = [teamState EXCEPT ![s] = "EMPTY"] /\ UNCHANGED tee
    BY <1>7 DEF ProcessSaveTeam
  <2>2. requests[id].kind = "save"
    <3>1. requests[id] \in Requests
      BY <1>2, RequestsBounded DEF BasicInv
    <3> QED
      BY <1>2, <1>7, <3>1 DEF Requests, BasicInv, RequestInv, LoadStatus
  <2>3. \A c \in Clients : Home[c] = s => tee[c] = None
    BY <1>1, <2>2 DEF BasicInv, TeamInv
  <2>4. /\ inTeam' \in [Clients -> BOOLEAN]
        /\ \A c \in Clients : inTeam'[c] <=> inTeam[c] /\ Home[c] # s
    BY <2>1, Zenon
  <2>5. Members(s)' = {} /\ \A q \in Servers \ {s} : Members(q)' = Members(q)
    BY <2>4 DEF Members
  <2>6. \A q \in Servers : teamState'[q] = "EMPTY" <=> Members(q)' = {}
    BY <1>2, <2>1, <2>5
  <2>7. GameTypes' /\ TeamInv'
    <3>1. /\ tee' \in [Clients -> RequestId \cup {None}]
          /\ teamState' \in [Servers -> {"EMPTY", "OPEN", "STARTED", "FINISHED"}]
          /\ \A c \in Clients : tee'[c] # None => inTeam'[c]
      BY <1>2, <2>1, <2>3, <2>4
    <3> QED
      BY <1>5, <2>1, <2>4, <2>6, <3>1
  <2> QED
    BY <1>3, <1>6, <2>1, <2>7 DEF BasicInv
<1>8. CASE /\ requests[id].status \in {"SAVE_FAILED", "LOAD_SUCCESS"} /\ Members(s) # {}
           /\ RestoreInto(s, id)
  <2> DEFINE n == requests[id].save
  <2>1. /\ IsSave(n) /\ n \in RequestId
        /\ (id = n /\ requests[n].status = "SAVE_FAILED") \/ id \in LoadedBy(n)
        /\ teamState' = [teamState EXCEPT ![s] = "STARTED"] /\ UNCHANGED inTeam
        /\ tee' \in [Clients -> RequestId \cup {None}]
        /\ \A c \in Clients : \/ tee'[c] = tee[c]
                              \/ tee'[c] = n /\ c \in Members(s) /\ Seated(c, id)
    BY <1>1, <1>8, Restored
  <2>2. n = requests[id].save
    OBVIOUS
  <2> HIDE DEF n, id
  <2>3. \A q \in Servers : Members(q)' = Members(q)
    BY <2>1 DEF Members
  <2>4. \A q \in Servers : teamState'[q] = "EMPTY" <=> Members(q)' = {}
    BY <1>2, <1>8, <2>1, <2>3
  <2>5. GameTypes' /\ TeamInv'
    <3>1. \A c \in Members(s) : c \in Clients /\ Home[c] = s /\ inTeam[c]
      BY DEF Members
    <3>2. /\ teamState' \in [Servers -> {"EMPTY", "OPEN", "STARTED", "FINISHED"}]
          /\ inTeam' \in [Clients -> BOOLEAN]
      BY <1>2, <2>1
    <3> QED
      BY <1>2, <1>5, <2>1, <2>4, <3>1, <3>2
  <2>6. OwnerInv'
    <3>1. id \in LoadedBy(n) => requests[id].status = "LOAD_SUCCESS"
      BY DEF LoadedBy
    <3>2. id = n => requests[id].kind = "save"
      BY <2>1 DEF IsSave
    <3>3. \A k : \A c \in Clients : Seated(c, k)' <=> Seated(c, k)
      BY <1>1 DEF Seated
    <3> QED
      BY <1>1, <1>2, <2>1, <2>2, <3>1, <3>2, <3>3 DEF BasicInv, OwnerInv
  <2>7. ASSUME RunInv PROVE RunInv'
    <3>1. MainInv' /\ FileInv' /\ BackupInv' /\ LoadedInv' /\ KeptInv'
      BY <1>1, <2>7
        DEF RunInv, MainInv, FileInv, BackupInv, LoadedInv, KeptInv, IsSave, Stored, LoadedBy
    <3>2. \A q \in Servers : result'[q] \in {result[q], None}
      BY <1>4
    <3>3. \A k : IsSave(k) => k # None
      BY DEF IsSave, BasicInv, RequestInv, None
    <3>4. \A m : \A k \in LoadedBy(m) : k # None
      BY DEF LoadedBy, BasicInv, RequestInv, None
    <3>5. \A m : LoadedBy(m)' = LoadedBy(m) /\ (IsSave(m)' <=> IsSave(m))
      BY <1>1 DEF LoadedBy, IsSave
    <3>6. ASSUME NEW c \in Clients, tee'[c] # None
          PROVE  /\ IsSave(tee'[c])
                 /\ \/ /\ requests[tee'[c]].status = "SAVE_FAILED" /\ requests[tee'[c]].step = "done"
                       /\ requests[tee'[c]].server = Home[c] /\ result'[Home[c]] # tee'[c]
                    \/ \E k \in LoadedBy(tee'[c]) :
                         requests[k].server = Home[c] /\ result'[Home[c]] # k
      <4>1. CASE tee'[c] = tee[c]
        BY <1>2, <2>7, <3>2, <3>3, <3>4, <3>6, <4>1 DEF RunInv, TeeInv
      <4>2. CASE tee'[c] = n /\ c \in Members(s)
        <5>1. Home[c] = s
          BY <4>2 DEF Members
        <5> QED
          BY <1>1, <1>2, <1>4, <2>1, <3>3, <3>4, <4>2, <5>1
      <4> QED
        BY <2>1, <4>1, <4>2
    <3>7. TeeInv'
      <4>1. \A c \in Clients : tee'[c] # None => IsSave(tee[c])'
        BY <1>1, <3>6 DEF IsSave
      <4>2. \A c \in Clients : LoadedBy(tee[c])' = LoadedBy(tee'[c])
        BY <1>1 DEF LoadedBy
      <4> QED
        BY <1>1, <3>6, <4>1, <4>2, Zenon DEF TeeInv
    <3> QED
      BY <3>1, <3>7 DEF RunInv
  <2> QED
    BY <1>3, <2>5, <2>6, <2>7 DEF BasicInv
<1>10. CASE Members(s) # {} /\ KillInvalid(s)
  <2>1. /\ teamState' = [teamState EXCEPT ![s] = "STARTED"] /\ UNCHANGED inTeam
        /\ tee' = [c \in Clients |-> IF c \in Members(s) THEN None ELSE tee[c]]
    BY <1>10 DEF KillInvalid
  <2>2. /\ tee' \in [Clients -> RequestId \cup {None}]
        /\ \A c \in Clients : tee'[c] = tee[c] \/ (tee'[c] = None /\ c \in Members(s))
    BY <1>2, <2>1
  <2>3. \A q \in Servers : Members(q)' = Members(q)
    BY <2>1 DEF Members
  <2>4. /\ teamState' \in [Servers -> {"EMPTY", "OPEN", "STARTED", "FINISHED"}]
        /\ \A q \in Servers : teamState'[q] = "EMPTY" <=> Members(q)' = {}
    BY <1>2, <1>10, <2>1, <2>3
  <2>5. \A c \in Members(s) : Home[c] = s
    BY DEF Members
  <2>6. GameTypes' /\ TeamInv'
    BY <1>2, <1>5, <2>1, <2>2, <2>4, <2>5
  <2> QED
    BY <1>3, <1>6, <2>2, <2>6 DEF BasicInv
<1>9. CASE UNCHANGED <<inTeam, tee, teamState>>
  <2>1. \A q \in Servers : Members(q)' = Members(q)
    BY <1>9 DEF Members
  <2>2. GameTypes' /\ TeamInv'
    BY <1>2, <1>5, <1>9, <2>1
  <2> QED
    BY <1>3, <1>6, <1>9, <2>2 DEF BasicInv
<1> QED
  BY <1>7, <1>8, <1>9, <1>10, Zenon DEF ProcessSaveTeam

-----------------------------------------------------------------------------
(* A map change or a restart empties a server.                             *)

\* Requests are killed, or stay as they are.
Killed ==
    /\ requests' \in Seq(Requests) /\ DOMAIN requests' = DOMAIN requests
    /\ \A k \in DOMAIN requests :
         /\ requests'[k].server = requests[k].server /\ requests'[k].kind = requests[k].kind
         /\ requests'[k].code = requests[k].code /\ requests'[k].seats = requests[k].seats
         /\ requests'[k].status = requests[k].status /\ requests'[k].save = requests[k].save
         /\ \/ requests'[k].step = requests[k].step
            \/ requests[k].step # "done" /\ requests'[k].step = "killed"

LEMMA EmptyKills ==
    ASSUME RequestInv, NEW s, NEW names, NEW ids, Empty(s, names, ids)
    PROVE  Killed
<1>1. requests' = [id \in DOMAIN requests |->
                     IF id \in ids /\ requests[id].step # "done"
                     THEN [requests[id] EXCEPT !.step = "killed"] ELSE requests[id]]
  BY DEF Empty
<1>2. ASSUME NEW k \in DOMAIN requests
      PROVE  /\ requests'[k] \in Requests
             /\ requests'[k].server = requests[k].server /\ requests'[k].kind = requests[k].kind
             /\ requests'[k].code = requests[k].code /\ requests'[k].seats = requests[k].seats
             /\ requests'[k].status = requests[k].status /\ requests'[k].save = requests[k].save
             /\ \/ requests'[k].step = requests[k].step
                \/ requests[k].step # "done" /\ requests'[k].step = "killed"
  <2>1. requests[k] \in Requests
    BY RequestsBounded
  <2>2. CASE requests'[k] = requests[k]
    BY <2>1, <2>2
  <2>3. CASE requests[k].step # "done" /\ requests'[k] = [requests[k] EXCEPT !.step = "killed"]
    <3> DEFINE r == [requests[k] EXCEPT !.step = "killed"]
    <3>1. "killed" \in SaveSteps \cup LoadSteps
      BY DEF SaveSteps
    <3>2. r \in Requests
      BY <2>1, <3>1, Zenon DEF Requests
    <3>3. /\ r.server = requests[k].server /\ r.kind = requests[k].kind
          /\ r.code = requests[k].code /\ r.seats = requests[k].seats
          /\ r.status = requests[k].status /\ r.save = requests[k].save
          /\ r.step = "killed"
      BY <2>1 DEF Requests
    <3> HIDE DEF r
    <3>4. requests'[k] = r
      BY <2>3 DEF r
    <3> QED
      BY <2>3, <3>2, <3>3, <3>4
  <2> QED
    BY <1>1, <2>2, <2>3
<1>3. requests' \in [DOMAIN requests -> Requests]
  BY <1>1, <1>2
<1>4. requests' \in Seq(Requests)
  BY <1>3, RequestsMapped DEF RequestInv
<1> QED
  BY <1>1, <1>2, <1>4 DEF Killed

LEMMA KilledShape ==
    ASSUME RequestInv, Killed
    PROVE  /\ RequestInv'
           /\ \A n : LoadedBy(n)' = LoadedBy(n) /\ (IsSave(n)' <=> IsSave(n))
<1>1. \A n : LoadedBy(n)' = LoadedBy(n) /\ (IsSave(n)' <=> IsSave(n))
  BY DEF Killed, LoadedBy, IsSave
<1>2. \A kind : OfKind(kind)' = OfKind(kind)
  BY DEF Killed, OfKind
<1>3. ASSUME NEW k \in DOMAIN requests, requests[k].kind = "save"
      PROVE  /\ requests'[k].save = k
             /\ requests'[k].step \in SaveSteps /\ requests'[k].status \in SaveStatus
             /\ \A j \in RequestId : requests'[k].code = Generated(j) => j = k
             /\ requests'[k].step = "backup" => requests'[k].status = "SAVE_FAILED"
  BY <1>3 DEF Killed, RequestInv, SaveSteps
<1>4. ASSUME NEW k \in DOMAIN requests, requests[k].kind = "load"
      PROVE  /\ requests'[k].step \in LoadSteps /\ requests'[k].status \in LoadStatus
             /\ requests'[k].save # None => IsSave(requests[k].save)
             /\ requests'[k].status = "LOAD_SUCCESS" =>
                   requests'[k].step = "done" /\ requests'[k].save # None
  BY <1>4 DEF Killed, RequestInv, LoadSteps
<1>5. Cardinality(OfKind("save"))' <= MaxSaves /\ Cardinality(OfKind("load"))' <= MaxLoads
  BY <1>2 DEF RequestInv
<1> QED
  BY <1>1, <1>3, <1>4, <1>5 DEF RequestInv, Killed, IsSave

LEMMA EmptyStep ==
    ASSUME BasicInv, NEW s \in Servers, NEW names, NEW ids, Empty(s, names, ids),
           names \in [Clients -> Names \cup {NoName}],
           \A c \in Clients : names[c] = who[c] \/ (Home[c] = s /\ names[c] = NoName)
    PROVE  BasicInv' /\ (RunInv => RunInv')
<1>1. /\ who' = names
      /\ inTeam' = [c \in Clients |-> inTeam[c] /\ Home[c] # s]
      /\ tee' = [c \in Clients |-> IF Home[c] = s THEN None ELSE tee[c]]
      /\ teamState' = [teamState EXCEPT ![s] = "EMPTY"]
      /\ result' = [result EXCEPT ![s] = None]
      /\ UNCHANGED <<mainSaves, fileSaves, backupSaves>>
  BY DEF Empty, tableVars
<1>2. Killed
  BY EmptyKills DEF BasicInv
<1>3. RequestInv' /\ \A n : LoadedBy(n)' = LoadedBy(n) /\ (IsSave(n)' <=> IsSave(n))
  BY <1>2, KilledShape DEF BasicInv
<1>4. /\ who \in [Clients -> Names \cup {NoName}] /\ inTeam \in [Clients -> BOOLEAN]
      /\ tee \in [Clients -> RequestId \cup {None}]
      /\ teamState \in [Servers -> {"EMPTY", "OPEN", "STARTED", "FINISHED"}]
      /\ result \in [Servers -> DOMAIN requests \cup {None}]
      /\ \A c \in Clients : Home[c] \in Servers
      /\ \A c \in Clients : tee[c] # None => inTeam[c]
      /\ \A q \in Servers : teamState[q] = "EMPTY" <=> Members(q) = {}
  BY SaveAssumption DEF BasicInv, GameTypes, TeamInv
<1>5. inTeam' \in [Clients -> BOOLEAN] /\ \A c \in Clients : inTeam'[c] <=> inTeam[c] /\ Home[c] # s
  BY <1>1, Zenon
<1>6. /\ \A c \in Clients : tee'[c] = IF Home[c] = s THEN None ELSE tee[c]
      /\ result'[s] = None /\ \A q \in Servers \ {s} : result'[q] = result[q]
      /\ teamState'[s] = "EMPTY" /\ \A q \in Servers \ {s} : teamState'[q] = teamState[q]
      /\ \A c \in Clients : Home[c] # s => who'[c] = who[c]
  BY <1>1, <1>4
<1>7. GameTypes' /\ TableTypes'
  <2>1. TableTypes'
    BY <1>1, <1>3 DEF BasicInv, TableTypes
  <2>2. result' \in [Servers -> DOMAIN requests' \cup {None}]
    BY <1>1, <1>2, <1>4 DEF Killed
  <2>3. /\ tee' \in [Clients -> RequestId \cup {None}]
        /\ teamState' \in [Servers -> {"EMPTY", "OPEN", "STARTED", "FINISHED"}]
    BY <1>1, <1>4
  <2> QED
    BY <1>1, <1>5, <2>1, <2>2, <2>3 DEF GameTypes
<1>8. Members(s)' = {} /\ \A q \in Servers \ {s} : Members(q)' = Members(q)
  BY <1>5 DEF Members
<1>9. TeamInv'
  <2>1. NamesUnique(who') /\ \A c \in Clients : inTeam'[c] => who'[c] # NoName
    BY <1>1, <1>5, <1>6 DEF BasicInv, TeamInv, NamesUnique
  <2>2. \A c \in Clients : tee'[c] # None => inTeam'[c]
    BY <1>4, <1>5, <1>6
  <2>3. \A q \in Servers : teamState'[q] = "EMPTY" <=> Members(q)' = {}
    BY <1>4, <1>6, <1>8
  <2>4. ASSUME NEW q \in Servers, result'[q] # None
        PROVE  /\ requests'[result'[q]].server = q
               /\ \A c \in Members(q)' : Seated(c, result[q])'
               /\ requests'[result'[q]].kind = "save" =>
                    \A c \in Clients : Home[c] = q => tee'[c] = None
    <3>1. q # s /\ result'[q] = result[q] /\ result[q] # None /\ result[q] \in DOMAIN requests
      BY <1>4, <1>6, <2>4
    <3>2. \A c \in Members(q)' : c \in Members(q) /\ who'[c] = who[c]
      BY <1>6, <1>8, <3>1 DEF Members
    <3>3. /\ requests[result[q]].server = q
          /\ \A c \in Members(q) : Seated(c, result[q])
          /\ requests[result[q]].kind = "save" => \A c \in Clients : Home[c] = q => tee[c] = None
      BY <3>1 DEF BasicInv, TeamInv
    <3> QED
      BY <1>2, <1>6, <3>1, <3>2, <3>3 DEF Seated, Killed
  <2> HIDE DEF Members, Seated
  <2> QED
    BY <2>1, <2>2, <2>3, <2>4, Zenon DEF TeamInv, NamesUnique
<1>10. OwnerInv'
  <2>1. \A c \in Clients : tee'[c] # None => tee'[c] = tee[c] /\ who'[c] = who[c]
    BY <1>6
  <2> QED
    BY <1>2, <2>1 DEF BasicInv, OwnerInv, Seated, Killed
<1>11. ASSUME RunInv PROVE RunInv'
  <2>1. MainInv'
    BY <1>1, <1>2, <1>3, <1>11 DEF RunInv, MainInv, Killed, IsSave
  <2>2. FileInv'
    BY <1>1, <1>2, <1>3, <1>11 DEF RunInv, FileInv, Killed, IsSave, Stored
  <2>3. BackupInv'
    BY <1>1, <1>2, <1>3, <1>11 DEF RunInv, BackupInv, Killed, IsSave
  <2>4. LoadedInv'
    BY <1>1, <1>2, <1>3, <1>11 DEF RunInv, LoadedInv, Killed, Stored
  <2>5. KeptInv'
    BY <1>1, <1>2, <1>3, <1>11 DEF RunInv, KeptInv, Killed, Stored
  <2>6. TeeInv'
    <3>1. ASSUME NEW c \in Clients, tee'[c] # None
          PROVE  /\ tee'[c] = tee[c] /\ IsSave(tee[c])
                 /\ \/ /\ requests'[tee[c]].status = "SAVE_FAILED" /\ requests'[tee[c]].step = "done"
                       /\ requests'[tee[c]].server = Home[c] /\ result'[Home[c]] # tee[c]
                    \/ \E id \in LoadedBy(tee[c]) :
                         requests'[id].server = Home[c] /\ result'[Home[c]] # id
      <4>1. tee'[c] = tee[c] /\ result'[Home[c]] = result[Home[c]]
        BY <1>4, <1>6, <3>1
      <4>2. \A id \in LoadedBy(tee[c]) : id \in DOMAIN requests
        BY DEF LoadedBy
      <4> QED
        BY <1>2, <1>11, <3>1, <4>1, <4>2 DEF RunInv, TeeInv, Killed, IsSave
    <3>2. \A c \in Clients : tee'[c] # None => LoadedBy(tee[c])' = LoadedBy(tee'[c])
      BY <1>2 DEF LoadedBy, Killed
    <3>3. \A c \in Clients : tee'[c] # None => IsSave(tee[c])'
      BY <1>2, <3>1 DEF IsSave, Killed
    <3> QED
      BY <3>1, <3>2, <3>3 DEF TeeInv
  <2> QED
    BY <2>1, <2>2, <2>3, <2>4, <2>5, <2>6 DEF RunInv
<1> QED
  BY <1>3, <1>7, <1>9, <1>10, <1>11 DEF BasicInv

LEMMA ResetsStep ==
    ASSUME BasicInv, NEW s \in Servers, Reset(s) \/ Restart(s)
    PROVE  BasicInv' /\ (RunInv => RunInv')
<1>1. who \in [Clients -> Names \cup {NoName}]
  BY DEF BasicInv, GameTypes
<1>2. CASE Reset(s)
  BY <1>1, <1>2, EmptyStep DEF Reset
<1>3. CASE Restart(s)
  <2> DEFINE names == [c \in Clients |-> IF Home[c] = s THEN NoName ELSE who[c]]
             ids == {id \in DOMAIN requests : requests[id].server = s}
  <2>1. /\ names \in [Clients -> Names \cup {NoName}]
        /\ \A c \in Clients : names[c] = who[c] \/ (Home[c] = s /\ names[c] = NoName)
    BY <1>1
  <2>2. Empty(s, names, ids)
    BY <1>3, Zenon DEF Restart
  <2> HIDE DEF names, ids
  <2> QED
    BY <2>1, <2>2, EmptyStep
<1> QED
  BY <1>2, <1>3

-----------------------------------------------------------------------------
(* A statement: the types, and the teams, which it leaves alone.           *)

LEMMA WorkKeepsBasic ==
    ASSUME BasicInv, KeepGame, NEW id \in DOMAIN requests, NEW step, NEW status, NEW save,
           Changed(id, step, status, save), requests[id].step # "done",
           requests[id].kind = "save" =>
             step \in SaveSteps \ {"backup"} /\ status \in SaveStatus /\ save = id,
           requests[id].kind = "load" =>
             /\ step \in LoadSteps /\ status \in LoadStatus
             /\ save # None => IsSave(save)
             /\ status = "LOAD_SUCCESS" => step = "done" /\ save # None,
           TableTypes'
    PROVE  BasicInv'
<1>1. UNCHANGED <<who, inTeam, tee, teamState, result>>
  BY DEF KeepGame, gameVars
<1>2. /\ RequestInv'
      /\ \A k \in DOMAIN requests : /\ requests'[k].kind = requests[k].kind
                                    /\ requests'[k].server = requests[k].server
                                    /\ requests'[k].code = requests[k].code
                                    /\ requests'[k].seats = requests[k].seats
  BY ChangedShape DEF BasicInv
<1>3. GameTypes'
  BY <1>1 DEF BasicInv, GameTypes, Changed
<1>4. \A s \in Servers : Members(s)' = Members(s)
  BY <1>1 DEF Members
<1>5. \A s \in Servers : result[s] # None => result[s] \in DOMAIN requests
  BY DEF BasicInv, GameTypes
<1>6. TeamInv'
  BY <1>1, <1>2, <1>4, <1>5 DEF BasicInv, TeamInv, Seated
<1>7. OwnerInv'
  <2> SUFFICES ASSUME NEW c \in Clients, tee[c] # None
               PROVE  \E k \in DOMAIN requests :
                        /\ requests'[k].save = tee[c] /\ Seated(c, k)'
                        /\ requests'[k].kind = "save" \/ requests'[k].status = "LOAD_SUCCESS"
    BY <1>1 DEF OwnerInv, Changed
  <2>1. PICK k \in DOMAIN requests :
          /\ requests[k].save = tee[c] /\ Seated(c, k)
          /\ requests[k].kind = "save" \/ requests[k].status = "LOAD_SUCCESS"
    BY DEF BasicInv, OwnerInv
  <2>2. Seated(c, k)'
    BY <1>1, <1>2, <2>1 DEF Seated
  <2>3. CASE k # id
    BY <2>1, <2>2, <2>3 DEF Changed
  <2>4. CASE k = id
    <3>1. requests[id].kind = "save"
      <4>1. requests[id] \in Requests
        BY RequestsBounded DEF BasicInv
      <4> QED
        BY <2>1, <2>4, <4>1 DEF BasicInv, RequestInv, Requests
    <3> QED
      BY <2>1, <2>2, <2>4, <3>1 DEF Changed, BasicInv, RequestInv
  <2> QED
    BY <2>3, <2>4
<1> QED
  BY <1>2, <1>3, <1>6, <1>7 DEF BasicInv

\* A request stays one of its kind.
LEMMA SavesStay ==
    ASSUME NEW id, NEW step, NEW status, NEW save, Changed(id, step, status, save)
    PROVE  \A n : IsSave(n)' <=> IsSave(n)
BY DEF Changed, IsSave

\* Which requests are at a step that only saves, or only loads, have.
LEMMA AtKind ==
    ASSUME BasicInv, NEW id, NEW step, At(id, step)
    PROVE  /\ id \in DOMAIN requests /\ id \in RequestId /\ requests[id].step = step
           /\ requests[id] \in Requests /\ requests[id].server \in Servers
           /\ requests[id].kind \in {"save", "load"}
           /\ step \in {"backup", "retry", "succeeded", "moved"} => requests[id].kind = "save"
           /\ step \in {"delete", "fileDelete"} => requests[id].kind = "load"
           /\ requests[id].kind = "save" =>
                /\ IsSave(id) /\ requests[id].save = id /\ requests[id].status \in SaveStatus
                /\ \A k \in RequestId : requests[id].code = Generated(k) => k = id
           /\ requests[id].kind = "load" /\ step # "done" => requests[id].status = "LOAD_FAILED"
<1>1. id \in DOMAIN requests /\ requests[id].step = step
  BY DEF At, Made
<1>2. id \in RequestId /\ requests[id] \in Requests
  BY <1>1, RequestsBounded DEF BasicInv
<1>3. requests[id].kind = "save" =>
        /\ IsSave(id) /\ requests[id].save = id /\ requests[id].status \in SaveStatus
        /\ \A k \in RequestId : requests[id].code = Generated(k) => k = id
        /\ step \in SaveSteps
  BY <1>1 DEF BasicInv, RequestInv, IsSave
<1>4. requests[id].kind = "load" =>
        /\ step \in LoadSteps /\ requests[id].status \in LoadStatus
        /\ requests[id].status = "LOAD_SUCCESS" => step = "done"
  BY <1>1 DEF BasicInv, RequestInv
<1>5. requests[id].server \in Servers /\ requests[id].kind \in {"save", "load"}
  BY <1>2 DEF Requests
<1>6. /\ step \in {"backup", "retry", "succeeded", "moved"} => requests[id].kind = "save"
      /\ step \in {"delete", "fileDelete"} => requests[id].kind = "load"
  BY <1>3, <1>4, <1>5 DEF SaveSteps, LoadSteps
<1>7. requests[id].kind = "load" /\ step # "done" => requests[id].status = "LOAD_FAILED"
  BY <1>4 DEF LoadStatus
<1> QED
  BY <1>1, <1>2, <1>3, <1>5, <1>6, <1>7

-----------------------------------------------------------------------------
(* The statements of a save.                                               *)

\* Nothing has loaded a save whose statements are not over, and it is nowhere.
LEMMA UnderWay ==
    ASSUME BasicInv, RunInv, NEW id, IsSave(id),
           requests[id].step \in {"backup", "normal", "retry", "failed"}
    PROVE  /\ LoadedBy(id) = {} /\ ~Stored(id, mainSaves)
           /\ \A s \in Servers : ~Stored(id, fileSaves[s])
<1>1. LoadedBy(id) = {}
  BY DEF RunInv, LoadedInv, IsSave
<1>2. ~Stored(id, mainSaves)
  BY DEF RunInv, MainInv, Stored
<1>3. \A s \in Servers : ~Stored(id, fileSaves[s])
  BY DEF RunInv, FileInv, Stored
<1> QED
  BY <1>1, <1>2, <1>3

\* The tees and the loads do not change.
LEMMA SaveGoesOn ==
    ASSUME BasicInv, RunInv, KeepGame, NEW id, IsSave(id), NEW step, NEW status,
           Changed(id, step, status, id), requests[id].step # "done"
    PROVE  /\ \A n : LoadedBy(n)' = LoadedBy(n) /\ (IsSave(n)' <=> IsSave(n))
           /\ TeeInv'
<1>1. \A n : LoadedBy(n)' = LoadedBy(n) /\ (IsSave(n)' <=> IsSave(n))
  BY DEF Changed, LoadedBy, IsSave
<1>2. UNCHANGED <<tee, result>>
  BY DEF KeepGame, gameVars
<1>3. ASSUME NEW c \in Clients, tee[c] # None
      PROVE  /\ IsSave(tee[c])
             /\ \/ /\ requests'[tee[c]].status = "SAVE_FAILED" /\ requests'[tee[c]].step = "done"
                   /\ requests'[tee[c]].server = Home[c] /\ result[Home[c]] # tee[c]
                \/ \E k \in LoadedBy(tee[c]) : requests'[k].server = Home[c] /\ result[Home[c]] # k
  <2>1. /\ IsSave(tee[c])
        /\ \/ /\ requests[tee[c]].status = "SAVE_FAILED" /\ requests[tee[c]].step = "done"
              /\ requests[tee[c]].server = Home[c] /\ result[Home[c]] # tee[c]
           \/ \E k \in LoadedBy(tee[c]) : requests[k].server = Home[c] /\ result[Home[c]] # k
    BY <1>3 DEF RunInv, TeeInv
  <2>2. \A k \in LoadedBy(tee[c]) : k \in DOMAIN requests /\ k # id
    BY DEF LoadedBy, IsSave
  <2> QED
    BY <2>1, <2>2 DEF Changed, IsSave
<1>4. TeeInv'
  <2>1. \A c \in Clients : tee[c] # None => IsSave(tee[c])'
    BY <1>1, <1>2, <1>3
  <2>2. \A c \in Clients : LoadedBy(tee[c])' = LoadedBy(tee[c])
    BY <1>1, <1>2
  <2> QED
    BY <1>2, <1>3, <2>1, <2>2 DEF TeeInv
<1> QED
  BY <1>1, <1>4

\* A statement that fails or finds the code taken leaves the tables alone.
LEMMA SaveWritesNothing ==
    ASSUME BasicInv, RunInv, KeepGame, NEW id, IsSave(id), UNCHANGED tableVars,
           requests[id].step \in {"backup", "normal", "retry", "failed"},
           NEW step \in {"normal", "retry", "failed", "done"},
           Changed(id, step, requests[id].status, id)
    PROVE  RunInv'
<1>1. /\ \A n : LoadedBy(n)' = LoadedBy(n) /\ (IsSave(n)' <=> IsSave(n))
      /\ TeeInv'
  BY SaveGoesOn
<1>2. /\ LoadedBy(id) = {} /\ ~Stored(id, mainSaves)
      /\ \A s \in Servers : ~Stored(id, fileSaves[s])
  BY UnderWay
<1>3. UNCHANGED <<mainSaves, fileSaves, backupSaves>>
  BY DEF tableVars
<1>4. \A k : IsSave(k) => /\ requests'[k].status = requests[k].status
                          /\ requests'[k].server = requests[k].server
                          /\ k # id => requests'[k] = requests[k]
  BY DEF Changed, IsSave
<1>5. MainInv' /\ FileInv'
  BY <1>1, <1>2, <1>3, <1>4 DEF RunInv, MainInv, FileInv, Stored
<1>6. BackupInv'
  BY <1>1, <1>3, <1>4 DEF RunInv, BackupInv, Changed
<1>7. LoadedInv'
  <2>1. \A n \in DOMAIN requests : LoadedBy(n) # {} => requests'[n] = requests[n]
    BY <1>2 DEF Changed
  <2> QED
    BY <1>1, <1>3, <2>1 DEF RunInv, LoadedInv, Stored, Changed
<1>8. KeptInv'
  BY <1>1, <1>2, <1>3, <1>4 DEF RunInv, KeptInv, Stored, Changed
<1> QED
  BY <1>1, <1>5, <1>6, <1>7, <1>8 DEF RunInv

\* A row is new in the backup of a save's server.
LEMMA BackupWritten ==
    ASSUME BasicInv, RunInv, KeepGame, NEW id, IsSave(id), requests[id].step = "backup",
           Changed(id, "normal", "SAVE_SUCCESS", id),
           LET s == requests[id].server
           IN  backupSaves' = [backupSaves EXCEPT ![s] = @ \cup {Row(Generated(id), id)}],
           UNCHANGED <<mainSaves, fileSaves>>
    PROVE  RunInv'
<1>1. /\ \A n : LoadedBy(n)' = LoadedBy(n) /\ (IsSave(n)' <=> IsSave(n))
      /\ TeeInv'
  BY SaveGoesOn
<1>2. /\ LoadedBy(id) = {} /\ ~Stored(id, mainSaves)
      /\ \A s \in Servers : ~Stored(id, fileSaves[s])
  BY UnderWay
<1>3. requests[id].server \in Servers
  BY RequestsBounded DEF BasicInv, IsSave, Requests
<1>4. \A k : IsSave(k) => /\ requests'[k].server = requests[k].server
                          /\ k # id => requests'[k] = requests[k]
  BY DEF Changed, IsSave
<1>5. /\ requests'[id].step = "normal" /\ requests'[id].status = "SAVE_SUCCESS"
      /\ requests'[id].server = requests[id].server
  BY DEF Changed
<1>6. backupSaves \in [Servers -> SUBSET Rows]
  BY DEF BasicInv, TableTypes
<1>7. \A s \in Servers : backupSaves'[s] =
        IF s = requests[id].server THEN backupSaves[s] \cup {Row(Generated(id), id)}
                                   ELSE backupSaves[s]
  BY <1>3, <1>6
<1>8. MainInv' /\ FileInv'
  BY <1>1, <1>2, <1>4 DEF RunInv, MainInv, FileInv, Stored
<1>9. BackupInv'
  <2> SUFFICES ASSUME NEW s \in Servers, NEW row \in backupSaves'[s]
               PROVE  /\ IsSave(row.save) /\ requests'[row.save].status = "SAVE_SUCCESS"
                      /\ requests'[row.save].step # "backup"
                      /\ requests'[row.save].server = s /\ row.code = Generated(row.save)
    BY <1>1 DEF BackupInv, IsSave
  <2>1. CASE row \in backupSaves[s]
    BY <1>4, <1>5, <2>1 DEF RunInv, BackupInv
  <2>2. CASE s = requests[id].server /\ row = Row(Generated(id), id)
    BY <1>5, <2>2 DEF Row
  <2> QED
    BY <1>7, <2>1, <2>2
<1>10. LoadedInv'
  <2>1. \A n \in DOMAIN requests : LoadedBy(n) # {} => requests'[n] = requests[n]
    BY <1>2 DEF Changed
  <2> QED
    BY <1>1, <2>1 DEF RunInv, LoadedInv, Stored, Changed
<1>11. KeptInv'
  <2> SUFFICES ASSUME NEW n, IsSave(n), requests'[n].status = "SAVE_SUCCESS", LoadedBy(n) = {}
               PROVE  \/ Stored(n, mainSaves)
                      \/ Stored(n, fileSaves[requests[n].server])
                      \/ /\ Stored(n, backupSaves'[requests[n].server])
                         /\ requests'[n].step \notin {"moved", "succeeded"}
    BY <1>1, <1>4 DEF KeptInv, Stored, IsSave, Changed
  <2>0. requests[n].server \in Servers
    BY RequestsBounded DEF BasicInv, IsSave, Requests
  <2>1. CASE n = id
    <3>1. Row(Generated(id), id) \in backupSaves'[requests[id].server]
      BY <1>3, <1>7
    <3> QED
      BY <1>5, <2>1, <3>1 DEF Stored, Row
  <2>2. CASE n # id
    <3>1. Stored(n, backupSaves[requests[n].server]) => Stored(n, backupSaves'[requests[n].server])
      BY <1>7, <2>0 DEF Stored
    <3> QED
      BY <1>4, <2>2, <3>1 DEF RunInv, KeptInv, IsSave
  <2> QED
    BY <2>1, <2>2
<1> QED
  BY <1>1, <1>8, <1>9, <1>10, <1>11 DEF RunInv

\* A row is new in the main database.
LEMMA MainWritten ==
    ASSUME BasicInv, RunInv, KeepGame, NEW id, IsSave(id), NEW code,
           requests[id].step \in {"normal", "retry"},
           Changed(id, "succeeded", "SAVE_SUCCESS", id),
           \A k \in RequestId : code = Generated(k) => k = id,
           mainSaves' = mainSaves \cup {Row(code, id)},
           UNCHANGED <<fileSaves, backupSaves>>
    PROVE  RunInv'
<1>1. /\ \A n : LoadedBy(n)' = LoadedBy(n) /\ (IsSave(n)' <=> IsSave(n))
      /\ TeeInv'
  BY SaveGoesOn
<1>2. /\ LoadedBy(id) = {} /\ ~Stored(id, mainSaves)
      /\ \A s \in Servers : ~Stored(id, fileSaves[s])
  BY UnderWay
<1>3. \A k : IsSave(k) => /\ requests'[k].server = requests[k].server
                          /\ k # id => requests'[k] = requests[k]
  BY DEF Changed, IsSave
<1>4. /\ requests'[id].step = "succeeded" /\ requests'[id].status = "SAVE_SUCCESS"
      /\ requests'[id].server = requests[id].server
  BY DEF Changed
<1> DEFINE new == Row(code, id)
<1>5. new.save = id /\ new.code = code
  BY DEF Row
<1>6. mainSaves' = mainSaves \cup {new}
  OBVIOUS
<1> HIDE DEF new
<1>7. \A row \in mainSaves : row.save # id
  BY <1>2 DEF Stored
<1>8. \A n : Stored(n, mainSaves)' <=> Stored(n, mainSaves) \/ n = id
  BY <1>5, <1>6 DEF Stored
<1>9. MainInv'
  <2> SUFFICES ASSUME NEW row \in mainSaves'
               PROVE  /\ IsSave(row.save) /\ requests'[row.save].status = "SAVE_SUCCESS"
                      /\ requests'[row.save].step \in {"succeeded", "done", "killed"}
                      /\ \A k \in RequestId : row.code = Generated(k) => k = row.save
                      /\ \A other \in mainSaves' : other.save = row.save => other = row
    BY <1>1 DEF MainInv, IsSave
  <2>1. CASE row = new
    BY <1>4, <1>5, <1>6, <1>7, <2>1
  <2>2. CASE row \in mainSaves
    BY <1>3, <1>5, <1>6, <1>7, <2>2 DEF RunInv, MainInv
  <2> QED
    BY <1>6, <2>1, <2>2
<1>10. FileInv'
  <2> SUFFICES ASSUME NEW s \in Servers, NEW row \in fileSaves[s]
               PROVE  /\ IsSave(row.save) /\ requests'[row.save].status = "SAVE_SUCCESS"
                      /\ requests'[row.save].step \in {"moved", "done", "killed"}
                      /\ requests'[row.save].server = s /\ row.code = Generated(row.save)
                      /\ ~Stored(row.save, mainSaves')
    BY <1>1 DEF FileInv, IsSave, Stored
  <2>1. row.save # id
    BY <1>2 DEF Stored
  <2>2. /\ IsSave(row.save) /\ requests[row.save].status = "SAVE_SUCCESS"
        /\ requests[row.save].step \in {"moved", "done", "killed"}
        /\ requests[row.save].server = s /\ row.code = Generated(row.save)
        /\ ~Stored(row.save, mainSaves)
    BY DEF RunInv, FileInv
  <2>3. ~Stored(row.save, mainSaves')
    BY <1>8, <2>1, <2>2
  <2> QED
    BY <1>3, <2>1, <2>2, <2>3
<1>11. BackupInv'
  BY <1>1, <1>3, <1>4 DEF RunInv, BackupInv
<1>12. LoadedInv'
  <2>1. \A n \in DOMAIN requests : LoadedBy(n) # {} => requests'[n] = requests[n] /\ n # id
    BY <1>2 DEF Changed
  <2> QED
    BY <1>1, <1>8, <2>1 DEF RunInv, LoadedInv, Stored, Changed
<1>13. KeptInv'
  <2> SUFFICES ASSUME NEW n, IsSave(n), requests'[n].status = "SAVE_SUCCESS", LoadedBy(n) = {}
               PROVE  \/ Stored(n, mainSaves')
                      \/ Stored(n, fileSaves[requests[n].server])
                      \/ /\ Stored(n, backupSaves[requests[n].server])
                         /\ requests'[n].step \notin {"moved", "succeeded"}
    BY <1>1, <1>3 DEF KeptInv, Stored, IsSave, Changed
  <2> QED
    BY <1>3, <1>8 DEF RunInv, KeptInv, IsSave, Stored
<1> QED
  BY <1>1, <1>9, <1>10, <1>11, <1>12, <1>13 DEF RunInv

\* The row of the backup becomes one of the file's own table.
LEMMA FileWritten ==
    ASSUME BasicInv, RunInv, KeepGame, NEW id, IsSave(id), requests[id].step = "failed",
           Changed(id, "moved", requests[id].status, id),
           LET s == requests[id].server
           IN  fileSaves' = [fileSaves EXCEPT ![s] = @ \cup RowsWith(backupSaves[s], Generated(id))],
           UNCHANGED <<mainSaves, backupSaves>>
    PROVE  RunInv'
<1>1. /\ \A n : LoadedBy(n)' = LoadedBy(n) /\ (IsSave(n)' <=> IsSave(n))
      /\ TeeInv'
  BY SaveGoesOn
<1>2. /\ LoadedBy(id) = {} /\ ~Stored(id, mainSaves)
      /\ \A s \in Servers : ~Stored(id, fileSaves[s])
  BY UnderWay
<1>3. requests[id].server \in Servers /\ id \in RequestId
  BY RequestsBounded DEF BasicInv, IsSave, Requests
<1>4. \A k : IsSave(k) => /\ requests'[k].server = requests[k].server
                          /\ requests'[k].status = requests[k].status
                          /\ k # id => requests'[k] = requests[k]
  BY DEF Changed, IsSave
<1>5. requests'[id].step = "moved"
  BY DEF Changed
<1>6. \A s \in Servers : fileSaves'[s] =
        IF s = requests[id].server THEN fileSaves[s] \cup RowsWith(backupSaves[s], Generated(id))
                                   ELSE fileSaves[s]
  BY <1>3 DEF BasicInv, TableTypes
<1>7. \A s \in Servers : \A row \in RowsWith(backupSaves[s], Generated(id)) :
        /\ row \in backupSaves[s] /\ row.save = id /\ row.code = Generated(id)
        /\ requests[id].status = "SAVE_SUCCESS" /\ requests[id].server = s
  BY CodesDiffer DEF RunInv, BackupInv, RowsWith
<1>8. MainInv'
  BY <1>1, <1>2, <1>4 DEF RunInv, MainInv, Stored
<1>9. FileInv'
  <2> SUFFICES ASSUME NEW s \in Servers, NEW row \in fileSaves'[s]
               PROVE  /\ IsSave(row.save) /\ requests'[row.save].status = "SAVE_SUCCESS"
                      /\ requests'[row.save].step \in {"moved", "done", "killed"}
                      /\ requests'[row.save].server = s /\ row.code = Generated(row.save)
                      /\ ~Stored(row.save, mainSaves)
    BY <1>1 DEF FileInv, IsSave, Stored
  <2>1. CASE row \in fileSaves[s]
    <3>1. row.save # id
      BY <1>2, <2>1 DEF Stored
    <3> QED
      BY <1>4, <2>1, <3>1 DEF RunInv, FileInv
  <2>2. CASE row \in RowsWith(backupSaves[s], Generated(id))
    BY <1>2, <1>4, <1>5, <1>7, <2>2
  <2> QED
    BY <1>6, <2>1, <2>2
<1>10. BackupInv'
  BY <1>1, <1>4, <1>5 DEF RunInv, BackupInv
<1>11. LoadedInv'
  <2>1. \A n \in DOMAIN requests : LoadedBy(n) # {} => requests'[n] = requests[n] /\ n # id
    BY <1>2 DEF Changed
  <2>2. \A n, s : s \in Servers /\ n # id /\ ~Stored(n, fileSaves[s]) => ~Stored(n, fileSaves'[s])
    BY <1>6, <1>7 DEF Stored
  <2> QED
    BY <1>1, <2>1, <2>2 DEF RunInv, LoadedInv, Stored, Changed
<1>12. KeptInv'
  <2> SUFFICES ASSUME NEW n, IsSave(n), requests[n].status = "SAVE_SUCCESS", LoadedBy(n) = {}
               PROVE  \/ Stored(n, mainSaves)
                      \/ Stored(n, fileSaves'[requests[n].server])
                      \/ /\ Stored(n, backupSaves[requests[n].server])
                         /\ requests'[n].step \notin {"moved", "succeeded"}
    BY <1>1, <1>4 DEF KeptInv, Stored, IsSave, Changed
  <2>0. requests[n].server \in Servers
    BY RequestsBounded DEF BasicInv, IsSave, Requests
  <2>1. \/ Stored(n, mainSaves)
        \/ Stored(n, fileSaves[requests[n].server])
        \/ /\ Stored(n, backupSaves[requests[n].server])
           /\ requests[n].step \notin {"moved", "succeeded"}
    BY DEF RunInv, KeptInv, IsSave
  <2>2. Stored(n, fileSaves[requests[n].server]) => Stored(n, fileSaves'[requests[n].server])
    BY <1>6, <2>0 DEF Stored
  <2>3. CASE n # id
    BY <1>4, <2>1, <2>2, <2>3
  <2>4. CASE n = id
    <3>1. PICK row \in backupSaves[requests[id].server] : row.save = id
      BY <1>2, <2>0, <2>1, <2>4 DEF Stored
    <3>2. row \in RowsWith(backupSaves[requests[id].server], Generated(id))
      BY <1>3, <3>1 DEF RunInv, BackupInv, RowsWith
    <3>3. row \in fileSaves'[requests[id].server]
      BY <1>3, <1>6, <3>2
    <3> QED
      BY <2>4, <3>1, <3>3 DEF Stored
  <2> QED
    BY <2>3, <2>4
<1> QED
  BY <1>1, <1>8, <1>9, <1>10, <1>11, <1>12 DEF RunInv

\* The row of the backup is deleted, after another table has it.
LEMMA BackupDeleted ==
    ASSUME BasicInv, RunInv, KeepGame, NEW id, IsSave(id),
           requests[id].step \in {"succeeded", "moved"},
           Changed(id, "done", requests[id].status, id),
           LET s == requests[id].server
           IN  backupSaves' = [backupSaves EXCEPT ![s] = Without(@, Generated(id))],
           UNCHANGED <<mainSaves, fileSaves>>
    PROVE  RunInv'
<1>1. /\ \A n : LoadedBy(n)' = LoadedBy(n) /\ (IsSave(n)' <=> IsSave(n))
      /\ TeeInv'
  BY SaveGoesOn
<1>2. requests[id].server \in Servers /\ id \in RequestId
  BY RequestsBounded DEF BasicInv, IsSave, Requests
<1>3. \A k : IsSave(k) => /\ requests'[k].server = requests[k].server
                          /\ requests'[k].status = requests[k].status
                          /\ k # id => requests'[k] = requests[k]
  BY DEF Changed, IsSave
<1>4. requests'[id].step = "done"
  BY DEF Changed
<1>5. \A s \in Servers : backupSaves'[s] =
        IF s = requests[id].server THEN Without(backupSaves[s], Generated(id)) ELSE backupSaves[s]
  BY <1>2 DEF BasicInv, TableTypes
<1>6. \A s \in Servers : /\ backupSaves'[s] \subseteq backupSaves[s]
                         /\ \A row \in backupSaves[s] : row.save # id => row \in backupSaves'[s]
  BY <1>5, CodesDiffer DEF RunInv, BackupInv, Without, RowsWith
<1>7. MainInv' /\ FileInv'
  BY <1>1, <1>3, <1>4 DEF RunInv, MainInv, FileInv, Stored
<1>8. BackupInv'
  <2> SUFFICES ASSUME NEW s \in Servers, NEW row \in backupSaves'[s]
               PROVE  /\ IsSave(row.save) /\ requests'[row.save].status = "SAVE_SUCCESS"
                      /\ requests'[row.save].step # "backup"
                      /\ requests'[row.save].server = s /\ row.code = Generated(row.save)
    BY <1>1 DEF BackupInv, IsSave
  <2> QED
    BY <1>3, <1>4, <1>6 DEF RunInv, BackupInv
<1>9. LoadedInv'
  BY <1>1, <1>3, <1>4 DEF RunInv, LoadedInv, Stored, Changed
<1>10. KeptInv'
  <2> SUFFICES ASSUME NEW n, IsSave(n), requests[n].status = "SAVE_SUCCESS", LoadedBy(n) = {}
               PROVE  \/ Stored(n, mainSaves)
                      \/ Stored(n, fileSaves[requests[n].server])
                      \/ /\ Stored(n, backupSaves'[requests[n].server])
                         /\ requests'[n].step \notin {"moved", "succeeded"}
    BY <1>1, <1>3 DEF KeptInv, Stored, IsSave, Changed
  <2>0. requests[n].server \in Servers
    BY RequestsBounded DEF BasicInv, IsSave, Requests
  <2>1. \/ Stored(n, mainSaves)
        \/ Stored(n, fileSaves[requests[n].server])
        \/ /\ Stored(n, backupSaves[requests[n].server])
           /\ requests[n].step \notin {"moved", "succeeded"}
    BY DEF RunInv, KeptInv, IsSave
  <2>2. n # id /\ Stored(n, backupSaves[requests[n].server])
          => Stored(n, backupSaves'[requests[n].server])
    BY <1>6, <2>0 DEF Stored
  <2> QED
    BY <1>3, <2>1, <2>2
<1> QED
  BY <1>1, <1>7, <1>8, <1>9, <1>10 DEF RunInv

\* The row of the backup is not deleted: it stays there.
LEMMA BackupKept ==
    ASSUME BasicInv, RunInv, KeepGame, NEW id, IsSave(id),
           requests[id].step \in {"succeeded", "moved"},
           Changed(id, "done", requests[id].status, id),
           UNCHANGED <<mainSaves, fileSaves, backupSaves>>
    PROVE  RunInv'
<1>1. /\ \A n : LoadedBy(n)' = LoadedBy(n) /\ (IsSave(n)' <=> IsSave(n))
      /\ TeeInv'
  BY SaveGoesOn
<1>2. \A k : IsSave(k) => /\ requests'[k].server = requests[k].server
                          /\ requests'[k].status = requests[k].status
                          /\ k # id => requests'[k] = requests[k]
  BY DEF Changed, IsSave
<1>3. requests'[id].step = "done"
  BY DEF Changed
<1>4. MainInv' /\ FileInv' /\ BackupInv'
  BY <1>1, <1>2, <1>3 DEF RunInv, MainInv, FileInv, BackupInv, Stored
<1>5. LoadedInv'
  BY <1>1, <1>2, <1>3 DEF RunInv, LoadedInv, Stored, Changed
<1>6. KeptInv'
  BY <1>1, <1>2, <1>3 DEF RunInv, KeptInv, Stored, Changed, IsSave
<1> QED
  BY <1>1, <1>4, <1>5, <1>6 DEF RunInv

\* The rows that a statement inserts.
LEMMA InsertedRows ==
    ASSUME NEW table, NEW code, NEW save
    PROVE  /\ Inserted(table, code, save) \subseteq table \cup {Row(code, save)}
           /\ RowsWith(table, code) = {} => Inserted(table, code, save) = table \cup {Row(code, save)}
           /\ RowsWith(table, code) # {} => Inserted(table, code, save) = table
BY DEF Inserted

LEMMA RowTypes ==
    ASSUME NEW code \in Codes, NEW save \in RequestId PROVE Row(code, save) \in Rows
BY DEF Row, Rows, Codes

LEMMA SaveBackupStep ==
    ASSUME BasicInv, NEW id \in RequestId, SaveBackup(id)
    PROVE  BasicInv' /\ ("lost" \notin FileOutcomes /\ RunInv => RunInv')
<1> DEFINE s == requests[id].server
           gen == Generated(id)
<1>1. /\ id \in DOMAIN requests /\ requests[id].step = "backup" /\ requests[id].kind = "save"
      /\ IsSave(id) /\ requests[id].save = id /\ requests[id].status \in SaveStatus
      /\ s \in Servers
  BY AtKind DEF SaveBackup
<1>2. PICK o \in FileOutcomes :
        /\ backupSaves' = [backupSaves EXCEPT ![s] =
             IF o = "fail" THEN @ ELSE Inserted(@, gen, id)]
        /\ Step(id, "normal", IF o = "ok" /\ RowsWith(backupSaves[s], gen) = {}
                              THEN "SAVE_SUCCESS" ELSE requests[id].status)
  BY <1>1, Zenon DEF SaveBackup
<1>3. KeepGame /\ UNCHANGED <<mainSaves, fileSaves>>
  BY DEF SaveBackup
<1> DEFINE status == IF o = "ok" /\ RowsWith(backupSaves[s], gen) = {}
                     THEN "SAVE_SUCCESS" ELSE requests[id].status
<1>4. status \in SaveStatus /\ "normal" \in SaveSteps \ {"backup"}
  BY <1>1 DEF SaveStatus, SaveSteps
<1>5. Changed(id, "normal", status, id)
  BY <1>1, <1>2, <1>4, StepChanges DEF BasicInv
<1>6. gen \in Codes /\ Row(gen, id) \in Rows
  BY RowTypes DEF Codes
<1>7. TableTypes'
  <2>1. backupSaves \in [Servers -> SUBSET Rows]
    BY DEF BasicInv, TableTypes
  <2>2. Inserted(backupSaves[s], gen, id) \subseteq Rows
    BY <1>1, <1>6, <2>1, InsertedRows
  <2> HIDE DEF gen
  <2>3. backupSaves' \in [Servers -> SUBSET Rows]
    BY <1>1, <1>2, <2>1, <2>2
  <2>4. \A q \in Servers : backupSaves'[q] \subseteq backupSaves[q] \cup {Row(gen, id)}
    BY <1>2, <2>1, InsertedRows
  <2>5. \A q \in Servers : \A row \in backupSaves'[q] : row \in backupSaves[q] \/ row.save = id
    BY <2>4 DEF Row
  <2>6. \A n : IsSave(n)' <=> IsSave(n)
    BY <1>5, SavesStay
  <2> HIDE DEF IsSave
  <2> QED
    BY <1>1, <1>3, <2>3, <2>5, <2>6 DEF BasicInv, TableTypes
<1>8. BasicInv'
  <2> HIDE DEF status
  <2> QED
    BY <1>1, <1>3, <1>4, <1>5, <1>7, WorkKeepsBasic
<1>9. ASSUME "lost" \notin FileOutcomes, RunInv PROVE RunInv'
  <2>1. o \in {"ok", "fail"}
    BY <1>9, SaveAssumption
  <2>2. backupSaves \in [Servers -> SUBSET Rows]
    BY DEF BasicInv, TableTypes
  <2>3. CASE o = "fail"
    <3>1. status = requests[id].status /\ UNCHANGED tableVars
      BY <1>1, <1>2, <1>3, <2>2, <2>3 DEF tableVars
    <3> QED
      BY <1>1, <1>3, <1>5, <1>9, <3>1, SaveWritesNothing
  <2>4. CASE o = "ok"
    <3>1. RowsWith(backupSaves[s], gen) = {}
      <4>1. \A row \in backupSaves[s] : /\ row.code = Generated(row.save)
                                        /\ requests[row.save].step # "backup"
        BY <1>1, <1>9 DEF RunInv, BackupInv
      <4> QED
        BY <1>1, <4>1, CodesDiffer DEF RowsWith
    <3>2. status = "SAVE_SUCCESS"
      BY <2>4, <3>1
    <3>3. Inserted(backupSaves[s], gen, id) = backupSaves[s] \cup {Row(gen, id)}
      BY <3>1, InsertedRows
    <3>4. backupSaves' = [backupSaves EXCEPT ![s] = @ \cup {Row(gen, id)}]
      BY <1>2, <2>4, <3>3
    <3> QED
      BY <1>1, <1>3, <1>5, <1>9, <3>2, <3>4, BackupWritten
  <2> QED
    BY <2>1, <2>3, <2>4
<1> QED
  BY <1>8, <1>9

\* Both rounds of the loop.
LEMMA SaveInsertStep ==
    ASSUME BasicInv, NEW id \in RequestId, KeepGame, UNCHANGED <<fileSaves, backupSaves>>,
           NEW step \in {"normal", "retry"}, At(id, step), requests[id].kind = "save",
           NEW code \in {requests[id].code, Generated(id)}, SaveInsert(id, code)
    PROVE  BasicInv' /\ ("lost" \notin MainOutcomes /\ RunInv => RunInv')
<1>1. /\ id \in DOMAIN requests /\ requests[id].step = step
      /\ IsSave(id) /\ requests[id].save = id /\ requests[id].status \in SaveStatus
      /\ requests[id] \in Requests
      /\ \A k \in RequestId : requests[id].code = Generated(k) => k = id
  BY AtKind
<1>2. code \in Codes /\ \A k \in RequestId : code = Generated(k) => k = id
  BY <1>1, CodesDiffer DEF Codes, Requests
<1> DEFINE new == RowsWith(mainSaves, code) = {}
<1>3. PICK o \in MainOutcomes :
        /\ mainSaves' = IF o = "fail" THEN mainSaves ELSE Inserted(mainSaves, code, id)
        /\ \/ o # "ok" /\ Step(id, "failed", requests[id].status)
           \/ o = "ok" /\ new /\ Step(id, "succeeded", "SAVE_SUCCESS")
           \/ /\ o = "ok" /\ ~new
              /\ Step(id, IF code = Generated(id) THEN "succeeded" ELSE "retry", requests[id].status)
  BY <1>1 DEF SaveInsert
<1>4. "SAVE_SUCCESS" \in SaveStatus /\ {"failed", "succeeded", "retry"} \subseteq SaveSteps \ {"backup"}
  BY DEF SaveStatus, SaveSteps
<1>5. mainSaves' \subseteq mainSaves \cup {Row(code, id)} /\ Row(code, id).save = id
  BY <1>3, InsertedRows DEF Row
<1>6. PICK next \in {"failed", "succeeded", "retry"}, status \in SaveStatus :
        /\ Step(id, next, status)
        /\ \/ o # "ok" /\ next = "failed" /\ status = requests[id].status
           \/ o = "ok" /\ new /\ next = "succeeded" /\ status = "SAVE_SUCCESS"
           \/ o = "ok" /\ ~new /\ code = Generated(id) /\ next = "succeeded"
           \/ o = "ok" /\ ~new /\ next = "retry" /\ status = requests[id].status
  BY <1>1, <1>3, <1>4
<1>7. Changed(id, next, status, id)
  BY <1>1, <1>4, <1>6, StepChanges DEF BasicInv
<1>8. TableTypes'
  <2>1. mainSaves' \subseteq Rows
    BY <1>2, <1>5, RowTypes DEF BasicInv, TableTypes
  <2>2. \A row \in mainSaves' : row \in mainSaves \/ row.save = id
    BY <1>5
  <2>3. \A n : IsSave(n)' <=> IsSave(n)
    BY <1>7, SavesStay
  <2> HIDE DEF IsSave
  <2> QED
    BY <1>1, <2>1, <2>2, <2>3 DEF BasicInv, TableTypes
<1>9. BasicInv'
  BY <1>1, <1>4, <1>8, <1>7, WorkKeepsBasic
<1>10. ASSUME "lost" \notin MainOutcomes, RunInv PROVE RunInv'
  <2>1. o \in {"ok", "fail"}
    BY <1>10, SaveAssumption
  <2>2. code = Generated(id) => new
    <3>1. \A row \in mainSaves : row.save # id
      BY <1>1, <1>10, UnderWay DEF Stored
    <3>2. \A row \in mainSaves : row.code = Generated(id) => row.save = id
      BY <1>10 DEF RunInv, MainInv
    <3> QED
      BY <3>1, <3>2 DEF RowsWith
  <2>3. CASE o = "fail"
    <3>1. UNCHANGED tableVars /\ next = "failed" /\ status = requests[id].status
      BY <1>3, <1>6, <2>3 DEF tableVars
    <3> QED
      BY <1>1, <1>7, <1>10, <3>1, SaveWritesNothing
  <2>4. CASE o = "ok" /\ new
    <3>1. mainSaves' = mainSaves \cup {Row(code, id)}
      BY <1>3, <2>4, InsertedRows
    <3>2. next = "succeeded" /\ status = "SAVE_SUCCESS"
      BY <1>6, <2>4
    <3> QED
      BY <1>1, <1>2, <1>7, <1>10, <3>1, <3>2, MainWritten
  <2>5. CASE o = "ok" /\ ~new
    <3>1. mainSaves' = mainSaves
      BY <1>3, <2>5, InsertedRows
    <3>2. next = "retry" /\ status = requests[id].status
      BY <1>6, <2>2, <2>5
    <3> QED
      BY <1>1, <1>7, <1>10, <3>1, <3>2, SaveWritesNothing DEF tableVars
  <2> QED
    BY <2>1, <2>3, <2>4, <2>5
<1> QED
  BY <1>9, <1>10

LEMMA SaveNormalStep ==
    ASSUME BasicInv, NEW id \in RequestId, SaveNormal(id) \/ SaveRetry(id)
    PROVE  BasicInv' /\ ("lost" \notin MainOutcomes /\ RunInv => RunInv')
<1>1. KeepGame /\ UNCHANGED <<fileSaves, backupSaves>>
  BY DEF SaveNormal, SaveRetry
<1>2. CASE SaveNormal(id)
  <2>1. At(id, "normal") /\ requests[id].kind = "save" /\ SaveInsert(id, requests[id].code)
    BY <1>2 DEF SaveNormal
  <2> QED
    BY <1>1, <2>1, SaveInsertStep
<1>3. CASE SaveRetry(id)
  <2>1. At(id, "retry") /\ SaveInsert(id, Generated(id))
    BY <1>3 DEF SaveRetry
  <2>2. requests[id].kind = "save"
    BY <2>1, AtKind
  <2> QED
    BY <1>1, <2>1, <2>2, SaveInsertStep
<1> QED
  BY <1>2, <1>3

LEMMA DeleteBackupStep ==
    ASSUME BasicInv, NEW id \in RequestId, SaveSucceeded(id) \/ SaveMoved(id)
    PROVE  BasicInv' /\ (RunInv => RunInv')
<1> DEFINE s == requests[id].server
<1>1. /\ KeepGame /\ DeleteBackup(id)
      /\ At(id, "succeeded") \/ At(id, "moved")
      /\ UNCHANGED <<mainSaves, fileSaves>>
  BY DEF SaveSucceeded, SaveMoved, DeleteBackup
<1>2. /\ id \in DOMAIN requests /\ requests[id].step \in {"succeeded", "moved"}
      /\ IsSave(id) /\ requests[id].save = id /\ requests[id].status \in SaveStatus
      /\ requests[id].kind = "save" /\ s \in Servers
  BY <1>1, AtKind
<1>3. PICK o \in FileOutcomes : backupSaves' = [backupSaves EXCEPT ![s] =
        IF o = "fail" THEN @ ELSE Without(@, Generated(id))]
  BY <1>1, Zenon DEF DeleteBackup
<1>4. Step(id, "done", requests[id].status) /\ "done" \in SaveSteps \ {"backup"}
  BY <1>1 DEF DeleteBackup, SaveSteps
<1>5. Changed(id, "done", requests[id].status, id)
  BY <1>2, <1>4, StepChanges DEF BasicInv
<1>6. backupSaves \in [Servers -> SUBSET Rows]
  BY DEF BasicInv, TableTypes
<1>7. TableTypes'
  <2>1. Without(backupSaves[s], Generated(id)) \subseteq Rows
    BY <1>2, <1>6 DEF Without
  <2>2. backupSaves' \in [Servers -> SUBSET Rows]
    BY <1>2, <1>3, <1>6, <2>1
  <2>3. \A q \in Servers : backupSaves'[q] \subseteq backupSaves[q]
    BY <1>3, <1>6 DEF Without
  <2>4. \A n : IsSave(n)' <=> IsSave(n)
    BY <1>5, SavesStay
  <2> HIDE DEF IsSave
  <2> QED
    BY <1>1, <2>2, <2>3, <2>4 DEF BasicInv, TableTypes
<1>8. BasicInv'
  BY <1>1, <1>2, <1>4, <1>5, <1>7, WorkKeepsBasic
<1>9. ASSUME RunInv PROVE RunInv'
  <2>1. CASE o # "fail"
    <3>1. backupSaves' = [backupSaves EXCEPT ![s] = Without(@, Generated(id))]
      BY <1>3, <2>1
    <3> QED
      BY <1>1, <1>2, <1>5, <1>9, <3>1, BackupDeleted
  <2>2. CASE o = "fail"
    <3>1. UNCHANGED <<mainSaves, fileSaves, backupSaves>>
      BY <1>1, <1>3, <1>6, <2>2
    <3> QED
      BY <1>1, <1>2, <1>5, <1>9, <3>1, BackupKept
  <2> QED
    BY <2>1, <2>2
<1> QED
  BY <1>8, <1>9

LEMMA SaveFailedStep ==
    ASSUME BasicInv, NEW id \in RequestId, SaveFailed(id)
    PROVE  BasicInv' /\ ("lost" \notin FileOutcomes /\ RunInv => RunInv')
<1> DEFINE s == requests[id].server
<1>1. KeepGame /\ At(id, "failed") /\ requests[id].kind = "save" /\ UNCHANGED <<mainSaves, backupSaves>>
  BY DEF SaveFailed
<1>2. /\ id \in DOMAIN requests /\ requests[id].step = "failed"
      /\ IsSave(id) /\ requests[id].save = id /\ requests[id].status \in SaveStatus
      /\ s \in Servers
  BY <1>1, AtKind
<1>3. PICK o \in FileOutcomes :
        /\ fileSaves' = [fileSaves EXCEPT ![s] =
             IF o = "fail" THEN @ ELSE @ \cup RowsWith(backupSaves[s], Generated(id))]
        /\ Step(id, IF o = "ok" THEN "moved" ELSE "done", requests[id].status)
  BY Zenon DEF SaveFailed
<1> DEFINE step == IF o = "ok" THEN "moved" ELSE "done"
<1>4. step \in SaveSteps \ {"backup"}
  BY DEF SaveSteps
<1>5. Changed(id, step, requests[id].status, id)
  BY <1>2, <1>3, <1>4, StepChanges DEF BasicInv
<1>6. /\ fileSaves \in [Servers -> SUBSET Rows] /\ RowsWith(backupSaves[s], Generated(id)) \subseteq Rows
  BY <1>2 DEF BasicInv, TableTypes, RowsWith
<1>7. TableTypes'
  <2>1. fileSaves' \in [Servers -> SUBSET Rows]
    BY <1>2, <1>3, <1>6
  <2>2. \A q \in Servers : \A row \in fileSaves'[q] :
          row \in fileSaves[q] \/ (q = s /\ row \in backupSaves[s])
    BY <1>3, <1>6 DEF RowsWith
  <2>3. \A n : IsSave(n)' <=> IsSave(n)
    BY <1>5, SavesStay
  <2> HIDE DEF IsSave
  <2> QED
    BY <1>1, <1>2, <2>1, <2>2, <2>3 DEF BasicInv, TableTypes
<1>8. BasicInv'
  <2> HIDE DEF step
  <2> QED
    BY <1>1, <1>2, <1>4, <1>5, <1>7, WorkKeepsBasic
<1>9. ASSUME "lost" \notin FileOutcomes, RunInv PROVE RunInv'
  <2>1. o \in {"ok", "fail"}
    BY <1>9, SaveAssumption
  <2>2. CASE o = "ok"
    <3>1. fileSaves' = [fileSaves EXCEPT ![s] = @ \cup RowsWith(backupSaves[s], Generated(id))]
          /\ step = "moved"
      BY <1>3, <2>2
    <3> QED
      BY <1>1, <1>2, <1>5, <1>9, <3>1, FileWritten
  <2>3. CASE o = "fail"
    <3>1. fileSaves' = fileSaves /\ step = "done"
      BY <1>3, <1>6, <2>3
    <3> QED
      BY <1>1, <1>2, <1>5, <1>9, <3>1, SaveWritesNothing DEF tableVars
  <2> QED
    BY <2>1, <2>2, <2>3
<1> QED
  BY <1>8, <1>9

-----------------------------------------------------------------------------
(* The statements of a load.                                               *)

\* A load that goes on or fails changes nothing for the saves.
LEMMA LoadIdle ==
    ASSUME BasicInv, RunInv, KeepGame, UNCHANGED tableVars, NEW id \in DOMAIN requests,
           requests[id].kind = "load", requests[id].step # "done",
           NEW step, NEW save, Changed(id, step, "LOAD_FAILED", save)
    PROVE  RunInv'
<1>1. UNCHANGED <<mainSaves, fileSaves, backupSaves, tee, result>>
  BY DEF tableVars, KeepGame, gameVars
<1>2. requests[id].status = "LOAD_FAILED"
  BY DEF BasicInv, RequestInv, LoadStatus
<1>3. \A n : LoadedBy(n)' = LoadedBy(n) /\ (IsSave(n)' <=> IsSave(n))
  BY <1>2 DEF Changed, LoadedBy, IsSave
<1>4. \A n : IsSave(n) => n # id /\ n \in DOMAIN requests /\ requests'[n] = requests[n]
  BY DEF Changed, IsSave
<1>5. MainInv' /\ FileInv' /\ BackupInv'
  BY <1>1, <1>3, <1>4 DEF RunInv, MainInv, FileInv, BackupInv, Stored
<1>6. LoadedInv'
  <2>1. \A n \in DOMAIN requests : LoadedBy(n) # {} => requests'[n] = requests[n]
    BY <1>2 DEF RunInv, LoadedInv, Changed
  <2> QED
    BY <1>1, <1>3, <2>1 DEF RunInv, LoadedInv, Stored, Changed
<1>7. TeeInv'
  <2> SUFFICES ASSUME NEW c \in Clients, tee[c] # None
               PROVE  /\ IsSave(tee[c])
                      /\ \/ /\ requests'[tee[c]].status = "SAVE_FAILED"
                            /\ requests'[tee[c]].step = "done"
                            /\ requests'[tee[c]].server = Home[c] /\ result[Home[c]] # tee[c]
                         \/ \E k \in LoadedBy(tee[c]) :
                              requests'[k].server = Home[c] /\ result[Home[c]] # k
    <3>1. \A c \in Clients : LoadedBy(tee[c])' = LoadedBy(tee[c])
      BY <1>1, <1>3
    <3>2. \A c \in Clients : IsSave(tee[c])' <=> IsSave(tee[c])
      BY <1>1, <1>3
    <3> QED
      BY <1>1, <3>1, <3>2 DEF TeeInv
  <2>1. \A k \in LoadedBy(tee[c]) : k \in DOMAIN requests /\ requests'[k].server = requests[k].server
    BY DEF LoadedBy, Changed
  <2> QED
    BY <1>4, <2>1 DEF RunInv, TeeInv
<1>8. KeptInv'
  BY <1>1, <1>3, <1>4 DEF RunInv, KeptInv, Stored, Changed
<1> QED
  BY <1>5, <1>6, <1>7, <1>8 DEF RunInv

\* A load that takes the rows of the save it found out of its table.
LEMMA LoadTakes ==
    ASSUME BasicInv, RunInv, KeepGame, UNCHANGED backupSaves, NEW id \in DOMAIN requests,
           requests[id].kind = "load", requests[id].step # "done",
           NEW n, IsSave(n), Changed(id, "done", "LOAD_SUCCESS", n),
           \/ Stored(n, mainSaves)
           \/ \E s \in Servers : Stored(n, fileSaves[s]),
           \A row : row \in mainSaves' <=> row \in mainSaves /\ row.save # n,
           \A s \in Servers : \A row : row \in fileSaves'[s] <=> row \in fileSaves[s] /\ row.save # n
    PROVE  RunInv'
<1>1. UNCHANGED <<tee, result>>
  BY DEF KeepGame, gameVars
<1>2. requests[id].status = "LOAD_FAILED"
  BY DEF BasicInv, RequestInv, LoadStatus
<1>3. LoadedBy(n) = {} /\ requests[n].status = "SAVE_SUCCESS"
      /\ requests[n].step \in {"moved", "succeeded", "done", "killed"}
  <2>1. n \in DOMAIN requests /\ LoadedBy(n) = {}
    BY DEF RunInv, LoadedInv, IsSave
  <2>2. /\ requests[n].status = "SAVE_SUCCESS"
        /\ requests[n].step \in {"moved", "succeeded", "done", "killed"}
    BY DEF RunInv, MainInv, FileInv, Stored
  <2> QED
    BY <2>1, <2>2
<1>4. LoadedBy(n)' = {id}
  <2>1. \A k \in DOMAIN requests : k \in LoadedBy(n)' <=> k = id
    BY <1>3 DEF LoadedBy, Changed
  <2>2. LoadedBy(n)' \subseteq DOMAIN requests
    BY DEF LoadedBy, Changed
  <2> QED
    BY <2>1, <2>2
<1>5. \A m : m # n => LoadedBy(m)' = LoadedBy(m)
  BY <1>2 DEF Changed, LoadedBy
<1>6. \A m : IsSave(m)' <=> IsSave(m)
  BY SavesStay
<1>7. \A m : IsSave(m) => m # id /\ m \in DOMAIN requests /\ requests'[m] = requests[m]
  BY DEF Changed, IsSave
<1>8. /\ \A m : Stored(m, mainSaves') <=> Stored(m, mainSaves) /\ m # n
      /\ \A m : \A s \in Servers : Stored(m, fileSaves'[s]) <=> Stored(m, fileSaves[s]) /\ m # n
  BY DEF Stored
<1>9. MainInv'
  <2> SUFFICES ASSUME NEW row \in mainSaves'
               PROVE  /\ IsSave(row.save) /\ requests'[row.save].status = "SAVE_SUCCESS"
                      /\ requests'[row.save].step \in {"succeeded", "done", "killed"}
                      /\ \A k \in RequestId : row.code = Generated(k) => k = row.save
                      /\ \A other \in mainSaves' : other.save = row.save => other = row
    BY <1>6 DEF MainInv, IsSave
  <2> QED
    BY <1>7 DEF RunInv, MainInv
<1>10. FileInv'
  <2> SUFFICES ASSUME NEW s \in Servers, NEW row \in fileSaves'[s]
               PROVE  /\ IsSave(row.save) /\ requests'[row.save].status = "SAVE_SUCCESS"
                      /\ requests'[row.save].step \in {"moved", "done", "killed"}
                      /\ requests'[row.save].server = s /\ row.code = Generated(row.save)
                      /\ ~Stored(row.save, mainSaves')
    BY <1>6 DEF FileInv, IsSave, Stored
  <2> QED
    BY <1>7, <1>8 DEF RunInv, FileInv
<1>11. BackupInv'
  BY <1>6, <1>7 DEF RunInv, BackupInv
<1>12. LoadedInv'
  <2> SUFFICES ASSUME NEW m \in DOMAIN requests, NEW k \in LoadedBy(m)'
               PROVE  /\ requests'[m].status = "SAVE_SUCCESS"
                      /\ requests'[m].step \in {"moved", "succeeded", "done", "killed"}
                      /\ ~Stored(m, mainSaves') /\ \A s \in Servers : ~Stored(m, fileSaves'[s])
                      /\ \A other \in LoadedBy(m)' : other = k
    BY DEF LoadedInv, Changed, Stored
  <2>1. CASE m = n
    BY <1>3, <1>4, <1>7, <1>8, <2>1
  <2>2. CASE m # n
    <3>1. k \in LoadedBy(m) /\ LoadedBy(m)' = LoadedBy(m)
      BY <1>5, <2>2
    <3>2. requests[m].status = "SAVE_SUCCESS" /\ m # id
      BY <1>2, <3>1 DEF RunInv, LoadedInv
    <3>3. requests'[m] = requests[m]
      BY <3>2 DEF Changed
    <3> QED
      BY <1>8, <3>1, <3>3 DEF RunInv, LoadedInv
  <2> QED
    BY <2>1, <2>2
<1>13. TeeInv'
  <2> SUFFICES ASSUME NEW c \in Clients, tee[c] # None
               PROVE  /\ IsSave(tee[c])
                      /\ \/ /\ requests'[tee[c]].status = "SAVE_FAILED"
                            /\ requests'[tee[c]].step = "done"
                            /\ requests'[tee[c]].server = Home[c] /\ result[Home[c]] # tee[c]
                         \/ \E k \in LoadedBy(tee[c])' :
                              requests'[k].server = Home[c] /\ result[Home[c]] # k
    <3>1. \A c \in Clients : IsSave(tee[c])' <=> IsSave(tee[c])
      BY <1>1, <1>6
    <3> QED
      BY <1>1, <3>1 DEF TeeInv
  <2>1. \A k \in LoadedBy(tee[c]) : k \in DOMAIN requests /\ requests'[k].server = requests[k].server
    BY DEF LoadedBy, Changed
  <2>2. LoadedBy(tee[c]) # {} => LoadedBy(tee[c])' = LoadedBy(tee[c])
    BY <1>1, <1>3, <1>5
  <2> QED
    BY <1>7, <2>1, <2>2 DEF RunInv, TeeInv
<1>14. KeptInv'
  <2> SUFFICES ASSUME NEW m, IsSave(m), requests[m].status = "SAVE_SUCCESS", LoadedBy(m)' = {}
               PROVE  \/ Stored(m, mainSaves')
                      \/ Stored(m, fileSaves'[requests[m].server])
                      \/ /\ Stored(m, backupSaves[requests[m].server])
                         /\ requests[m].step \notin {"moved", "succeeded"}
    BY <1>6, <1>7 DEF KeptInv, Stored
  <2>1. m # n /\ LoadedBy(m) = {} /\ m \in DOMAIN requests
    BY <1>4, <1>5 DEF IsSave
  <2>2. requests[m].server \in Servers
    BY <2>1, RequestsBounded DEF BasicInv, Requests
  <2> QED
    BY <1>8, <2>1, <2>2 DEF RunInv, KeptInv
<1> QED
  BY <1>9, <1>10, <1>11, <1>12, <1>13, <1>14 DEF RunInv

\* SELECT, in the main database or in the file.
LEMMA SelectStep ==
    ASSUME BasicInv, KeepGame, UNCHANGED tableVars, NEW id \in DOMAIN requests,
           requests[id].kind = "load", requests[id].status = "LOAD_FAILED",
           requests[id].step # "done", NEW table, NEW next \in {"delete", "fileDelete"},
           \A row \in table : IsSave(row.save),
           NEW other \in {"failed", "done"},
           Select(id, table, next) \/ Step(id, other, "LOAD_FAILED")
    PROVE  BasicInv' /\ (RunInv => RunInv')
<1>1. /\ {"delete", "fileDelete", "failed", "done"} \subseteq LoadSteps
      /\ "LOAD_FAILED" \in LoadStatus
      /\ requests[id].save # None => IsSave(requests[id].save)
      /\ requests[id].save \in RequestId \cup {None}
  BY RequestsBounded DEF LoadSteps, LoadStatus, BasicInv, RequestInv, Requests
<1>2. PICK step \in LoadSteps, save \in RequestId \cup {None} :
        /\ Changed(id, step, "LOAD_FAILED", save)
        /\ save # None => IsSave(save)
  <2>1. CASE Step(id, "done", "LOAD_FAILED") \/ Step(id, other, "LOAD_FAILED")
    BY <1>1, <2>1, StepChanges DEF BasicInv
  <2>2. CASE \E row \in table :
               requests' = [requests EXCEPT ![id].step = next, ![id].save = row.save]
    <3>1. PICK row \in table :
            requests' = [requests EXCEPT ![id].step = next, ![id].save = row.save]
      BY <2>2
    <3>2. IsSave(row.save) /\ row.save \in RequestId
      BY RequestsBounded DEF BasicInv, IsSave
    <3>3. Changed(id, next, "LOAD_FAILED", row.save)
      BY <1>1, <3>1, <3>2, FoundChanges DEF BasicInv
    <3> QED
      BY <1>1, <3>2, <3>3
  <2> QED
    BY <2>1, <2>2, Zenon DEF Select, RowsWith
<1>3. TableTypes'
  <2>1. \A n : IsSave(n)' <=> IsSave(n)
    BY <1>2, SavesStay
  <2> HIDE DEF IsSave
  <2> QED
    BY <2>1 DEF BasicInv, TableTypes, tableVars
<1>4. BasicInv'
  BY <1>1, <1>2, <1>3, WorkKeepsBasic
<1> QED
  BY <1>2, <1>4, LoadIdle

LEMMA LoadSelectStep ==
    ASSUME BasicInv, NEW id \in RequestId, LoadSelect(id) \/ LoadFile(id)
    PROVE  BasicInv' /\ (RunInv => RunInv')
<1>1. KeepGame /\ UNCHANGED tableVars
  BY DEF LoadSelect, LoadFile
<1>2. CASE LoadSelect(id)
  <2>1. /\ At(id, "normal") /\ requests[id].kind = "load"
        /\ Select(id, mainSaves, "delete") \/ Step(id, "failed", "LOAD_FAILED")
    BY <1>2 DEF LoadSelect
  <2>2. /\ id \in DOMAIN requests /\ requests[id].step = "normal"
        /\ requests[id].status = "LOAD_FAILED"
    BY <2>1, AtKind
  <2>3. \A row \in mainSaves : IsSave(row.save)
    BY DEF BasicInv, TableTypes
  <2> QED
    BY <1>1, <2>1, <2>2, <2>3, SelectStep
<1>3. CASE LoadFile(id)
  <2>1. /\ At(id, "failed") /\ requests[id].kind = "load"
        /\ \/ Select(id, fileSaves[requests[id].server], "fileDelete")
           \/ Step(id, "done", "LOAD_FAILED")
    BY <1>3 DEF LoadFile
  <2>2. /\ id \in DOMAIN requests /\ requests[id].step = "failed"
        /\ requests[id].status = "LOAD_FAILED" /\ requests[id].server \in Servers
    BY <2>1, AtKind
  <2>3. \A row \in fileSaves[requests[id].server] : IsSave(row.save)
    BY <2>2 DEF BasicInv, TableTypes
  <2> QED
    BY <1>1, <2>1, <2>2, <2>3, SelectStep
<1> QED
  BY <1>2, <1>3

\* What the DELETE of a load makes of its request.
LEMMA LoadEnds ==
    ASSUME BasicInv, KeepGame, NEW id \in DOMAIN requests, requests[id].kind = "load",
           requests[id].step # "done", TableTypes', NEW table, table \subseteq Rows, NEW o,
           NEW step \in {"done", "failed"}, o = "ok" => step = "done",
           Step(id, step, Loaded(id, table, o))
    PROVE  /\ BasicInv'
           /\ Changed(id, step, Loaded(id, table, o), requests[id].save)
           /\ IF o = "ok" /\ Matching(id, table) # {}
              THEN Loaded(id, table, o) = "LOAD_SUCCESS" ELSE Loaded(id, table, o) = "LOAD_FAILED"
<1>1. /\ {"failed", "done"} \subseteq LoadSteps /\ Loaded(id, table, o) \in LoadStatus
      /\ requests[id].save # None => IsSave(requests[id].save)
  BY DEF LoadSteps, LoadStatus, BasicInv, RequestInv, Loaded
<1>2. Changed(id, step, Loaded(id, table, o), requests[id].save)
  BY <1>1, StepChanges DEF BasicInv
<1>3. /\ o = "ok" /\ Matching(id, table) # {} => Loaded(id, table, o) = "LOAD_SUCCESS"
      /\ ~(o = "ok" /\ Matching(id, table) # {}) => Loaded(id, table, o) = "LOAD_FAILED"
  BY DEF Loaded
<1>4. Loaded(id, table, o) = "LOAD_SUCCESS" => step = "done" /\ requests[id].save # None
  <2>1. \A row \in Matching(id, table) : row.save = requests[id].save /\ row.save # None
    BY SaveAssumption DEF Matching, RowsWith, Rows, RequestId, None
  <2> QED
    BY <1>3, <2>1
<1>5. BasicInv'
  BY <1>1, <1>2, <1>4, WorkKeepsBasic
<1> QED
  BY <1>2, <1>3, <1>5

LEMMA LoadDeleteStep ==
    ASSUME BasicInv, NEW id \in RequestId, LoadDelete(id)
    PROVE  BasicInv' /\ ("lost" \notin MainOutcomes /\ RunInv => RunInv')
<1> DEFINE n == requests[id].save
<1>1. KeepGame /\ At(id, "delete") /\ UNCHANGED <<fileSaves, backupSaves>>
  BY DEF LoadDelete
<1>2. /\ id \in DOMAIN requests /\ requests[id].step = "delete" /\ requests[id].kind = "load"
  BY <1>1, AtKind
<1>3. PICK o \in MainOutcomes :
        /\ mainSaves' = IF o = "fail" THEN mainSaves ELSE mainSaves \ Matching(id, mainSaves)
        /\ Step(id, IF o = "ok" THEN "done" ELSE "failed", Loaded(id, mainSaves, o))
  BY DEF LoadDelete
<1>4. PICK step \in {"done", "failed"} :
        step = (IF o = "ok" THEN "done" ELSE "failed") /\ Step(id, step, Loaded(id, mainSaves, o))
  BY <1>3
<1>5. TableTypes'
  <2>1. mainSaves' \subseteq mainSaves
    BY <1>3
  <2>2. \A k : IsSave(k)' <=> IsSave(k)
    BY <1>4 DEF Step, IsSave, BasicInv, RequestInv
  <2> HIDE DEF IsSave
  <2> QED
    BY <1>1, <2>1, <2>2 DEF BasicInv, TableTypes
<1>6. mainSaves \subseteq Rows
  BY DEF BasicInv, TableTypes
<1>7. /\ BasicInv' /\ Changed(id, step, Loaded(id, mainSaves, o), n)
      /\ IF o = "ok" /\ Matching(id, mainSaves) # {}
         THEN Loaded(id, mainSaves, o) = "LOAD_SUCCESS" ELSE Loaded(id, mainSaves, o) = "LOAD_FAILED"
  BY <1>1, <1>2, <1>4, <1>5, <1>6, LoadEnds
<1>8. ASSUME "lost" \notin MainOutcomes, RunInv PROVE RunInv'
  <2>1. CASE ~(o = "ok" /\ Matching(id, mainSaves) # {})
    <3>1. mainSaves' = mainSaves
      BY <1>3, <1>8, <2>1, SaveAssumption
    <3> QED
      BY <1>1, <1>2, <1>7, <1>8, <2>1, <3>1, LoadIdle DEF tableVars
  <2>2. CASE o = "ok" /\ Matching(id, mainSaves) # {}
    <3>1. PICK row \in mainSaves : row.save = n /\ row \in Matching(id, mainSaves)
      BY <2>2 DEF Matching, RowsWith
    <3>2. IsSave(n) /\ \A other \in mainSaves : other.save = n => other = row
      BY <1>8, <3>1 DEF RunInv, MainInv
    <3>3. \A other : other \in mainSaves' <=> other \in mainSaves /\ other.save # n
      BY <1>3, <2>2, <3>1, <3>2 DEF Matching
    <3>4. Stored(n, mainSaves)
      BY <3>1 DEF Stored
    <3>5. \A s \in Servers : \A other \in fileSaves[s] : other.save # n
      BY <1>8, <3>4 DEF RunInv, FileInv
    <3>6. \A s \in Servers : \A other :
            other \in fileSaves'[s] <=> other \in fileSaves[s] /\ other.save # n
      BY <1>1, <3>5
    <3>7. Changed(id, "done", "LOAD_SUCCESS", n)
      BY <1>4, <1>7, <2>2
    <3> HIDE DEF n
    <3> QED
      BY <1>1, <1>2, <1>8, <3>2, <3>3, <3>4, <3>6, <3>7, LoadTakes
  <2> QED
    BY <2>1, <2>2
<1> QED
  BY <1>7, <1>8

LEMMA LoadFileDeleteStep ==
    ASSUME BasicInv, NEW id \in RequestId, LoadFileDelete(id)
    PROVE  BasicInv' /\ ("lost" \notin FileOutcomes /\ RunInv => RunInv')
<1> DEFINE n == requests[id].save
           s == requests[id].server
<1>1. KeepGame /\ At(id, "fileDelete") /\ UNCHANGED <<mainSaves, backupSaves>>
  BY DEF LoadFileDelete
<1>2. /\ id \in DOMAIN requests /\ requests[id].step = "fileDelete" /\ requests[id].kind = "load"
      /\ s \in Servers
  BY <1>1, AtKind
<1>3. PICK o \in FileOutcomes :
        /\ fileSaves' = [fileSaves EXCEPT ![s] =
             IF o = "fail" THEN @ ELSE @ \ Matching(id, @)]
        /\ Step(id, "done", Loaded(id, fileSaves[s], o))
  BY Zenon DEF LoadFileDelete
<1>4. fileSaves \in [Servers -> SUBSET Rows] /\ fileSaves[s] \subseteq Rows
  BY <1>2 DEF BasicInv, TableTypes
<1>5. \A q \in Servers : fileSaves'[q] =
        IF q = s /\ o # "fail" THEN fileSaves[q] \ Matching(id, fileSaves[q]) ELSE fileSaves[q]
  BY <1>3, <1>4
<1>6. TableTypes'
  <2>1. \A q \in Servers : fileSaves'[q] \subseteq fileSaves[q]
    BY <1>5
  <2>2. fileSaves' \in [Servers -> SUBSET Rows]
    BY <1>2, <1>3, <1>4
  <2>3. \A k : IsSave(k)' <=> IsSave(k)
    BY <1>3 DEF Step, IsSave, BasicInv, RequestInv
  <2> HIDE DEF IsSave
  <2> QED
    BY <1>1, <2>1, <2>2, <2>3 DEF BasicInv, TableTypes
<1>7. /\ BasicInv' /\ Changed(id, "done", Loaded(id, fileSaves[s], o), n)
      /\ IF o = "ok" /\ Matching(id, fileSaves[s]) # {}
         THEN Loaded(id, fileSaves[s], o) = "LOAD_SUCCESS"
         ELSE Loaded(id, fileSaves[s], o) = "LOAD_FAILED"
  BY <1>1, <1>2, <1>3, <1>4, <1>6, LoadEnds
<1>8. ASSUME "lost" \notin FileOutcomes, RunInv PROVE RunInv'
  <2>1. CASE ~(o = "ok" /\ Matching(id, fileSaves[s]) # {})
    <3>1. \A q \in Servers : fileSaves'[q] = fileSaves[q]
      BY <1>5, <1>8, <2>1, SaveAssumption
    <3>2. fileSaves' = fileSaves
      BY <1>2, <1>3, <1>4, <3>1
    <3> QED
      BY <1>1, <1>2, <1>7, <1>8, <2>1, <3>2, LoadIdle DEF tableVars
  <2>2. CASE o = "ok" /\ Matching(id, fileSaves[s]) # {}
    <3>1. PICK row \in fileSaves[s] : row.save = n /\ row.code = requests[id].code
      BY <2>2 DEF Matching, RowsWith
    <3>2. /\ IsSave(n) /\ requests[n].server = s /\ row.code = Generated(n)
          /\ ~Stored(n, mainSaves)
      BY <1>2, <1>8, <3>1 DEF RunInv, FileInv
    <3>3. \A q \in Servers : \A other \in fileSaves[q] :
            other.save = n => q = s /\ other.code = requests[id].code
      BY <1>8, <3>1, <3>2 DEF RunInv, FileInv
    <3>4. \A q \in Servers : \A other :
            other \in fileSaves'[q] <=> other \in fileSaves[q] /\ other.save # n
      <4>1. fileSaves'[s] = fileSaves[s] \ Matching(id, fileSaves[s])
        BY <1>2, <1>5, <2>2
      <4>2. \A q \in Servers \ {s} : fileSaves'[q] = fileSaves[q]
        BY <1>5
      <4>3. \A other : other \in Matching(id, fileSaves[s])
                       <=> other \in fileSaves[s] /\ other.save = n
        BY <1>2, <3>3 DEF Matching, RowsWith
      <4> QED
        BY <3>3, <4>1, <4>2, <4>3
    <3>5. \A other : other \in mainSaves' <=> other \in mainSaves /\ other.save # n
      BY <1>1, <3>2 DEF Stored
    <3>6. \E q \in Servers : Stored(n, fileSaves[q])
      BY <1>2, <3>1 DEF Stored
    <3>7. Changed(id, "done", "LOAD_SUCCESS", n)
      BY <1>7, <2>2
    <3> HIDE DEF n
    <3> QED
      BY <1>1, <1>2, <1>8, <3>2, <3>4, <3>5, <3>6, <3>7, LoadTakes
  <2> QED
    BY <2>1, <2>2
<1> QED
  BY <1>7, <1>8

-----------------------------------------------------------------------------
(* All of it.                                                              *)

LEMMA InitTeamSave == ASSUME Init PROVE BasicInv /\ RunInv
<1>1. requests = <<>> /\ DOMAIN requests = {} /\ requests \in Seq(Requests)
  BY DEF Init
<1>2. /\ who \in [Clients -> Names \cup {NoName}] /\ inTeam \in [Clients -> BOOLEAN]
      /\ tee \in [Clients -> RequestId \cup {None}]
      /\ teamState \in [Servers -> {"EMPTY", "OPEN", "STARTED", "FINISHED"}]
      /\ result \in [Servers -> DOMAIN requests \cup {None}]
  BY DEF Init
<1>3. /\ \A c \in Clients : who[c] = NoName /\ ~inTeam[c] /\ tee[c] = None
      /\ \A s \in Servers : teamState[s] = "EMPTY" /\ result[s] = None
      /\ mainSaves = {} /\ \A s \in Servers : fileSaves[s] = {} /\ backupSaves[s] = {}
  BY DEF Init
<1>4. RequestInv
  <2>1. OfKind("save") = {} /\ OfKind("load") = {}
    BY <1>1 DEF OfKind
  <2>2. Cardinality(OfKind("save")) <= MaxSaves /\ Cardinality(OfKind("load")) <= MaxLoads
    BY <2>1, FS_EmptySet, SaveAssumption
  <2> QED
    BY <1>1, <2>2 DEF RequestInv
<1>5. GameTypes /\ TableTypes
  BY <1>2, <1>3 DEF Init, GameTypes, TableTypes
<1>6. TeamInv /\ OwnerInv
  BY <1>3 DEF TeamInv, OwnerInv, Members
<1>7. RunInv
  BY <1>1, <1>3
    DEF RunInv, MainInv, FileInv, BackupInv, LoadedInv, TeeInv, KeptInv
<1> QED
  BY <1>4, <1>5, <1>6, <1>7 DEF BasicInv

\* A statement that is reported failed was not done.
NothingLost == "lost" \notin MainOutcomes \cup FileOutcomes

LEMMA WorkStep ==
    ASSUME BasicInv, NEW id \in RequestId, Work(id)
    PROVE  BasicInv' /\ (NothingLost /\ RunInv => RunInv')
<1>1. CASE SaveBackup(id)
  BY <1>1, SaveBackupStep DEF NothingLost
<1>2. CASE SaveNormal(id) \/ SaveRetry(id)
  BY <1>2, SaveNormalStep DEF NothingLost
<1>3. CASE SaveSucceeded(id) \/ SaveMoved(id)
  BY <1>3, DeleteBackupStep
<1>4. CASE SaveFailed(id)
  BY <1>4, SaveFailedStep DEF NothingLost
<1>5. CASE LoadSelect(id) \/ LoadFile(id)
  BY <1>5, LoadSelectStep
<1>6. CASE LoadDelete(id)
  BY <1>6, LoadDeleteStep DEF NothingLost
<1>7. CASE LoadFileDelete(id)
  BY <1>7, LoadFileDeleteStep DEF NothingLost
<1> QED
  BY <1>1, <1>2, <1>3, <1>4, <1>5, <1>6, <1>7 DEF Work

LEMMA TeamSaveStep ==
    ASSUME BasicInv, [Next]_vars
    PROVE  BasicInv' /\ (NothingLost /\ RunInv => RunInv')
<1>1. CASE \E s \in Servers : SaveTeam(s) \/ LoadTeam(s)
  BY <1>1, SaveTeamStep, LoadTeamStep
<1>2. CASE Play /\ \A s \in Servers : ~SaveTeam(s) /\ ~LoadTeam(s)
  BY <1>2, PlayStep, PlayKeepsBasic, PlayKeepsRun
<1>3. CASE \E id \in RequestId : Work(id)
  BY <1>3, WorkStep
<1>4. CASE \E s \in Servers : ProcessSaveTeam(s)
  BY <1>4, ProcessSaveTeamStep
<1>5. CASE \E s \in Servers : Reset(s) \/ Restart(s)
  BY <1>5, ResetsStep
<1>6. CASE UNCHANGED vars
  <2>1. UNCHANGED <<who, inTeam, tee, teamState, result, requests, tableVars>>
    BY <1>6 DEF vars, gameVars
  <2>2. PlayDoes
    <3>1. \A s \in Servers : Members(s)' = Members(s)
      BY <2>1 DEF Members
    <3> QED
      BY <2>1, <3>1 DEF PlayDoes, BasicInv, GameTypes, TeamInv, NamesUnique
  <2> QED
    BY <2>2, PlayKeepsBasic, PlayKeepsRun
<1> QED
  BY <1>1, <1>2, <1>3, <1>4, <1>5, <1>6, Zenon DEF Next

\* BasicInv: the invariant of the requests, the teams and the owners of tees,
\* whatever the statements do, also if they are done and reported failed.
THEOREM TeamSaveInvariant == Spec => []BasicInv
<1>1. Init => BasicInv
  BY InitTeamSave
<1>2. BasicInv /\ [Next]_vars => BasicInv'
  BY TeamSaveStep
<1> QED
  BY <1>1, <1>2, PTL DEF Spec

\* The types of TeamSave; a team is EMPTY exactly when nobody is in it, also
\* after ProcessSaveTeam has applied an answer that came late.
THEOREM TeamSaveTypes == Spec => []TypeOK
<1>1. BasicInv => TypeOK
  <2> SUFFICES ASSUME BasicInv PROVE TypeOK
    OBVIOUS
  <2>1. Len(requests) <= MaxSaves + MaxLoads
    BY RequestsBounded DEF BasicInv
  <2> QED
    BY <2>1 DEF BasicInv, GameTypes, TableTypes, TeamInv, TypeOK
<1> QED
  BY <1>1, TeamSaveInvariant, PTL

\* ProcessSaveTeam gives a saved tee only to the player it was saved for, or
\* who loads it under that name, whoever joined, left, died or reconnected
\* while the statements ran.
THEOREM TeesGoToTheirOwners == Spec => []RestoredToOwner
<1>1. BasicInv => RestoredToOwner
  <2> SUFFICES ASSUME BasicInv, NEW c \in Clients, tee[c] # None
               PROVE  \E r \in Range(requests) :
                        /\ r.save = tee[c]
                        /\ who[c] \in DOMAIN r.seats /\ r.seats[who[c]] = c
    BY DEF RestoredToOwner
  <2>1. PICK id \in DOMAIN requests : requests[id].save = tee[c] /\ Seated(c, id)
    BY DEF BasicInv, OwnerInv
  <2>2. requests[id] \in Range(requests)
    BY DEF Range
  <2> QED
    BY <2>1, <2>2 DEF Seated
<1> QED
  BY <1>1, TeamSaveInvariant, PTL

\* RunInv: where a saved run is between two statements of CScoreWorker, if none
\* is done and reported failed.  With such a statement the server gives the tees
\* back although the main database has the row, and the run is there twice.
THEOREM RunsInvariant ==
    ASSUME NothingLost PROVE Spec => [](BasicInv /\ RunInv)
<1>1. Init => BasicInv /\ RunInv
  BY InitTeamSave
<1>2. (BasicInv /\ RunInv) /\ [Next]_vars => (BasicInv /\ RunInv)'
  BY TeamSaveStep
<1> QED
  BY <1>1, <1>2, PTL DEF Spec

LEMMA SourceKinds ==
    ASSUME NEW n, NEW x \in Sources(n)
    PROVE  \/ \E row \in mainSaves : row.save = n /\ x = <<"main", row.code>>
           \/ \E s \in Servers : \E row \in fileSaves[s] : row.save = n /\ x = <<s, row.code>>
           \/ \E s \in Servers : Playing(n, s) /\ x = <<"game", s>>
           \/ \E s \in Servers : Answers(n, s) /\ x = <<"answer", s>>
<1>1. \/ x \in MainSources(n) \/ x \in GameSources(n) \/ x \in AnswerSources(n)
      \/ \E s \in Servers : x \in FileSources(n, s)
  <2> DEFINE files == UNION {FileSources(n, s) : s \in Servers}
  <2>1. x \in MainSources(n) \/ x \in files \/ x \in GameSources(n) \/ x \in AnswerSources(n)
    BY Zenon DEF Sources
  <2>2. x \in files => \E s \in Servers : x \in FileSources(n, s)
    OBVIOUS
  <2> HIDE DEF files
  <2> QED
    BY <2>1, <2>2
<1>2. x \in MainSources(n) => \E row \in mainSaves : row.save = n /\ x = <<"main", row.code>>
  BY DEF MainSources
<1>3. \A s : x \in FileSources(n, s) =>
               \E row \in fileSaves[s] : row.save = n /\ x = <<s, row.code>>
  BY DEF FileSources
<1>4. x \in GameSources(n) => \E s \in Servers : Playing(n, s) /\ x = <<"game", s>>
  BY DEF GameSources
<1>5. x \in AnswerSources(n) => \E s \in Servers : Answers(n, s) /\ x = <<"answer", s>>
  BY DEF AnswerSources
<1> QED
  BY <1>1, <1>2, <1>3, <1>4, <1>5

\* An answer that gives a save to a team is that of the save itself, which
\* failed, or that of a load that took it; so is what a tee was given.
LEMMA AnswerIs ==
    ASSUME BasicInv, NEW s \in Servers, NEW n \in DOMAIN requests,
           Answers(n, s)
    PROVE  /\ IsSave(n) /\ requests[result[s]].server = s
           /\ \/ result[s] = n /\ requests[n].status = "SAVE_FAILED"
              \/ result[s] \in LoadedBy(n)
<1> DEFINE id == result[s]
<1>1. /\ id \in DOMAIN requests /\ requests[id].server = s
      /\ requests[id].save = n /\ requests[id].status \in {"SAVE_FAILED", "LOAD_SUCCESS"}
  BY DEF BasicInv, GameTypes, TeamInv, Saving, Answers
<1>2. requests[id].kind \in {"save", "load"} /\ n # None
  BY <1>1, RequestsBounded, SaveAssumption DEF BasicInv, Requests, RequestId, None
<1>3. CASE requests[id].kind = "save"
  BY <1>1, <1>3 DEF BasicInv, RequestInv, IsSave, SaveStatus
<1>4. CASE requests[id].kind = "load"
  <2>1. requests[id].status = "LOAD_SUCCESS" /\ IsSave(n)
    BY <1>1, <1>2, <1>4 DEF BasicInv, RequestInv, LoadStatus
  <2> QED
    BY <1>1, <1>4, <2>1 DEF LoadedBy
<1> QED
  BY <1>2, <1>3, <1>4

\* There is one place that a save can be continued from.
LEMMA OneSource ==
    ASSUME BasicInv, RunInv, NEW n \in DOMAIN requests
    PROVE  \E e : Sources(n) \subseteq {e}
<1>1. n # None /\ \A c \in Clients : Home[c] \in Servers
  BY RequestsBounded, SaveAssumption DEF BasicInv, RequestId, None
<1>2. ASSUME NEW s \in Servers, Playing(n, s)
      PROVE  \/ /\ requests[n].status = "SAVE_FAILED"
                /\ requests[n].server = s /\ result[s] # n
             \/ \E id \in LoadedBy(n) : requests[id].server = s /\ result[s] # id
  BY <1>1, <1>2 DEF Playing, RunInv, TeeInv
<1>3. LoadedBy(n) # {} => requests[n].status = "SAVE_SUCCESS"
  BY DEF RunInv, LoadedInv
<1>4. CASE Stored(n, mainSaves)
  <2>1. PICK row \in mainSaves : row.save = n
    BY <1>4 DEF Stored
  <2>2. /\ requests[n].status = "SAVE_SUCCESS" /\ LoadedBy(n) = {}
        /\ \A other \in mainSaves : other.save = n => other = row
    BY <1>4, <2>1 DEF RunInv, MainInv, LoadedInv
  <2>3. \A s \in Servers : \A other \in fileSaves[s] : other.save # n
    BY <1>4 DEF RunInv, FileInv
  <2>4. Sources(n) \subseteq {<<"main", row.code>>}
    BY <1>2, <2>2, <2>3, SourceKinds, AnswerIs
  <2> QED
    BY <2>4
<1>5. CASE ~Stored(n, mainSaves) /\ \E s \in Servers : Stored(n, fileSaves[s])
  <2>1. /\ requests[n].status = "SAVE_SUCCESS" /\ LoadedBy(n) = {}
        /\ \A s \in Servers : \A row \in fileSaves[s] :
             row.save = n => s = requests[n].server /\ row.code = Generated(n)
    BY <1>5 DEF RunInv, FileInv, LoadedInv, Stored
  <2>2. \A row \in mainSaves : row.save # n
    BY <1>5 DEF Stored
  <2>3. Sources(n) \subseteq {<<requests[n].server, Generated(n)>>}
    BY <1>2, <2>1, <2>2, SourceKinds, AnswerIs
  <2> QED
    BY <2>3
<1>6. CASE ~Stored(n, mainSaves) /\ \A s \in Servers : ~Stored(n, fileSaves[s])
  <2>1. /\ \A row \in mainSaves : row.save # n
        /\ \A s \in Servers : \A row \in fileSaves[s] : row.save # n
    BY <1>6 DEF Stored
  <2>2. CASE requests[n].status = "SAVE_FAILED"
    <3>1. LoadedBy(n) = {}
      BY <1>3, <2>2
    <3>2. Sources(n) \subseteq {IF result[requests[n].server] = n
                                THEN <<"answer", requests[n].server>>
                                ELSE <<"game", requests[n].server>>}
      BY <1>2, <2>1, <3>1, SourceKinds, AnswerIs
    <3> QED
      BY <3>2
  <2>3. CASE LoadedBy(n) # {}
    <3>1. PICK id \in LoadedBy(n) : \A other \in LoadedBy(n) : other = id
      BY <2>3 DEF RunInv, LoadedInv
    <3>2. requests[n].status # "SAVE_FAILED"
      BY <1>3, <2>3
    <3>3. Sources(n) \subseteq {IF result[requests[id].server] = id
                                THEN <<"answer", requests[id].server>>
                                ELSE <<"game", requests[id].server>>}
      BY <1>2, <2>1, <3>1, <3>2, SourceKinds, AnswerIs
    <3> QED
      BY <3>3
  <2>4. CASE requests[n].status # "SAVE_FAILED" /\ LoadedBy(n) = {}
    BY <1>2, <2>1, <2>4, SourceKinds, AnswerIs
  <2> QED
    BY <2>2, <2>3, <2>4
<1> QED
  BY <1>4, <1>5, <1>6

\* A saved run is never duplicated: however the loads of different servers and
\* the answers interleave, and whatever is killed (NumDeleted and SaveId).
THEOREM RunsAreNotCopied ==
    ASSUME NothingLost PROVE Spec => []NoCopy
<1>1. BasicInv /\ RunInv => NoCopy
  <2> SUFFICES ASSUME BasicInv, RunInv, NEW n \in DOMAIN requests
               PROVE  Cardinality(Sources(n)) <= 1
    BY DEF NoCopy
  <2>1. PICK e : Sources(n) = {} \/ Sources(n) = {e}
    BY OneSource
  <2>2. CASE Sources(n) = {}
    BY <2>2, FS_EmptySet
  <2>3. CASE Sources(n) = {e}
    <3>1. Cardinality({e}) = 1
      BY FS_Singleton
    <3> QED
      BY <2>3, <3>1
  <2> QED
    BY <2>1, <2>2, <2>3
<1> QED
  BY <1>1, RunsInvariant, PTL

\* A save that players were told of is in a table until somebody was given it:
\* the row of the backup goes only after another table has it.
THEOREM ReportedSavesAreKept ==
    ASSUME NothingLost PROVE Spec => []SuccessKept
<1>1. BasicInv /\ RunInv => SuccessKept
  <2> SUFFICES ASSUME BasicInv, RunInv, NEW n \in DOMAIN requests,
                      requests[n].kind = "save", requests[n].status = "SAVE_SUCCESS",
                      LoadedBy(n) = {}
               PROVE  InTable(n)
    BY DEF SuccessKept
  <2>1. requests[n].server \in Servers
    BY RequestsBounded DEF BasicInv, Requests
  <2> QED
    BY <2>1 DEF RunInv, KeptInv, IsSave, InTable
<1> QED
  BY <1>1, RunsInvariant, PTL
-----------------------------------------------------------------------------
(* The life of a saved run.                                                *)

InGame(n)   == \E s \in Servers : Playing(n, s)
Reported(n) == IsSave(n) /\ requests[n].status = "SAVE_SUCCESS"
Waiting(n)  == IsSave(n) /\ requests[n].status = "SAVE_FAILED"

\* Place(n), told by the status of the save and the load that took it.
Placed(n) ==
    /\ IsSave(n) => Reported(n) \/ Waiting(n)
    /\ InGame(n) =>
         /\ Place(n) = "game"
         /\ \/ /\ Waiting(n) /\ requests[n].step \in Over
               /\ result[requests[n].server] # n
            \/ \E id \in LoadedBy(n) : result[requests[id].server] # id
    /\ LoadedBy(n) # {} => Reported(n) /\ \E id : LoadedBy(n) = {id}
    /\ ~InGame(n) =>
         /\ \A id \in LoadedBy(n) :
              Place(n) = IF result[requests[id].server] = id THEN "taken" ELSE "over"
         /\ LoadedBy(n) = {} =>
              /\ ~IsSave(n)  => Place(n) = "none"
              /\ Reported(n) => Place(n) = "stored"
              /\ Waiting(n)  =>
                   Place(n) = IF \/ result[requests[n].server] = n
                                 \/ requests[n].step \notin Over
                              THEN "held" ELSE "over"

PlaceInv == \A n \in RequestId : Placed(n)

LEMMA RunsArePlaced == BasicInv /\ RunInv => PlaceInv
<1> SUFFICES ASSUME BasicInv, RunInv, NEW n \in RequestId PROVE Placed(n)
  BY DEF PlaceInv
<1>1. /\ n # None /\ \A c \in Clients : Home[c] \in Servers
      /\ \A id \in DOMAIN requests : requests[id] \in Requests /\ requests[id].server \in Servers
  BY RequestsBounded, SaveAssumption DEF BasicInv, RequestId, None, Requests
<1>2. IsSave(n) => Reported(n) \/ Waiting(n)
  BY DEF BasicInv, RequestInv, IsSave, Reported, Waiting, SaveStatus
<1>3. ASSUME LoadedBy(n) # {} PROVE Reported(n) /\ \E id : LoadedBy(n) = {id}
  <2>1. PICK id \in LoadedBy(n) : TRUE
    BY <1>3
  <2>2. id \in DOMAIN requests /\ requests[id].kind = "load" /\ requests[id].save = n
    BY DEF LoadedBy
  <2>3. IsSave(n)
    BY <1>1, <2>2 DEF BasicInv, RequestInv
  <2>4. requests[n].status = "SAVE_SUCCESS" /\ \A other \in LoadedBy(n) : other = id
    BY <2>3 DEF RunInv, LoadedInv, IsSave
  <2> QED
    BY <2>1, <2>3, <2>4 DEF Reported
<1>4. ASSUME InGame(n)
      PROVE  /\ Place(n) = "game"
             /\ \/ /\ Waiting(n) /\ requests[n].step \in Over
                   /\ result[requests[n].server] # n
                \/ \E id \in LoadedBy(n) : result[requests[id].server] # id
  <2>1. PICK c \in Clients : tee[c] = n
    BY <1>4 DEF InGame, Playing
  <2>2. /\ IsSave(n)
        /\ \/ /\ requests[n].status = "SAVE_FAILED" /\ requests[n].step = "done"
              /\ requests[n].server = Home[c] /\ result[Home[c]] # n
           \/ \E id \in LoadedBy(n) : requests[id].server = Home[c] /\ result[Home[c]] # id
    BY <1>1, <2>1 DEF RunInv, TeeInv
  <2>3. Place(n) = "game"
    BY <1>4 DEF Place, InGame
  <2> QED
    BY <2>2, <2>3 DEF Waiting, Over
<1>5. ASSUME ~InGame(n), NEW id \in LoadedBy(n)
      PROVE  Place(n) = IF result[requests[id].server] = id THEN "taken" ELSE "over"
  <2>1. LoadedBy(n) = {id}
    BY <1>3, <1>5
  <2> QED
    BY <1>5, <2>1 DEF Place, InGame
<1>6. ASSUME ~InGame(n), LoadedBy(n) = {}
      PROVE  /\ ~IsSave(n)  => Place(n) = "none"
             /\ Reported(n) => Place(n) = "stored"
             /\ Waiting(n)  =>
                  Place(n) = IF \/ result[requests[n].server] = n
                                \/ requests[n].step \notin Over
                             THEN "held" ELSE "over"
  <2>1. IsSave(n) <=> Made(n) /\ requests[n].kind = "save"
    BY DEF IsSave, Made
  <2>2. CASE ~IsSave(n)
    BY <1>6, <2>1, <2>2 DEF Place, InGame, Reported, Waiting
  <2>3. CASE Reported(n)
    <3>1. InTable(n)
      BY <1>1, <1>6, <2>3 DEF Reported, RunInv, KeptInv, IsSave, InTable
    <3> QED
      BY <1>6, <2>1, <2>3, <3>1 DEF Place, InGame, Reported, Waiting
  <2>4. CASE Waiting(n)
    <3>1. ~InTable(n)
      BY <2>4 DEF Waiting, RunInv, MainInv, FileInv, BackupInv, InTable, Stored
    <3> QED
      BY <1>6, <2>1, <2>4, <3>1 DEF Place, InGame, Reported, Waiting
  <2> QED
    BY <1>2, <2>2, <2>3, <2>4
<1> HIDE DEF InGame, Place, LoadedBy, Reported, Waiting
<1> QED
  BY <1>2, <1>3, <1>4, <1>5, <1>6 DEF Placed

\* What a step may do to the save n: it is made once, reported once, and what
\* is over stays so; an answer is taken by its team once; a load takes only what
\* was reported; only an answer that a team waits for brings it into a game.
Goes(n) ==
    /\ IsSave(n) => IsSave(n)'
    /\ ~IsSave(n) /\ IsSave(n)' =>
         requests'[n].status = "SAVE_FAILED" /\ requests'[n].step \notin Over
    /\ Reported(n) => Reported(n)'
    /\ Waiting(n) /\ requests[n].step \in Over => Waiting(n)' /\ requests'[n].step \in Over
    /\ \A id \in DOMAIN requests :
         /\ requests'[id].server = requests[id].server
         /\ \A s \in Servers : result'[s] = id => result[s] = id
    /\ LoadedBy(n) \subseteq LoadedBy(n)'
    /\ LoadedBy(n) = {} /\ LoadedBy(n)' # {} => Reported(n)
    /\ InGame(n)' => \/ InGame(n)
                     \/ Waiting(n) /\ result[requests[n].server] = n
                     \/ \E id \in LoadedBy(n) : result[requests[id].server] = id

LEMMA GoesMoves ==
    ASSUME BasicInv, NEW n \in RequestId, Placed(n), Placed(n)', Goes(n)
    PROVE  Place(n)' # Place(n) => <<Place(n), Place(n)'>> \in Moves
<1>1. /\ \A id \in DOMAIN requests : requests[id].server \in Servers
      /\ LoadedBy(n) \subseteq DOMAIN requests
      /\ Reported(n) => IsSave(n) /\ requests[n].status = "SAVE_SUCCESS"
      /\ Waiting(n) => IsSave(n) /\ requests[n].status = "SAVE_FAILED"
      /\ Reported(n)' => IsSave(n)' /\ requests'[n].status = "SAVE_SUCCESS"
      /\ Waiting(n)' => IsSave(n)' /\ requests'[n].status = "SAVE_FAILED"
      /\ IsSave(n)' /\ requests'[n].status = "SAVE_FAILED" => Waiting(n)'
      /\ IsSave(n) => n \in DOMAIN requests
  BY RequestsBounded DEF BasicInv, Requests, LoadedBy, Reported, Waiting, IsSave
<1> HIDE DEF InGame, Place, LoadedBy, Reported, Waiting, IsSave
<1>2. CASE InGame(n)
  <2>1. CASE InGame(n)'
    <3>1. Place(n) = "game" /\ Place(n)' = "game"
      BY <1>2, <2>1 DEF Placed
    <3> QED
      BY <3>1
  <2>2. CASE ~InGame(n)'
    <3>1. Place(n) = "game"
      BY <1>2 DEF Placed
    <3>2. Place(n)' = "over"
      <4>1. CASE /\ Waiting(n) /\ requests[n].step \in Over
                 /\ result[requests[n].server] # n
        <5>1. /\ Waiting(n)' /\ requests'[n].step \in Over
              /\ result'[requests'[n].server] # n
          BY <1>1, <4>1 DEF Goes
        <5>2. LoadedBy(n)' = {}
          BY <1>1, <5>1 DEF Placed
        <5> QED
          BY <2>2, <5>1, <5>2 DEF Placed
      <4>2. ASSUME NEW id \in LoadedBy(n), result[requests[id].server] # id
            PROVE  Place(n)' = "over"
        <5>1. id \in LoadedBy(n)' /\ result'[requests'[id].server] # id
          BY <1>1, <4>2 DEF Goes
        <5> QED
          BY <2>2, <5>1 DEF Placed
      <4> QED
        BY <1>2, <4>1, <4>2 DEF Placed
    <3> QED
      BY <3>1, <3>2 DEF Moves
  <2> QED
    BY <2>1, <2>2
<1>3. CASE ~InGame(n) /\ LoadedBy(n) # {}
  <2>1. PICK id : LoadedBy(n) = {id}
    BY <1>3 DEF Placed
  <2>2. /\ Place(n) = (IF result[requests[id].server] = id THEN "taken" ELSE "over")
        /\ id \in LoadedBy(n)' /\ Reported(n)
        /\ requests'[id].server = requests[id].server /\ requests[id].server \in Servers
        /\ result'[requests[id].server] = id => result[requests[id].server] = id
    BY <1>1, <1>3, <2>1 DEF Placed, Goes
  <2>3. CASE InGame(n)'
    <3>1. result[requests[id].server] = id
      BY <1>1, <1>3, <2>1, <2>2, <2>3 DEF Goes
    <3>2. Place(n) = "taken" /\ Place(n)' = "game"
      BY <2>2, <2>3, <3>1 DEF Placed
    <3> QED
      BY <3>2 DEF Moves
  <2>4. CASE ~InGame(n)'
    <3>1. Place(n)' = IF result'[requests'[id].server] = id THEN "taken" ELSE "over"
      BY <2>2, <2>4 DEF Placed
    <3> QED
      BY <2>2, <3>1 DEF Moves
  <2> QED
    BY <2>3, <2>4
<1>4. CASE ~InGame(n) /\ LoadedBy(n) = {} /\ ~IsSave(n)
  <2>1. Place(n) = "none" /\ LoadedBy(n)' = {} /\ ~InGame(n)'
    BY <1>1, <1>4 DEF Placed, Goes
  <2>2. CASE IsSave(n)'
    <3>1. Waiting(n)' /\ requests'[n].step \notin Over
      BY <1>1, <1>4, <2>2 DEF Goes
    <3>2. Place(n)' = "held"
      BY <2>1, <3>1 DEF Placed
    <3> QED
      BY <2>1, <3>2 DEF Moves
  <2>3. CASE ~IsSave(n)'
    <3>1. Place(n)' = "none"
      BY <2>1, <2>3 DEF Placed
    <3> QED
      BY <2>1, <3>1
  <2> QED
    BY <2>2, <2>3
<1>5. CASE ~InGame(n) /\ LoadedBy(n) = {} /\ Reported(n)
  <2>1. Place(n) = "stored" /\ Reported(n)' /\ ~InGame(n)'
    BY <1>1, <1>5 DEF Placed, Goes
  <2>2. CASE LoadedBy(n)' = {}
    <3>1. Place(n)' = "stored"
      BY <2>1, <2>2 DEF Placed
    <3> QED
      BY <2>1, <3>1
  <2>3. CASE LoadedBy(n)' # {}
    <3>1. Place(n)' \in {"taken", "over"}
      BY <2>1, <2>3 DEF Placed
    <3> QED
      BY <2>1, <3>1 DEF Moves
  <2> QED
    BY <2>2, <2>3
<1>6. CASE ~InGame(n) /\ LoadedBy(n) = {} /\ Waiting(n)
  <2>1. Place(n) = IF \/ result[requests[n].server] = n
                      \/ requests[n].step \notin Over
                   THEN "held" ELSE "over"
    BY <1>6 DEF Placed
  <2>2. LoadedBy(n)' = {} /\ IsSave(n)'
    BY <1>1, <1>6 DEF Goes
  <2>3. CASE InGame(n)'
    <3>1. Place(n) = "held"
      BY <1>6, <2>1, <2>3 DEF Goes
    <3>2. Place(n)' = "game"
      BY <2>3 DEF Placed
    <3> QED
      BY <3>1, <3>2 DEF Moves
  <2>4. CASE ~InGame(n)' /\ Reported(n)'
    <3>1. requests[n].step \notin Over
      BY <1>1, <1>6, <2>4 DEF Goes
    <3>2. Place(n) = "held" /\ Place(n)' = "stored"
      BY <2>1, <2>2, <2>4, <3>1 DEF Placed
    <3> QED
      BY <3>2 DEF Moves
  <2>5. CASE ~InGame(n)' /\ Waiting(n)'
    <3>1. Place(n)' = IF \/ result'[requests'[n].server] = n
                         \/ requests'[n].step \notin Over
                      THEN "held" ELSE "over"
      BY <2>2, <2>5 DEF Placed
    <3>2. Place(n) = "over" => Place(n)' = "over"
      BY <1>1, <1>6, <2>1, <3>1 DEF Goes
    <3>3. Place(n) \in {"held", "over"} /\ Place(n)' \in {"held", "over"}
      BY <2>1, <3>1
    <3> QED
      BY <3>2, <3>3 DEF Moves
  <2> QED
    BY <2>2, <2>3, <2>4, <2>5 DEF Placed
<1> QED
  BY <1>2, <1>3, <1>4, <1>5, <1>6 DEF Placed

\* A step of the game only takes tees out of it.
LEMMA PlayGoes == ASSUME BasicInv, PlayDoes, NEW n \in RequestId PROVE Goes(n)
<1>1. UNCHANGED <<requests, result>> /\ \A c \in Clients : tee'[c] \in {tee[c], None}
  BY DEF PlayDoes
<1>2. n # None
  BY SaveAssumption DEF RequestId, None
<1>3. InGame(n)' => InGame(n)
  BY <1>1, <1>2 DEF InGame, Playing
<1>4. LoadedBy(n)' = LoadedBy(n)
  BY <1>1 DEF LoadedBy
<1> QED
  BY <1>1, <1>3, <1>4 DEF Goes, IsSave, Reported, Waiting

\* A new request is a save under way or a load that has found nothing yet.
LEMMA AskedGoes ==
    ASSUME BasicInv, NEW n \in RequestId, NEW s \in Servers, NEW r, Asked(s, r),
           Len(requests) + 1 \notin DOMAIN requests,
           r.kind = "save" => r.status = "SAVE_FAILED" /\ r.step = "backup",
           r.kind = "load" => r.status = "LOAD_FAILED",
           \A c \in Clients : tee'[c] \in {tee[c], None}
    PROVE  Goes(n)
<1> DEFINE new == Len(requests) + 1
<1>1. /\ DOMAIN requests' = DOMAIN requests \cup {new} /\ new \notin DOMAIN requests
      /\ \A k \in DOMAIN requests : requests'[k] = requests[k]
      /\ requests'[new] = r
      /\ result' = [result EXCEPT ![s] = new] /\ result \in [Servers -> DOMAIN requests \cup {None}]
  BY DEF Asked, BasicInv, GameTypes
<1> HIDE DEF new
<1>2. n # None
  BY SaveAssumption DEF RequestId, None
<1>3. InGame(n)' => InGame(n)
  BY <1>2 DEF InGame, Playing
<1>4. LoadedBy(n)' = LoadedBy(n)
  BY <1>1 DEF LoadedBy
<1>5. /\ IsSave(n) => IsSave(n)' /\ requests'[n] = requests[n]
      /\ ~IsSave(n) /\ IsSave(n)' => n = new /\ r.kind = "save"
  BY <1>1 DEF IsSave
<1>6. \A id \in DOMAIN requests : \A t \in Servers : result'[t] = id => result[t] = id
  BY <1>1
<1> QED
  BY <1>1, <1>3, <1>4, <1>5, <1>6 DEF Goes, Reported, Waiting, Over

\* Reset and Restart take tees out of the game and drop answers.
LEMMA EmptyGoes ==
    ASSUME BasicInv, NEW n \in RequestId, NEW s \in Servers, NEW names, NEW ids,
           Empty(s, names, ids)
    PROVE  Goes(n)
<1>1. Killed
  BY EmptyKills DEF BasicInv
<1>2. /\ tee' = [c \in Clients |-> IF Home[c] = s THEN None ELSE tee[c]]
      /\ result' = [result EXCEPT ![s] = None]
      /\ result \in [Servers -> DOMAIN requests \cup {None}]
  BY DEF Empty, BasicInv, GameTypes
<1>3. n # None /\ None \notin DOMAIN requests
  BY RequestsBounded, SaveAssumption DEF RequestId, None, BasicInv
<1>4. InGame(n)' => InGame(n)
  BY <1>2, <1>3 DEF InGame, Playing
<1>5. LoadedBy(n)' = LoadedBy(n) /\ (IsSave(n)' <=> IsSave(n))
  BY <1>1, KilledShape DEF BasicInv
<1>6. \A id \in DOMAIN requests :
        /\ requests'[id].server = requests[id].server
        /\ \A t \in Servers : result'[t] = id => result[t] = id
  BY <1>1, <1>2, <1>3 DEF Killed
<1>7. IsSave(n) => /\ requests'[n].status = requests[n].status
                   /\ requests[n].step \in Over => requests'[n].step \in Over
  BY <1>1 DEF Killed, IsSave, Over
<1> QED
  BY <1>4, <1>5, <1>6, <1>7 DEF Goes, Reported, Waiting

\* ProcessSaveTeam gives the tees of the request it waited for, or nothing.
LEMMA ProcessGoes ==
    ASSUME BasicInv, NEW n \in RequestId, NEW s \in Servers, ProcessSaveTeam(s)
    PROVE  Goes(n)
<1> DEFINE id == result[s]
<1>1. /\ id # None /\ requests[id].step = "done" /\ result' = [result EXCEPT ![s] = None]
      /\ UNCHANGED requests
      /\ result \in [Servers -> DOMAIN requests \cup {None}]
  BY DEF ProcessSaveTeam, Saving, BasicInv, GameTypes
<1>2. n # None /\ None \notin DOMAIN requests
  BY RequestsBounded, SaveAssumption DEF RequestId, None, BasicInv
<1>3. InGame(n)' => \/ InGame(n)
                    \/ Waiting(n) /\ result[requests[n].server] = n
                    \/ \E k \in LoadedBy(n) : result[requests[k].server] = k
  <2>1. CASE UNCHANGED tee
    BY <2>1 DEF InGame, Playing
  <2>4. CASE KillInvalid(s)
    BY <1>2, <2>4 DEF InGame, Playing, KillInvalid
  <2>2. CASE /\ requests[id].status \in {"SAVE_FAILED", "LOAD_SUCCESS"}
             /\ Members(s) # {} /\ RestoreInto(s, id)
    <3> DEFINE m == requests[id].save
    <3>1. /\ id \in DOMAIN requests /\ IsSave(m) /\ requests[id].server = s
          /\ \/ id = m /\ requests[m].status = "SAVE_FAILED"
             \/ id \in LoadedBy(m)
          /\ \A c \in Clients : tee'[c] = tee[c] \/ tee'[c] = m
      BY <1>1, <2>2, Restored
    <3>2. CASE n = m
      BY <3>1, <3>2 DEF Waiting
    <3>3. CASE n # m
      BY <3>1, <3>3 DEF InGame, Playing
    <3> QED
      BY <3>2, <3>3
  <2>3. \/ UNCHANGED tee
        \/ KillInvalid(s)
        \/ /\ requests[id].status \in {"SAVE_FAILED", "LOAD_SUCCESS"}
           /\ Members(s) # {} /\ RestoreInto(s, id)
    <3>1. CASE requests[id].status = "SAVE_SUCCESS"
      BY <3>1 DEF ProcessSaveTeam
    <3>2. CASE requests[id].status \in {"SAVE_FAILED", "LOAD_SUCCESS"} /\ Members(s) # {}
      BY <3>2 DEF ProcessSaveTeam
    <3>3. CASE /\ requests[id].status # "SAVE_SUCCESS"
               /\ ~(requests[id].status \in {"SAVE_FAILED", "LOAD_SUCCESS"} /\ Members(s) # {})
      BY <3>3 DEF ProcessSaveTeam
    <3> QED
      BY <3>1, <3>2, <3>3
  <2> QED
    BY <2>1, <2>2, <2>3, <2>4
<1>4. LoadedBy(n)' = LoadedBy(n) /\ (IsSave(n)' <=> IsSave(n))
  BY <1>1 DEF LoadedBy, IsSave
<1>5. \A k \in DOMAIN requests : \A t \in Servers : result'[t] = k => result[t] = k
  BY <1>1, <1>2
<1> QED
  BY <1>1, <1>3, <1>4, <1>5 DEF Goes, Reported, Waiting

\* The fields of a request after a statement.
LEMMA StepFields ==
    ASSUME BasicInv, NEW id \in DOMAIN requests, NEW step, NEW status, Step(id, step, status)
    PROVE  /\ DOMAIN requests' = DOMAIN requests
           /\ \A k \in DOMAIN requests \ {id} : requests'[k] = requests[k]
           /\ requests'[id].server = requests[id].server
           /\ requests'[id].kind = requests[id].kind
           /\ requests'[id].status = status
<1> DEFINE r == [requests[id] EXCEPT !.step = step, !.status = status]
<1>1. requests[id] \in Requests /\ requests \in Seq(Requests)
  BY RequestsBounded DEF BasicInv, RequestInv
<1>2. r.server = requests[id].server /\ r.kind = requests[id].kind /\ r.status = status
  BY <1>1 DEF Requests
<1>3. requests' = [requests EXCEPT ![id] = r]
  BY Zenon DEF Step
<1> HIDE DEF r
<1> QED
  BY <1>1, <1>2, <1>3

\* What every statement leaves alone: the game, and the other requests; its own
\* is not over, and a save that was reported stays so.
LEMMA WorkFields ==
    ASSUME BasicInv, NEW id \in RequestId, Work(id)
    PROVE  /\ UNCHANGED <<tee, result>>
           /\ id \in DOMAIN requests /\ requests[id].step \notin Over
           /\ DOMAIN requests' = DOMAIN requests
           /\ \A k \in DOMAIN requests \ {id} : requests'[k] = requests[k]
           /\ requests'[id].server = requests[id].server
           /\ requests'[id].kind = requests[id].kind
           /\ requests[id].kind = "save" =>
                requests'[id].status \in {requests[id].status, "SAVE_SUCCESS"}
<1> DEFINE Fields == /\ DOMAIN requests' = DOMAIN requests
                     /\ \A k \in DOMAIN requests \ {id} : requests'[k] = requests[k]
                     /\ requests'[id].server = requests[id].server
                     /\ requests'[id].kind = requests[id].kind
           Status == requests'[id].status \in {requests[id].status, "SAVE_SUCCESS"}
<1>1. UNCHANGED <<tee, result>>
  BY DEF Work, SaveBackup, SaveNormal, SaveRetry, SaveSucceeded, SaveFailed, SaveMoved,
         LoadSelect, LoadDelete, LoadFile, LoadFileDelete, KeepGame, gameVars
<1>2. \E step \in {"backup", "normal", "retry", "succeeded", "failed", "moved",
                   "delete", "fileDelete"} : At(id, step)
  BY DEF Work, SaveBackup, SaveNormal, SaveRetry, SaveSucceeded, SaveFailed, SaveMoved,
         LoadSelect, LoadDelete, LoadFile, LoadFileDelete
<1>3. id \in DOMAIN requests /\ requests[id].step \notin Over
  BY <1>2, AtKind DEF Over
<1>4. CASE SaveBackup(id)
  <2>1. \E step, status : /\ Step(id, step, status)
                          /\ status \in {requests[id].status, "SAVE_SUCCESS"}
    BY <1>4 DEF SaveBackup
  <2>2. Fields /\ Status
    BY <1>3, <2>1, StepFields
  <2> QED
    BY <1>1, <1>3, <2>2
<1>5. CASE SaveNormal(id) \/ SaveRetry(id)
  <2>1. \E code : SaveInsert(id, code)
    BY <1>5 DEF SaveNormal, SaveRetry
  <2>2. \E step, status : /\ Step(id, step, status)
                          /\ status \in {requests[id].status, "SAVE_SUCCESS"}
    BY <2>1 DEF SaveInsert
  <2>3. Fields /\ Status
    BY <1>3, <2>2, StepFields
  <2> QED
    BY <1>1, <1>3, <2>3
<1>6. CASE SaveSucceeded(id) \/ SaveFailed(id) \/ SaveMoved(id)
  <2>1. \E step : Step(id, step, requests[id].status)
    BY <1>6 DEF SaveSucceeded, SaveFailed, SaveMoved, DeleteBackup
  <2>2. Fields /\ Status
    BY <1>3, <2>1, StepFields
  <2> QED
    BY <1>1, <1>3, <2>2
<1>7. CASE LoadSelect(id) \/ LoadFile(id)
  <2>1. requests[id].kind = "load"
    BY <1>7 DEF LoadSelect, LoadFile
  <2>2. \/ \E step, status : Step(id, step, status)
        \/ \E step, save :
             requests' = [requests EXCEPT ![id].step = step, ![id].save = save]
    BY <1>7, Zenon DEF LoadSelect, LoadFile, Select
  <2>3. CASE \E step, status : Step(id, step, status)
    BY <1>1, <1>3, <2>1, <2>3, StepFields
  <2>4. CASE \E step, save :
               requests' = [requests EXCEPT ![id].step = step, ![id].save = save]
    <3>1. PICK step, save :
            requests' = [requests EXCEPT ![id].step = step, ![id].save = save]
      BY <2>4
    <3> DEFINE r == [requests[id] EXCEPT !.step = step, !.save = save]
    <3>2. requests[id] \in Requests /\ requests \in Seq(Requests)
      BY <1>3, RequestsBounded DEF BasicInv, RequestInv
    <3>3. r.server = requests[id].server /\ r.kind = requests[id].kind
      BY <3>2 DEF Requests
    <3>4. requests' = [requests EXCEPT ![id] = r]
      BY <3>1, Zenon
    <3> HIDE DEF r
    <3>5. Fields
      BY <1>3, <3>2, <3>3, <3>4
    <3> QED
      BY <1>1, <1>3, <2>1, <3>5
  <2> QED
    BY <2>2, <2>3, <2>4, Zenon
<1>8. CASE LoadDelete(id) \/ LoadFileDelete(id)
  <2>1. \E step, status : Step(id, step, status)
    BY <1>8 DEF LoadDelete, LoadFileDelete
  <2>2. requests[id].kind = "load"
    BY <1>8, AtKind DEF LoadDelete, LoadFileDelete
  <2> QED
    BY <1>1, <1>3, <2>1, <2>2, StepFields
<1> QED
  BY <1>4, <1>5, <1>6, <1>7, <1>8 DEF Work

\* A statement of a save may report it, one of a load may take a save that was
\* reported: by the invariant after the step, nothing else is ever taken.
LEMMA WorkGoes ==
    ASSUME BasicInv, NEW n \in RequestId, NEW id \in RequestId, Work(id), Placed(n)'
    PROVE  Goes(n)
<1>1. /\ UNCHANGED <<tee, result>>
      /\ id \in DOMAIN requests /\ requests[id].step \notin Over
      /\ DOMAIN requests' = DOMAIN requests
      /\ \A k \in DOMAIN requests \ {id} : requests'[k] = requests[k]
      /\ requests'[id].server = requests[id].server
      /\ requests'[id].kind = requests[id].kind
      /\ requests[id].kind = "save" =>
           requests'[id].status \in {requests[id].status, "SAVE_SUCCESS"}
  BY WorkFields
<1>2. InGame(n)' <=> InGame(n)
  BY <1>1 DEF InGame, Playing
<1>3. IsSave(n)' <=> IsSave(n)
  BY <1>1 DEF IsSave
<1>4. Reported(n) => Reported(n)'
  BY <1>1 DEF Reported, IsSave
<1>5. id \notin LoadedBy(n)
  BY <1>1 DEF LoadedBy, BasicInv, RequestInv, Over
<1>6. \A k \in DOMAIN requests : k # id => (k \in LoadedBy(n)' <=> k \in LoadedBy(n))
  BY <1>1 DEF LoadedBy
<1>7. LoadedBy(n) \subseteq LoadedBy(n)'
  <2>1. LoadedBy(n) \subseteq DOMAIN requests
    BY DEF LoadedBy
  <2> QED
    BY <1>5, <1>6, <2>1
<1>8. ASSUME LoadedBy(n) = {}, LoadedBy(n)' # {} PROVE Reported(n)
  <2>1. id \in LoadedBy(n)'
    <3>1. LoadedBy(n)' \subseteq DOMAIN requests
      BY <1>1 DEF LoadedBy
    <3> QED
      BY <1>6, <1>8, <3>1
  <2>2. requests[id].kind = "load"
    BY <1>1, <2>1 DEF LoadedBy
  <2>3. Reported(n)'
    BY <1>8 DEF Placed
  <2>4. n # id /\ n \in DOMAIN requests
    BY <1>1, <2>2, <2>3 DEF Reported, IsSave
  <2> QED
    BY <1>1, <2>3, <2>4 DEF Reported, IsSave
<1>9. Waiting(n) /\ requests[n].step \in Over => Waiting(n)' /\ requests'[n].step \in Over
  BY <1>1 DEF Waiting, IsSave
<1> HIDE DEF InGame, LoadedBy, Reported, Waiting, IsSave
<1> QED
  BY <1>1, <1>2, <1>3, <1>4, <1>7, <1>8, <1>9 DEF Goes

LEMMA LifeStep ==
    ASSUME BasicInv, PlaceInv, PlaceInv', [Next]_vars, NEW n \in RequestId
    PROVE  Place(n)' # Place(n) => <<Place(n), Place(n)'>> \in Moves
<1>0. Placed(n) /\ Placed(n)'
  BY DEF PlaceInv
<1>1. ASSUME NEW s \in Servers, SaveTeam(s) PROVE Goes(n)
  <2> DEFINE new == Len(requests) + 1
  <2>1. PICK code \in {Generated(new)} \cup {User(u) : u \in UserCodes} :
          Request(s, "save", code, new, "SAVE_FAILED", "backup")
    BY <1>1 DEF SaveTeam
  <2>2. new \in RequestId /\ new \notin DOMAIN requests
    BY <2>1, RequestNumber
  <2> HIDE DEF new
  <2>3. code \in Codes /\ "backup" \in SaveSteps /\ "SAVE_FAILED" \in SaveStatus
    BY <2>1, <2>2 DEF Codes, SaveSteps, SaveStatus
  <2> DEFINE r == [server |-> s, kind |-> "save", code |-> code, save |-> new,
                   seats |-> Seats(s), status |-> "SAVE_FAILED", step |-> "backup"]
  <2>4. Asked(s, r)
    BY <2>1, <2>2, <2>3, RequestMade
  <2>5. r.kind = "save" /\ r.status = "SAVE_FAILED" /\ r.step = "backup"
    OBVIOUS
  <2>6. \A c \in Clients : tee'[c] \in {tee[c], None}
    BY <1>1 DEF SaveTeam
  <2> HIDE DEF r
  <2> QED
    BY <2>2, <2>4, <2>5, <2>6, AskedGoes DEF new
<1>2. ASSUME NEW s \in Servers, LoadTeam(s) PROVE Goes(n)
  <2> DEFINE new == Len(requests) + 1
  <2>1. PICK row \in mainSaves \cup fileSaves[s] :
          Request(s, "load", row.code, None, "LOAD_FAILED", "normal")
    BY <1>2 DEF LoadTeam
  <2>2. new \notin DOMAIN requests
    BY <2>1, RequestNumber
  <2> HIDE DEF new
  <2>3. row.code \in Codes /\ "normal" \in LoadSteps /\ "LOAD_FAILED" \in LoadStatus
    <3>1. row \in Rows
      BY DEF BasicInv, TableTypes
    <3> QED
      BY <3>1 DEF Rows, Codes, LoadSteps, LoadStatus
  <2> DEFINE r == [server |-> s, kind |-> "load", code |-> row.code, save |-> None,
                   seats |-> Seats(s), status |-> "LOAD_FAILED", step |-> "normal"]
  <2>4. Asked(s, r)
    BY <2>1, <2>3, RequestMade
  <2>5. r.kind = "load" /\ r.status = "LOAD_FAILED"
    OBVIOUS
  <2>6. \A c \in Clients : tee'[c] \in {tee[c], None}
    BY <1>2 DEF LoadTeam, gameVars
  <2> HIDE DEF r
  <2> QED
    BY <2>2, <2>4, <2>5, <2>6, AskedGoes DEF new
<1>3. CASE Play /\ \A s \in Servers : ~SaveTeam(s) /\ ~LoadTeam(s)
  <2>1. Goes(n)
    BY <1>3, PlayStep, PlayGoes
  <2> QED
    BY <1>0, <2>1, GoesMoves
<1>4. ASSUME NEW id \in RequestId, Work(id) PROVE Goes(n)
  BY <1>0, <1>4, WorkGoes
<1>5. ASSUME NEW s \in Servers, ProcessSaveTeam(s) PROVE Goes(n)
  BY <1>5, ProcessGoes
<1>6. ASSUME NEW s \in Servers, Reset(s) \/ Restart(s) PROVE Goes(n)
  BY <1>6, EmptyGoes DEF Reset, Restart
<1>7. CASE UNCHANGED vars
  <2>1. Place(n)' = Place(n)
    BY <1>7 DEF vars, gameVars, tableVars, Place, Playing, LoadedBy, Made, InTable, Stored
  <2> QED
    BY <2>1
<1>8. [Next]_vars => \/ Play \/ (\E id \in RequestId : Work(id)) \/ UNCHANGED vars
                     \/ \E s \in Servers : ProcessSaveTeam(s) \/ Reset(s) \/ Restart(s)
  BY Zenon DEF Next
<1> QED
  BY <1>0, <1>1, <1>2, <1>3, <1>4, <1>5, <1>6, <1>7, <1>8, GoesMoves

\* The run of a save is held, then stored or given back; once stored it comes
\* into a game only through the answer of a load that took it; nothing brings
\* back a run that is over, and none that was reported is lost.
THEOREM LivesOfSaves ==
    ASSUME NothingLost PROVE Spec => LifeOfSave
<1>1. BasicInv /\ PlaceInv /\ PlaceInv' /\ [Next]_vars
        => [\A n \in RequestId :
              Place(n)' # Place(n) => <<Place(n), Place(n)'>> \in Moves]_vars
  BY LifeStep
<1> QED
  BY <1>1, RunsInvariant, RunsArePlaced, PTL DEF Spec, LifeOfSave
=============================================================================
