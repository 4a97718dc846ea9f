------------------------------ MODULE TeamSave ------------------------------
(***************************************************************************)
(* /save and /load of a team: CScore::SaveTeam and LoadTeam queue a write  *)
(* request, CScoreWorker (game/server/scoreworker.cpp) executes it one SQL *)
(* statement at a time on the main database, which the game servers share, *)
(* and on a file of each server's own, and CGameTeams::ProcessSaveTeam     *)
(* (game/server/teams.cpp) applies the answer to whoever is in the team by *)
(* then.  The pool executes the requests of a server in order              *)
(* (ConnectionPool); its fail mode, which skips the main database, is the  *)
(* outcome "fail" of a statement.                                          *)
(*                                                                         *)
(* A server has one team besides the flock (team 0).  A save is named by   *)
(* the request that made it, and so is its random SaveId.                  *)
(***************************************************************************)
EXTENDS Integers, Sequences, FiniteSets, Functions

CONSTANTS
    Servers,
    Clients,       \* client ids of all servers
    Home,          \* the server of each client id
    Names,         \* names of players
    UserCodes,     \* codes a player may choose, positive numbers
    MaxSaves,      \* bounds on the saves, and
    MaxLoads,      \* the loads of a behaviour
    MaxResets,     \* bound on map changes and restarts
    MainOutcomes,  \* what a statement on the main database may do
    FileOutcomes   \* what a statement on a server's own file may do

\* "ok": done and reported; "fail": not done; "lost": done, reported failed.
ASSUME SaveAssumption ==
    /\ Home \in [Clients -> Servers]
    /\ UserCodes \subseteq Nat \ {0}
    /\ MaxSaves \in Nat /\ MaxLoads \in Nat /\ MaxResets \in Nat
    /\ MainOutcomes \subseteq {"ok", "fail", "lost"}
    /\ FileOutcomes \subseteq {"ok", "fail", "lost"}

NoName    == "none"
None      == 0         \* no request, no save, an empty m_aCode
RequestId == 1 .. MaxSaves + MaxLoads

User(u)       == <<"user", u>>
Generated(id) == <<"generated", id>>     \* GeneratePassphrase: assumed fresh

VARIABLES
    who,          \* the name of the player with a client id, or NoName
    inTeam,       \* m_Core.Team(c) is the team, not the flock
    tee,          \* the save whose state the player's tee continues, or None
    teamState,    \* m_aTeamState of the team
    result,       \* m_apSaveTeamResult: the request the team waits for, or None
    requests,     \* every request with its result object, in order
    mainSaves,    \* record_saves of the main database: rows [code, save]
    fileSaves,    \* record_saves in the file of each server
    backupSaves,  \* record_saves_backup in the file of each server
    resets

gameVars  == <<who, inTeam, tee, teamState>>
tableVars == <<mainSaves, fileSaves, backupSaves>>
vars == <<gameVars, result, requests, tableVars, resets>>

-----------------------------------------------------------------------------
Members(s) == {c \in Clients : Home[c] = s /\ inTeam[c]}
Saving(s)  == result[s] # None                   \* CGameTeams::GetSaving
Made(id)   == id \in DOMAIN requests

Init ==
    /\ who = [c \in Clients |-> NoName]
    /\ inTeam = [c \in Clients |-> FALSE]
    /\ tee = [c \in Clients |-> None]
    /\ teamState = [s \in Servers |-> "EMPTY"]
    /\ result = [s \in Servers |-> None]
    /\ requests = <<>>
    /\ mainSaves = {}
    /\ fileSaves = [s \in Servers |-> {}]
    /\ backupSaves = [s \in Servers |-> {}]
    /\ resets = 0
-----------------------------------------------------------------------------
(* The game.                                                               *)

KeepData == UNCHANGED <<result, requests, tableVars, resets>>

\* A client connects, in team 0.
Connect(c, n) ==
    /\ who[c] = NoName
    /\ \A d \in Clients : Home[d] = Home[c] => who[d] # n
    /\ who' = [who EXCEPT ![c] = n]
    /\ UNCHANGED <<inTeam, tee, teamState>> /\ KeepData

JoinWhileSaving(c) ==                            \* mutant: GetSaving not asked
    /\ who[c] # NoName /\ ~inTeam[c]
    /\ teamState[Home[c]] \in {"EMPTY", "OPEN"}
    /\ inTeam' = [inTeam EXCEPT ![c] = TRUE]
    /\ teamState' = [teamState EXCEPT ![Home[c]] = "OPEN"]
    /\ UNCHANGED <<who, tee>> /\ KeepData

\* SetCharacterTeam into the team: not once it started, not while it saves.
Join(c) ==
    /\ who[c] # NoName /\ ~inTeam[c]
    /\ teamState[Home[c]] \in {"EMPTY", "OPEN"}
    /\ ~Saving(Home[c])
    /\ inTeam' = [inTeam EXCEPT ![c] = TRUE]
    /\ teamState' = [teamState EXCEPT ![Home[c]] = "OPEN"]
    /\ UNCHANGED <<who, tee>> /\ KeepData

\* OnCharacterStart; touching the start while the team saves kills the tee.
Start(s) ==
    /\ teamState[s] = "OPEN" /\ Members(s) # {} /\ ~Saving(s)
    /\ teamState' = [teamState EXCEPT ![s] = "STARTED"]
    /\ UNCHANGED <<who, inTeam, tee>> /\ KeepData

\* SetForceCharacterTeam(c, TEAM_FLOCK): the last one to leave empties the
\* team.  CheckTeamFinished may then find that the others have all finished;
\* who has is not modelled.
Leave(c) ==
    /\ inTeam' = [inTeam EXCEPT ![c] = FALSE]
    /\ LET s == Home[c]
           others == Members(s) \ {c}
       IN  \/ /\ teamState' = [teamState EXCEPT ![s] = IF others = {} THEN "EMPTY" ELSE @]
              /\ tee' = [tee EXCEPT ![c] = None]
           \/ /\ others # {} /\ teamState[s] = "STARTED"
              /\ teamState' = [teamState EXCEPT ![s] = "FINISHED"]
              /\ tee' = [d \in Clients |-> IF d \in Members(s) THEN None ELSE tee[d]]

\* DoTeamChange to the spectators, whether or not the team saves.
Spectate(c) == inTeam[c] /\ Leave(c) /\ UNCHANGED who /\ KeepData

\* OnCharacterDeath of a tee in a locked team ends the run of all of it.
KillLocked(s) ==
    /\ teamState' = [teamState EXCEPT ![s] = "OPEN"]
    /\ tee' = [d \in Clients |-> IF d \in Members(s) THEN None ELSE tee[d]]

\* OnCharacterDeath.  A team can be locked and unlocked at any time.
Die(c) ==
    /\ inTeam[c] /\ ~Saving(Home[c])
    /\ \/ teamState[Home[c]] # "OPEN" /\ KillLocked(Home[c]) /\ UNCHANGED inTeam
       \/ Leave(c)
    /\ UNCHANGED who /\ KeepData

\* OnPlayerDisconnect: the tee dies, then its player leaves the team.
Disconnect(c) ==
    /\ who[c] # NoName
    /\ who' = [who EXCEPT ![c] = NoName]
    /\ IF inTeam[c] THEN Leave(c) ELSE UNCHANGED <<inTeam, tee, teamState>>
    /\ KeepData

\* CheckTeamFinished after the last member touched the finish.
Finish(s) ==
    /\ teamState[s] = "STARTED" /\ Members(s) # {} /\ ~Saving(s)
    /\ teamState' = [teamState EXCEPT ![s] = "FINISHED"]
    /\ tee' = [d \in Clients |-> IF d \in Members(s) THEN None ELSE tee[d]]
    /\ UNCHANGED <<who, inTeam>> /\ KeepData
-----------------------------------------------------------------------------
(* Requests.                                                               *)

\* The name of each member and its client id.
Seats(s) == [n \in {who[c] : c \in Members(s)} |->
               CHOOSE c \in Members(s) : who[c] = n]

Request(s, kind, code, save, status, step) ==
    /\ Cardinality({id \in DOMAIN requests : requests[id].kind = kind})
         < (IF kind = "save" THEN MaxSaves ELSE MaxLoads)
    /\ ~Saving(s)
    /\ requests' = Append(requests, [server |-> s, kind |-> kind, code |-> code,
           save |-> save, seats |-> Seats(s), status |-> status, step |-> step])
    /\ result' = [result EXCEPT ![s] = Len(requests) + 1]

\* CScore::SaveTeam: the tees are stored in the result object and killed.
SaveTeam(s) ==
    /\ teamState[s] = "STARTED" /\ Members(s) # {}
    /\ LET id == Len(requests) + 1
       IN  \E code \in {Generated(id)} \cup {User(u) : u \in UserCodes} :
             Request(s, "save", code, id, "SAVE_FAILED", "backup")
    /\ tee' = [d \in Clients |-> IF d \in Members(s) THEN None ELSE tee[d]]
    /\ UNCHANGED <<who, inTeam, teamState, tableVars, resets>>

\* CScore::LoadTeam, with a code for which there is a save by now.
LoadTeam(s) ==
    /\ teamState[s] = "OPEN" /\ Members(s) # {}
    /\ \E row \in mainSaves \cup fileSaves[s] :
         Request(s, "load", row.code, None, "LOAD_FAILED", "normal")
    /\ UNCHANGED <<gameVars, tableVars, resets>>

\* CSaveTeam::Load puts the saved state on the client ids it was saved for.
RestoreInto(s, id) ==
    /\ teamState' = [teamState EXCEPT ![s] = "STARTED"]
    /\ LET r == requests[id]
       IN  tee' = [c \in Clients |->
                     IF c \in Members(s) /\ c \in Range(r.seats) THEN r.save ELSE tee[c]]
    /\ UNCHANGED inTeam

\* An invalid tee in the load has the whole team killed (KillTeam).  It is still
\* saving then, so that OnCharacterDeath leaves its state and its members alone.
KillInvalid(s) ==
    /\ teamState' = [teamState EXCEPT ![s] = "STARTED"]
    /\ tee' = [c \in Clients |-> IF c \in Members(s) THEN None ELSE tee[c]]
    /\ UNCHANGED inTeam

ProcessNonEmpty(s) ==                            \* mutant: skips empty teams
    /\ Saving(s) /\ requests[result[s]].step = "done" /\ Members(s) # {}
    /\ IF requests[result[s]].status \in {"SAVE_FAILED", "LOAD_SUCCESS"}
       THEN RestoreInto(s, result[s])
       ELSE UNCHANGED <<inTeam, tee, teamState>>
    /\ result' = [result EXCEPT ![s] = None]
    /\ UNCHANGED <<who, requests, tableVars, resets>>

RestoreEmpty(s) ==                               \* mutant: Count not asked
    /\ Saving(s) /\ requests[result[s]].step = "done"
    /\ IF requests[result[s]].status \in {"SAVE_FAILED", "LOAD_SUCCESS"}
       THEN RestoreInto(s, result[s])
       ELSE UNCHANGED <<inTeam, tee, teamState>>
    /\ result' = [result EXCEPT ![s] = None]
    /\ UNCHANGED <<who, requests, tableVars, resets>>

\* ProcessSaveTeam, once per tick.
ProcessSaveTeam(s) ==
    /\ Saving(s) /\ requests[result[s]].step = "done"
    /\ LET status == requests[result[s]].status
       IN  CASE status = "SAVE_SUCCESS" ->       \* ResetSavedTeam
                  /\ inTeam' = [c \in Clients |-> inTeam[c] /\ Home[c] # s]
                  /\ teamState' = [teamState EXCEPT ![s] = "EMPTY"]
                  /\ UNCHANGED tee
             [] status \in {"SAVE_FAILED", "LOAD_SUCCESS"} /\ Members(s) # {} ->
                  \/ RestoreInto(s, result[s])
                  \/ status = "LOAD_SUCCESS" /\ KillInvalid(s)
             [] OTHER -> UNCHANGED <<inTeam, tee, teamState>>
    /\ result' = [result EXCEPT ![s] = None]
    /\ UNCHANGED <<who, requests, tableVars, resets>>
-----------------------------------------------------------------------------
(* CScoreWorker: the statements of a request.                              *)

Row(code, save)      == [code |-> code, save |-> save]
RowsWith(table, code) == {row \in table : row.code = code}
Without(table, code) == table \ RowsWith(table, code)

\* INSERT IGNORE: the primary key is the map and the code.
Inserted(table, code, save) ==
    IF RowsWith(table, code) = {} THEN table \cup {Row(code, save)} ELSE table

Over == {"done", "killed"}

Step(id, step, status) ==
    requests' = [requests EXCEPT ![id].step = step, ![id].status = status]

\* Request id is at this step, and the requests before it on the same server
\* are past the statements of the same thread.
At(id, step) ==
    /\ Made(id) /\ requests[id].step = step
    /\ \A prev \in 1 .. id - 1 :
         requests[prev].server = requests[id].server =>
            IF step = "backup" THEN requests[prev].step # "backup"
                               ELSE requests[prev].step \in Over

KeepGame == UNCHANGED <<gameVars, result, resets>>

\* SaveTeam with BACKUP_FIRST, by the backup thread.
SaveBackup(id) ==
    /\ At(id, "backup")
    /\ LET r == requests[id]
           gen == Generated(id)
       IN  \E o \in FileOutcomes :
             /\ backupSaves' = [backupSaves EXCEPT ![r.server] =
                  IF o = "fail" THEN @ ELSE Inserted(@, gen, r.save)]
             /\ Step(id, "normal", IF o = "ok" /\ RowsWith(backupSaves[r.server], gen) = {}
                                   THEN "SAVE_SUCCESS" ELSE r.status)
    /\ KeepGame /\ UNCHANGED <<mainSaves, fileSaves>>

\* One round of the loop of SaveTeam with NORMAL.
SaveInsert(id, code) ==
    LET r == requests[id]
        new == RowsWith(mainSaves, code) = {}
    IN  \E o \in MainOutcomes :
          /\ mainSaves' = IF o = "fail" THEN mainSaves
                          ELSE Inserted(mainSaves, code, r.save)
          /\ \/ o # "ok" /\ Step(id, "failed", r.status)
             \/ o = "ok" /\ new /\ Step(id, "succeeded", "SAVE_SUCCESS")
             \/ /\ o = "ok" /\ ~new
                /\ Step(id, IF code = Generated(id) THEN "succeeded" ELSE "retry", r.status)

SaveNormal(id) ==
    /\ At(id, "normal") /\ requests[id].kind = "save"
    /\ SaveInsert(id, requests[id].code)
    /\ KeepGame /\ UNCHANGED <<fileSaves, backupSaves>>

\* The code of the player exists: once more with the generated code.
SaveRetry(id) ==
    /\ At(id, "retry")
    /\ SaveInsert(id, Generated(id))
    /\ KeepGame /\ UNCHANGED <<fileSaves, backupSaves>>

\* DELETE of the row of the backup, after NORMAL or after the move.
DeleteBackup(id) ==
    LET s == requests[id].server
    IN  /\ \E o \in FileOutcomes : backupSaves' = [backupSaves EXCEPT ![s] =
              IF o = "fail" THEN @ ELSE Without(@, Generated(id))]
        /\ Step(id, "done", requests[id].status)
        /\ UNCHANGED <<mainSaves, fileSaves>>

SaveSucceeded(id) == At(id, "succeeded") /\ DeleteBackup(id) /\ KeepGame

SaveFailedDeletes(id) ==                         \* mutant: deletes in any case
    /\ At(id, "failed") /\ requests[id].kind = "save"
    /\ LET s == requests[id].server
       IN  \E o \in FileOutcomes :
             /\ fileSaves' = [fileSaves EXCEPT ![s] =
                  IF o = "fail" THEN @
                  ELSE @ \cup RowsWith(backupSaves[s], Generated(id))]
             /\ Step(id, "moved", requests[id].status)
    /\ KeepGame /\ UNCHANGED <<mainSaves, backupSaves>>

\* NORMAL_FAILED: the row moves from the backup table to the file's own table.
SaveFailed(id) ==
    /\ At(id, "failed") /\ requests[id].kind = "save"
    /\ LET s == requests[id].server
       IN  \E o \in FileOutcomes :
             /\ fileSaves' = [fileSaves EXCEPT ![s] =
                  IF o = "fail" THEN @
                  ELSE @ \cup RowsWith(backupSaves[s], Generated(id))]
             /\ Step(id, IF o = "ok" THEN "moved" ELSE "done", requests[id].status)
    /\ KeepGame /\ UNCHANGED <<mainSaves, backupSaves>>

SaveMoved(id) == At(id, "moved") /\ DeleteBackup(id) /\ KeepGame

\* SELECT of LoadTeam.  MatchPlayers wants exactly the players of the save in
\* the team; the caller is one of them.  A load that comes less than
\* m_SvSaveSwapGamesDelay after the save is left out: it has no effect.
Select(id, table, next) ==
    LET found == {row \in RowsWith(table, requests[id].code) :
                    DOMAIN requests[id].seats = DOMAIN requests[row.save].seats}
    IN  \/ found = {} /\ Step(id, "done", "LOAD_FAILED")
        \/ \E row \in found :
             requests' = [requests EXCEPT ![id].step = next, ![id].save = row.save]

MatchingCode(id, table) ==                       \* mutant: SaveId not compared
    RowsWith(table, requests[id].code)

\* DELETE of LoadTeam: by code and SaveId, so that a save made since the
\* SELECT with the same code is not touched.
Matching(id, table) ==
    {row \in RowsWith(table, requests[id].code) : row.save = requests[id].save}

LoadedUnasked(id, table, o) ==                   \* mutant: NumDeleted not asked
    IF o = "ok" THEN "LOAD_SUCCESS" ELSE "LOAD_FAILED"

\* NumDeleted tells whether another server was faster.
Loaded(id, table, o) ==
    IF o = "ok" /\ Matching(id, table) # {} THEN "LOAD_SUCCESS" ELSE "LOAD_FAILED"

\* LoadTeam with NORMAL.
LoadSelect(id) ==
    /\ At(id, "normal") /\ requests[id].kind = "load"
    /\ \/ "ok" \in MainOutcomes /\ Select(id, mainSaves, "delete")
       \/ MainOutcomes # {"ok"} /\ Step(id, "failed", "LOAD_FAILED")
    /\ KeepGame /\ UNCHANGED tableVars

LoadDelete(id) ==
    /\ At(id, "delete")
    /\ \E o \in MainOutcomes :
         /\ mainSaves' = IF o = "fail" THEN mainSaves
                         ELSE mainSaves \ Matching(id, mainSaves)
         /\ Step(id, IF o = "ok" THEN "done" ELSE "failed", Loaded(id, mainSaves, o))
    /\ KeepGame /\ UNCHANGED <<fileSaves, backupSaves>>

\* LoadTeam with NORMAL_FAILED, on the server's own file.
LoadFile(id) ==
    /\ At(id, "failed") /\ requests[id].kind = "load"
    /\ \/ "ok" \in FileOutcomes /\ Select(id, fileSaves[requests[id].server], "fileDelete")
       \/ FileOutcomes # {"ok"} /\ Step(id, "done", "LOAD_FAILED")
    /\ KeepGame /\ UNCHANGED tableVars

LoadFileDelete(id) ==
    /\ At(id, "fileDelete")
    /\ LET s == requests[id].server
       IN  \E o \in FileOutcomes :
             /\ fileSaves' = [fileSaves EXCEPT ![s] =
                  IF o = "fail" THEN @ ELSE @ \ Matching(id, @)]
             /\ Step(id, "done", Loaded(id, fileSaves[s], o))
    /\ KeepGame /\ UNCHANGED <<mainSaves, backupSaves>>
-----------------------------------------------------------------------------
(* A map change drops what the teams wait for, not the requests of the     *)
(* pool; a killed process drops both.                                      *)

Empty(s, names, ids) ==
    /\ resets < MaxResets /\ resets' = resets + 1
    /\ who' = names
    /\ inTeam' = [c \in Clients |-> inTeam[c] /\ Home[c] # s]
    /\ tee' = [c \in Clients |-> IF Home[c] = s THEN None ELSE tee[c]]
    /\ teamState' = [teamState EXCEPT ![s] = "EMPTY"]
    /\ result' = [result EXCEPT ![s] = None]
    /\ requests' = [id \in DOMAIN requests |->
                      IF id \in ids /\ requests[id].step # "done"
                      THEN [requests[id] EXCEPT !.step = "killed"] ELSE requests[id]]
    /\ UNCHANGED tableVars

\* CGameTeams::Reset
Reset(s) == Empty(s, who, {})

Restart(s) ==
    Empty(s, [c \in Clients |-> IF Home[c] = s THEN NoName ELSE who[c]],
          {id \in DOMAIN requests : requests[id].server = s})
-----------------------------------------------------------------------------
Play ==
    \/ \E c \in Clients : \/ \E n \in Names : Connect(c, n)
                          \/ Join(c) \/ Spectate(c) \/ Die(c) \/ Disconnect(c)
    \/ \E s \in Servers : Start(s) \/ Finish(s) \/ SaveTeam(s) \/ LoadTeam(s)

Work(id) ==
    \/ SaveBackup(id) \/ SaveNormal(id) \/ SaveRetry(id)
    \/ SaveSucceeded(id) \/ SaveFailed(id) \/ SaveMoved(id)
    \/ LoadSelect(id) \/ LoadDelete(id) \/ LoadFile(id) \/ LoadFileDelete(id)

Next ==
    \/ Play
    \/ \E id \in RequestId : Work(id)
    \/ \E s \in Servers : ProcessSaveTeam(s) \/ Reset(s) \/ Restart(s)

Spec == Init /\ [][Next]_vars

\* The pool's threads run, statements return, and the game ticks.
FairSpec ==
    /\ Spec
    /\ \A id \in RequestId : WF_vars(Work(id))
    /\ \A s \in Servers : WF_vars(ProcessSaveTeam(s))
-----------------------------------------------------------------------------
(* Properties.                                                             *)

Tables == {"main"} \cup Servers
Rows == [code : {Generated(id) : id \in RequestId} \cup {User(u) : u \in UserCodes},
         save : RequestId]

\* Types; moreover, a team is EMPTY exactly when nobody is in it: a result that
\* comes late must not start a team without members, which nobody could leave
\* and GetFirstEmptyTeam would never offer again (teams.cpp:1060, :1078).
TypeOK ==
    /\ who \in [Clients -> Names \cup {NoName}]
    /\ inTeam \in [Clients -> BOOLEAN]
    /\ tee \in [Clients -> RequestId \cup {None}]
    /\ teamState \in [Servers -> {"EMPTY", "OPEN", "STARTED", "FINISHED"}]
    /\ result \in [Servers -> DOMAIN requests \cup {None}]
    /\ Len(requests) <= MaxSaves + MaxLoads
    /\ mainSaves \subseteq Rows
    /\ fileSaves \in [Servers -> SUBSET Rows]
    /\ backupSaves \in [Servers -> SUBSET Rows]
    /\ \A s \in Servers : teamState[s] = "EMPTY" <=> Members(s) = {}

LoadedBy(n) == {id \in DOMAIN requests :
    requests[id].kind = "load" /\ requests[id].save = n /\ requests[id].status = "LOAD_SUCCESS"}

Playing(n, s) == \E c \in Clients : Home[c] = s /\ tee[c] = n

Stored(n, table) == \E row \in table : row.save = n

InTable(n) == \/ Stored(n, mainSaves)
              \/ \E s \in Servers : Stored(n, fileSaves[s]) \/ Stored(n, backupSaves[s])

\* What could still put the state of save n into a game: rows that /load finds,
\* a team that plays it, and answers that ProcessSaveTeam is going to apply.
MainSources(n)    == {<<"main", row.code>> : row \in {r \in mainSaves : r.save = n}}
FileSources(n, s) == {<<s, row.code>> : row \in {r \in fileSaves[s] : r.save = n}}
GameSources(n)    == {<<"game", s>> : s \in {t \in Servers : Playing(n, t)}}

Answers(n, s) == /\ Saving(s) /\ requests[result[s]].save = n
                 /\ requests[result[s]].step = "done"
                 /\ requests[result[s]].status \in {"SAVE_FAILED", "LOAD_SUCCESS"}

AnswerSources(n)  == {<<"answer", s>> : s \in {t \in Servers : Answers(n, t)}}

Sources(n) == MainSources(n) \cup (UNION {FileSources(n, s) : s \in Servers})
                             \cup GameSources(n) \cup AnswerSources(n)

\* A saved run is never duplicated: it can be continued from one place, although
\* two servers may load it at the same time, codes are used again, statements
\* fail and processes are killed (scoreworker.cpp:1833, NumDeleted and SaveId).
NoCopy == \A n \in DOMAIN requests : Cardinality(Sources(n)) <= 1

\* A save that players were told of is in a table until somebody was given it.
SuccessKept ==
    \A n \in DOMAIN requests :
      requests[n].kind = "save" /\ requests[n].status = "SAVE_SUCCESS" =>
        LoadedBy(n) # {} \/ InTable(n)

\* A saved tee is only given to the player it was saved for, or who loads it
\* under the same name: not to one who got the client id, or a place in the
\* team, while the database was busy (teams.cpp:419).
RestoredToOwner ==
    \A c \in Clients : tee[c] # None =>
      \E r \in Range(requests) : /\ r.save = tee[c]
                                 /\ who[c] \in DOMAIN r.seats /\ r.seats[who[c]] = c

\* Where the run of save n is.
Place(n) ==
    IF \E s \in Servers : Playing(n, s) THEN "game"
    ELSE IF LoadedBy(n) # {} THEN
      IF \E id \in LoadedBy(n) : result[requests[id].server] = id THEN "taken" ELSE "over"
    ELSE IF ~(Made(n) /\ requests[n].kind = "save") THEN "none"
    ELSE IF InTable(n) THEN "stored"
    ELSE IF result[requests[n].server] = n \/ requests[n].step \notin Over THEN "held"
    ELSE IF requests[n].status = "SAVE_SUCCESS" THEN "lost" ELSE "over"

Moves == {<<"none", "held">>, <<"held", "stored">>, <<"held", "game">>,
          <<"held", "over">>, <<"stored", "taken">>, <<"stored", "over">>,
          <<"taken", "game">>, <<"taken", "over">>, <<"game", "over">>}

\* The life of a saved run: it is held until it is stored or given back, a stored
\* one comes back into a game only through the answer of a load, and one that is
\* over stays so; one that was reported is never lost.  (A stored run is over at once if the server that loads it
\* has changed the map meanwhile: nobody is there to receive it.)
LifeOfSave ==
    [][\A n \in RequestId :
         Place(n)' # Place(n) => <<Place(n), Place(n)'>> \in Moves]_vars

\* A team does not stay locked by a save or a load for ever, even if everybody
\* has left it and whatever the statements do.
SavingEnds == \A s \in Servers : Saving(s) ~> ~Saving(s)
=============================================================================
