------------------------------ MODULE MqttProofs ------------------------------
(***************************************************************************)
(* Proofs about Mqtt for any topics, logins and numbers of messages.       *)
(***************************************************************************)
EXTENDS Mqtt, TLAPS

\* A message that main did not make yet was not published.
SentInv == \A n \in Message : sent[n] <= 1 /\ (n > made => sent[n] = 0)

\* A kept message was made, and was not published before the runner is about to
\* clear m_missedMessages.
KeptInv ==
    \A t \in Topics : missed[t] # NoMessage =>
        /\ missed[t] <= made
        /\ runner # "clearMissed" => sent[missed[t]] = 0

\* What main is about to keep is its last message, which nobody else has.
KeepInv ==
    main.step = "keep" =>
        /\ main.arg \in Topics /\ made \in Message
        /\ sent[made] = 0
        /\ \A t \in Topics : missed[t] # made

\* The callback of a login that is being requested is not stored yet; one that
\* was called is being erased or is gone.
LoginInv ==
    /\ main.step \in {"subscribe", "wait"} =>
         /\ main.arg \in Logins
         /\ handled[main.arg] = 0 /\ callbacks[main.arg] # "login"
         /\ main.step = "subscribe" => callbacks[main.arg] = "none"
    /\ \A l \in Logins :
         /\ answers[l] = Unanswered => handled[l] = 0
         /\ handled[l] <= 1
         /\ handled[l] = 1 => callback = l \/ callbacks[l] = "none"

\* m_lastHeartBeat is at most a second ahead of the tick that was current.
HeartbeatInv == left + tick <= MaxTick + Second

\* The part of TypeOK about flags.
FlagTypes ==
    /\ connected \in BOOLEAN /\ online \in BOOLEAN /\ listening \in BOOLEAN
    /\ mapUpdate \in BOOLEAN /\ asked \in BOOLEAN /\ heartbeat \in BOOLEAN

MqttInv == TypeOK /\ SentInv /\ KeptInv /\ KeepInv /\ LoginInv /\ HeartbeatInv

LEMMA FlagsStep == ASSUME TypeOK, Next PROVE FlagTypes'
<1> USE DEF FlagTypes, linkVars, flagVars, RunnerOnly, MainOnly, PahoOnly
<1>0. FlagTypes
  BY Zenon DEF TypeOK
<1>1. CASE Runner
  BY <1>0, <1>1, Zenon DEF Runner, Connect, Subscribe, PublishMap, ClearMap, PublishServer,
     ClearHeartbeat, PublishMissed, ClearMissed
<1>2. CASE Tick \/ ChangeMap \/ Keep \/ Login
  BY <1>0, <1>2, Zenon DEF Tick, ChangeMap, Keep, Login, LoginSubscribed, LoginPublished
<1>3. ASSUME NEW t \in Topics, Publish(t) PROVE FlagTypes'
  BY <1>0, <1>3, Zenon DEF Publish
<1>4. ASSUME NEW l \in Logins, RequestLogin(l) \/ Answer(l) \/ Receive(l) PROVE FlagTypes'
  BY <1>0, <1>4, Zenon DEF RequestLogin, Answer, Receive
<1>5. CASE Unsubscribe \/ ResendMap \/ LoseBroker
  BY <1>0, <1>5, Zenon DEF Unsubscribe, ResendMap, LoseBroker
<1> QED
  BY <1>1, <1>2, <1>3, <1>4, <1>5 DEF Next

LEMMA InitMqtt == Init => MqttInv
<1> SUFFICES ASSUME Init PROVE MqttInv
  OBVIOUS
<1> USE MqttAssumption DEF Init, Free, Message, NoMessage, Unanswered, NoLogin
<1>1. TypeOK
  <2>1. FlagTypes
    BY Zenon DEF FlagTypes
  <2> QED
    BY <2>1 DEF TypeOK, FlagTypes
<1>2. SentInv /\ KeptInv /\ KeepInv /\ LoginInv /\ HeartbeatInv
  BY DEF SentInv, KeptInv, KeepInv, LoginInv, HeartbeatInv
<1> QED
  BY <1>1, <1>2 DEF MqttInv

-----------------------------------------------------------------------------
(* The runner.                                                             *)

\* The runner leaves the logins, the ticks and what main does alone.
LEMMA RunnerMqtt == ASSUME MqttInv, Runner PROVE MqttInv'
<1> USE MqttAssumption DEF RunnerOnly, loginVars, linkVars, flagVars, MqttInv
<1>1. TypeOK'
  <2>1. CASE PublishMissed
    BY <2>1 DEF TypeOK, PublishMissed
  <2>2. CASE ~PublishMissed
    BY <2>2 DEF TypeOK, Runner, Connect, Subscribe, PublishMap, ClearMap, PublishServer,
       ClearHeartbeat, ClearMissed
  <2> QED
    BY <2>1, <2>2
<1>2. SentInv' /\ KeptInv' /\ KeepInv'
  <2>1. CASE PublishMissed
    <3>1. \A n \in Message :
             \/ sent'[n] = sent[n]
             \/ sent'[n] = 1 /\ sent[n] = 0 /\ \E t \in Topics : missed[t] = n
      <4>1. /\ sent \in [Message -> Nat]
            /\ \A t \in Topics : missed[t] # NoMessage => sent[missed[t]] = 0
        BY <2>1 DEF PublishMissed, TypeOK, KeptInv
      <4>2. ASSUME NEW n \in Message PROVE n # NoMessage
        BY <4>2 DEF NoMessage, Message
      <4> QED
        BY <2>1, <4>1, <4>2 DEF PublishMissed
    <3>2. SentInv'
      BY <2>1, <3>1 DEF PublishMissed, SentInv, KeptInv, TypeOK, NoMessage, Message
    <3>3. KeptInv'
      BY <2>1 DEF PublishMissed, KeptInv, NoMessage
    <3>4. KeepInv'
      BY <2>1, <3>1 DEF PublishMissed, KeepInv
    <3> QED
      BY <3>2, <3>3, <3>4
  <2>2. CASE ClearMissed
    BY <2>2 DEF TypeOK, SentInv, KeptInv, KeepInv, ClearMissed, NoMessage, Message
  <2>3. CASE ~PublishMissed /\ ~ClearMissed
    BY <2>3 DEF TypeOK, SentInv, KeptInv, KeepInv, Runner, Connect, Subscribe, PublishMap,
       ClearMap, PublishServer, ClearHeartbeat
  <2> QED
    BY <2>1, <2>2, <2>3
<1>3. LoginInv' /\ HeartbeatInv'
  BY DEF LoginInv, HeartbeatInv, Runner, Connect, Subscribe, PublishMap, ClearMap,
     PublishServer, ClearHeartbeat, PublishMissed, ClearMissed
<1> QED
  BY <1>1, <1>2, <1>3 DEF MqttInv

-----------------------------------------------------------------------------
(* The main thread.                                                        *)

LEMMA TickMqtt == ASSUME MqttInv, Tick \/ ChangeMap PROVE MqttInv'
<1> USE MqttAssumption DEF Tick, ChangeMap, MainOnly, linkVars, msgVars, loginVars, MqttInv
<1>1. TypeOK'
  <2>1. FlagTypes'
    BY FlagsStep DEF Next
  <2> QED
    BY <2>1 DEF TypeOK, FlagTypes, HeartbeatInv
<1>2. SentInv' /\ KeptInv' /\ KeepInv' /\ LoginInv'
  BY DEF SentInv, KeptInv, KeepInv, LoginInv
<1>3. HeartbeatInv'
  BY DEF TypeOK, HeartbeatInv
<1> QED
  BY <1>1, <1>2, <1>3 DEF MqttInv

LEMMA PublishMqtt == ASSUME MqttInv, NEW t \in Topics, Publish(t) PROVE MqttInv'
<1> USE MqttAssumption DEF Publish, MainOnly, linkVars, flagVars, loginVars, MqttInv
<1>1. made' \in Message /\ made' = made + 1
  BY DEF TypeOK, Message
<1>2. sent[made'] = 0
  BY <1>1 DEF SentInv, TypeOK
<1>3. TypeOK'
  <2>1. FlagTypes'
    BY FlagsStep DEF Next
  <2>2. sent' \in [Message -> Nat]
    BY <1>1 DEF TypeOK
  <2>3. main' \in [step : {"free", "keep", "subscribe", "wait"},
                   arg : Topics \cup Logins \cup {NoLogin}]
    BY DEF TypeOK
  <2>4. made' \in 0 .. MaxMessages
    BY <1>1 DEF Message
  <2> QED
    BY <2>1, <2>2, <2>3, <2>4 DEF TypeOK, FlagTypes
<1>4. SentInv'
  BY <1>1, <1>2 DEF SentInv, TypeOK, Message
<1>5. KeptInv'
  BY <1>1 DEF KeptInv, TypeOK, Message, NoMessage
<1>6. KeepInv'
  <2>1. \A u \in Topics : missed[u] # made + 1
    BY DEF KeptInv, TypeOK, Message, NoMessage
  <2> QED
    BY <1>1, <1>2, <2>1 DEF KeepInv, Free
<1>7. LoginInv' /\ HeartbeatInv'
  BY DEF LoginInv, HeartbeatInv, Free
<1> QED
  BY <1>3, <1>4, <1>5, <1>6, <1>7 DEF MqttInv

LEMMA KeepMqtt == ASSUME MqttInv, Keep PROVE MqttInv'
<1> USE MqttAssumption DEF Keep, Free, MainOnly, linkVars, flagVars, loginVars, MqttInv
<1>1. main.arg \in Topics /\ made \in Message /\ sent[made] = 0
  BY DEF KeepInv
<1>2. \A t \in Topics : missed'[t] = missed[t] \/ missed'[t] = made
  BY DEF TypeOK
<1>3. TypeOK'
  BY <1>1 DEF TypeOK
<1>4. SentInv'
  BY DEF SentInv
<1>5. KeptInv'
  BY <1>1, <1>2 DEF KeptInv, TypeOK, Message
<1>6. KeepInv' /\ LoginInv' /\ HeartbeatInv'
  BY DEF KeepInv, LoginInv, HeartbeatInv
<1> QED
  BY <1>3, <1>4, <1>5, <1>6 DEF MqttInv

LEMMA LoginMqtt == ASSUME MqttInv, Login \/ \E l \in Logins : RequestLogin(l) PROVE MqttInv'
<1> USE MqttAssumption DEF MainOnly, linkVars, flagVars, msgVars, MqttInv, Free
<1>1. SentInv' /\ KeptInv' /\ KeepInv' /\ HeartbeatInv'
  BY DEF TypeOK, SentInv, KeptInv, KeepInv, HeartbeatInv, Login, LoginSubscribed, LoginPublished,
     RequestLogin
<1>2. CASE LoginSubscribed
  BY <1>1, <1>2 DEF LoginSubscribed, TypeOK, LoginInv
<1>3. CASE LoginPublished
  BY <1>1, <1>3 DEF LoginPublished, TypeOK, LoginInv
<1>4. ASSUME NEW l \in Logins, RequestLogin(l) PROVE MqttInv'
  BY <1>1, <1>4 DEF RequestLogin, TypeOK, LoginInv, loginVars
<1> QED
  BY <1>2, <1>3, <1>4 DEF Login

-----------------------------------------------------------------------------
(* The broker and the thread of the library.                               *)

\* They change the logins, or the flags and the connection.
LEMMA PahoMqtt == ASSUME MqttInv, ResendMap \/ LoseBroker PROVE MqttInv'
<1> USE DEF ResendMap, LoseBroker, PahoOnly, linkVars, flagVars, msgVars, loginVars, MqttInv
<1>1. FlagTypes'
  BY FlagsStep DEF Next
<1>2. TypeOK'
  BY <1>1 DEF TypeOK, FlagTypes
<1>3. SentInv' /\ KeptInv' /\ KeepInv' /\ LoginInv' /\ HeartbeatInv'
  BY DEF SentInv, KeptInv, KeepInv, LoginInv, HeartbeatInv
<1> QED
  BY <1>2, <1>3

LEMMA AnswerMqtt ==
    ASSUME MqttInv, NEW l \in Logins, Answer(l) \/ Receive(l) \/ Unsubscribe
    PROVE  MqttInv'
<1> USE MqttAssumption DEF PahoOnly, linkVars, msgVars, MqttInv, Unanswered, NoLogin
<1>1. SentInv' /\ KeptInv' /\ KeepInv' /\ HeartbeatInv'
  BY DEF SentInv, KeptInv, KeepInv, HeartbeatInv, Answer, Receive, Unsubscribe
<1>2. CASE Answer(l)
  BY <1>1, <1>2 DEF Answer, TypeOK, LoginInv
<1>3. CASE Receive(l)
  <2>1. FlagTypes'
    BY <1>3, FlagsStep DEF Next
  <2>2. TypeOK'
    BY <1>3, <2>1 DEF Receive, TypeOK, FlagTypes
  <2>3. LoginInv'
    <3>1. \A k \in Logins \ {l} : answers'[k] = answers[k] /\ handled'[k] = handled[k]
      BY <1>3 DEF Receive, TypeOK
    <3>2. answers[l] # Unanswered /\ answers'[l] # Unanswered /\ callback = NoLogin
      BY <1>3 DEF Receive, TypeOK
    <3>3. /\ callbacks' = callbacks /\ main' = main
          /\ handled'[l] = IF callbacks[l] = "login" THEN handled[l] + 1 ELSE handled[l]
          /\ callback' = IF callbacks[l] = "none" THEN callback ELSE l
      BY <1>3 DEF Receive, TypeOK
    <3>4. ASSUME NEW k \in Logins
          PROVE  /\ answers'[k] = Unanswered => handled'[k] = 0
                 /\ handled'[k] <= 1
                 /\ handled'[k] = 1 => callback' = k \/ callbacks'[k] = "none"
      <4>1. handled[l] \in Nat /\ k # NoLogin
        BY DEF TypeOK
      <4> QED
        BY <3>1, <3>2, <3>3, <4>1 DEF LoginInv
    <3>5. main.step \in {"subscribe", "wait"} =>
             /\ main.arg \in Logins
             /\ handled'[main.arg] = 0 /\ callbacks[main.arg] # "login"
             /\ main.step = "subscribe" => callbacks[main.arg] = "none"
      BY <3>1, <3>3 DEF LoginInv
    <3> QED
      BY <3>3, <3>4, <3>5 DEF LoginInv
  <2> QED
    BY <1>1, <2>2, <2>3
<1>4. CASE Unsubscribe
  BY <1>1, <1>4 DEF Unsubscribe, TypeOK, LoginInv
<1> QED
  BY <1>2, <1>3, <1>4

-----------------------------------------------------------------------------
\* MqttInv holds however the three threads interleave, whenever the connection
\* is made or lost, and however often an answer is delivered.
THEOREM MqttInvariant == Spec => []MqttInv
<1>1. MqttInv /\ [Next]_vars => MqttInv'
  <2> SUFFICES ASSUME MqttInv, [Next]_vars PROVE MqttInv'
    OBVIOUS
  <2>1. CASE UNCHANGED vars
    BY <2>1 DEF vars, linkVars, flagVars, msgVars, loginVars, MqttInv, TypeOK, SentInv,
       KeptInv, KeepInv, LoginInv, HeartbeatInv
  <2>2. CASE Unsubscribe
    <3>1. callback \in Logins
      BY <2>2 DEF MqttInv, TypeOK, Unsubscribe
    <3> QED
      BY <2>2, <3>1, AnswerMqtt
  <2>3. CASE Next /\ ~Unsubscribe
    BY <2>3, RunnerMqtt, TickMqtt, PublishMqtt, KeepMqtt, LoginMqtt, PahoMqtt, AnswerMqtt DEF Next
  <2> QED
    BY <2>1, <2>2, <2>3
<1> QED
  BY <1>1, InitMqtt, PTL DEF Spec

\* The variables have their types, and the callback that is being called is not
\* taken out of m_responseCallbacks meanwhile (mqtt.cpp:61).
THEOREM MqttTypes == Spec => []TypeOK
BY MqttInvariant, PTL DEF MqttInv

\* No message of the main thread is published twice, although one thread keeps
\* messages while another publishes and clears them (mqtt.cpp:104).
THEOREM MessagesAreSentOnce == Spec => []NothingSentTwice
<1>1. MqttInv => NothingSentTwice
  BY DEF MqttInv, SentInv, NothingSentTwice
<1> QED
  BY <1>1, MqttInvariant, PTL

\* The callback of a login is called at most once, whenever its answer comes
\* and however often (mqtt.cpp:58).
THEOREM LoginsAreHandledOnce == Spec => []LoginHandledOnce
<1>1. MqttInv => LoginHandledOnce
  BY DEF MqttInv, LoginInv, LoginHandledOnce
<1> QED
  BY <1>1, MqttInvariant, PTL
=============================================================================
