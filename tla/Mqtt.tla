-------------------------------- MODULE Mqtt --------------------------------
(***************************************************************************)
(* CMqtt (engine/server/mqtt.cpp) is used by three threads without a lock: *)
(* the main thread publishes, requests logins and sets flags, a detached   *)
(* thread (the runner) connects and then publishes what the flags ask for, *)
(* and the thread of the Paho library calls the message callback.          *)
(*                                                                         *)
(* A message is a number.  What is in it is left out, except that a map is *)
(* the current one or not.  Messages to the console are left out.          *)
(***************************************************************************)
EXTENDS Integers, FiniteSets

CONSTANTS
    Topics,       \* CHANNEL_* that main publishes json on
    Logins,       \* calls of /login, each with its own response topic
    MaxMessages,  \* bound on the json messages of main
    Second,       \* TickSpeed(), positive
    MaxTick,      \* bound at which the count of ticks of a map stays
    AckInCallback \* the library receives acks while the callback runs

NoLogin == "none"

ASSUME MqttAssumption ==
    /\ NoLogin \notin Logins
    /\ MaxMessages \in Nat
    /\ Second \in Nat \ {0} /\ MaxTick \in Nat
    /\ AckInCallback \in BOOLEAN

NoMessage == 0
Message == 1 .. MaxMessages
Unanswered == -1

VARIABLES
    connected,    \* m_connected, which stays TRUE
    online,       \* the connection to the broker has not been lost
    listening,    \* subscribed to CHANNEL_RESPONSE
    runner,       \* what the runner does next
    mapUpdate,    \* m_rMapUpdate
    asked,        \* somebody asked for the map since the runner last read it
    heartbeat,    \* m_rHeartbeat
    tick,         \* Tick() of the current map
    left,         \* m_lastHeartBeat + TickSpeed() - Tick(), not below 0
    missed,       \* m_missedMessages: the message kept for each topic
    sent,         \* how often each message was published
    made,         \* number of messages made by main
    main,         \* what main is in the middle of
    callbacks,    \* m_responseCallbacks: the kind of callback of each login
    subscribed,   \* logins that were requested, by their response topic
    answers,      \* answers under way to each login, or Unanswered
    handled,      \* how often WaitForResponse's callback of each was called
    callback      \* the login whose answer the message callback is at work on

flagVars  == <<mapUpdate, asked, heartbeat, tick, left>>
msgVars   == <<missed, sent, made>>
loginVars == <<callbacks, subscribed, answers, handled, callback>>
linkVars  == <<connected, online, listening>>
vars == <<linkVars, runner, flagVars, msgVars, main, loginVars>>

Free == [step |-> "free", arg |-> NoLogin]

Init ==
    /\ connected = FALSE /\ online = FALSE /\ listening = FALSE
    /\ runner = "connect"
    /\ mapUpdate = TRUE /\ asked = TRUE /\ heartbeat = TRUE
    /\ tick = 0 /\ left = 0
    /\ missed = [t \in Topics |-> NoMessage]
    /\ sent = [n \in Message |-> 0]
    /\ made = 0
    /\ main = Free
    /\ callbacks = [l \in Logins |-> "none"]
    /\ subscribed = {}
    /\ answers = [l \in Logins |-> Unanswered]
    /\ handled = [l \in Logins |-> 0]
    /\ callback = NoLogin
-----------------------------------------------------------------------------
(* The runner.                                                             *)

\* Acks reach a thread that waits for one unless the callback holds them up.
Acks == AckInCallback \/ callback = NoLogin

RunnerOnly == UNCHANGED <<main, loginVars, made>>

ConnectClears ==                                 \* mutant: starts afresh
    /\ runner = "connect"
    /\ connected' = TRUE /\ online' = TRUE /\ runner' = "subscribe"
    /\ missed' = [t \in Topics |-> NoMessage]
    /\ RunnerOnly /\ UNCHANGED <<listening, flagVars, sent>>

\* CMqtt::Init.  Without a configuration or a broker, Run ends at once.
Connect ==
    /\ runner = "connect"
    /\ \/ connected' = TRUE /\ online' = TRUE /\ runner' = "subscribe"
       \/ UNCHANGED <<connected, online>> /\ runner' = "over"
    /\ RunnerOnly /\ UNCHANGED <<listening, flagVars, missed, sent>>

Subscribe ==
    /\ runner = "subscribe" /\ Acks
    /\ listening' = online
    /\ runner' = "map"
    /\ RunnerOnly /\ UNCHANGED <<connected, online, flagVars, missed, sent>>

PublishMap ==
    /\ runner = "map"
    /\ IF mapUpdate THEN asked' = FALSE /\ runner' = "clearMap"
                    ELSE UNCHANGED asked /\ runner' = "heartbeat"
    /\ RunnerOnly /\ UNCHANGED <<linkVars, mapUpdate, heartbeat, tick, left, missed, sent>>

ClearMap ==
    /\ runner = "clearMap"
    /\ mapUpdate' = FALSE
    /\ runner' = "heartbeat"
    /\ RunnerOnly /\ UNCHANGED <<linkVars, asked, heartbeat, tick, left, missed, sent>>

PublishServer ==
    /\ runner = "heartbeat"
    /\ runner' = IF heartbeat THEN "clearHeartbeat" ELSE "missed"
    /\ RunnerOnly /\ UNCHANGED <<linkVars, flagVars, missed, sent>>

ClearFlags ==                                    \* mutant: clears both flags
    /\ runner = "clearHeartbeat"
    /\ mapUpdate' = FALSE /\ heartbeat' = FALSE
    /\ runner' = "missed"
    /\ RunnerOnly /\ UNCHANGED <<linkVars, asked, tick, left, missed, sent>>

ClearHeartbeat ==
    /\ runner = "clearHeartbeat"
    /\ heartbeat' = FALSE
    /\ runner' = "missed"
    /\ RunnerOnly /\ UNCHANGED <<linkVars, mapUpdate, asked, tick, left, missed, sent>>

\* The messages that were made before the connection was there.  A loss of the
\* connection makes publish throw, which Publish catches.
PublishMissed ==
    /\ runner = "missed"
    /\ LET kept == {missed[t] : t \in Topics} \ {NoMessage}
       IN  /\ sent' = [n \in Message |-> IF n \in kept /\ online THEN sent[n] + 1 ELSE sent[n]]
           /\ runner' = IF kept = {} THEN "map" ELSE "clearMissed"
    /\ RunnerOnly /\ UNCHANGED <<linkVars, flagVars, missed>>

ClearNothing ==                                  \* mutant: no clear()
    /\ runner = "clearMissed"
    /\ runner' = "map"
    /\ RunnerOnly /\ UNCHANGED <<linkVars, flagVars, missed, sent>>

ClearMissed ==
    /\ runner = "clearMissed"
    /\ missed' = [t \in Topics |-> NoMessage]
    /\ runner' = "map"
    /\ RunnerOnly /\ UNCHANGED <<linkVars, flagVars, sent>>

Runner == \/ Connect \/ Subscribe \/ PublishMap \/ ClearMap
          \/ PublishServer \/ ClearHeartbeat \/ PublishMissed \/ ClearMissed
-----------------------------------------------------------------------------
(* The main thread.                                                        *)

MainOnly == UNCHANGED <<linkVars, runner>>

TickAlways ==                                    \* mutant: SetLastHeartbeat each tick
    /\ main = Free
    /\ heartbeat' = (heartbeat \/ left = 0)
    /\ left' = Second
    /\ tick' = IF tick < MaxTick THEN tick + 1 ELSE tick
    /\ MainOnly /\ UNCHANGED <<main, mapUpdate, asked, msgVars, loginVars>>

\* A tick of CServer::Run: a heartbeat when more than a second has passed.
Tick ==
    /\ main = Free
    /\ heartbeat' = (heartbeat \/ left = 0)
    /\ left' = IF left = 0 THEN Second ELSE left - 1
    /\ tick' = IF tick < MaxTick THEN tick + 1 ELSE tick
    /\ MainOnly /\ UNCHANGED <<main, mapUpdate, asked, msgVars, loginVars>>

\* A new map starts at MIN_TICK, but m_lastHeartBeat stays that of the old one.
ChangeMap ==
    /\ main = Free
    /\ mapUpdate' = TRUE /\ asked' = TRUE
    /\ tick' = 0
    /\ left' = left + tick
    /\ MainOnly /\ UNCHANGED <<main, heartbeat, msgVars, loginVars>>

\* Publish(json): without a connection the message is kept, after the test.
Publish(t) ==
    /\ main = Free /\ made < MaxMessages
    /\ made' = made + 1
    /\ IF connected
       THEN /\ sent' = [sent EXCEPT ![made + 1] = IF online THEN @ + 1 ELSE @]
            /\ UNCHANGED main
       ELSE main' = [step |-> "keep", arg |-> t] /\ UNCHANGED sent
    /\ MainOnly /\ UNCHANGED <<missed, flagVars, loginVars>>

\* emplace keeps the first message of a topic.  (While the runner walks over the
\* map this is a data race; here the message is then cleared unsent, or stays.)
Keep ==
    /\ main.step = "keep"
    /\ LET t == main.arg
       IN  missed' = [missed EXCEPT ![t] = IF @ = NoMessage THEN made ELSE @]
    /\ main' = Free
    /\ MainOnly /\ UNCHANGED <<sent, made, flagVars, loginVars>>

\* RequestLogin: PublishWithResponse subscribes to the response topic and waits,
RequestLogin(l) ==
    /\ main = Free /\ connected
    /\ answers[l] = Unanswered /\ callbacks[l] = "none"
    /\ main' = [step |-> "subscribe", arg |-> l]
    /\ MainOnly /\ UNCHANGED <<flagVars, msgVars, loginVars>>

\* stores a callback, publishes the request and waits (an exception leaves it),
LoginSubscribed ==
    /\ main.step = "subscribe"
    /\ LET l == main.arg
       IN  IF online
           THEN /\ Acks
                /\ subscribed' = subscribed \cup {l}
                /\ callbacks' = [callbacks EXCEPT ![l] = "default"]
           ELSE UNCHANGED <<subscribed, callbacks>>
    /\ main' = [main EXCEPT !.step = "wait"]
    /\ MainOnly /\ UNCHANGED <<flagVars, msgVars, answers, handled, callback>>

\* and WaitForResponse stores the callback of the login.
LoginPublished ==
    /\ main.step = "wait" /\ (Acks \/ ~online)
    /\ callbacks' = [callbacks EXCEPT ![main.arg] = "login"]
    /\ main' = Free
    /\ MainOnly /\ UNCHANGED <<flagVars, msgVars, subscribed, answers, handled, callback>>

Login == LoginSubscribed \/ LoginPublished
-----------------------------------------------------------------------------
(* The broker, its other clients, and the thread of the library.           *)

PahoOnly == UNCHANGED <<linkVars, runner, tick, left, heartbeat, msgVars, main>>

\* An answer to a login is delivered at least once (QoS 1).
Answer(l) ==
    /\ online /\ l \in subscribed /\ answers[l] = Unanswered
    /\ \E n \in 1 .. 2 : answers' = [answers EXCEPT ![l] = n]
    /\ PahoOnly /\ UNCHANGED <<mapUpdate, asked, callbacks, subscribed, handled, callback>>

ReceiveUnfound(l) ==                             \* mutant: find() left out
    /\ callback = NoLogin /\ answers[l] > 0
    /\ answers' = [answers EXCEPT ![l] = @ - 1]
    /\ handled' = [handled EXCEPT ![l] = IF callbacks[l] = "login" THEN @ + 1 ELSE @]
    /\ callback' = l
    /\ PahoOnly /\ UNCHANGED <<mapUpdate, asked, callbacks, subscribed>>

\* The message callback: it calls what is stored for the topic, unsubscribes
\* and waits for the answer to that,
Receive(l) ==
    /\ callback = NoLogin /\ answers[l] > 0
    /\ answers' = [answers EXCEPT ![l] = @ - 1]
    /\ IF callbacks[l] = "none" THEN UNCHANGED <<handled, callback>>
       ELSE /\ handled' = [handled EXCEPT ![l] = IF callbacks[l] = "login" THEN @ + 1 ELSE @]
            /\ callback' = l
    /\ PahoOnly /\ UNCHANGED <<mapUpdate, asked, callbacks, subscribed>>

UnsubscribeOnly ==                               \* mutant: erase left out
    /\ callback # NoLogin
    /\ online /\ Acks
    /\ subscribed' = subscribed \ {callback}
    /\ callback' = NoLogin
    /\ PahoOnly /\ UNCHANGED <<mapUpdate, asked, callbacks, answers, handled>>

\* and erases the callback; an exception ends the thread, and the process.
Unsubscribe ==
    /\ callback # NoLogin
    /\ online /\ Acks
    /\ subscribed' = subscribed \ {callback}
    /\ callbacks' = [callbacks EXCEPT ![callback] = "none"]
    /\ callback' = NoLogin
    /\ PahoOnly /\ UNCHANGED <<mapUpdate, asked, answers, handled>>

\* HandleMessage of CHANNEL_RESPONSETYPE_RESENDMAP.
ResendMap ==
    /\ online /\ listening /\ callback = NoLogin
    /\ mapUpdate' = TRUE /\ asked' = TRUE
    /\ PahoOnly /\ UNCHANGED loginVars

\* The connection breaks; nothing connects again, and m_connected stays.
LoseBroker ==
    /\ online
    /\ online' = FALSE
    /\ UNCHANGED <<connected, listening, runner, flagVars, msgVars, main, loginVars>>
-----------------------------------------------------------------------------
Next ==
    \/ Runner \/ Tick \/ ChangeMap \/ Keep \/ Login \/ Unsubscribe
    \/ \E t \in Topics : Publish(t)
    \/ \E l \in Logins : RequestLogin(l) \/ Answer(l) \/ Receive(l)
    \/ ResendMap \/ LoseBroker

Spec == Init /\ [][Next]_vars

\* The threads are scheduled, and calls of the library return.
FairSpec ==
    /\ Spec
    /\ WF_vars(Runner) /\ WF_vars(Tick) /\ WF_vars(Keep \/ Login)
    /\ WF_vars(Unsubscribe) /\ \A l \in Logins : WF_vars(Receive(l))
-----------------------------------------------------------------------------
(* Properties.                                                             *)

\* Types; moreover, a callback that is being called exists, and nobody takes it
\* out meanwhile: operator[] would make and call an empty one (mqtt.cpp:61).
TypeOK ==
    /\ connected \in BOOLEAN /\ online \in BOOLEAN /\ listening \in BOOLEAN
    /\ runner \in {"connect", "subscribe", "map", "clearMap", "heartbeat",
                   "clearHeartbeat", "missed", "clearMissed", "over"}
    /\ mapUpdate \in BOOLEAN /\ asked \in BOOLEAN /\ heartbeat \in BOOLEAN
    /\ tick \in 0 .. MaxTick /\ left \in 0 .. MaxTick + Second
    /\ missed \in [Topics -> Message \cup {NoMessage}]
    /\ sent \in [Message -> Nat]
    /\ made \in 0 .. MaxMessages
    /\ main \in [step : {"free", "keep", "subscribe", "wait"},
                 arg : Topics \cup Logins \cup {NoLogin}]
    /\ callbacks \in [Logins -> {"none", "default", "login"}]
    /\ subscribed \subseteq Logins
    /\ answers \in [Logins -> Unanswered .. 2]
    /\ handled \in [Logins -> Nat]
    /\ callback \in Logins \cup {NoLogin}
    /\ callback # NoLogin => callbacks[callback] # "none"

Lost == connected /\ ~online
Ended == runner = "over"

\* A message of the main thread is published at most once, although it may be
\* kept by one thread while another one empties m_missedMessages (mqtt.cpp:104).
NothingSentTwice == \A n \in Message : sent[n] <= 1

\* A kept message is published when the connection is there, also one that was
\* made before it came and is kept after it, unless it is kept while
\* m_missedMessages is about to be cleared (mqtt.cpp:104, 163).
KeptAreSent ==
    \A n \in Message :
      (runner # "clearMissed" /\ \E t \in Topics : missed[t] = n)
        ~> (sent[n] = 1 \/ Lost \/ Ended)

\* A request for the map (of a map change, of a client, or of the start, before
\* there is a connection) is answered with a map read after it, unless it comes
\* while m_rMapUpdate is about to be cleared (mqtt.cpp:92).
MapIsSent ==
    (asked /\ mapUpdate /\ runner # "clearMap") ~> (~asked \/ Lost \/ Ended)

\* No run checks this, since the code does not keep it: a request that comes
\* between the publication and the clearing of the flag is lost, while
\* CHANNEL_RESPONSETYPE_RESENDMAP says "Resend the map" (mqtt.cpp:361).
MapIsResent == asked ~> (~asked \/ Lost \/ Ended)

\* The state of the server is published again and again, if the map does not
\* change for ever: after a change the heartbeats stop until Tick() is past the
\* m_lastHeartBeat of the map before, then they go on (server.cpp:2917).
HeartbeatsGoOn ==
    <>[][~ChangeMap]_vars => (connected ~> (runner = "clearHeartbeat" \/ Lost))

\* The callback of a login is called at most once, although its answer can be
\* delivered again, and while it is called (mqtt.cpp:58).
LoginHandledOnce == \A l \in Logins : handled[l] <= 1
=============================================================================
