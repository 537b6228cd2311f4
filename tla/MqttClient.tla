------------------------------- MODULE MqttClient -------------------------------
(***************************************************************************)
(* mqtt_client of src/src/net.rs over the router: connect, CONNECT,        *)
(* SUBSCRIBE, the wait for SUBACK, the message loop and the backoff.        *)
(*                                                                         *)
(* The broker, its clients and the connection are external.  A broker sends *)
(* the retained command on every new subscription, before or after SUBACK,  *)
(* and queues nothing for a device that is away (clean_start, QoS 0).  The  *)
(* connection may close with or without what it has received, or go silent: *)
(* then only data that waits for an acknowledgement brings the socket's 90 s *)
(* timeout, as the client never sends PINGREQ.  The read of the MAC address    *)
(* before the loop, which takes CONTROL_MUTEX for one command to the radio, is *)
(* left out: it changes nothing that is modelled.                             *)
(***************************************************************************)
EXTENDS Router, SequencesExt

CONSTANTS
    SUBACK,             \* the answer to SUBSCRIBE
    GARBAGE,            \* a payload that is no command
    UnserializableIds,  \* ids whose responses exceed MAX_MSG_LEN
    ATTEMPT_MAX,        \* u8::MAX
    PUBLISH_BOUND       \* commands published in one session (bound of the model)

Payloads == Commands \cup {GARBAGE}
Malformed == Response(EMPTY_ID, "malformed_json", NONE)

ASSUME MqttAssumption ==
    /\ UnserializableIds \subseteq Ids \ {EMPTY_ID}    \* an error without an id fits a frame
    /\ ATTEMPT_MAX \in Nat /\ ATTEMPT_MAX >= 4
    /\ PUBLISH_BOUND \in Nat
    /\ {SUBACK, NONE} \cap Payloads = {}
    /\ NONE \notin ResponseType \cup {Malformed}

VARIABLES
    host,       \* the stored broker host: "empty", "invalid" or "address"
    phase,      \* where mqtt_client is
    reconnect_attempt,
    secs,       \* the timer it sleeps on
    led,        \* the state signalled last
    link,       \* "none", "up", "closed", "silent", or "unacked": silent, with data unacknowledged
    inbox,      \* packets the device has not polled
    out,        \* the response being published
    broker,     \* "up" or "down"
    retained,   \* the retained command, or NONE
    offered,    \* commands sent to this subscription (history)
    executed,   \* commands taken from it (history)
    sent,       \* responses whose publish succeeded in this session (history)
    backoffs    \* delays begun since the last session, capped (history)

clientVars == <<phase, reconnect_attempt, secs, led, out>>
brokerVars == <<broker, retained>>
sessionHistory == <<offered, executed, sent>>
historyVars == <<sessionHistory, backoffs>>
vars == <<routerVars, host, clientVars, link, inbox, brokerVars, historyVars>>

BACKOFF_CAP == ATTEMPT_MAX + 2

MqttInit ==
    /\ RouterInit
    /\ host \in {"empty", "invalid", "address"}
    /\ phase = "boot" /\ reconnect_attempt = 0 /\ secs = 0 /\ led = "Connecting" /\ out = NONE
    /\ link = "none" /\ inbox = <<>>
    /\ broker \in {"up", "down"} /\ retained = NONE
    /\ offered = <<>> /\ executed = <<>> /\ sent = <<>> /\ backoffs = 0

--------------------------------------------------------------------------------
(* The broker and the network (external) *)

Subscribed == link = "up" /\ phase \in {"suback", "serving", "publish"}

\* Some client publishes a command.
Publish(p, retain) ==
    /\ broker = "up"
    /\ Subscribed => Len(offered) < PUBLISH_BOUND
    /\ retained' = IF retain THEN p ELSE retained
    /\ IF Subscribed
       THEN inbox' = Append(inbox, p) /\ offered' = Append(offered, p)
       ELSE UNCHANGED <<inbox, offered>>
    /\ UNCHANGED <<routerVars, host, clientVars, link, broker, executed, sent, backoffs>>

ClearRetained ==
    /\ broker = "up" /\ retained # NONE
    /\ retained' = NONE
    /\ UNCHANGED <<routerVars, host, clientVars, link, inbox, broker, historyVars>>

\* A FIN after what was sent, or a RST that discards it.
Close ==
    /\ link' = IF link = "none" THEN "none" ELSE "closed"
    /\ inbox' \in {inbox, <<>>}

\* The broker stops, starts, or ends a session that was idle for too long.
BrokerStep ==
    /\ \/ broker = "up" /\ broker' = "down" /\ Close
       \/ broker = "down" /\ broker' = "up" /\ UNCHANGED <<link, inbox>>
       \/ link = "up" /\ Close /\ UNCHANGED broker
    /\ UNCHANGED <<routerVars, host, clientVars, retained, historyVars>>

\* The broker's host or the way to it disappears.
LinkSilent ==
    /\ link = "up"
    /\ link' \in {"silent", "unacked"}
    /\ UNCHANGED <<routerVars, host, clientVars, inbox, brokerVars, historyVars>>

\* 90 s without an acknowledgement.
SocketTimeout ==
    /\ link = "unacked"
    /\ link' = "closed"
    /\ UNCHANGED <<routerVars, host, clientVars, inbox, brokerVars, historyVars>>

\* The connection after a write: on a closed one it may seem to succeed.
Written == IF link = "silent" THEN "unacked" ELSE link

--------------------------------------------------------------------------------
(* mqtt_client *)

\* A slip for the checks of the properties: without clean_start the broker keeps
\* what it has not delivered.
HeadResuming ==
    /\ phase' = IF host = "invalid" THEN "invalid" ELSE "connect"
    /\ led' = IF host = "invalid" THEN "Error" ELSE "MqttConnecting"
    /\ secs' = IF host = "invalid" THEN 60 ELSE 0
    /\ link' = "none" /\ out' = NONE
    /\ offered' = <<>> /\ executed' = <<>> /\ sent' = <<>>
    /\ UNCHANGED inbox

\* The head of the loop, and the drop of the client before it.
HeadOfLoop ==
    /\ phase' = IF host = "invalid" THEN "invalid" ELSE "connect"
    /\ led' = IF host = "invalid" THEN "Error" ELSE "MqttConnecting"
    /\ secs' = IF host = "invalid" THEN 60 ELSE 0
    /\ link' = "none" /\ out' = NONE
    /\ offered' = <<>> /\ executed' = <<>> /\ sent' = <<>>
    /\ inbox' = <<>>

Start ==
    /\ phase = "boot"
    /\ IF host = "empty"
       THEN phase' = "disabled" /\ UNCHANGED <<led, secs, link, inbox, out, sessionHistory>>
       ELSE HeadOfLoop
    /\ UNCHANGED <<routerVars, host, reconnect_attempt, brokerVars, backoffs>>

backoff_secs(attempt) ==
    CASE attempt = 0 -> 5
      [] attempt = 1 -> 10
      [] attempt = 2 -> 20
      [] attempt = 3 -> 40
      [] OTHER -> 60

\* A slip for the checks of the properties: one of the three branches does not
\* show the outage.
BackoffUnseen ==
    /\ phase \in {"connect", "connack", "subscribe"}
    /\ IF phase = "connect" THEN broker = "down" ELSE link = "closed"
    /\ phase' = "backoff" /\ led' = IF phase = "subscribe" THEN led ELSE "Reconnecting"
    /\ secs' = backoff_secs(reconnect_attempt)
    /\ backoffs' = IF backoffs < BACKOFF_CAP THEN backoffs + 1 ELSE backoffs
    /\ link' = "none" /\ inbox' = <<>>
    /\ UNCHANGED <<routerVars, host, reconnect_attempt, out, brokerVars, sessionHistory>>

\* connect, CONNECT or SUBSCRIBE failed.
Backoff ==
    /\ phase \in {"connect", "connack", "subscribe"}
    /\ IF phase = "connect" THEN broker = "down" ELSE link = "closed"
    /\ phase' = "backoff" /\ led' = "Reconnecting"
    /\ secs' = backoff_secs(reconnect_attempt)
    /\ backoffs' = IF backoffs < BACKOFF_CAP THEN backoffs + 1 ELSE backoffs
    /\ link' = "none" /\ inbox' = <<>>
    /\ UNCHANGED <<routerVars, host, reconnect_attempt, out, brokerVars, sessionHistory>>

\* A slip for the checks of the properties: the counter wraps.
WrappingAdd(n) == (n + 1) % (ATTEMPT_MAX + 1)

saturating_add(n) == IF n = ATTEMPT_MAX THEN n ELSE n + 1

\* A slip for the checks of the properties: the client gives up in the end.
RetryUnlessLast ==
    /\ phase = "backoff" /\ reconnect_attempt < ATTEMPT_MAX
    /\ reconnect_attempt' = saturating_add(reconnect_attempt)
    /\ HeadOfLoop
    /\ UNCHANGED <<routerVars, host, brokerVars, backoffs>>

\* The timer fires.  An invalid host is not counted as an attempt.
Retry ==
    /\ phase \in {"backoff", "invalid"}
    /\ reconnect_attempt' =
          IF phase = "backoff" THEN saturating_add(reconnect_attempt) ELSE reconnect_attempt
    /\ HeadOfLoop
    /\ UNCHANGED <<routerVars, host, brokerVars, backoffs>>

Connect ==
    /\ phase = "connect" /\ broker = "up"
    /\ phase' = "connack" /\ link' = "up"
    /\ UNCHANGED <<routerVars, host, reconnect_attempt, secs, led, out, inbox, brokerVars,
                   historyVars>>

Connack ==
    /\ phase = "connack" /\ link = "up"
    /\ phase' = "subscribe"
    /\ UNCHANGED <<routerVars, host, reconnect_attempt, secs, led, out, link, inbox, brokerVars,
                   historyVars>>

\* What a broker sends for a new subscription.
SubscriptionPackets ==
    IF retained = NONE THEN {<<SUBACK>>} ELSE {<<SUBACK, retained>>, <<retained, SUBACK>>}

Subscribe ==
    /\ phase = "subscribe"
    /\ phase' = "suback"
    /\ link' = Written
    /\ IF link = "up"
       THEN /\ \E packets \in SubscriptionPackets : inbox' = packets \o inbox
            /\ offered' = IF retained = NONE THEN <<>> ELSE <<retained>>
       ELSE UNCHANGED <<inbox, offered>>
    /\ UNCHANGED <<routerVars, host, reconnect_attempt, secs, led, out, brokerVars, executed, sent,
                   backoffs>>

\* A slip for the checks of the properties: the DeviceState outlives its session.
SubackKeepingState ==
    /\ phase = "suback" /\ inbox # <<>> /\ Head(inbox) = SUBACK
    /\ phase' = "serving" /\ led' = "MqttConnected"
    /\ reconnect_attempt' = 0 /\ backoffs' = 0
    /\ inbox' = Tail(inbox)
    /\ UNCHANGED <<routerVars, host, secs, out, link, brokerVars, sessionHistory>>

Suback ==
    /\ phase = "suback" /\ inbox # <<>> /\ Head(inbox) = SUBACK
    /\ phase' = "serving" /\ led' = "MqttConnected"
    /\ reconnect_attempt' = 0 /\ backoffs' = 0
    /\ inbox' = Tail(inbox)
    /\ NewSession
    /\ UNCHANGED <<host, secs, out, link, brokerVars, sessionHistory>>

\* Any other event or an error while SUBACK is awaited, or an error of poll in
\* the message loop: around again, without a pause.
LoseSession ==
    /\ \/ phase = "suback" /\ inbox # <<>> /\ Head(inbox) # SUBACK
       \/ phase \in {"suback", "serving"} /\ inbox = <<>> /\ link = "closed"
    /\ HeadOfLoop
    /\ UNCHANGED <<routerVars, host, reconnect_attempt, brokerVars, backoffs>>

\* After a response that was published or could not be serialized: a reboot that
\* was asked for ends the message loop.
NextMessage(st, rest, responses, l) ==
    IF st.pending_reboot THEN HeadOfLoop
    ELSE /\ phase' = "serving" /\ out' = NONE
         /\ inbox' = rest /\ sent' = responses /\ link' = l
         /\ executed' = IF rest = inbox THEN executed ELSE Append(executed, Head(inbox))
         /\ UNCHANGED <<secs, led, offered>>

Respond(r) ==
    /\ phase' = "publish" /\ out' = r
    /\ inbox' = Tail(inbox) /\ executed' = Append(executed, Head(inbox))
    /\ UNCHANGED <<secs, led, link, offered, sent>>

\* A command of the message loop, up to the publication of its response.
Receive ==
    /\ phase = "serving" /\ inbox # <<>>
    /\ \/ /\ Head(inbox) = GARBAGE
          /\ Respond(Malformed)
          /\ UNCHANGED routerVars
       \/ /\ Head(inbox) # GARBAGE
          /\ Handle(Head(inbox))
          /\ \/ /\ halted'
                /\ phase' = "off" /\ inbox' = <<>> /\ link' = "none"
                /\ UNCHANGED <<out, secs, led, sessionHistory>>
             \/ /\ ~halted' /\ reply'.id \notin UnserializableIds
                /\ Respond(reply')
             \/ /\ ~halted' /\ reply'.id \in UnserializableIds
                /\ NextMessage(dev', Tail(inbox), sent, link)
    /\ UNCHANGED <<host, reconnect_attempt, brokerVars, backoffs>>

PublishResponse ==
    /\ phase = "publish"
    /\ NextMessage(dev, inbox, Append(sent, out), Written)
    /\ UNCHANGED <<routerVars, host, reconnect_attempt, brokerVars, backoffs>>

PublishError ==
    /\ phase = "publish" /\ link = "closed"
    /\ HeadOfLoop
    /\ UNCHANGED <<routerVars, host, reconnect_attempt, brokerVars, backoffs>>

ClientStep ==
    Start \/ Backoff \/ Retry \/ Connect \/ Connack \/ Subscribe \/ Suback \/ LoseSession
      \/ Receive \/ PublishResponse \/ PublishError \/ SocketTimeout

MqttNext ==
    \/ ClientStep
    \/ \E p \in Payloads, retain \in BOOLEAN : Publish(p, retain)
    \/ ClearRetained \/ BrokerStep \/ LinkSilent

\* The task is polled and its timers fire; a broker that is up answers.
MqttSpec == MqttInit /\ [][MqttNext]_vars /\ WF_vars(ClientStep)

--------------------------------------------------------------------------------
(* Properties *)

\* Every variable stays in its type; the state signalled to the LED is a connection
\* exactly while commands are served, or where a command stopped the device, and an
\* outage exactly while the client waits to try again.
MqttTypeOK ==
    /\ RouterTypeOK
    /\ phase \in {"boot", "disabled", "invalid", "connect", "connack", "subscribe", "suback",
                  "serving", "publish", "backoff", "off"}
    /\ reconnect_attempt \in 0..ATTEMPT_MAX
    /\ link \in {"none", "up", "closed", "silent", "unacked"}
    /\ link = "none" => inbox = <<>>
    /\ out # NONE <=> phase = "publish"
    /\ led = "MqttConnected" <=> phase \in {"serving", "publish", "off"}
    /\ phase = "backoff" <=> led = "Reconnecting"

Sent(responses, r) == IF r.id \in UnserializableIds THEN responses ELSE Append(responses, r)

Execute(acc, p) ==
    IF p = GARBAGE THEN [acc EXCEPT !.sent = Sent(@, Malformed)]
    ELSE LET r == respond(p, acc.dev) IN [dev |-> r.dev, sent |-> Sent(acc.sent, r.reply)]

NothingExecuted == [dev |-> DefaultState, sent |-> <<>>]

\* The state and the responses that a session's commands lead to.
Executed[ps \in Seq(Payloads)] ==
    IF ps = <<>> THEN NothingExecuted ELSE Execute(Executed[Front(ps)], Last(ps))

\* PROTOCOL.md: "Device state resets on broker reconnect".  The state is that of the
\* commands of this session and of no earlier one, and each of them has one
\* response, in their order, unless it does not fit its buffer.
StateFollowsSession ==
    phase \in {"serving", "publish"} =>
        /\ dev = Executed[executed].dev
        /\ sent \o (IF phase = "publish" THEN <<out>> ELSE <<>>) = Executed[executed].sent

\* A session runs what the broker sent to its own subscription, in order and each
\* command once: nothing is left over from a session that broke off with commands
\* in its buffer.
ExecutedAsOffered == IsPrefix(executed, offered)

\* The n-th delay since the last session is the n-th of PROTOCOL.md's schedule, "5s ->
\* 10s -> 20s -> 40s -> 60s cap", however long the outage: no connection that does not
\* reach SUBACK starts it over.  It is a property of the delays, not of the attempts:
\* one that fails while SUBACK is awaited has none, and the next delay is the one
\* that it would have had (FailedAttemptWaits).
BackoffSchedule ==
    phase = "backoff" => secs = <<5, 10, 20, 40, 60>>[IF backoffs < 5 THEN backoffs ELSE 5]

Healthy ==
    /\ broker = "up" /\ retained = NONE
    /\ link = "closed" => phase \in {"serving", "publish"}

\* With an address and a broker that stays up, retains no command and lets
\* connections become sessions before it ends them, the device serves again and
\* again, however long the outage before was.  (A retained command that arrives
\* before SUBACK starts the whole connection over, each time and without a pause;
\* a broker that goes silent is never noticed.)
ServesAgain ==
    (host = "address" /\ <>[]Healthy)
        => []<>(phase = "serving" \/ link = "silent" \/ halted)

--------------------------------------------------------------------------------
(* What documents and comments say and the code does not do *)

\* PROTOCOL.md, system/reboot_to_bootloader: the device "sends the ok response,
\* flashes the LED 10 times rapidly, then calls the RP2350 ROM".  Over MQTT it
\* only leaves the message loop and connects again.
RebootRequested == dev.pending_reboot ~> phase = "off"

\* PROTOCOL.md: "Reconnect backoff: 5s -> 10s -> 20s -> 40s -> 60s cap; resets on
\* successful connection".  An attempt that fails is never followed by the next one at
\* once.  The code does that where SUBACK is awaited.
FailedAttemptWaits ==
    [][phase' = "connect" => phase \notin {"connack", "subscribe", "suback"}]_vars
=================================================================================
