------------------------------- MODULE MqttProofs -------------------------------
(***************************************************************************)
(* Proofs about MqttClient, for every set of commands, every saturation     *)
(* value of the counter and any number of commands in a session.  BackoffInv *)
(* counts delays, OfferInv follows the commands through the inbox,  *)
(* and ClientInv says that a session's state and responses are what its      *)
(* commands lead to, one after another (Executed).                           *)
(***************************************************************************)
EXTENDS MqttClient, RouterProofs, SequenceTheorems

--------------------------------------------------------------------------------
(* The delays between attempts *)

\* reconnect_attempt counts the delays until it saturates, which is past the last entry
\* of the schedule.
Agree(n, attempt) == n = attempt \/ (n >= 4 /\ attempt >= 4)

BackoffInv ==
    /\ reconnect_attempt \in 0..ATTEMPT_MAX /\ backoffs \in 0..BACKOFF_CAP
    /\ phase = "backoff" => /\ backoffs > 0
                            /\ Agree(backoffs - 1, reconnect_attempt)
                            /\ secs = backoff_secs(reconnect_attempt)
    /\ phase # "backoff" => Agree(backoffs, reconnect_attempt)

\* The saturation value is past the schedule.
LEMMA AttemptMax == ATTEMPT_MAX \in Nat /\ ATTEMPT_MAX >= 4
  BY MqttAssumption

\* A step that begins and ends no delay.
LEMMA NoAttempt ==
    ASSUME BackoffInv, UNCHANGED <<reconnect_attempt, backoffs>>,
           \/ phase # "backoff" /\ phase' # "backoff"
           \/ UNCHANGED <<phase, secs>>
    PROVE  BackoffInv'
  BY DEF BackoffInv, Agree, backoff_secs, BACKOFF_CAP

\* A delay begins.
LEMMA BackoffKept ==
    ASSUME BackoffInv, Backoff
    PROVE  BackoffInv'
<1>1. /\ phase # "backoff" /\ phase' = "backoff"
      /\ secs' = backoff_secs(reconnect_attempt)
      /\ reconnect_attempt' = reconnect_attempt
      /\ backoffs' = IF backoffs < BACKOFF_CAP THEN backoffs + 1 ELSE backoffs
  BY DEF Backoff
<1>2. backoffs' \in 0..BACKOFF_CAP /\ backoffs' > 0 /\ Agree(backoffs' - 1, reconnect_attempt)
  BY <1>1, AttemptMax DEF BackoffInv, Agree, BACKOFF_CAP
<1> QED BY <1>1, <1>2 DEF BackoffInv, Agree, BACKOFF_CAP, backoff_secs

\* A timer that fires.
LEMMA RetryKept ==
    ASSUME BackoffInv, Retry
    PROVE  BackoffInv'
<1>1. /\ phase' # "backoff" /\ backoffs' = backoffs
      /\ reconnect_attempt' = IF phase = "backoff" THEN saturating_add(reconnect_attempt)
                              ELSE reconnect_attempt
  BY DEF Retry, HeadOfLoop
<1>2. CASE phase = "backoff"
  BY <1>1, <1>2, AttemptMax DEF BackoffInv, Agree, saturating_add, BACKOFF_CAP
<1>3. CASE phase # "backoff"
  BY <1>1, <1>3 DEF BackoffInv, Agree, BACKOFF_CAP
<1> QED BY <1>2, <1>3

\* Every step keeps BackoffInv.
LEMMA BackoffInvKept ==
    ASSUME BackoffInv, [MqttNext]_vars
    PROVE  BackoffInv'
<1>1. CASE Backoff \/ Retry
  BY <1>1, BackoffKept, RetryKept
<1>2. CASE Suback
  <2>1. phase' # "backoff" /\ reconnect_attempt' = 0 /\ backoffs' = 0
    BY <1>2 DEF Suback
  <2> QED BY <2>1, AttemptMax DEF BackoffInv, Agree, BACKOFF_CAP
<1>3. CASE Start
  BY <1>3, NoAttempt DEF Start, HeadOfLoop
<1>4. CASE Connect \/ Connack \/ Subscribe
  BY <1>4, NoAttempt DEF Connect, Connack, Subscribe, historyVars
<1>5. CASE LoseSession \/ PublishError
  BY <1>5, NoAttempt DEF LoseSession, PublishError, HeadOfLoop
<1>6. CASE Receive
  BY <1>6, NoAttempt DEF Receive, Respond, NextMessage, HeadOfLoop
<1>7. CASE PublishResponse
  BY <1>7, NoAttempt DEF PublishResponse, NextMessage, HeadOfLoop
<1>8. CASE SocketTimeout \/ ClearRetained \/ BrokerStep \/ LinkSilent
  <2>1. UNCHANGED <<clientVars, historyVars>>
    BY <1>8 DEF SocketTimeout, ClearRetained, BrokerStep, LinkSilent
  <2> QED BY <2>1, NoAttempt DEF clientVars, historyVars
<1>9. ASSUME NEW p, NEW retain, Publish(p, retain) PROVE BackoffInv'
  BY <1>9, NoAttempt DEF Publish, clientVars
<1>10. CASE UNCHANGED vars
  BY <1>10, NoAttempt DEF vars, clientVars, historyVars
<1> QED BY <1>1, <1>2, <1>3, <1>4, <1>5, <1>6, <1>7, <1>8, <1>9, <1>10, Zenon DEF MqttNext, ClientStep

\* The n-th delay since the last session is the n-th of the schedule, however long the
\* outage and however many attempts fail without a delay between them, for every width
\* of the counter.
THEOREM BackoffFollowsSchedule == MqttSpec => []BackoffSchedule
<1>1. MqttInit => BackoffInv
  BY AttemptMax DEF MqttInit, BackoffInv, Agree, BACKOFF_CAP
<1>2. BackoffInv => BackoffSchedule
  <2> SUFFICES ASSUME BackoffInv, phase = "backoff"
               PROVE  secs = <<5, 10, 20, 40, 60>>[IF backoffs < 5 THEN backoffs ELSE 5]
    BY DEF BackoffSchedule
  <2>1. backoffs \in Nat /\ reconnect_attempt \in Nat
    BY AttemptMax DEF BackoffInv, BACKOFF_CAP
  <2>2. CASE backoffs < 5
    <3>1. backoffs \in {1, 2, 3, 4} /\ secs = backoff_secs(backoffs - 1)
      BY <2>1, <2>2 DEF BackoffInv, Agree, backoff_secs
    <3> QED BY <3>1, <2>2 DEF backoff_secs
  <2>3. CASE backoffs >= 5
    BY <2>1, <2>3 DEF BackoffInv, Agree, backoff_secs
  <2> QED BY <2>1, <2>2, <2>3
<1> QED BY <1>1, <1>2, BackoffInvKept, PTL DEF MqttSpec

--------------------------------------------------------------------------------
(* What a session executes *)

Packets == Payloads \cup {SUBACK}

OfferTypes ==
    /\ inbox \in Seq(Packets)
    /\ offered \in Seq(Payloads) /\ executed \in Seq(Payloads)
    /\ retained \in Opt(Payloads)

\* What is left of the offered commands lies in the inbox.
Tracks ==
    /\ Len(inbox) + Len(executed) = Len(offered)
    /\ \A i \in 1..Len(inbox) : inbox[i] = offered[Len(executed) + i]

\* All of the offered commands lie in the inbox, behind SUBACK.
Acknowledged ==
    /\ Len(inbox) = Len(offered) + 1
    /\ \A i \in 1..Len(offered) : inbox[i + 1] = offered[i]

Begun ==
    /\ Len(executed) <= Len(offered)
    /\ \A i \in 1..Len(executed) : executed[i] = offered[i]

InSession == phase \in {"serving", "publish"}

\* Executed commands are the first of those offered; behind SUBACK, and later at once,
\* follow the others, or what is left was lost with the connection.
OfferInv ==
    /\ OfferTypes
    /\ Begun
    /\ ~InSession /\ phase # "off" => executed = <<>>
    /\ ~InSession /\ phase # "suback" => inbox = <<>>
    /\ InSession => Tracks \/ (link # "up" /\ inbox = <<>>)
    /\ phase = "suback" /\ Len(inbox) > 0 /\ inbox[1] = SUBACK => Acknowledged

\* SUBACK and the absent command are no commands.
LEMMA PayloadFacts == SUBACK \notin Payloads /\ NONE \notin Payloads /\ Payloads \subseteq Packets
  BY MqttAssumption DEF Packets

\* The head of the loop starts with nothing.
LEMMA HeadOffers ==
    ASSUME OfferInv, HeadOfLoop, UNCHANGED retained
    PROVE  OfferInv'
<1>1. /\ phase' \in {"invalid", "connect"}
      /\ offered' = <<>> /\ executed' = <<>> /\ inbox' = <<>> /\ retained' = retained
  BY DEF HeadOfLoop
<1> QED BY <1>1 DEF OfferInv, OfferTypes, Begun, InSession

\* A step outside of a session.
LEMMA IdleOffers ==
    ASSUME OfferInv, UNCHANGED <<retained, offered, executed>>, inbox' = <<>>,
           phase \notin {"suback", "serving", "publish", "off"},
           phase' \notin {"suback", "serving", "publish", "off"}
    PROVE  OfferInv'
<1>1. inbox' \in Seq(Packets)
  BY DEF OfferInv, OfferTypes, InSession
<1> QED BY <1>1 DEF OfferInv, OfferTypes, Begun, InSession

\* What happens to the connection does not change what was offered: it can only lose it.
LEMMA LinkOffers ==
    ASSUME OfferInv, UNCHANGED <<phase, retained, offered, executed>>,
           link' = "up" => link = "up",
           inbox' = inbox \/ (inbox' = <<>> /\ link' # "up") \/ (inbox' = <<>> /\ inbox = <<>>)
    PROVE  OfferInv'
<1>1. CASE inbox' = inbox
  BY <1>1 DEF OfferInv, OfferTypes, Begun, InSession, Tracks, Acknowledged
<1>2. CASE inbox' = <<>> /\ link' # "up"
  <2>1. inbox' \in Seq(Packets) /\ Len(inbox') = 0
    BY <1>2
  <2> QED BY <1>2, <2>1 DEF OfferInv, OfferTypes, Begun, InSession
<1> QED BY <1>1, <1>2

\* SUBSCRIBE: SUBACK and the retained command, in either order.
LEMMA SubscribeOffers ==
    ASSUME OfferInv, Subscribe
    PROVE  OfferInv'
<1> USE PayloadFacts
<1>1. /\ inbox = <<>> /\ executed = <<>> /\ executed' = <<>> /\ phase' = "suback"
      /\ retained' = retained
  BY DEF Subscribe, OfferInv, InSession, brokerVars
<1>2. CASE link # "up"
  <2>1. inbox' = <<>> /\ offered' = offered
    BY <1>1, <1>2 DEF Subscribe
  <2> QED BY <1>1, <2>1 DEF OfferInv, OfferTypes, Begun, InSession
<1>3. CASE link = "up" /\ retained = NONE
  <2>1. PICK packets \in {<<SUBACK>>} : inbox' = packets \o inbox /\ offered' = <<>>
    BY <1>3 DEF Subscribe, SubscriptionPackets
  <2>2. /\ <<SUBACK>> \in Seq(Packets) /\ inbox' = <<SUBACK>> /\ Len(inbox') = 1
    BY <1>1, <2>1, ConcatEmptySeq DEF Packets
  <2>3. inbox' \in Seq(Packets) /\ offered' \in Seq(Payloads) /\ Len(offered') = 0
    BY <2>1, <2>2
  <2>4. OfferTypes' /\ Begun' /\ Acknowledged'
    BY <1>1, <2>2, <2>3 DEF OfferInv, OfferTypes, Begun, Acknowledged
  <2> QED BY <1>1, <2>4 DEF OfferInv, InSession
<1>4. CASE link = "up" /\ retained # NONE
  <2>1. retained \in Payloads /\ offered' = <<retained>>
    BY <1>4 DEF OfferInv, OfferTypes, Opt, Subscribe
  <2>2. PICK packets \in {<<SUBACK, retained>>, <<retained, SUBACK>>} : inbox' = packets \o inbox
    BY <1>4 DEF Subscribe, SubscriptionPackets
  <2>3. SUBACK \in Packets /\ retained \in Packets
    BY <2>1 DEF Packets
  <2>4. packets \in Seq(Packets) /\ Len(packets) = 2
    BY <2>2, <2>3
  <2>5. inbox' = packets
    BY <1>1, <2>2, <2>4, ConcatEmptySeq
  <2>6. offered' \in Seq(Payloads) /\ Len(offered') = 1 /\ offered'[1] = retained
    BY <2>1
  <2>7. packets[1] = SUBACK => packets[2] = retained
    BY <2>1, <2>2
  <2> QED BY <1>1, <2>4, <2>5, <2>6, <2>7 DEF OfferInv, OfferTypes, Begun, InSession, Acknowledged
<1> QED BY <1>2, <1>3, <1>4

\* A command published in this session, behind those before it.
LEMMA PublishOffers ==
    ASSUME OfferInv, NEW p \in Payloads, NEW retain \in BOOLEAN, Publish(p, retain)
    PROVE  OfferInv'
<1> USE PayloadFacts
<1>1. UNCHANGED <<phase, link, executed>> /\ retained' \in Opt(Payloads)
  BY DEF Publish, clientVars, OfferInv, OfferTypes, Opt
<1>2. CASE ~Subscribed
  <2>1. UNCHANGED <<inbox, offered>>
    BY <1>2 DEF Publish
  <2> QED BY <1>1, <2>1 DEF OfferInv, OfferTypes, Begun, InSession, Tracks, Acknowledged
<1>3. CASE Subscribed
  <2>1. inbox' = Append(inbox, p) /\ offered' = Append(offered, p) /\ link = "up"
    BY <1>3 DEF Publish, Subscribed
  <2>2. /\ inbox' \in Seq(Packets) /\ Len(inbox') = Len(inbox) + 1 /\ Len(inbox) \in Nat
        /\ \A i \in 1..Len(inbox) : inbox'[i] = inbox[i]
        /\ inbox'[Len(inbox) + 1] = p
    BY <2>1 DEF OfferInv, OfferTypes
  <2>3. /\ offered' \in Seq(Payloads) /\ Len(offered') = Len(offered) + 1 /\ Len(offered) \in Nat
        /\ \A i \in 1..Len(offered) : offered'[i] = offered[i]
        /\ offered'[Len(offered) + 1] = p
    BY <2>1 DEF OfferInv, OfferTypes
  <2>4. Len(executed) \in Nat
    BY DEF OfferInv, OfferTypes
  <2>5. Begun'
    BY <1>1, <2>3, <2>4 DEF OfferInv, Begun
  <2>6. ASSUME InSession PROVE Tracks'
    <3>1. Tracks
      BY <2>1, <2>6 DEF OfferInv
    <3>2. Len(inbox') + Len(executed') = Len(offered')
      BY <3>1, <1>1, <2>2, <2>3, <2>4 DEF Tracks
    <3>3. ASSUME NEW i \in 1..Len(inbox') PROVE inbox'[i] = offered'[Len(executed) + i]
      <4>1. CASE i = Len(inbox) + 1
        BY <4>1, <3>1, <2>2, <2>3, <2>4 DEF Tracks
      <4>2. CASE i \in 1..Len(inbox)
        BY <4>2, <3>1, <2>2, <2>3, <2>4 DEF Tracks
      <4> QED BY <4>1, <4>2, <2>2
    <3> QED BY <3>2, <3>3, <1>1 DEF Tracks
  <2>7. ASSUME phase = "suback", inbox'[1] = SUBACK PROVE Acknowledged'
    <3>1. Len(inbox) > 0 /\ inbox[1] = SUBACK
      BY <2>2, <2>7
    <3>2. Acknowledged
      BY <3>1, <2>7 DEF OfferInv
    <3>3. ASSUME NEW i \in 1..Len(offered') PROVE inbox'[i + 1] = offered'[i]
      <4>1. CASE i = Len(offered) + 1
        BY <4>1, <3>2, <2>2, <2>3 DEF Acknowledged
      <4>2. CASE i \in 1..Len(offered)
        BY <4>2, <3>2, <2>2, <2>3 DEF Acknowledged
      <4> QED BY <4>1, <4>2, <2>3
    <3> QED BY <3>2, <3>3, <2>2, <2>3 DEF Acknowledged
  <2> QED BY <1>1, <1>3, <2>2, <2>3, <2>5, <2>6, <2>7
          DEF OfferInv, OfferTypes, InSession, Subscribed
<1> QED BY <1>2, <1>3

\* SUBACK: what is behind it is all that was offered.
LEMMA SubackOffers ==
    ASSUME OfferInv, Suback
    PROVE  OfferInv'
<1>1. /\ phase = "suback" /\ inbox # <<>> /\ Head(inbox) = SUBACK /\ inbox' = Tail(inbox)
      /\ phase' = "serving"
      /\ UNCHANGED <<link, retained, offered, executed>>
  BY DEF Suback, brokerVars, sessionHistory
<1>2. inbox \in Seq(Packets) /\ Len(inbox) > 0 /\ inbox[1] = SUBACK /\ executed = <<>>
  BY <1>1 DEF OfferInv, OfferTypes, InSession
<1>3. Acknowledged
  BY <1>1, <1>2 DEF OfferInv
<1>4. /\ inbox' \in Seq(Packets) /\ Len(inbox') = Len(inbox) - 1 /\ Len(inbox) \in Nat
      /\ \A i \in 1..Len(inbox') : inbox'[i] = inbox[i + 1]
  BY <1>1, <1>2
<1>5. Len(executed) = 0 /\ Len(offered) \in Nat
  BY <1>2 DEF OfferInv, OfferTypes
<1>6. Tracks'
  BY <1>1, <1>3, <1>4, <1>5 DEF Acknowledged, Tracks
<1> QED BY <1>1, <1>4, <1>6 DEF OfferInv, OfferTypes, Begun, InSession

\* The command at the head of the inbox is the next of those offered.
LEMMA TakeOffers ==
    ASSUME OfferInv, phase = "serving", inbox # <<>>, phase' \in {"serving", "publish"},
           inbox' = Tail(inbox), executed' = Append(executed, Head(inbox)),
           UNCHANGED <<link, retained, offered>>
    PROVE  OfferInv'
<1>1. /\ inbox \in Seq(Packets) /\ Len(inbox) \in Nat /\ Len(inbox) > 0
      /\ inbox' \in Seq(Packets) /\ Len(inbox') = Len(inbox) - 1
      /\ \A i \in 1..Len(inbox') : inbox'[i] = inbox[i + 1]
  BY DEF OfferInv, OfferTypes
<1>2. Tracks
  BY DEF OfferInv, InSession
<1>3. /\ Len(executed) \in Nat /\ Len(offered) \in Nat
      /\ offered \in Seq(Payloads) /\ executed \in Seq(Payloads)
  BY DEF OfferInv, OfferTypes
<1>4. Head(inbox) = offered[Len(executed) + 1] /\ Len(executed) + 1 \in 1..Len(offered)
  BY <1>1, <1>2, <1>3 DEF Tracks
<1>5. Head(inbox) \in Payloads
  BY <1>3, <1>4
<1>6. /\ executed' \in Seq(Payloads) /\ Len(executed') = Len(executed) + 1
      /\ \A i \in 1..Len(executed) : executed'[i] = executed[i]
      /\ executed'[Len(executed) + 1] = Head(inbox)
  BY <1>3, <1>5
<1>7. Begun'
  <2>1. ASSUME NEW i \in 1..Len(executed') PROVE executed'[i] = offered[i]
    <3>1. CASE i = Len(executed) + 1
      BY <3>1, <1>4, <1>6
    <3>2. CASE i \in 1..Len(executed)
      BY <3>2, <1>6 DEF OfferInv, Begun
    <3> QED BY <3>1, <3>2, <1>3, <1>6
  <2> QED BY <2>1, <1>4, <1>3, <1>6 DEF Begun
<1>8. Tracks'
  <2>1. ASSUME NEW i \in 1..Len(inbox') PROVE inbox'[i] = offered[Len(executed') + i]
    <3>1. i + 1 \in 1..Len(inbox) /\ inbox'[i] = inbox[i + 1]
      BY <1>1
    <3>2. inbox[i + 1] = offered[Len(executed) + (i + 1)]
      BY <3>1, <1>2 DEF Tracks
    <3>3. Len(executed) + (i + 1) = Len(executed') + i
      BY <1>3, <1>6
    <3> QED BY <3>1, <3>2, <3>3
  <2> QED BY <2>1, <1>1, <1>2, <1>3, <1>6 DEF Tracks
<1> QED BY <1>1, <1>3, <1>6, <1>7, <1>8 DEF OfferInv, OfferTypes, InSession

\* A command of the message loop.
LEMMA ReceiveOffers ==
    ASSUME OfferInv, Receive
    PROVE  OfferInv'
<1>1. phase = "serving" /\ inbox # <<>> /\ retained' = retained
  BY DEF Receive, brokerVars
<1>2. ASSUME NEW r, Respond(r) PROVE OfferInv'
  BY <1>1, <1>2, TakeOffers DEF Respond
<1>3. ASSUME phase' = "off", inbox' = <<>>, UNCHANGED <<offered, executed>> PROVE OfferInv'
  <2>1. inbox' \in Seq(Packets)
    BY <1>3
  <2> QED BY <1>1, <1>3, <2>1 DEF OfferInv, OfferTypes, Begun, InSession
<1>4. ASSUME NextMessage(dev', Tail(inbox), sent, link) PROVE OfferInv'
  <2>1. CASE HeadOfLoop
    BY <1>1, <2>1, HeadOffers
  <2>2. CASE ~HeadOfLoop
    <3>1. /\ phase' = "serving" /\ inbox' = Tail(inbox) /\ UNCHANGED <<link, offered>>
          /\ executed' = IF Tail(inbox) = inbox THEN executed ELSE Append(executed, Head(inbox))
      BY <1>4, <2>2 DEF NextMessage
    <3>2. Len(Tail(inbox)) = Len(inbox) - 1 /\ Len(inbox) \in Nat
      BY <1>1 DEF OfferInv, OfferTypes
    <3>3. Tail(inbox) # inbox
      BY <3>2
    <3> QED BY <1>1, <3>1, <3>3, TakeOffers
  <2> QED BY <2>1, <2>2
<1>5. \/ \E r : Respond(r)
      \/ phase' = "off" /\ inbox' = <<>> /\ UNCHANGED <<offered, executed>>
      \/ NextMessage(dev', Tail(inbox), sent, link)
  BY Zenon DEF Receive, sessionHistory
<1> QED BY <1>2, <1>3, <1>4, <1>5

\* The publication of a response leaves the commands alone.
LEMMA PublishResponseOffers ==
    ASSUME OfferInv, PublishResponse
    PROVE  OfferInv'
<1>1. phase = "publish" /\ retained' = retained
  BY DEF PublishResponse, brokerVars
<1>2. CASE HeadOfLoop
  BY <1>1, <1>2, HeadOffers
<1>3. CASE ~HeadOfLoop
  <2>1. /\ phase' = "serving" /\ link' = Written
        /\ UNCHANGED <<inbox, offered, executed>>
    BY <1>3 DEF PublishResponse, NextMessage
  <2>2. link' = "up" => link = "up"
    BY <2>1 DEF Written
  <2> QED BY <1>1, <2>1, <2>2 DEF OfferInv, OfferTypes, Begun, InSession, Tracks
<1> QED BY <1>2, <1>3

\* Every step keeps OfferInv.
LEMMA OfferInvKept ==
    ASSUME OfferInv, [MqttNext]_vars
    PROVE  OfferInv'
<1>1. CASE Start
  <2>1. phase = "boot" /\ retained' = retained
    BY <1>1 DEF Start, brokerVars
  <2>2. CASE HeadOfLoop
    BY <2>1, <2>2, HeadOffers
  <2>3. CASE phase' = "disabled" /\ UNCHANGED <<inbox, sessionHistory>>
    BY <2>1, <2>3, IdleOffers DEF OfferInv, InSession, sessionHistory
  <2> QED BY <1>1, <2>2, <2>3 DEF Start
<1>2. CASE Backoff
  BY <1>2, IdleOffers DEF Backoff, sessionHistory, brokerVars
<1>3. CASE Connect \/ Connack
  BY <1>3, IdleOffers DEF Connect, Connack, OfferInv, InSession, historyVars, sessionHistory, brokerVars
<1>4. CASE Retry \/ LoseSession \/ PublishError
  <2>1. HeadOfLoop /\ retained' = retained
    BY <1>4 DEF Retry, LoseSession, PublishError, brokerVars
  <2> QED BY <2>1, HeadOffers
<1>5. CASE Subscribe
  BY <1>5, SubscribeOffers
<1>6. CASE Suback
  BY <1>6, SubackOffers
<1>7. CASE Receive
  BY <1>7, ReceiveOffers
<1>8. CASE PublishResponse
  BY <1>8, PublishResponseOffers
<1>9. CASE SocketTimeout \/ LinkSilent
  <2>1. UNCHANGED <<phase, retained, offered, executed, inbox>> /\ link' # "up"
    BY <1>9 DEF SocketTimeout, LinkSilent, clientVars, brokerVars, historyVars, sessionHistory
  <2> QED BY <2>1, LinkOffers
<1>10. CASE ClearRetained
  <2>1. UNCHANGED <<phase, link, inbox, offered, executed>> /\ retained' = NONE
    BY <1>10 DEF ClearRetained, clientVars, historyVars, sessionHistory
  <2> QED BY <2>1 DEF OfferInv, OfferTypes, Opt, Begun, InSession, Tracks, Acknowledged
<1>11. CASE BrokerStep
  <2>1. UNCHANGED <<phase, retained, offered, executed>>
    BY <1>11 DEF BrokerStep, clientVars, historyVars, sessionHistory
  <2>2. CASE Close
    <3>1. link' # "up" /\ (inbox' = inbox \/ inbox' = <<>>)
      BY <2>2 DEF Close
    <3> QED BY <2>1, <3>1, LinkOffers
  <2>3. CASE UNCHANGED <<link, inbox>>
    BY <2>1, <2>3, LinkOffers
  <2> QED BY <1>11, <2>2, <2>3 DEF BrokerStep
<1>12. ASSUME NEW p \in Payloads, NEW retain \in BOOLEAN, Publish(p, retain) PROVE OfferInv'
  BY <1>12, PublishOffers
<1>13. CASE UNCHANGED vars
  BY <1>13, LinkOffers DEF vars, clientVars, brokerVars, historyVars, sessionHistory
<1> QED BY <1>1, <1>2, <1>3, <1>4, <1>5, <1>6, <1>7, <1>8, <1>9, <1>10, <1>11, <1>12, <1>13, Zenon
        DEF MqttNext, ClientStep

\* A session runs the commands of its own subscription, in order and each once, for
\* every broker and however connections end.
THEOREM CommandsExecutedAsOffered == MqttSpec => []ExecutedAsOffered
<1>1. MqttInit => OfferInv
  BY DEF MqttInit, OfferInv, OfferTypes, Begun, InSession, Opt
<1>2. OfferInv => ExecutedAsOffered
  <2> SUFFICES ASSUME OfferInv PROVE IsPrefix(executed, offered)
    BY DEF ExecutedAsOffered
  <2>1. executed \in Seq(Payloads) /\ offered \in Seq(Payloads) /\ Begun
    BY DEF OfferInv, OfferTypes
  <2>2. Len(executed) \in Nat /\ Len(offered) \in Nat
    BY <2>1
  <2>3. executed = SubSeq(executed, 1, Len(executed))
    BY <2>1
  <2>4. SubSeq(executed, 1, Len(executed)) = SubSeq(offered, 1, Len(executed))
    BY <2>1, <2>2 DEF Begun
  <2> QED BY <2>1, <2>4 DEF IsPrefix, Begun
<1> QED BY <1>1, <1>2, OfferInvKept, PTL DEF MqttSpec

--------------------------------------------------------------------------------
(* What a session's commands lead to *)

USE RouterAssumption

\* The states of the router, the responses to a payload, and what a session's payloads
\* have led to.
GoodStates == {st \in DeviceState : GoodState(st)}
Answers == ResponseType \cup {Malformed}
ExecutedType == [dev : GoodStates, sent : Seq(Answers)]

\* A command executed.
LEMMA ExecuteTyped ==
    ASSUME NEW acc \in ExecutedType, NEW p \in Payloads
    PROVE  Execute(acc, p) \in ExecutedType
<1>1. ASSUME NEW r \in Answers PROVE Sent(acc.sent, r) \in Seq(Answers)
  <2>1. Append(acc.sent, r) \in Seq(Answers) /\ acc.sent \in Seq(Answers)
    BY DEF ExecutedType
  <2> QED BY <2>1 DEF Sent
<1>2. CASE p = GARBAGE
  <2>1. Malformed \in Answers
    BY DEF Answers
  <2>2. Execute(acc, p) = [acc EXCEPT !.sent = Sent(acc.sent, Malformed)]
    BY <1>2 DEF Execute
  <2> QED BY <1>1, <2>1, <2>2 DEF ExecutedType
<1>3. CASE p # GARBAGE
  <2> DEFINE r == respond(p, acc.dev)
  <2>1. p \in Commands /\ acc.dev \in GoodStates
    BY <1>3 DEF Payloads, ExecutedType
  <2>2. Sound(acc.dev, r)
    BY <2>1, RespondSound DEF GoodStates
  <2>3. r.reply \in Answers /\ r.dev \in GoodStates
    BY <2>2 DEF Sound, GoodStates, GoodState, Answers
  <2>4. Execute(acc, p) = [dev |-> r.dev, sent |-> Sent(acc.sent, r.reply)]
    BY <1>3 DEF Execute
  <2> HIDE DEF r
  <2> QED BY <1>1, <2>3, <2>4 DEF ExecutedType
<1> QED BY <1>2, <1>3

\* Before the first command.
LEMMA NothingTyped == NothingExecuted \in ExecutedType
<1>1. DefaultState \in GoodStates
  BY DefaultGood DEF GoodStates, GoodState
<1>2. <<>> \in Seq(Answers)
  OBVIOUS
<1> QED BY <1>1, <1>2 DEF NothingExecuted, ExecutedType

\* Executed is what its steps make of it.
LEMMA ExecutedSteps ==
    /\ Executed[<<>>] = NothingExecuted
    /\ \A ps \in Seq(Payloads) : Executed[ps] \in ExecutedType
    /\ \A ps \in Seq(Payloads), p \in Payloads : Executed[Append(ps, p)] = Execute(Executed[ps], p)
<1> DEFINE Op == [x \in ExecutedType \X Payloads |-> Execute(x[1], x[2])]
           Body(f) == [s \in Seq(Payloads) |-> IF s = <<>> THEN NothingExecuted
                                               ELSE Execute(f[Front(s)], Last(s))]
<1>1. Op \in [ExecutedType \X Payloads -> ExecutedType]
  <2> SUFFICES ASSUME NEW x \in ExecutedType \X Payloads PROVE Execute(x[1], x[2]) \in ExecutedType
    OBVIOUS
  <2> QED BY ExecuteTyped
<1>2. PICK f : Solves(f, Payloads, ExecutedType, NothingExecuted, Op)
  <2> HIDE DEF Op
  <2>1. Recursion(Payloads, ExecutedType, NothingExecuted, Op)
    BY <1>1, NothingTyped DEF Recursion
  <2> QED BY <2>1, SeqRecursion, Zenon
<1>3. f = Body(f)
  <2>1. ASSUME NEW s \in Seq(Payloads), s # <<>>
        PROVE  Op[<<f[Front(s)], Last(s)>>] = Execute(f[Front(s)], Last(s))
    <3>1. f[Front(s)] \in ExecutedType /\ Last(s) \in Payloads
      BY <1>2, <2>1, FrontLast DEF Solves
    <3> QED BY <3>1
  <2> HIDE DEF Op
  <2>2. \A s \in Seq(Payloads) :
           f[s] = IF s = <<>> THEN NothingExecuted ELSE Execute(f[Front(s)], Last(s))
    BY <1>2, <2>1 DEF Solves
  <2>3. f \in [Seq(Payloads) -> ExecutedType]
    BY <1>2 DEF Solves
  <2> QED BY <2>2, <2>3
<1>4. Executed = Body(Executed)
  <2>1. \E g : g = Body(g)
    BY <1>3
  <2> QED BY <2>1 DEF Executed
<1>5. Executed[<<>>] = NothingExecuted
  BY <1>4
<1>6. ASSUME NEW ps \in Seq(Payloads), NEW p \in Payloads
      PROVE  Executed[Append(ps, p)] = Execute(Executed[ps], p)
  <2> HIDE DEF Body
  <2>1. /\ Append(ps, p) \in Seq(Payloads) /\ Append(ps, p) # <<>>
        /\ Front(Append(ps, p)) = ps /\ Last(Append(ps, p)) = p
    BY AppendFrontLast, Zenon
  <2>2. Body(Executed)[Append(ps, p)] = Execute(Executed[ps], p)
    BY <2>1, Zenon DEF Body
  <2> QED BY <1>4, <2>2
<1>7. \A ps \in Seq(Payloads) : Executed[ps] \in ExecutedType
  <2> HIDE DEF Body
  <2>1. \A ps \in Seq(Payloads), p \in Payloads :
          Executed[ps] \in ExecutedType => Executed[Append(ps, p)] \in ExecutedType
    BY <1>6, ExecuteTyped
  <2> QED BY <1>5, <2>1, NothingTyped, SeqRecursionTyped, Zenon
<1> QED BY <1>5, <1>6, <1>7

--------------------------------------------------------------------------------
(* The client's variables *)

\* The response that waits to be published.
Published == IF phase = "publish" THEN <<out>> ELSE <<>>

\* Types; in a session the state and the responses are those of its commands.
ClientInv ==
    /\ RouterInv
    /\ phase \in {"boot", "disabled", "invalid", "connect", "connack", "subscribe", "suback",
                  "serving", "publish", "backoff", "off"}
    /\ reconnect_attempt \in 0..ATTEMPT_MAX
    /\ link \in {"none", "up", "closed", "silent", "unacked"}
    /\ link = "none" => inbox = <<>>
    /\ out \in Opt(Answers) /\ (out # NONE <=> phase = "publish")
    /\ led = "MqttConnected" <=> InSession \/ phase = "off"
    /\ phase = "backoff" <=> led = "Reconnecting"
    /\ sent \in Seq(Answers)
    /\ ~InSession /\ phase # "off" => sent = <<>>
    /\ InSession => /\ dev = Executed[executed].dev
                    /\ sent \o Published = Executed[executed].sent

\* A session's part of ClientInv, where nothing is being published.
LEMMA NotPublishing ==
    ASSUME ClientInv, phase = "serving"
    PROVE  /\ dev = Executed[executed].dev /\ sent = Executed[executed].sent
           /\ sent \in Seq(Answers) /\ out = NONE
<1>1. sent \in Seq(Answers) /\ sent \o Published = Executed[executed].sent /\ out = NONE
  BY DEF ClientInv, InSession
<1>2. Published = <<>>
  BY DEF Published
<1>3. sent \o <<>> = sent
  BY <1>1
<1> QED BY <1>1, <1>2, <1>3 DEF ClientInv, InSession

\* The head of the loop starts over.
LEMMA HeadClient ==
    ASSUME ClientInv, HeadOfLoop, RouterInv', reconnect_attempt' \in 0..ATTEMPT_MAX
    PROVE  ClientInv'
<1>1. /\ phase' \in {"invalid", "connect"} /\ led' \in {"Error", "MqttConnecting"}
      /\ link' = "none" /\ inbox' = <<>> /\ out' = NONE /\ sent' = <<>>
  BY DEF HeadOfLoop
<1>2. <<>> \in Seq(Answers)
  OBVIOUS
<1> QED BY <1>1, <1>2 DEF ClientInv, InSession, Opt

\* What happens to the connection, and steps that only write to it.
LEMMA NetworkClient ==
    ASSUME ClientInv, UNCHANGED <<routerVars, clientVars, executed, sent>>,
           link' \in {"none", "up", "closed", "silent", "unacked"},
           link' = "none" => inbox' = <<>>
    PROVE  ClientInv'
<1>1. RouterInv' /\ dev' = dev
  BY RouterUnchanged DEF ClientInv, routerVars
<1>2. UNCHANGED <<phase, reconnect_attempt, led, out, executed, sent>>
  BY DEF clientVars
<1> QED BY <1>1, <1>2 DEF ClientInv, InSession, Published

\* A step between two phases outside of a session.
LEMMA IdleClient ==
    ASSUME ClientInv, UNCHANGED <<routerVars, reconnect_attempt, out, sent>>,
           phase \notin {"serving", "publish", "off"},
           phase' \in {"disabled", "connack", "subscribe", "suback", "backoff"},
           link' \in {"none", "up", "closed", "silent", "unacked"},
           link' = "none" => inbox' = <<>>,
           phase' = "backoff" <=> led' = "Reconnecting", led' # "MqttConnected"
    PROVE  ClientInv'
<1>1. RouterInv'
  BY RouterUnchanged DEF ClientInv
<1> QED BY <1>1 DEF ClientInv, InSession

\* SUBACK: the session starts with the default state.
LEMMA SubackClient ==
    ASSUME ClientInv, OfferInv, Suback
    PROVE  ClientInv'
<1>1. /\ phase = "suback" /\ phase' = "serving" /\ led' = "MqttConnected"
      /\ reconnect_attempt' = 0 /\ inbox' = Tail(inbox) /\ inbox # <<>> /\ NewSession
      /\ UNCHANGED <<out, link, executed, sent>>
  BY DEF Suback, sessionHistory
<1>2. RouterInv' /\ dev' = DefaultState
  BY <1>1, NewSessionStep DEF ClientInv, NewSession
<1>3. executed = <<>> /\ sent = <<>> /\ link # "none" /\ out = NONE
  BY <1>1 DEF ClientInv, OfferInv, InSession
<1>4. Executed[<<>>].dev = DefaultState /\ Executed[<<>>].sent = <<>>
  BY ExecutedSteps DEF NothingExecuted
<1>5. Published' = <<>> /\ <<>> \o <<>> = <<>> /\ <<>> \in Seq(Answers)
  BY <1>1 DEF Published
<1>6. reconnect_attempt' \in 0..ATTEMPT_MAX
  BY <1>1, AttemptMax
<1>7. dev' = Executed[executed'].dev /\ sent' \o Published' = Executed[executed'].sent
  BY <1>1, <1>2, <1>3, <1>4, <1>5
<1> QED BY <1>1, <1>2, <1>3, <1>5, <1>6, <1>7 DEF ClientInv, InSession, Opt

\* What the head of the inbox of a session can be.
LEMMA HeadIsPayload ==
    ASSUME OfferInv, phase = "serving", inbox # <<>>
    PROVE  /\ Head(inbox) \in Payloads /\ Tail(inbox) # inbox
           /\ executed \in Seq(Payloads) /\ Append(executed, Head(inbox)) \in Seq(Payloads)
<1>1. /\ inbox \in Seq(Packets) /\ Len(inbox) \in Nat /\ Len(inbox) > 0
      /\ Len(Tail(inbox)) = Len(inbox) - 1
      /\ executed \in Seq(Payloads) /\ Len(executed) \in Nat
      /\ offered \in Seq(Payloads) /\ Len(offered) \in Nat
  BY DEF OfferInv, OfferTypes
<1>2. Tracks
  BY DEF OfferInv, InSession
<1>3. Head(inbox) = offered[Len(executed) + 1] /\ Len(executed) + 1 \in 1..Len(offered)
  BY <1>1, <1>2 DEF Tracks
<1>4. Head(inbox) \in Payloads
  BY <1>1, <1>3
<1>5. Append(executed, Head(inbox)) \in Seq(Payloads)
  BY <1>1, <1>4
<1>6. Tail(inbox) # inbox
  <2> SUFFICES ASSUME Tail(inbox) = inbox PROVE FALSE
    OBVIOUS
  <2>1. Len(Tail(inbox)) = Len(inbox)
    BY Zenon
  <2>2. Len(Tail(inbox)) = Len(inbox) - 1 /\ Len(inbox) \in Nat
    BY <1>1, Zenon
  <2>3. ASSUME NEW m, NEW n \in Nat, m = n, m = n - 1 PROVE FALSE
    BY <2>3
  <2> QED BY <2>1, <2>2, <2>3
<1> QED BY <1>1, <1>4, <1>5, <1>6, Zenon

\* A response ready to be published.
LEMMA RespondClient ==
    ASSUME ClientInv, OfferInv, phase = "serving", inbox # <<>>, RouterInv',
           NEW r \in Answers, Respond(r), reconnect_attempt' = reconnect_attempt,
           dev' = Execute(Executed[executed], Head(inbox)).dev,
           Append(sent, r) = Execute(Executed[executed], Head(inbox)).sent
    PROVE  ClientInv'
<1>1. /\ phase' = "publish" /\ out' = r /\ inbox' = Tail(inbox)
      /\ executed' = Append(executed, Head(inbox))
      /\ UNCHANGED <<led, link, sent>>
  BY DEF Respond
<1>2. Executed[executed'] = Execute(Executed[executed], Head(inbox))
  BY <1>1, HeadIsPayload, ExecutedSteps
<1>3. sent \in Seq(Answers) /\ link # "none" /\ led = "MqttConnected"
  BY DEF ClientInv, InSession
<1>4. Published' = <<r>> /\ sent \o <<r>> = Append(sent, r)
  BY <1>1, <1>3 DEF Published
<1>5. dev' = Executed[executed'].dev /\ sent' \o Published' = Executed[executed'].sent
  BY <1>1, <1>2, <1>4
<1>6. r # NONE
  BY MqttAssumption DEF Answers
<1> QED BY <1>1, <1>3, <1>5, <1>6 DEF ClientInv, InSession, Opt

\* The next message, or the end of the session.
LEMMA NextClient ==
    ASSUME ClientInv, InSession, RouterInv', NEW rest, NEW responses \in Seq(Answers), NEW l,
           l \in {"up", "closed", "silent", "unacked"} \/ (l = "none" /\ rest = <<>>),
           NextMessage(dev', rest, responses, l), reconnect_attempt' = reconnect_attempt,
           LET ex == IF rest = inbox THEN executed ELSE Append(executed, Head(inbox))
           IN  dev' = Executed[ex].dev /\ responses = Executed[ex].sent
    PROVE  ClientInv'
<1>1. CASE HeadOfLoop
  BY <1>1, HeadClient DEF ClientInv
<1>2. CASE ~HeadOfLoop
  <2>1. /\ phase' = "serving" /\ out' = NONE /\ inbox' = rest /\ sent' = responses /\ link' = l
        /\ executed' = (IF rest = inbox THEN executed ELSE Append(executed, Head(inbox)))
        /\ led' = led
    BY <1>2 DEF NextMessage
  <2>2. Published' = <<>> /\ responses \o <<>> = responses
    BY <2>1 DEF Published
  <2>3. dev' = Executed[executed'].dev /\ sent' \o Published' = Executed[executed'].sent
    BY <2>1, <2>2
  <2>4. led = "MqttConnected"
    BY DEF ClientInv
  <2> QED BY <2>1, <2>3, <2>4 DEF ClientInv, InSession, Opt
<1> QED BY <1>1, <1>2

\* A command of the message loop.
LEMMA ReceiveClient ==
    ASSUME ClientInv, OfferInv, Receive
    PROVE  ClientInv'
<1> DEFINE p == Head(inbox)
           before == Executed[executed]
<1>1. phase = "serving" /\ inbox # <<>> /\ reconnect_attempt' = reconnect_attempt
  BY DEF Receive
<1>2. /\ p \in Payloads /\ Tail(inbox) # inbox
      /\ executed \in Seq(Payloads) /\ Append(executed, p) \in Seq(Payloads)
  BY <1>1, HeadIsPayload
<1>3. dev = before.dev /\ sent = before.sent /\ sent \in Seq(Answers) /\ out = NONE
  BY <1>1, NotPublishing
<1>4. Executed[Append(executed, p)] = Execute(before, p) /\ before \in ExecutedType
  BY <1>2, ExecutedSteps
<1>5. link # "none" /\ link \in {"none", "up", "closed", "silent", "unacked"}
  BY <1>1 DEF ClientInv
<1>6. CASE p = GARBAGE /\ Respond(Malformed) /\ UNCHANGED routerVars
  <2>1. Malformed \in Answers /\ Malformed.id \notin UnserializableIds
    BY MqttAssumption DEF Answers, Malformed, Response
  <2>2. Execute(before, p) = [before EXCEPT !.sent = Append(before.sent, Malformed)]
    BY <1>6, <2>1 DEF Execute, Sent
  <2>3. Execute(before, p).dev = before.dev /\ Execute(before, p).sent = Append(before.sent, Malformed)
    BY <1>4, <2>2 DEF ExecutedType
  <2>4. RouterInv' /\ dev' = dev
    BY <1>6, RouterUnchanged DEF ClientInv, routerVars
  <2> HIDE DEF p, before
  <2> QED BY <1>1, <1>3, <1>6, <2>1, <2>3, <2>4, RespondClient DEF p, before
<1>7. CASE p # GARBAGE /\ Handle(p)
  <2> DEFINE r == respond(p, before.dev)
  <2>1. p \in Commands
    BY <1>2, <1>7 DEF Payloads
  <2>2. /\ RouterInv' /\ dev' = r.dev /\ reply' = r.reply
    BY <1>3, <1>7, <2>1, HandleStep DEF Handle, ClientInv
  <2>3. reply' \in Answers
    BY <2>2 DEF RouterInv, RouterTypeOK, Answers
  <2>4. Execute(before, p) = [dev |-> r.dev, sent |-> Sent(before.sent, r.reply)]
    BY <1>7 DEF Execute
  <2>5. dev' = Execute(before, p).dev /\ Execute(before, p).sent = Sent(sent, reply')
    <3> HIDE DEF r
    <3> QED BY <1>3, <2>2, <2>4
  <2> HIDE DEF r, p, before
  <2>6. CASE phase' = "off" /\ inbox' = <<>> /\ link' = "none" /\ UNCHANGED <<out, led, sent>>
    <3>1. led = "MqttConnected"
      BY <1>1 DEF ClientInv, InSession
    <3> QED BY <1>1, <1>3, <2>2, <2>6, <3>1 DEF ClientInv, InSession, Opt
  <2>7. CASE reply'.id \notin UnserializableIds /\ Respond(reply')
    <3>1. Sent(sent, reply') = Append(sent, reply')
      BY <2>7 DEF Sent
    <3> QED BY <1>1, <2>2, <2>3, <2>5, <2>7, <3>1, RespondClient DEF p, before
  <2>8. CASE reply'.id \in UnserializableIds /\ NextMessage(dev', Tail(inbox), sent, link)
    <3>1. Sent(sent, reply') = sent
      BY <2>8 DEF Sent
    <3>2. /\ Executed[Append(executed, Head(inbox))] = Execute(before, p)
          /\ (IF Tail(inbox) = inbox THEN executed ELSE Append(executed, Head(inbox)))
                = Append(executed, Head(inbox))
      BY <1>2, <1>4 DEF p
    <3>3. link \in {"up", "closed", "silent", "unacked"} /\ InSession
      BY <1>1, <1>5 DEF InSession
    <3> QED BY <1>1, <1>3, <2>2, <2>5, <2>8, <3>1, <3>2, <3>3, NextClient
  <2> QED BY <1>7, <2>6, <2>7, <2>8, Zenon DEF Receive, sessionHistory, p
<1> QED BY <1>6, <1>7 DEF Receive

\* A response published, or given up with the connection.
LEMMA PublishResponseClient ==
    ASSUME ClientInv, PublishResponse
    PROVE  ClientInv'
<1>1. /\ phase = "publish" /\ InSession /\ reconnect_attempt' = reconnect_attempt
      /\ NextMessage(dev, inbox, Append(sent, out), Written) /\ UNCHANGED routerVars
  BY DEF PublishResponse, InSession
<1>2. RouterInv' /\ dev' = dev
  BY <1>1, RouterUnchanged DEF ClientInv, routerVars
<1>3. sent \in Seq(Answers) /\ out \in Answers
  BY <1>1 DEF ClientInv, Opt
<1>4. Append(sent, out) \in Seq(Answers) /\ Append(sent, out) = sent \o <<out>>
  BY <1>3
<1>5. dev = Executed[executed].dev /\ Append(sent, out) = Executed[executed].sent
  BY <1>1, <1>4 DEF ClientInv, Published
<1>6. Written \in {"up", "closed", "silent", "unacked"} \/ (Written = "none" /\ inbox = <<>>)
  BY DEF Written, ClientInv
<1> QED BY <1>1, <1>2, <1>4, <1>5, <1>6, NextClient

\* Every step keeps ClientInv.
LEMMA ClientInvKept ==
    ASSUME ClientInv, OfferInv, [MqttNext]_vars
    PROVE  ClientInv'
<1>1. CASE Start
  <2>1. UNCHANGED <<routerVars, reconnect_attempt>> /\ phase = "boot"
    BY <1>1 DEF Start
  <2>2. RouterInv' /\ reconnect_attempt' \in 0..ATTEMPT_MAX
    BY <2>1, RouterUnchanged DEF ClientInv
  <2>3. CASE HeadOfLoop
    BY <2>2, <2>3, HeadClient
  <2>4. CASE phase' = "disabled" /\ UNCHANGED <<led, link, inbox, out, sent>>
    BY <2>1, <2>4, IdleClient DEF ClientInv, InSession
  <2> QED BY <1>1, <2>3, <2>4 DEF Start, sessionHistory
<1>2. CASE Retry \/ LoseSession \/ PublishError
  <2>1. /\ HeadOfLoop /\ UNCHANGED routerVars
        /\ reconnect_attempt' \in {reconnect_attempt, saturating_add(reconnect_attempt)}
    BY <1>2 DEF Retry, LoseSession, PublishError
  <2>2. reconnect_attempt' \in 0..ATTEMPT_MAX
    BY <2>1, AttemptMax DEF ClientInv, saturating_add
  <2>3. RouterInv'
    BY <2>1, RouterUnchanged DEF ClientInv
  <2> QED BY <2>1, <2>2, <2>3, HeadClient
<1>3. CASE Backoff
  BY <1>3, IdleClient DEF Backoff, sessionHistory
<1>4. CASE Connect \/ Connack
  BY <1>4, IdleClient DEF Connect, Connack, ClientInv, InSession, historyVars, sessionHistory
<1>5. CASE Subscribe
  <2>1. /\ phase = "subscribe" /\ phase' = "suback" /\ link' = Written
        /\ UNCHANGED <<routerVars, reconnect_attempt, led, out, sent>>
        /\ link # "up" => UNCHANGED inbox
    BY <1>5 DEF Subscribe
  <2>2. link' \in {"none", "up", "closed", "silent", "unacked"} /\ (link' = "none" => link = "none")
    BY <2>1 DEF Written, ClientInv
  <2>3. link' = "none" => inbox' = <<>>
    BY <2>1, <2>2 DEF ClientInv
  <2> QED BY <2>1, <2>2, <2>3, IdleClient DEF ClientInv, InSession
<1>6. CASE Suback
  BY <1>6, SubackClient
<1>7. CASE Receive
  BY <1>7, ReceiveClient
<1>8. CASE PublishResponse
  BY <1>8, PublishResponseClient
<1>9. CASE SocketTimeout \/ LinkSilent \/ ClearRetained \/ BrokerStep
  <2>1. UNCHANGED <<routerVars, clientVars, executed, sent>>
    BY <1>9 DEF SocketTimeout, LinkSilent, ClearRetained, BrokerStep, historyVars, sessionHistory
  <2>2. /\ link' \in {"none", "up", "closed", "silent", "unacked"}
        /\ link' = "none" => inbox' = <<>>
    BY <1>9 DEF SocketTimeout, LinkSilent, ClearRetained, BrokerStep, Close, ClientInv
  <2> QED BY <2>1, <2>2, NetworkClient
<1>10. ASSUME NEW p, NEW retain, Publish(p, retain) PROVE ClientInv'
  <2>1. UNCHANGED <<routerVars, clientVars, executed, sent, link>>
    BY <1>10 DEF Publish
  <2>2. link' = "none" => inbox' = <<>>
    BY <1>10 DEF Publish, Subscribed, ClientInv
  <2> QED BY <2>1, <2>2, NetworkClient DEF ClientInv
<1>11. CASE UNCHANGED vars
  BY <1>11, NetworkClient DEF vars, historyVars, sessionHistory, ClientInv
<1> QED BY <1>1, <1>2, <1>3, <1>4, <1>5, <1>6, <1>7, <1>8, <1>9, <1>10, <1>11, Zenon
        DEF MqttNext, ClientStep

\* Both invariants.
LEMMA MqttInvariance == MqttSpec => [](ClientInv /\ OfferInv)
<1>1. MqttInit => OfferInv
  BY DEF MqttInit, OfferInv, OfferTypes, Begun, InSession, Opt
<1>2. MqttInit => ClientInv
  <2> SUFFICES ASSUME MqttInit PROVE ClientInv
    OBVIOUS
  <2>1. RouterInv
    BY DefaultGood, NoReplyTyped
       DEF MqttInit, RouterInit, RouterInv, RouterTypeOK, GoodState, Opt
  <2>2. 0 \in 0..ATTEMPT_MAX /\ <<>> \in Seq(Answers)
    BY AttemptMax
  <2> QED BY <2>1, <2>2 DEF MqttInit, ClientInv, InSession, Opt
<1>3. ClientInv /\ OfferInv /\ [MqttNext]_vars => (ClientInv /\ OfferInv)'
  BY ClientInvKept, OfferInvKept
<1> QED BY <1>1, <1>2, <1>3, PTL DEF MqttSpec

\* Types: a response is at hand exactly while it is published, the LED shows a session
\* exactly while one is served, and an outage exactly while the client waits.
THEOREM MqttTypeCorrect == MqttSpec => []MqttTypeOK
<1>1. ClientInv => MqttTypeOK
  BY DEF ClientInv, MqttTypeOK, RouterInv, InSession
<1> QED BY <1>1, MqttInvariance, PTL

\* The state of a session and the responses it sent are what its own commands lead to,
\* one after another from the default state, for every set of commands, however
\* connections end and whatever earlier sessions did.
THEOREM StateIsTheSessions == MqttSpec => []StateFollowsSession
<1>1. ClientInv => StateFollowsSession
  BY DEF ClientInv, StateFollowsSession, InSession, Published
<1> QED BY <1>1, MqttInvariance, PTL
================================================================================
