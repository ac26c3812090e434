----------------------------- MODULE AgentProofs ----------------------------
(***************************************************************************)
(* What a serving agent promises its clients, for any number of clients,   *)
(* any queue length and any behaviour of the radio.                        *)
(***************************************************************************)
EXTENDS Agent, SequenceTheorems, TLAPS

\* The stages at which a request is being served.
Serves == {"subListen", "oneListen", "oneWrite", "oneRelisten", "oneWait", "oneDrain"}

Serving == cur # None <=> at \in Serves

-----------------------------------------------------------------------------
\* Types.  What the radio does keeps them.
LEMMA FramesOfRadio ==
    /\ Meas \in Frame
    /\ \A x \in Client : Status(x) \in Frame
    /\ <<>> \in Seq(Frame) /\ <<>> \in Seq(Client) /\ <<>> \in Seq(Response)
BY EmptySeq DEF Frame, Meas, Status

LEMMA ListenTypes == ASSUME BleTypeOK, ListenOk \/ ListenFails PROVE BleTypeOK'
BY FramesOfRadio DEF BleTypeOK, ListenOk, ListenFails, DropStream

LEMMA WriteTypes ==
    ASSUME BleTypeOK, NEW f \in Frame, WriteSame(f) \/ WriteReconnected(f)
    PROVE  BleTypeOK'
<1>1. Ask(owed, f) \in Seq(Frame)
    BY DEF BleTypeOK, Ask
<1>2. <<f>> \in Seq(Frame)
    OBVIOUS
<1>3. CASE WriteSame(f)
    BY <1>1, <1>3 DEF BleTypeOK, WriteSame
<1>4. CASE link' = "up" /\ owed' = <<f>> /\ KeepStream
    BY <1>2, <1>4 DEF BleTypeOK, KeepStream
<1> QED BY <1>3, <1>4 DEF WriteReconnected

LEMMA WriteFailsTypes ==
    ASSUME BleTypeOK, WriteFails, KeepStream \/ DropStream
    PROVE  BleTypeOK'
BY FramesOfRadio DEF BleTypeOK, WriteFails, KeepStream, DropStream

LEMMA ReconnectTypes == ASSUME BleTypeOK, ReconnectOk \/ ReconnectFails PROVE BleTypeOK'
BY FramesOfRadio DEF BleTypeOK, ReconnectOk, ReconnectFails, DropStream

LEMMA NotificationTypes ==
    ASSUME BleTypeOK, buf \in Seq(Frame), Notification
    PROVE  BleTypeOK' /\ buf' \in Seq(Frame)
<1>1. PICK k \in 1..Len(air) :
            /\ buf' = buf \o SubSeq(air, 1, k)
            /\ air' = SubSeq(air, k + 1, Len(air))
    BY DEF Notification
<1>2. \A i \in 1..Len(air) : air[i] \in Frame
    BY DEF BleTypeOK
<1>3. SubSeq(air, 1, k) \in Seq(Frame) /\ SubSeq(air, k + 1, Len(air)) \in Seq(Frame)
    <2>1. k \in Nat /\ Len(air) \in Nat /\ k <= Len(air)
        BY <1>1 DEF BleTypeOK
    <2>2. SubSeq(air, 1, k) \in Seq(Frame)
        BY <2>1, <1>2, SubSeqProperties
    <2>3. SubSeq(air, k + 1, Len(air)) \in Seq(Frame)
        BY <2>1, <1>2, SubSeqProperties
    <2> QED BY <2>2, <2>3
<1>4. buf \o SubSeq(air, 1, k) \in Seq(Frame)
    BY <1>3, ConcatProperties
<1> QED BY <1>1, <1>3, <1>4 DEF Notification, BleTypeOK

LEMMA RadioTypes == ASSUME BleTypeOK, Radio PROVE BleTypeOK'
<1>1. CASE DeviceSend
    <2>1. Head(owed) \in Frame /\ Tail(owed) \in Seq(Frame)
        BY <1>1, HeadTailProperties DEF DeviceSend, BleTypeOK
    <2> QED BY <1>1, <2>1 DEF DeviceSend, BleTypeOK
<1>2. CASE LinkDrops \/ StreamBreaks
    BY <1>2, FramesOfRadio DEF LinkDrops, StreamBreaks, KeepStream, BleTypeOK
<1> QED BY <1>1, <1>2 DEF Radio

-----------------------------------------------------------------------------
\* What try_send does: a client's channel stays as it is or has the response
\* appended.
LEMMA ResponseTypes ==
    /\ Error \in Response /\ StreamEnd \in Response
    /\ \A k \in Nat : Measurement(k) \in Response
    /\ \A x \in Client : Result(x) \in Response
    /\ \A f \in Frame : f.of \in Client \cup {None} /\ Answer(f) \in Response
BY DEF Error, StreamEnd, Measurement, Result, Response, Answer, Frame, Meas, Status

LEMMA TrySendTypes ==
    ASSUME sent \in [Client -> Seq(Response)],
           NEW S, NEW m \in Response, TrySend(S, m)
    PROVE  sent' \in [Client -> Seq(Response)]
BY DEF TrySend

LEMMA TypeStep == TypeOK /\ Serving /\ [Next]_vars => TypeOK'
<1> SUFFICES ASSUME TypeOK, Serving, [Next]_vars PROVE TypeOK'
    OBVIOUS
<1>b. BleTypeOK /\ buf \in Seq(Frame) /\ sent \in [Client -> Seq(Response)] /\ samples \in Nat
    BY DEF TypeOK
<1>h. cmdq # <<>> => Head(cmdq) \in Client /\ Tail(cmdq) \in Seq(Client)
    BY HeadTailProperties DEF TypeOK
<1>u. buf # <<>> => Head(buf) \in Frame /\ Tail(buf) \in Seq(Frame)
    BY HeadTailProperties DEF TypeOK
<1> USE DEF Goto, Stages, Awaits
<1>1. CASE UNCHANGED vars
    BY <1>1 DEF vars, actorVars, actor, ble, TypeOK, BleTypeOK
<1>2. ASSUME TakeRequest, Run PROVE TypeOK'
    <2>1. sent' \in [Client -> Seq(Response)]
        BY <1>2, <1>b, TrySendTypes, ResponseTypes
           DEF TakeRequest, JoinStream, TakeSubscribe, TakeOneShot, TakeBadRtc
    <2>2. clients' \subseteq Client /\ cur' \in Client \cup {None}
        BY <1>2, <1>h DEF TakeRequest, JoinStream, TakeSubscribe, TakeOneShot, TakeBadRtc,
                          Accept, Reaped, TypeOK
    <2>3. at' \in Stages /\ was' \in BOOLEAN
        BY <1>2 DEF TakeRequest, JoinStream, TakeSubscribe, TakeOneShot, TakeBadRtc, TypeOK
    <2>4. /\ cmdq' \in Seq(Client)
          /\ UNCHANGED <<ble, buf, connected, samples, stop, req, taken, handler>>
        BY <1>2, <1>h DEF TakeRequest, JoinStream, TakeSubscribe, TakeOneShot, TakeBadRtc,
                          Accept, Still
    <2> QED BY <1>2, <2>1, <2>2, <2>3, <2>4 DEF Run, TypeOK, BleTypeOK, ble
<1>3. ASSUME StreamStep, Run PROVE TypeOK'
    <2> USE <1>3 DEF Run, Still, Quiet
    <2>1. CASE SubListenOk \/ SubListenFails \/ PollListen \/ PollRelisten
        <3>1. BleTypeOK'
            BY <2>1, <1>b, ListenTypes DEF SubListenOk, SubListenFails, PollListen, PollRelisten
        <3>2. sent' \in [Client -> Seq(Response)]
            BY <2>1, <1>b, TrySendTypes, ResponseTypes
               DEF SubListenOk, SubListenFails, PollListen, PollRelisten, AbortStream
        <3>3. buf' \in Seq(Frame) /\ at' \in Stages /\ connected' \in BOOLEAN
            BY <2>1, <1>b, FramesOfRadio
               DEF SubListenOk, SubListenFails, PollListen, PollRelisten, AbortStream, TypeOK
        <3>4. clients' \subseteq Client /\ cur' \in Client \cup {None}
            BY <2>1 DEF SubListenOk, SubListenFails, PollListen, PollRelisten, AbortStream,
                        TypeOK, Serving, Serves
        <3>5. UNCHANGED <<was, cmdq, samples, stop, req, taken, handler>>
            BY <2>1 DEF SubListenOk, SubListenFails, PollListen, PollRelisten
        <3> QED BY <3>1, <3>2, <3>3, <3>4, <3>5 DEF TypeOK
    <2>2. CASE Notified
        BY <2>2, <1>b, NotificationTypes DEF Notified, TypeOK
    <2>3. CASE Drain
        <3>1. sent' \in [Client -> Seq(Response)]
            BY <2>3, <1>b, TrySendTypes, ResponseTypes DEF Drain, Yield, Record, Broadcast
        <3>2. samples' \in Nat /\ connected' \in BOOLEAN /\ clients' \subseteq Client
            <4>1. CASE Record
                BY <4>1 DEF Record, Broadcast, TypeOK
            <4>2. CASE UNCHANGED <<samples, connected, clients>>
                BY <4>2 DEF TypeOK
            <4> QED BY <2>3, <4>1, <4>2 DEF Drain, Yield
        <3>3. UNCHANGED <<ble, at, cur, was, cmdq, stop, req, taken, handler>>
            BY <2>3 DEF Drain, Yield
        <3>4. buf' \in Seq(Frame)
            BY <2>3, <1>u DEF Drain, Yield
        <3> QED BY <3>1, <3>2, <3>3, <3>4 DEF TypeOK, ble, BleTypeOK
    <2>4. CASE DrainEmpty \/ StreamOver
        BY <2>4 DEF DrainEmpty, StreamOver, TypeOK, ble, BleTypeOK
    <2>5. CASE Reconnect
        <3>1. BleTypeOK'
            BY <2>5, <1>b, ReconnectTypes DEF Reconnect
        <3>2. sent' \in [Client -> Seq(Response)]
            BY <2>5, <1>b, TrySendTypes, ResponseTypes DEF Reconnect, AbortStream
        <3> QED BY <2>5, <3>1, <3>2, FramesOfRadio DEF Reconnect, AbortStream, TypeOK
    <2>6. CASE PollWrite
        <3>1. BleTypeOK'
            BY <2>6, <1>b, WriteTypes, WriteFailsTypes, FramesOfRadio DEF PollWrite, AbortStream
        <3>2. sent' \in [Client -> Seq(Response)]
            BY <2>6, <1>b, TrySendTypes, ResponseTypes DEF PollWrite, AbortStream
        <3> QED BY <2>6, <3>1, <3>2 DEF PollWrite, AbortStream, TypeOK
    <2> QED BY <2>1, <2>2, <2>3, <2>4, <2>5, <2>6 DEF StreamStep
<1>4. ASSUME OneShotStep, Run PROVE TypeOK'
    <2> USE <1>4 DEF Run, Still, Quiet
    <2>1. CASE OneListenOk \/ OneListenFails \/ OneRelistenOk \/ OneRelistenFails
        <3>1. BleTypeOK'
            BY <2>1, <1>b, ListenTypes
               DEF OneListenOk, OneListenFails, OneRelistenOk, OneRelistenFails
        <3>2. sent' \in [Client -> Seq(Response)]
            BY <2>1, <1>b, TrySendTypes, ResponseTypes
               DEF OneListenOk, OneListenFails, OneRelistenOk, OneRelistenFails, Reply
        <3> QED BY <2>1, <3>1, <3>2, FramesOfRadio
               DEF OneListenOk, OneListenFails, OneRelistenOk, OneRelistenFails, Reply, TypeOK
    <2>2. CASE OneWrite
        <3>1. Command(cur) \in Frame
            BY <2>2, FramesOfRadio DEF Command, OneWrite, Serving, Serves, TypeOK
        <3>2. BleTypeOK'
            BY <2>2, <3>1, <1>b, WriteTypes DEF OneWrite
        <3> QED BY <2>2, <3>2 DEF OneWrite, TypeOK
    <2>3. CASE OneWriteFails
        <3>1. BleTypeOK'
            BY <2>3, <1>b, WriteFailsTypes DEF OneWriteFails, Unsubscribe
        <3>2. sent' \in [Client -> Seq(Response)]
            BY <2>3, <1>b, TrySendTypes, ResponseTypes DEF OneWriteFails, Reply
        <3> QED BY <2>3, <3>1, <3>2 DEF OneWriteFails, Reply, TypeOK
    <2>4. CASE OneWaitNotified
        BY <2>4, <1>b, NotificationTypes DEF OneWaitNotified, TypeOK
    <2>5. CASE OneWaitOver \/ OneDrainMatch
        <3>1. BleTypeOK'
            BY <2>5, FramesOfRadio
               DEF OneWaitOver, OneDrainMatch, Unsubscribe, KeepStream, DropStream,
                   TypeOK, BleTypeOK
        <3>2. sent' \in [Client -> Seq(Response)]
            BY <2>5, <1>b, <1>u, TrySendTypes, ResponseTypes
               DEF OneWaitOver, OneDrainMatch, Reply
        <3> QED BY <2>5, <3>1, <3>2, <1>u DEF OneWaitOver, OneDrainMatch, Reply, TypeOK
    <2>6. CASE OneDrainOther
        <3>1. sent' \in [Client -> Seq(Response)]
            BY <2>6, <1>b, TrySendTypes, ResponseTypes
               DEF OneDrainOther, Yield, Record, Broadcast
        <3>2. samples' \in Nat /\ connected' \in BOOLEAN /\ clients' \subseteq Client
            <4>1. CASE Record
                BY <4>1 DEF Record, Broadcast, TypeOK
            <4>2. CASE UNCHANGED <<samples, connected, clients>>
                BY <4>2 DEF TypeOK
            <4> QED BY <2>6, <4>1, <4>2 DEF OneDrainOther, Yield
        <3>3. UNCHANGED <<ble, at, cur, was, cmdq, stop, req, taken, handler>>
            BY <2>6 DEF OneDrainOther, Yield
        <3>4. buf' \in Seq(Frame)
            BY <2>6, <1>u DEF OneDrainOther, Yield
        <3> QED BY <3>1, <3>2, <3>3, <3>4 DEF TypeOK, ble, BleTypeOK
    <2>7. CASE OneDrainEmpty
        BY <2>7 DEF OneDrainEmpty, TypeOK, ble, BleTypeOK
    <2> QED BY <2>1, <2>2, <2>3, <2>4, <2>5, <2>6, <2>7 DEF OneShotStep
<1>5. ASSUME Tick \/ EndLoop \/ Disconnect, Run PROVE TypeOK'
    <2>1. sent' \in [Client -> Seq(Response)]
        BY <1>5, <1>b, TrySendTypes, ResponseTypes
           DEF Tick, EndLoop, Disconnect, Quiet
    <2>2. BleTypeOK' /\ buf' \in Seq(Frame)
        BY <1>5, <1>b, FramesOfRadio
           DEF Tick, EndLoop, Disconnect, ble, DropStream, BleTypeOK
    <2>3. cmdq' \in Seq(Client)
        BY <1>5, EmptySeq DEF Tick, EndLoop, Disconnect, TypeOK
    <2> QED BY <1>5, <2>1, <2>2, <2>3
           DEF Tick, EndLoop, Disconnect, Run, Still, Quiet, Reaped, TypeOK
<1>6. ASSUME RadioStep, Run PROVE TypeOK'
    BY <1>6, <1>b, RadioTypes DEF RadioStep, Run, actor, TypeOK
<1>7. ASSUME NEW x \in Client, Connect(x) \/ HangUp(x) \/ HandlerStep(x) PROVE TypeOK'
    <2>1. CASE Connect(x) \/ HangUp(x)
        <3>1. UNCHANGED <<ble, actor, sent, stop, phase, asked, cmdq, req, taken>>
            BY <2>1 DEF Connect, HangUp, Others
        <3>2. /\ handler' \in [Client -> {"none", "reading", "recv", "closed"}]
              /\ peer' \in [Client -> BOOLEAN]
            BY <2>1 DEF Connect, HangUp, TypeOK
        <3> QED BY <3>1, <3>2 DEF actor, ble, TypeOK, BleTypeOK
    <2>2. CASE NoRequest(x) \/ Deliver(x) \/ ChannelOver(x)
        <3>1. UNCHANGED <<ble, actor, sent, stop, phase, asked, cmdq, req>>
            BY <2>2 DEF NoRequest, Deliver, ChannelOver, Others
        <3>2. /\ handler' \in [Client -> {"none", "reading", "recv", "closed"}]
              /\ peer' \in [Client -> BOOLEAN]
            BY <2>2 DEF NoRequest, Deliver, ChannelOver, Close, TypeOK
        <3>3. taken' \in [Client -> Nat]
            <4>1. taken[x] + 1 \in Nat
                BY DEF TypeOK
            <4> QED BY <2>2, <4>1 DEF NoRequest, Deliver, ChannelOver, TypeOK
        <3> QED BY <3>1, <3>2, <3>3 DEF actor, ble, TypeOK, BleTypeOK
    <2>3. ASSUME NEW r \in Asks[x], Queue(x, r) \/ Control(x, r) PROVE TypeOK'
        <3>1. r \in Request
            BY AsksAreRequests
        <3>2. /\ handler' \in [Client -> {"none", "reading", "recv", "closed"}]
              /\ peer' \in [Client -> BOOLEAN]
            BY <2>3 DEF Queue, Control, Close, TypeOK
        <3>3. req' \in [Client -> Request \cup {None}] /\ asked' \in BOOLEAN
            BY <2>3, <3>1 DEF Queue, Control, Others, TypeOK
        <3>4. cmdq' \in Seq(Client)
            <4>1. Append(cmdq, x) \in Seq(Client)
                BY DEF TypeOK
            <4> QED BY <2>3, <4>1 DEF Queue, Control, TypeOK
        <3>5. UNCHANGED <<ble, actor, sent, stop, phase, taken>>
            BY <2>3 DEF Queue, Control, Others
        <3> QED BY <3>2, <3>3, <3>4, <3>5 DEF actor, ble, TypeOK, BleTypeOK
    <2> QED BY <1>7, <2>1, <2>2, <2>3 DEF HandlerStep
<1>8. ASSUME Exit \/ StopAccepting(TRUE) \/ StopAccepting(FALSE) PROVE TypeOK'
    <2>1. UNCHANGED <<ble, actor, cmdq, req, sent, taken>>
        BY <1>8 DEF Exit, StopAccepting
    <2>2. /\ handler' \in [Client -> {"none", "reading", "recv", "closed"}]
          /\ peer' \in [Client -> BOOLEAN]
        BY <1>8 DEF Exit, StopAccepting, TypeOK
    <2>3. /\ stop' \in BOOLEAN /\ asked' \in BOOLEAN
          /\ phase' \in {"accepting", "closing", "exited"}
        BY <1>8 DEF Exit, StopAccepting, TypeOK
    <2> QED BY <2>1, <2>2, <2>3 DEF actor, ble, TypeOK, BleTypeOK
<1> QED BY <1>1, <1>2, <1>3, <1>4, <1>5, <1>6, <1>7, <1>8
       DEF Next, ActorStep, Break, LastHandleGone

LEMMA ServingStep == TypeOK /\ Serving /\ [Next]_vars => Serving'
<1> SUFFICES ASSUME TypeOK, Serving, [Next]_vars PROVE Serving'
    OBVIOUS
<1> USE NoneIsNoClient DEF Serving, Serves, Goto
<1>h. cmdq # <<>> => Head(cmdq) \in Client
    BY HeadTailProperties DEF TypeOK
<1>1. CASE UNCHANGED <<at, cur>>
    BY <1>1
<1>2. CASE TakeRequest
    BY <1>2, <1>h
       DEF TakeRequest, JoinStream, TakeSubscribe, TakeOneShot, TakeBadRtc, Accept
<1>3. CASE StreamStep
    BY <1>3 DEF StreamStep, SubListenOk, SubListenFails, Notified, Drain, Yield, DrainEmpty,
                StreamOver, Reconnect, PollListen, PollWrite, PollRelisten
<1>4. CASE OneShotStep
    BY <1>4 DEF OneShotStep, OneListenOk, OneListenFails, OneWrite, OneWriteFails,
                OneRelistenOk, OneRelistenFails, OneWaitNotified, OneWaitOver, Reply,
                OneDrainMatch, OneDrainOther, Yield, OneDrainEmpty
<1>5. CASE Tick \/ EndLoop \/ Disconnect
    BY <1>5 DEF Tick, EndLoop, Disconnect
<1>6. CASE RadioStep \/ Exit \/ StopAccepting(TRUE) \/ StopAccepting(FALSE)
    BY <1>1, <1>6 DEF RadioStep, Exit, StopAccepting, actor
<1>7. CASE \E x \in Client : Connect(x) \/ HangUp(x) \/ HandlerStep(x)
    BY <1>1, <1>7 DEF Connect, HangUp, HandlerStep, NoRequest, Deliver, ChannelOver, Queue,
                      Control, Others, actor
<1> QED BY <1>1, <1>2, <1>3, <1>4, <1>5, <1>6, <1>7
       DEF Next, ActorStep, Break, LastHandleGone, vars, actorVars, actor

LEMMA InitTypes == Init => TypeOK /\ Serving
<1> SUFFICES ASSUME Init PROVE TypeOK /\ Serving
    OBVIOUS
<1>1. BleTypeOK
    BY FramesOfRadio DEF Init, BleInit, BleTypeOK
<1> QED BY <1>1, FramesOfRadio
       DEF Init, ActorInit, TypeOK, Stages, Awaits, Serving, Serves

\* Agent is type correct.
THEOREM AgentTypeCorrect == Spec => []TypeOK
BY InitTypes, TypeStep, ServingStep, PTL DEF Spec

-----------------------------------------------------------------------------
\* What a step of the actor does to its clients, whatever the radio did: it
\* takes a request, turns one into a subscription, answers it, gives everyone a
\* sample, tells everyone that the feed is over, lets go of the requests left,
\* or notices at most that subscribers have hung up.
Elsewhere == at' = at \/ at' \notin {"subListen", "done"}

Admitted ==
    /\ cmdq # <<>> /\ cmdq' = Tail(cmdq) /\ cur = None
    /\ UNCHANGED samples /\ at' # "done"
    /\ \/ /\ req[Head(cmdq)] = "subscribe"
          /\ clients' = Reaped \cup {Head(cmdq)} /\ UNCHANGED <<cur, sent>>
       \/ /\ at' = "subListen" => req[Head(cmdq)] = "subscribe"
          /\ clients' = Reaped /\ cur' = Head(cmdq) /\ UNCHANGED sent
       \/ clients' = Reaped /\ TrySend({Head(cmdq)}, Error) /\ UNCHANGED cur

Joined ==
    /\ at = "subListen" /\ cur' = None /\ Elsewhere
    /\ clients' = clients \cup {cur}
    /\ UNCHANGED <<cmdq, samples, sent>>

Replied ==
    /\ cur # None /\ cur' = None /\ Elsewhere
    /\ \E m \in Feed!Reply : TrySend({cur}, m)
    /\ UNCHANGED <<cmdq, samples, clients>>

Published == Record /\ UNCHANGED <<at, cur, cmdq>>

Closed ==
    /\ cur' \in {cur, None} /\ Elsewhere
    /\ \E m \in {Error, StreamEnd} : TrySend(clients, m)
    /\ clients' = {}
    /\ UNCHANGED <<cmdq, samples>>

Emptied == at = "disconnect" /\ cmdq' = <<>> /\ UNCHANGED <<cur, samples, clients, sent>>

Idle ==
    /\ clients' \in {clients, Reaped} /\ Elsewhere
    /\ UNCHANGED <<cur, cmdq, samples, sent>>

Effect ==
    /\ Still
    /\ Admitted \/ Joined \/ Replied \/ Published \/ Closed \/ Emptied \/ Idle

\* One who has been given nothing has room for an answer.
LEMMA AnswerAlone ==
    ASSUME sent \in [Client -> Seq(Response)], NEW x \in Client, sent[x] = <<>>,
           NEW m, TrySend({x}, m)
    PROVE  sent' = [sent EXCEPT ![x] = <<m>>] \/ UNCHANGED sent
<1>1. sent'[x] \in {<<m>>, sent[x]}
    BY DEF TrySend
<1>2. sent' = [sent EXCEPT ![x] = sent'[x]]
    BY DEF TrySend
<1>3. CASE sent'[x] = <<m>>
    BY <1>2, <1>3
<1>4. CASE sent'[x] = sent[x]
    BY <1>2, <1>4
<1> QED BY <1>1, <1>3, <1>4

LEMMA AnswersAreReplies ==
    /\ Error \in Feed!Reply
    /\ \A f \in Frame : Answer(f) \in Feed!Reply
BY DEF Feed!Reply, Feed!Final, Error, Answer, Result, Measurement, Frame, Meas, Status

LEMMA ActorEffects ==
    ASSUME TypeOK, Serving, ActorStep \/ LastHandleGone
    PROVE  Effect
<1> USE DEF Goto, Elsewhere, Effect
<1>1. CASE TakeRequest
    <2>1. cur = None
        BY <1>1 DEF TakeRequest, JoinStream, TakeSubscribe, TakeOneShot, TakeBadRtc, Accept,
                    Serving, Serves
    <2>2. Still /\ Admitted
        BY <1>1, <2>1 DEF TakeRequest, JoinStream, TakeSubscribe, TakeOneShot, TakeBadRtc,
                          Accept, Admitted, Still
    <2> QED BY <2>2
<1>2. CASE SubListenOk
    BY <1>2 DEF SubListenOk, Joined, Quiet
<1>3. CASE SubListenFails
    <2>1. cur # None
        BY <1>3 DEF SubListenFails, Serving, Serves
    <2> QED BY <1>3, <2>1, AnswersAreReplies DEF SubListenFails, Replied
<1>4. CASE Drain \/ OneDrainOther
    <2>1. Still /\ UNCHANGED <<at, cur, cmdq>>
        BY <1>4 DEF Drain, OneDrainOther, Yield
    <2>2. Record \/ UNCHANGED <<samples, clients, sent>>
        BY <1>4 DEF Drain, OneDrainOther, Yield
    <2> QED BY <2>1, <2>2 DEF Published, Idle
<1>5. CASE Notified \/ DrainEmpty \/ StreamOver
    BY <1>5 DEF Notified, DrainEmpty, StreamOver, Quiet, Idle
<1>6. CASE Reconnect \/ PollListen \/ PollWrite \/ PollRelisten
    <2>1. Still /\ UNCHANGED <<cur, cmdq, samples>> /\ Elsewhere
        BY <1>6 DEF Reconnect, PollListen, PollWrite, PollRelisten
    <2>2. AbortStream \/ UNCHANGED <<clients, sent>>
        BY <1>6 DEF Reconnect, PollListen, PollWrite, PollRelisten
    <2> QED BY <2>1, <2>2 DEF AbortStream, Closed, Idle
<1>7. CASE OneListenOk \/ OneWrite \/ OneRelistenOk \/ OneWaitNotified \/ OneDrainEmpty
    BY <1>7 DEF OneListenOk, OneWrite, OneRelistenOk, OneWaitNotified, OneDrainEmpty, Quiet,
                Idle
<1>8. CASE OneListenFails \/ OneWriteFails \/ OneRelistenFails \/ OneWaitOver \/ OneDrainMatch
    <2>1. cur # None
        BY <1>8 DEF OneListenFails, OneWriteFails, OneRelistenFails, OneWaitOver,
                    OneDrainMatch, Serving, Serves
    <2>2. buf # <<>> => Head(buf) \in Frame
        BY HeadTailProperties DEF TypeOK
    <2>3. \E m \in Feed!Reply : Reply(m)
        BY <1>8, <2>2, AnswersAreReplies
           DEF OneListenFails, OneWriteFails, OneRelistenFails, OneWaitOver, OneDrainMatch
    <2> QED BY <2>1, <2>3 DEF Reply, Replied
<1>9. CASE Tick
    BY <1>9 DEF Tick, Quiet, Idle
<1>10. CASE EndLoop
    BY <1>10 DEF EndLoop, Closed
<1>11. CASE Disconnect
    BY <1>11 DEF Disconnect, Emptied, Quiet
<1> QED BY <1>1, <1>2, <1>3, <1>4, <1>5, <1>6, <1>7, <1>8, <1>9, <1>10, <1>11
       DEF ActorStep, StreamStep, OneShotStep, Break, LastHandleGone

-----------------------------------------------------------------------------
\* The inductive invariant.  A client whose request is queued or being served
\* waits for it and has been given nothing: it can be in one place only.
Waits(c) == handler[c] = "recv" /\ sent[c] = <<>> /\ c \notin clients

QueueWaits ==
    /\ \A i \in DOMAIN cmdq : Waits(cmdq[i]) /\ cmdq[i] # cur
    /\ \A i, j \in DOMAIN cmdq : cmdq[i] = cmdq[j] => i = j

ServedWaits == cur # None => Waits(cur) /\ (at = "subListen" => req[cur] = "subscribe")

\* A subscriber has been given nothing, or the last sample taken.
UpToDate ==
    \A c \in clients :
        /\ req[c] = "subscribe"
        /\ sent[c] # <<>> => sent[c][Len(sent[c])] = Measurement(samples)

\* A client that has made no request has been given nothing.
Untouched ==
    \A c \in Client : handler[c] \in {"none", "reading"} => sent[c] = <<>> /\ c \notin clients

NoQueueLeft == at = "done" => cmdq = <<>>

IInv ==
    /\ TypeOK /\ Serving
    /\ QueueWaits /\ ServedWaits
    /\ UpToDate /\ Untouched
    /\ NoQueueLeft
    /\ FeedContiguous

\* Parts of the step from IInv to IInv', for the actor's steps.
LEMMA HeadWaits ==
    ASSUME IInv, cmdq # <<>>
    PROVE  /\ Head(cmdq) \in Client /\ Waits(Head(cmdq)) /\ Head(cmdq) # cur
           /\ DOMAIN Tail(cmdq) = 1..(Len(cmdq) - 1)
           /\ DOMAIN cmdq = 1..Len(cmdq) /\ Len(cmdq) \in Nat
           /\ \A i \in DOMAIN Tail(cmdq) :
                /\ Tail(cmdq)[i] = cmdq[i + 1] /\ i + 1 \in DOMAIN cmdq
                /\ cmdq[i + 1] # Head(cmdq) /\ cmdq[i + 1] \in Client
<1>1. cmdq \in Seq(Client)
    BY DEF IInv, TypeOK
<1>2. /\ Head(cmdq) = cmdq[1] /\ Len(cmdq) \in Nat \ {0}
      /\ Head(cmdq) \in Client /\ Tail(cmdq) \in Seq(Client)
      /\ Len(Tail(cmdq)) = Len(cmdq) - 1
      /\ \A i \in 1..Len(Tail(cmdq)) : Tail(cmdq)[i] = cmdq[i + 1]
    BY <1>1, HeadTailProperties, EmptySeq
<1>3. DOMAIN cmdq = 1..Len(cmdq) /\ DOMAIN Tail(cmdq) = 1..(Len(cmdq) - 1)
    BY <1>1, <1>2, LenProperties
<1>4. 1 \in DOMAIN cmdq
    BY <1>2, <1>3
<1>5. Waits(Head(cmdq)) /\ Head(cmdq) # cur
    BY <1>2, <1>4 DEF IInv, QueueWaits
<1>6. ASSUME NEW i \in DOMAIN Tail(cmdq)
      PROVE  /\ Tail(cmdq)[i] = cmdq[i + 1] /\ i + 1 \in DOMAIN cmdq
             /\ cmdq[i + 1] # Head(cmdq) /\ cmdq[i + 1] \in Client
    <2>1. i \in 1..(Len(cmdq) - 1) /\ i + 1 \in 1..Len(cmdq) /\ i + 1 # 1
        BY <1>2, <1>3
    <2>2. cmdq[i + 1] # cmdq[1]
        BY <2>1, <1>3, <1>4 DEF IInv, QueueWaits
    <2>3. cmdq[i + 1] \in Client
        BY <2>1, <1>1, ElementOfSeq
    <2> QED BY <2>1, <2>2, <2>3, <1>2, <1>3
<1> QED BY <1>2, <1>3, <1>5, <1>6

LEMMA QueueStep == ASSUME IInv, Effect PROVE QueueWaits' /\ ServedWaits' /\ NoQueueLeft'
<1> USE DEF Elsewhere, Still, Waits
<1>1. CASE Admitted
    <2> DEFINE x == Head(cmdq)
    <2>1. /\ x \in Client /\ handler[x] = "recv" /\ sent[x] = <<>> /\ x \notin clients
          /\ cmdq # <<>>
        BY <1>1, HeadWaits DEF Admitted
    <2>2. \A c \in Client : c # x /\ Waits(c) => Waits(c)'
        BY <1>1, <2>1 DEF Effect, Admitted, Reaped, TrySend
    <2>3. cmdq' = Tail(cmdq) /\ cur' \in {None, x}
        BY <1>1 DEF Admitted
    <2>4. \A i \in DOMAIN cmdq' :
                cmdq'[i] \in Client /\ cmdq'[i] # x /\ Waits(cmdq'[i])
        BY <2>1, <2>3, HeadWaits DEF IInv, QueueWaits
    <2>5. \A i \in DOMAIN cmdq' : Waits(cmdq[i])' /\ cmdq'[i] # cur'
        BY <2>2, <2>3, <2>4, NoneIsNoClient
    <2>6. \A i, j \in DOMAIN cmdq' : cmdq'[i] = cmdq'[j] => i = j
        BY <2>1, <2>3, HeadWaits DEF IInv, QueueWaits
    <2>7. ServedWaits'
        BY <1>1, <2>1, NoneIsNoClient DEF Admitted, ServedWaits, Effect, Reaped
    <2> QED BY <1>1, <2>5, <2>6, <2>7 DEF QueueWaits, NoQueueLeft, Admitted
<1>2. CASE Joined \/ Replied \/ Published \/ Closed \/ Idle
    <2>1. \A i \in DOMAIN cmdq : cmdq[i] \in Client
        BY ElementOfSeq, LenProperties DEF IInv, TypeOK
    <2>2. ASSUME NEW c \in Client, Waits(c), c # cur PROVE Waits(c)'
        BY <1>2, <2>2 DEF Effect, Joined, Replied, Published, Record, Broadcast, Closed, Idle,
                          Reaped, TrySend
    <2>3. cmdq' = cmdq /\ cur' \in {cur, None}
        BY <1>2 DEF Joined, Replied, Published, Closed, Idle
    <2>4. QueueWaits'
        BY <2>1, <2>2, <2>3, NoneIsNoClient DEF IInv, QueueWaits
    <2>5. ServedWaits'
        <3>1. CASE cur' = None
            BY <3>1 DEF ServedWaits
        <3>2. CASE cur' = cur /\ cur # None
            <4>1. cur \in Client /\ Waits(cur)
                BY <3>2 DEF IInv, TypeOK, ServedWaits
            <4>2. Published \/ Closed \/ Idle
                BY <1>2, <3>2 DEF Joined, Replied
            <4>3. Waits(cur)'
                BY <3>2, <4>1, <4>2 DEF Effect, Published, Record, Broadcast, Closed, Idle,
                                        Reaped, TrySend
            <4>4. at' = "subListen" => req'[cur'] = "subscribe"
                BY <3>2, <4>2 DEF Effect, Published, Closed, Idle, IInv, ServedWaits
            <4> QED BY <3>2, <4>3, <4>4 DEF ServedWaits
        <3> QED BY <2>3, <3>1, <3>2
    <2>6. NoQueueLeft'
        BY <1>2, <2>3 DEF IInv, NoQueueLeft, Joined, Replied, Published, Closed, Idle
    <2> QED BY <2>4, <2>5, <2>6
<1>3. CASE Emptied
    BY <1>3, EmptySeq DEF Emptied, Effect, QueueWaits, ServedWaits, NoQueueLeft, Serving, Serves,
                IInv
<1> QED BY <1>1, <1>2, <1>3 DEF Effect

\* What a client may be given next without a break in its feed.
Fits(c, m) ==
    \/ sent[c] = <<>>
    \/ /\ req[c] = "subscribe" /\ sent[c][Len(sent[c])].type = "measurement"
       /\ m.type = "measurement" => m.n = sent[c][Len(sent[c])].n + 1

LEMMA SentFits ==
    ASSUME IInv, Still, NEW S \in SUBSET Client, NEW m \in Response, TrySend(S, m),
           \A c \in S : Fits(c, m)
    PROVE  FeedContiguous'
<1> SUFFICES ASSUME NEW c \in Client, NEW i \in 2..Len(sent'[c])
             PROVE  /\ req[c] = "subscribe"
                    /\ sent'[c][i - 1].type = "measurement"
                    /\ sent'[c][i].type = "measurement" => sent'[c][i].n = sent'[c][i - 1].n + 1
    BY DEF FeedContiguous, Still
<1>1. sent[c] \in Seq(Response) /\ Len(sent[c]) \in Nat
    BY DEF IInv, TypeOK
<1>2. CASE sent'[c] = sent[c]
    BY <1>2 DEF IInv, FeedContiguous
<1>3. CASE sent'[c] = Append(sent[c], m) /\ c \in S
    <2>1. /\ Len(sent'[c]) = Len(sent[c]) + 1
          /\ sent'[c][Len(sent[c]) + 1] = m
          /\ \A j \in 1..Len(sent[c]) : sent'[c][j] = sent[c][j]
        BY <1>1, <1>3, AppendProperties
    <2>2. CASE i <= Len(sent[c])
        <3>1. i \in 2..Len(sent[c]) /\ i - 1 \in 1..Len(sent[c]) /\ i \in 1..Len(sent[c])
            BY <2>2, <1>1
        <3> QED BY <3>1, <2>1 DEF IInv, FeedContiguous
    <2>3. CASE i = Len(sent[c]) + 1
        <3>1. sent[c] # <<>> /\ i - 1 = Len(sent[c]) /\ i - 1 \in 1..Len(sent[c])
            BY <2>3, <1>1, EmptySeq
        <3> QED BY <3>1, <2>1, <2>3, <1>3 DEF Fits
    <2> QED BY <2>1, <2>2, <2>3, <1>1
<1> QED BY <1>2, <1>3 DEF TrySend

LEMMA FeedStep == ASSUME IInv, Effect PROVE UpToDate' /\ Untouched' /\ FeedContiguous'
<1>t. /\ clients \subseteq Client /\ samples \in Nat
      /\ sent \in [Client -> Seq(Response)] /\ Error \in Response /\ StreamEnd \in Response
      /\ Measurement(samples + 1) \in Response
    BY ResponseTypes DEF IInv, TypeOK
<1>s. Still
    BY DEF Effect
<1>l. ASSUME NEW c \in clients, NEW m \in Response,
             m.type = "measurement" => m.n = samples + 1
      PROVE  Fits(c, m)
    <2>1. CASE sent[c] = <<>>
        BY <2>1 DEF Fits
    <2>2. CASE sent[c] # <<>>
        <3>1. req[c] = "subscribe" /\ sent[c][Len(sent[c])] = Measurement(samples)
            BY <2>2 DEF IInv, UpToDate
        <3>2. Measurement(samples).type = "measurement" /\ Measurement(samples).n = samples
            BY DEF Measurement
        <3> QED BY <1>l, <3>1, <3>2 DEF Fits
    <2> QED BY <2>1, <2>2
<1>r. \A m \in Feed!Reply : m \in Response
    BY DEF Feed!Reply, Feed!Final, Response
<1>1. CASE Admitted
    <2>1. /\ Head(cmdq) \in Client /\ handler[Head(cmdq)] = "recv"
          /\ sent[Head(cmdq)] = <<>> /\ Head(cmdq) \notin clients
        BY <1>1, HeadWaits DEF Admitted, Waits
    <2>2. clients' \subseteq clients \cup {Head(cmdq)} /\ samples' = samples
        BY <1>1 DEF Admitted, Reaped
    <2>3. CASE UNCHANGED sent
        BY <1>1, <1>s, <2>1, <2>2, <2>3
           DEF IInv, UpToDate, Untouched, FeedContiguous, Admitted, Reaped, Still
    <2>4. CASE TrySend({Head(cmdq)}, Error) /\ clients' = Reaped
        <3>0. {Head(cmdq)} \in SUBSET Client /\ \A c \in {Head(cmdq)} : Fits(c, Error)
            BY <2>1 DEF Fits
        <3>1. FeedContiguous'
            BY <1>t, <1>s, <2>4, <3>0, SentFits
        <3>2. \A c \in Client : c # Head(cmdq) => sent'[c] = sent[c]
            BY <2>4 DEF TrySend
        <3>3. UpToDate'
            BY <1>t, <1>s, <2>1, <2>2, <2>4, <3>2 DEF IInv, UpToDate, Reaped, Still, Measurement
        <3>4. Untouched'
            BY <1>s, <2>1, <2>4, <3>2 DEF IInv, Untouched, Reaped, Still
        <3> QED BY <3>1, <3>3, <3>4
    <2> QED BY <1>1, <2>3, <2>4 DEF Admitted
<1>2. CASE Joined
    <2>1. cur \in Client /\ Waits(cur) /\ req[cur] = "subscribe"
        BY <1>2 DEF Joined, IInv, TypeOK, Serving, Serves, ServedWaits
    <2> QED BY <1>2, <1>s, <2>1
            DEF Joined, IInv, UpToDate, Untouched, FeedContiguous, Waits, Still
<1>3. CASE Replied
    <2>1. cur \in Client /\ Waits(cur)
        BY <1>3 DEF Replied, IInv, TypeOK, ServedWaits
    <2>2. PICK m \in Feed!Reply : TrySend({cur}, m)
        BY <1>3 DEF Replied
    <2>3. FeedContiguous'
        <3>1. {cur} \in SUBSET Client /\ \A c \in {cur} : Fits(c, m)
            BY <2>1 DEF Fits, Waits
        <3>2. m \in Response
            BY <1>r
        <3> QED BY <1>s, <2>2, <3>1, <3>2, SentFits
    <2>4. \A c \in Client : c # cur => sent'[c] = sent[c]
        BY <2>2 DEF TrySend
    <2>5. UpToDate'
        BY <1>3, <1>t, <1>s, <2>1, <2>4 DEF Replied, IInv, UpToDate, Waits, Still, Measurement
    <2>6. Untouched'
        BY <1>3, <1>s, <2>1, <2>4 DEF Replied, IInv, Untouched, Waits, Still
    <2> QED BY <2>3, <2>5, <2>6
<1>4. CASE Published
    <2>1. /\ TrySend(clients, Measurement(samples + 1)) /\ samples' = samples + 1
          /\ clients' = {c \in clients : Listening(c) /\ Room(c)}
        BY <1>4 DEF Published, Record, Broadcast
    <2>2. FeedContiguous'
        <3>1. \A c \in clients : Fits(c, Measurement(samples + 1))
            BY <1>t, <1>l DEF Measurement
        <3> QED BY <1>t, <1>s, <2>1, <3>1, SentFits
    <2>3. UpToDate'
        <3> SUFFICES ASSUME NEW c \in clients'
                     PROVE  /\ req[c] = "subscribe"
                            /\ sent'[c][Len(sent'[c])] = Measurement(samples + 1)
            BY <1>s, <2>1 DEF UpToDate, Still, Measurement
        <3>1. c \in clients /\ c \in Client /\ Listening(c) /\ Room(c)
            BY <1>t, <2>1
        <3>2. sent'[c] = Append(sent[c], Measurement(samples + 1))
            BY <2>1, <3>1 DEF TrySend
        <3>3. sent'[c][Len(sent'[c])] = Measurement(samples + 1)
            BY <1>t, <3>1, <3>2, AppendProperties
        <3> QED BY <3>1, <3>3 DEF IInv, UpToDate
    <2>4. Untouched'
        BY <1>s, <2>1 DEF IInv, Untouched, TrySend, Listening, Still
    <2> QED BY <2>2, <2>3, <2>4
<1>5. CASE Closed
    <2>1. PICK m \in {Error, StreamEnd} : TrySend(clients, m)
        BY <1>5 DEF Closed
    <2>2. \A c \in clients : Fits(c, m)
        BY <1>t, <1>l, <2>1 DEF Error, StreamEnd
    <2>3. FeedContiguous'
        BY <1>t, <1>s, <2>1, <2>2, SentFits
    <2>4. UpToDate' /\ Untouched'
        BY <1>5, <1>s, <2>1 DEF Closed, IInv, UpToDate, Untouched, TrySend, Still
    <2> QED BY <2>3, <2>4
<1>6. CASE Emptied \/ Idle
    BY <1>6, <1>s DEF Emptied, Idle, IInv, UpToDate, Untouched, FeedContiguous, Reaped, Still
<1> QED BY <1>1, <1>2, <1>3, <1>4, <1>5, <1>6 DEF Effect

-----------------------------------------------------------------------------
\* The steps of a client x and of its handler.  They leave alone everyone who
\* waits, but a handler that has been answered or has nobody to be answered by.
LEMMA HandlerEffects ==
    ASSUME IInv, NEW x \in Client, Connect(x) \/ HangUp(x) \/ HandlerStep(x)
    PROVE  /\ UNCHANGED <<at, cur, clients, samples, sent>>
           /\ \A c \in Client : c # x => handler'[c] = handler[c] /\ req'[c] = req[c]
           /\ \/ handler'[x] = handler[x] /\ UNCHANGED <<req, cmdq>>
              \/ /\ handler[x] # "recv" /\ handler'[x] # "recv" /\ UNCHANGED cmdq
                 /\ UNCHANGED req \/ handler[x] = "reading"
                 /\ handler'[x] \in {"none", "reading"} => handler[x] = "none"
              \/ /\ handler[x] = "recv" /\ handler'[x] = "closed" /\ UNCHANGED <<req, cmdq>>
                 /\ sent[x] # <<>> \/ (x # cur /\ \A i \in DOMAIN cmdq : cmdq[i] # x)
              \/ /\ handler[x] = "reading" /\ handler'[x] = "recv"
                 /\ cmdq' = Append(cmdq, x) /\ at # "done"
<1> USE DEF Others, Close, actor
<1>0. /\ handler \in [Client -> {"none", "reading", "recv", "closed"}]
      /\ req \in [Client -> Request \cup {None}]
      /\ taken \in [Client -> Nat] /\ sent \in [Client -> Seq(Response)]
    BY DEF IInv, TypeOK
<1>1. CASE Connect(x)
    BY <1>0, <1>1 DEF Connect
<1>2. CASE HangUp(x)
    BY <1>2 DEF HangUp
<1>3. CASE NoRequest(x)
    BY <1>0, <1>3 DEF NoRequest
<1>4. CASE Deliver(x)
    <2>1. sent[x] # <<>>
        BY <1>0, <1>4, EmptySeq DEF Deliver
    <2> QED BY <1>0, <1>4, <2>1 DEF Deliver
<1>5. CASE ChannelOver(x)
    BY <1>0, <1>5 DEF ChannelOver, HasSender
<1>7. CASE \E r \in Asks[x] : Queue(x, r)
    <2>1. PICK r \in Asks[x] : Queue(x, r)
        BY <1>7
    <2>2. CASE at = "done"
        BY <1>0, <2>1, <2>2 DEF Queue
    <2>3. CASE at # "done"
        BY <1>0, <2>1, <2>3 DEF Queue
    <2> QED BY <2>2, <2>3
<1>8. CASE \E r \in Asks[x] : Control(x, r)
    BY <1>0, <1>8 DEF Control
<1> QED BY <1>1, <1>2, <1>3, <1>4, <1>5, <1>7, <1>8 DEF HandlerStep

LEMMA ClientStep ==
    ASSUME IInv, NEW x \in Client, Connect(x) \/ HangUp(x) \/ HandlerStep(x)
    PROVE  /\ QueueWaits' /\ ServedWaits' /\ NoQueueLeft'
           /\ UpToDate' /\ Untouched' /\ FeedContiguous'
<1>0. /\ cmdq \in Seq(Client) /\ cur \in Client \cup {None} /\ clients \subseteq Client
      /\ DOMAIN cmdq = 1..Len(cmdq) /\ Len(cmdq) \in Nat
      /\ \A i \in DOMAIN cmdq : cmdq[i] \in Client
    BY LenProperties, ElementOfSeq DEF IInv, TypeOK
<1>e. /\ UNCHANGED <<at, cur, clients, samples, sent>>
      /\ \A c \in Client : c # x => handler'[c] = handler[c] /\ req'[c] = req[c]
    BY HandlerEffects
<1>h. \/ handler'[x] = handler[x] /\ UNCHANGED <<req, cmdq>>
      \/ /\ handler[x] # "recv" /\ handler'[x] # "recv" /\ UNCHANGED cmdq
         /\ UNCHANGED req \/ handler[x] = "reading"
         /\ handler'[x] \in {"none", "reading"} => handler[x] = "none"
      \/ /\ handler[x] = "recv" /\ handler'[x] = "closed" /\ UNCHANGED <<req, cmdq>>
         /\ sent[x] # <<>> \/ (x # cur /\ \A i \in DOMAIN cmdq : cmdq[i] # x)
      \/ /\ handler[x] = "reading" /\ handler'[x] = "recv"
         /\ cmdq' = Append(cmdq, x) /\ at # "done"
    BY HandlerEffects
<1>f. handler[x] = "reading" => sent[x] = <<>> /\ x \notin clients
    BY DEF IInv, Untouched
<1>w. ASSUME NEW c \in Client, Waits(c), c = cur \/ \E i \in DOMAIN cmdq : cmdq[i] = c
      PROVE  Waits(c)' /\ req'[c] = req[c]
    <2>1. CASE c = x
        BY <1>e, <1>w, <1>h, <2>1 DEF Waits
    <2>2. CASE c # x
        BY <1>e, <1>w, <2>2 DEF Waits
    <2> QED BY <2>1, <2>2
<1>1. ServedWaits'
    BY <1>0, <1>e, <1>w, NoneIsNoClient DEF IInv, ServedWaits
<1>2. QueueWaits' /\ NoQueueLeft'
    <2>1. \A i \in DOMAIN cmdq : /\ handler'[cmdq[i]] = "recv" /\ sent'[cmdq[i]] = <<>>
                                 /\ cmdq[i] \notin clients' /\ cmdq[i] # cur'
        BY <1>0, <1>e, <1>w DEF IInv, QueueWaits, Waits
    <2>2. CASE UNCHANGED cmdq
        BY <1>e, <2>1, <2>2 DEF IInv, QueueWaits, NoQueueLeft, Waits
    <2>3. CASE handler[x] = "reading" /\ handler'[x] = "recv" /\ cmdq' = Append(cmdq, x)
               /\ at # "done"
        <3>1. /\ cmdq' \in Seq(Client) /\ Len(cmdq') = Len(cmdq) + 1
              /\ cmdq'[Len(cmdq) + 1] = x
              /\ \A i \in 1..Len(cmdq) : cmdq'[i] = cmdq[i]
            BY <1>0, <2>3, AppendProperties
        <3>2. DOMAIN cmdq' = 1..(Len(cmdq) + 1)
            BY <3>1, LenProperties
        <3>3. /\ handler'[x] = "recv" /\ sent'[x] = <<>> /\ x \notin clients' /\ x # cur'
              /\ \A i \in DOMAIN cmdq : cmdq[i] # x
            BY <1>0, <1>e, <1>f, <2>3, NoneIsNoClient
               DEF Waits, IInv, QueueWaits, ServedWaits
        <3>4. \A i \in DOMAIN cmdq' : i \in DOMAIN cmdq \/ i = Len(cmdq) + 1
            BY <1>0, <3>2
        <3>5. \A i \in DOMAIN cmdq' : Waits(cmdq[i])' /\ cmdq'[i] # cur'
            BY <1>0, <2>1, <3>1, <3>3, <3>4 DEF Waits
        <3>6. \A i, j \in DOMAIN cmdq' : cmdq'[i] = cmdq'[j] => i = j
            BY <1>0, <3>1, <3>3, <3>4 DEF IInv, QueueWaits
        <3> QED BY <1>e, <2>3, <3>5, <3>6 DEF QueueWaits, NoQueueLeft
    <2> QED BY <2>2, <2>3, <1>h
<1>3. UpToDate'
    <2>1. \A c \in clients : req'[c] = req[c]
        BY <1>0, <1>e, <1>f, <1>h DEF IInv, UpToDate
    <2> QED BY <1>e, <2>1 DEF IInv, UpToDate, Measurement
<1>4. Untouched'
    BY <1>e, <1>f, <1>h DEF IInv, Untouched
<1>5. FeedContiguous'
    <2>1. \A c \in Client : Len(sent[c]) \in Nat /\ (sent[c] = <<>> => Len(sent[c]) = 0)
        BY EmptySeq DEF IInv, TypeOK
    <2>2. \A c \in Client : req'[c] = req[c] \/ sent[c] = <<>>
        BY <1>e, <1>f, <1>h
    <2>3. \A c \in Client : 2..Len(sent[c]) # {} => req'[c] = req[c]
        BY <2>1, <2>2
    <2> QED BY <1>e, <2>3 DEF IInv, FeedContiguous
<1> QED BY <1>1, <1>2, <1>3, <1>4, <1>5

-----------------------------------------------------------------------------
LEMMA InitInvariant == Init => IInv
<1> SUFFICES ASSUME Init PROVE IInv
    OBVIOUS
<1>1. TypeOK /\ Serving
    BY InitTypes
<1>2. cmdq = <<>> /\ clients = {} /\ cur = None /\ \A c \in Client : sent[c] = <<>>
    BY DEF Init, ActorInit
<1> QED BY <1>1, <1>2, EmptySeq
       DEF IInv, QueueWaits, ServedWaits, UpToDate, Untouched, NoQueueLeft, FeedContiguous

\* The steps of the rest of the process, at its start and at its end.
LEMMA RunStep ==
    ASSUME IInv, RadioStep \/ Exit \/ StopAccepting(TRUE) \/ StopAccepting(FALSE)
    PROVE  /\ QueueWaits' /\ ServedWaits' /\ NoQueueLeft'
           /\ UpToDate' /\ Untouched' /\ FeedContiguous'
<1> USE DEF IInv, QueueWaits, ServedWaits, NoQueueLeft, UpToDate, Untouched, FeedContiguous,
            Waits, actor
<1>1. CASE RadioStep \/ StopAccepting(TRUE) \/ StopAccepting(FALSE)
    BY <1>1 DEF RadioStep, StopAccepting, Measurement
<1>2. CASE Exit
    <2>1. cmdq = <<>> /\ cur = None
        BY <1>2 DEF Exit, Serving, Serves
    <2>2. UNCHANGED <<at, cur, clients, samples, sent, cmdq, req>>
        BY <1>2 DEF Exit
    <2>3. \A c \in Client : handler'[c] = "closed"
        BY <1>2 DEF Exit
    <2> QED BY <2>1, <2>2, <2>3, EmptySeq DEF Measurement
<1> QED BY <1>1, <1>2

LEMMA InductiveStep == IInv /\ [Next]_vars => IInv'
<1> SUFFICES ASSUME IInv, [Next]_vars PROVE IInv'
    OBVIOUS
<1>t. TypeOK' /\ Serving'
    BY TypeStep, ServingStep DEF IInv
<1>1. CASE UNCHANGED vars
    BY <1>t, <1>1 DEF vars, actorVars, actor, IInv, QueueWaits, ServedWaits, NoQueueLeft,
                      UpToDate, Untouched, FeedContiguous, Waits, Measurement
<1>2. CASE ActorStep \/ LastHandleGone
    <2>1. Effect
        BY <1>2, ActorEffects DEF IInv
    <2> QED BY <1>t, <2>1, QueueStep, FeedStep DEF IInv
<1>3. CASE \E x \in Client : Connect(x) \/ HangUp(x) \/ HandlerStep(x)
    BY <1>t, <1>3, ClientStep DEF IInv
<1>4. CASE RadioStep \/ Exit \/ StopAccepting(TRUE) \/ StopAccepting(FALSE)
    BY <1>t, <1>4, RunStep DEF IInv
<1> QED BY <1>1, <1>2, <1>3, <1>4 DEF Next

LEMMA Invariance == Spec => []IInv
BY InitInvariant, InductiveStep, PTL DEF Spec

\* No subscriber ever misses a sample or is given one twice, however the actor's
\* steps, the handlers and the radio interleave, and no other request is answered
\* twice: FeedContiguous.
THEOREM FeedsHaveNoGaps == Spec => []FeedContiguous
BY Invariance, PTL DEF IInv

\* What reply's comment says of its try_send: there is always room for the one
\* answer, and someone to take it: AnswerFits.
THEOREM AnswersFit == Spec => []AnswerFits
<1>1. IInv => AnswerFits
    BY DEF IInv, ServedWaits, Waits, AnswerFits
<1> QED BY <1>1, Invariance, PTL

\* Nobody's feed stops without a cause of their own or a notice to them.
THEOREM DropsHaveCauses == Spec => DroppedForCause
<1> DEFINE Cause(c) == \/ ~Listening(c) \/ ~Room(c)
                       \/ sent'[c] \in {Append(sent[c], Error), Append(sent[c], StreamEnd)}
<1>1. ASSUME IInv, [Next]_vars, NEW c \in clients \ clients' PROVE Cause(c)
    <2>0. c \in Client
        BY <1>1 DEF IInv, TypeOK
    <2>1. CASE Effect
        <3>1. CASE Closed
            BY <2>0, <3>1 DEF Closed, TrySend
        <3>2. CASE Admitted \/ Joined \/ Replied \/ Published \/ Emptied \/ Idle
            BY <3>2, <1>1 DEF Admitted, Joined, Replied, Published, Record, Broadcast, Emptied, Idle,
                        Reaped
        <3> QED BY <2>1, <3>1, <3>2 DEF Effect
    <2>2. CASE UNCHANGED clients
        BY <2>2, <1>1
    <2> QED BY <1>1, <2>1, <2>2, ActorEffects, HandlerEffects
           DEF Next, RadioStep, Exit, StopAccepting, actor, vars, actorVars, IInv
<1>2. IInv /\ [Next]_vars => [\A c \in clients \ clients' : Cause(c)]_vars
    BY <1>1
<1> QED BY <1>2, Invariance, PTL DEF Spec, DroppedForCause

-----------------------------------------------------------------------------
\* The refinement: each step maps to a step of SampleFeed, or to a stutter.
LEMMA EffectMaps == ASSUME IInv, Effect PROVE [Feed!Next]_(Feed!vars)
<1> USE DEF Feed!Next, Feed!vars
<1>t. clients \subseteq Client /\ samples \in Nat /\ sent \in [Client -> Seq(Response)]
    BY DEF IInv, TypeOK
<1> DEFINE gone == clients \ clients'
<1>g. gone \in SUBSET Client
    BY <1>t
<1>1. CASE Admitted
    <2>1. /\ Head(cmdq) \in Client /\ handler[Head(cmdq)] = "recv"
          /\ sent[Head(cmdq)] = <<>> /\ Head(cmdq) \notin clients
        BY <1>1, HeadWaits DEF Admitted, Waits
    <2>2. CASE clients' = Reaped \cup {Head(cmdq)} /\ UNCHANGED sent
        <3>1. Feed!Join(Head(cmdq), gone)
            BY <1>1, <2>1, <2>2 DEF Feed!Join, Admitted, Reaped
        <3> QED BY <1>g, <2>1, <3>1
    <2>3. CASE clients' = Reaped /\ UNCHANGED sent
        <3>1. Feed!LetGo(gone)
            BY <1>1, <2>3 DEF Feed!LetGo, Admitted, Reaped
        <3> QED BY <1>g, <3>1
    <2>4. CASE clients' = Reaped /\ TrySend({Head(cmdq)}, Error)
        <3>1. sent' = [sent EXCEPT ![Head(cmdq)] = <<Error>>] \/ UNCHANGED sent
            BY <1>t, <2>1, <2>4, AnswerAlone
        <3>2. Feed!Answer(Head(cmdq), Error, gone) \/ Feed!LetGo(gone)
            BY <1>1, <2>1, <2>4, <3>1 DEF Feed!Answer, Feed!LetGo, Admitted, Reaped
        <3> QED BY <1>g, <2>1, <3>2, AnswersAreReplies
    <2> QED BY <1>1, <2>2, <2>3, <2>4 DEF Admitted
<1>2. CASE Joined
    <2>1. cur \in Client /\ Waits(cur)
        BY <1>2 DEF Joined, IInv, TypeOK, Serving, Serves, ServedWaits
    <2>2. Feed!Join(cur, {})
        BY <1>2, <2>1 DEF Feed!Join, Joined, Waits
    <2> QED BY <2>1, <2>2
<1>3. CASE Replied
    <2>1. cur \in Client /\ Waits(cur)
        BY <1>3 DEF Replied, IInv, TypeOK, ServedWaits
    <2>2. PICK m \in Feed!Reply : TrySend({cur}, m)
        BY <1>3 DEF Replied
    <2>3. sent' = [sent EXCEPT ![cur] = <<m>>] \/ UNCHANGED sent
        BY <1>t, <2>1, <2>2, AnswerAlone DEF Waits
    <2>4. Feed!Answer(cur, m, {}) \/ UNCHANGED <<samples, clients, sent>>
        BY <1>3, <2>1, <2>3 DEF Feed!Answer, Replied, Waits
    <2> QED BY <2>1, <2>4
<1>4. CASE Published
    <2>1. \A c \in Client : c \in clients \ gone <=> c \in clients /\ Listening(c) /\ Room(c)
        BY <1>t, <1>4 DEF Published, Record, Broadcast
    <2>2. sent' = [c \in Client |-> IF c \in clients \ gone
                                   THEN Append(sent[c], Feed!Sample(samples')) ELSE sent[c]]
        BY <1>4, <2>1 DEF Published, Record, Broadcast, TrySend, Feed!Sample, Measurement
    <2>3. Feed!Publish(gone)
        BY <1>t, <1>4, <2>2 DEF Feed!Publish, Published, Record, Broadcast
    <2> QED BY <1>g, <2>3
<1>5. CASE Closed
    <2> DEFINE told == {c \in Client : Listening(c) /\ Room(c)}
    <2>1. PICK m \in {Error, StreamEnd} : TrySend(clients, m)
        BY <1>5 DEF Closed
    <2>2. m \in Feed!Final
        BY DEF Error, StreamEnd, Feed!Final
    <2>3. Feed!Close(m, told)
        BY <1>5, <2>1 DEF Feed!Close, Closed, TrySend
    <2> QED BY <2>2, <2>3
<1>6. CASE Emptied
    BY <1>6 DEF Emptied
<1>7. CASE Idle
    <2>1. Feed!LetGo(gone)
        BY <1>7 DEF Idle, Feed!LetGo, Reaped
    <2> QED BY <1>g, <2>1
<1> QED BY <1>1, <1>2, <1>3, <1>4, <1>5, <1>6, <1>7 DEF Effect

\* The agent implements the feed it promises: ImplementsFeed.
THEOREM AgentImplementsFeed == Spec => ImplementsFeed
<1>1. Init => Feed!Init
    BY DEF Init, ActorInit, Feed!Init
<1>2. IInv /\ [Next]_vars => [Feed!Next]_(Feed!vars)
    <2> SUFFICES ASSUME IInv, [Next]_vars PROVE [Feed!Next]_(Feed!vars)
        OBVIOUS
    <2>1. CASE ActorStep \/ LastHandleGone
        BY <2>1, ActorEffects, EffectMaps DEF IInv
    <2>2. CASE ~(ActorStep \/ LastHandleGone)
        <3>1. UNCHANGED <<samples, clients, sent>>
            BY <2>2, HandlerEffects
               DEF Next, RadioStep, Exit, StopAccepting, actor, vars, actorVars
        <3> QED BY <3>1 DEF Feed!vars
    <2> QED BY <2>1, <2>2
<1> QED BY <1>1, <1>2, Invariance, PTL DEF Spec, ImplementsFeed, Feed!Spec

-----------------------------------------------------------------------------
\* Where the answer to a command is on its way: owed by the device, in the air
\* or in the assembler.
Elems(s) == {s[i] : i \in DOMAIN s}
InFlight == Elems(owed) \cup Elems(air) \cup Elems(buf)
IsAnswer(f) == f.kind = "status"

\* The stages at which a command that was sent has not been answered.
Due == {"oneRelisten", "oneWait", "oneDrain"}

(***************************************************************************)
(* An answer that is on its way is for the request being served, which was *)
(* sent, or for one that has been answered before, however late it comes;  *)
(* or nobody serves requests any more.                                     *)
(***************************************************************************)
AnswersDue ==
    \A f \in InFlight : IsAnswer(f) =>
        \/ at \in Due /\ f.of = cur
        \/ sent[f.of] # <<>>
        \/ at \in {"disconnect", "done"}

\* What the operators on sequences do to the elements.
LEMMA ElemsOfParts ==
    ASSUME NEW s \in Seq(Frame)
    PROVE  /\ Elems(<<>>) = {}
           /\ \A f : Elems(<<f>>) = {f}
           /\ \A f \in Frame : Elems(Append(s, f)) \subseteq Elems(s) \cup {f}
           /\ s # <<>> => Elems(Tail(s)) \subseteq Elems(s) /\ Head(s) \in Elems(s)
<1>1. Elems(<<>>) = {} /\ \A f : Elems(<<f>>) = {f}
    BY DEF Elems
<1>2. ASSUME NEW f \in Frame
      PROVE  Elems(Append(s, f)) \subseteq Elems(s) \cup {f}
    <2>1. DOMAIN Append(s, f) = 1..(Len(s) + 1) /\ DOMAIN s = 1..Len(s)
        OBVIOUS
    <2>2. \A i \in DOMAIN Append(s, f) : Append(s, f)[i] \in Elems(s) \cup {f}
        BY <2>1, AppendProperties DEF Elems
    <2> QED BY <2>2 DEF Elems
<1>3. s # <<>> => Elems(Tail(s)) \subseteq Elems(s) /\ Head(s) \in Elems(s)
    BY DEF Elems
<1> QED BY <1>1, <1>2, <1>3

LEMMA CutParts ==
    ASSUME NEW s \in Seq(Frame), NEW t \in Seq(Frame), NEW k \in 1..Len(t),
           NEW b, b = s \o SubSeq(t, 1, k), NEW a, a = SubSeq(t, k + 1, Len(t))
    PROVE  /\ \A i \in DOMAIN b : \/ i \in DOMAIN s /\ b[i] = s[i]
                                 \/ /\ i - Len(s) \in DOMAIN t /\ i - Len(s) <= k
                                    /\ b[i] = t[i - Len(s)]
           /\ \A i \in DOMAIN a : k + i \in DOMAIN t /\ i > 0 /\ a[i] = t[k + i]
<1>1. Len(s) \in Nat /\ Len(t) \in Nat /\ k \in Nat /\ k <= Len(t)
    OBVIOUS
<1>2. /\ SubSeq(t, 1, k) \in Seq(Frame) /\ Len(SubSeq(t, 1, k)) = k
      /\ \A i \in 1..k : SubSeq(t, 1, k)[i] = t[i]
    BY <1>1, SubSeqProperties
<1>3. /\ DOMAIN b = 1..(Len(s) + k)
      /\ \A i \in 1..Len(s) : b[i] = s[i]
      /\ \A i \in (Len(s) + 1)..(Len(s) + k) : b[i] = t[i - Len(s)]
    BY <1>1, <1>2, ConcatProperties
<1>4. /\ DOMAIN a = 1..(Len(t) - k)
      /\ \A i \in 1..(Len(t) - k) : a[i] = t[k + i]
    BY <1>1
<1>5. DOMAIN s = 1..Len(s) /\ DOMAIN t = 1..Len(t)
    OBVIOUS
<1>6. ASSUME NEW i \in DOMAIN b
      PROVE  \/ i \in DOMAIN s /\ b[i] = s[i]
             \/ i - Len(s) \in DOMAIN t /\ i - Len(s) <= k /\ b[i] = t[i - Len(s)]
    <2>1. CASE i \in 1..Len(s)
        BY <1>3, <1>5, <2>1
    <2>2. CASE i \in (Len(s) + 1)..(Len(s) + k)
        BY <1>1, <1>3, <1>5, <2>2
    <2> QED BY <1>1, <1>3, <2>1, <2>2
<1>7. \A i \in DOMAIN a : k + i \in DOMAIN t /\ i > 0 /\ a[i] = t[k + i]
    BY <1>1, <1>4, <1>5
<1> QED BY <1>6, <1>7

LEMMA ElemsOfCut ==
    ASSUME NEW s \in Seq(Frame), NEW t \in Seq(Frame), NEW k \in 1..Len(t)
    PROVE  /\ Elems(s \o SubSeq(t, 1, k)) \subseteq Elems(s) \cup Elems(t)
           /\ Elems(SubSeq(t, k + 1, Len(t))) \subseteq Elems(t)
<1> PICK b : b = s \o SubSeq(t, 1, k)
    OBVIOUS
<1> PICK a : a = SubSeq(t, k + 1, Len(t))
    OBVIOUS
<1>1. /\ \A i \in DOMAIN b : \/ i \in DOMAIN s /\ b[i] = s[i]
                             \/ i - Len(s) \in DOMAIN t /\ b[i] = t[i - Len(s)]
      /\ \A i \in DOMAIN a : k + i \in DOMAIN t /\ a[i] = t[k + i]
    BY CutParts
<1>2. \A i \in DOMAIN b : b[i] \in Elems(s) \cup Elems(t)
    BY <1>1 DEF Elems
<1>3. \A i \in DOMAIN a : a[i] \in Elems(t)
    BY <1>1 DEF Elems
<1> QED BY <1>2, <1>3 DEF Elems

-----------------------------------------------------------------------------
\* What travels at a step was on its way before, but for what is written.
LEMMA RadioFlow ==
    ASSUME BleTypeOK,
           \/ ListenOk \/ ListenFails \/ ReconnectOk \/ ReconnectFails \/ Radio
           \/ WriteFails /\ (KeepStream \/ DropStream)
    PROVE  Elems(owed') \cup Elems(air') \subseteq Elems(owed) \cup Elems(air)
<1>0. /\ Elems(<<>>) = {}
      /\ owed # <<>> => /\ Elems(Tail(owed)) \subseteq Elems(owed)
                        /\ Head(owed) \in Elems(owed) /\ Head(owed) \in Frame
    BY ElemsOfParts, HeadTailProperties DEF BleTypeOK
<1>1. CASE ListenOk \/ ListenFails \/ ReconnectOk \/ ReconnectFails
    BY <1>0, <1>1 DEF ListenOk, ListenFails, ReconnectOk, ReconnectFails, DropStream
<1>2. CASE WriteFails /\ (KeepStream \/ DropStream)
    BY <1>0, <1>2 DEF WriteFails, KeepStream, DropStream
<1>3. CASE DeviceSend
    <2>1. Elems(Append(air, Head(owed))) \subseteq Elems(air) \cup {Head(owed)}
        BY <1>0, <1>3, ElemsOfParts DEF DeviceSend, BleTypeOK
    <2> QED BY <1>0, <1>3, <2>1 DEF DeviceSend
<1>4. CASE LinkDrops \/ StreamBreaks
    BY <1>0, <1>4 DEF LinkDrops, StreamBreaks, KeepStream
<1> QED BY <1>1, <1>2, <1>3, <1>4 DEF Radio

LEMMA WriteFlow ==
    ASSUME BleTypeOK, NEW f \in Frame, WriteSame(f) \/ WriteReconnected(f)
    PROVE  Elems(owed') \cup Elems(air') \subseteq Elems(owed) \cup Elems(air) \cup {f}
<1>1. Elems(Append(owed, f)) \subseteq Elems(owed) \cup {f} /\ Elems(<<f>>) = {f}
    BY ElemsOfParts DEF BleTypeOK
<1>2. CASE WriteSame(f)
    BY <1>1, <1>2 DEF WriteSame, Ask
<1>3. CASE owed' = <<f>> /\ KeepStream
    BY <1>1, <1>3 DEF KeepStream
<1> QED BY <1>2, <1>3 DEF WriteReconnected

LEMMA NotificationFlow ==
    ASSUME TypeOK, Notification
    PROVE  InFlight' \subseteq InFlight
<1>1. PICK k \in 1..Len(air) :
            /\ buf' = buf \o SubSeq(air, 1, k)
            /\ air' = SubSeq(air, k + 1, Len(air))
    BY DEF Notification
<1>2. Elems(buf') \subseteq Elems(buf) \cup Elems(air) /\ Elems(air') \subseteq Elems(air)
    BY <1>1, ElemsOfCut DEF TypeOK, BleTypeOK
<1> QED BY <1>2 DEF Notification, InFlight

LEMMA FlowStep ==
    ASSUME TypeOK, Serving, ActorStep \/ LastHandleGone \/ RadioStep
    PROVE  \/ InFlight' \subseteq InFlight \cup {Meas}
           \/ OneWrite /\ InFlight' \subseteq InFlight \cup {Command(cur)}
<1>0. /\ BleTypeOK /\ buf \in Seq(Frame) /\ Meas \in Frame /\ Elems(<<>>) = {}
      /\ buf # <<>> => Elems(Tail(buf)) \subseteq Elems(buf)
    BY FramesOfRadio, ElemsOfParts DEF TypeOK
<1> DEFINE Kept == UNCHANGED <<owed, air, buf>>
           Fewer == /\ Elems(owed') \cup Elems(air') \subseteq Elems(owed) \cup Elems(air)
                    /\ buf' = buf \/ buf' = <<>>
<1>a. Kept => InFlight' \subseteq InFlight
    BY DEF InFlight
<1>b. Fewer => InFlight' \subseteq InFlight
    BY <1>0 DEF InFlight
<1>1. CASE TakeRequest \/ Tick \/ EndLoop \/ DrainEmpty \/ StreamOver \/ OneDrainEmpty
    <2>1. Kept
        BY <1>1 DEF TakeRequest, JoinStream, TakeSubscribe, TakeOneShot, TakeBadRtc, Accept,
            Tick, EndLoop, DrainEmpty, StreamOver, OneDrainEmpty, ble
    <2> QED BY <1>a, <2>1
<1>2. CASE \/ SubListenOk \/ SubListenFails \/ PollListen \/ PollRelisten
           \/ OneListenOk \/ OneListenFails \/ OneRelistenOk \/ OneRelistenFails \/ Reconnect
    <2>1. /\ ListenOk \/ ListenFails \/ ReconnectOk \/ ReconnectFails
          /\ buf' = buf \/ buf' = <<>>
        BY <1>2 DEF SubListenOk, SubListenFails, PollListen, PollRelisten, OneListenOk,
            OneListenFails, OneRelistenOk, OneRelistenFails, Reconnect
    <2>2. Fewer
        BY <1>0, <2>1, RadioFlow
    <2> QED BY <1>b, <2>2
<1>3. CASE Notified \/ OneWaitNotified
    BY <1>3, NotificationFlow DEF Notified, OneWaitNotified
<1>4. CASE Drain \/ OneDrainOther
    <2>1. UNCHANGED <<owed, air>> /\ buf # <<>> /\ buf' = Tail(buf)
        BY <1>4 DEF Drain, OneDrainOther, Yield, ble
    <2> QED BY <1>0, <2>1 DEF InFlight
<1>5. CASE OneDrainMatch
    <2>1. owed' = owed /\ (air' = air \/ air' = <<>>) /\ buf # <<>> /\ buf' = Tail(buf)
        BY <1>5 DEF OneDrainMatch, Unsubscribe, KeepStream, DropStream
    <2> QED BY <1>0, <2>1 DEF InFlight
<1>6. CASE OneWaitOver
    <2>1. owed' = owed /\ (air' = air \/ air' = <<>>) /\ buf' = buf
        BY <1>6 DEF OneWaitOver, Unsubscribe, KeepStream, DropStream
    <2> QED BY <1>0, <2>1 DEF InFlight
<1>7. CASE OneWriteFails \/ (PollWrite /\ WriteFails /\ DropStream)
    <2>1. WriteFails /\ (KeepStream \/ DropStream) /\ buf' = buf
        BY <1>7 DEF OneWriteFails, PollWrite, Unsubscribe
    <2>2. Fewer
        BY <1>0, <2>1, RadioFlow
    <2> QED BY <1>b, <2>2
<1>8. CASE PollWrite /\ ~(WriteFails /\ DropStream)
    <2>1. (WriteSame(Meas) \/ WriteReconnected(Meas)) /\ buf' = buf
        BY <1>8 DEF PollWrite, AbortStream
    <2> QED BY <1>0, <2>1, WriteFlow DEF InFlight
<1>9. CASE OneWrite
    <2>1. (WriteSame(Command(cur)) \/ WriteReconnected(Command(cur))) /\ buf' = buf
        BY <1>9 DEF OneWrite
    <2>2. Command(cur) \in Frame
        BY <1>9, FramesOfRadio DEF Command, OneWrite, Serving, Serves, TypeOK
    <2> QED BY <1>0, <1>9, <2>1, <2>2, WriteFlow DEF InFlight
<1>10. CASE Disconnect
    BY <1>0, <1>10 DEF Disconnect, DropStream, InFlight
<1>11. CASE RadioStep
    <2>1. Fewer
        BY <1>0, <1>11, RadioFlow DEF RadioStep, actor
    <2> QED BY <1>b, <2>1
<1> QED BY <1>1, <1>2, <1>3, <1>4, <1>5, <1>6, <1>7, <1>8, <1>9, <1>10, <1>11
       DEF ActorStep, StreamStep, OneShotStep, Break, LastHandleGone

-----------------------------------------------------------------------------
\* What is sent, if anything, to whom: a result to the one served, who gave a
\* command, and none of one who is still to be served.
Truthful ==
    UNCHANGED sent \/ \E S \in SUBSET Client, m \in Response :
        /\ TrySend(S, m)
        /\ m.type = "result" =>
            /\ S = {cur} /\ cur \in Client /\ req[cur] = "command"
            /\ \E d \in Client : m = Result(d) /\ (d = cur \/ sent[d] # <<>>)

LEMMA RepliesAreTruthful ==
    ASSUME IInv, AnswersDue, ActorStep \/ LastHandleGone
    PROVE  Truthful
<1>0. /\ TypeOK /\ Serving /\ clients \subseteq Client /\ samples \in Nat
      /\ cur # None => cur \in Client
      /\ Error \in Response /\ StreamEnd \in Response
      /\ \A k \in Nat : Measurement(k) \in Response
    BY ResponseTypes DEF IInv, TypeOK
<1>a. ASSUME NEW S \in SUBSET Client, NEW m \in {Error, StreamEnd}, TrySend(S, m)
      PROVE  Truthful
    <2>1. m \in Response /\ m.type # "result"
        BY <1>0, <1>a DEF Error, StreamEnd
    <2> QED BY <1>a, <2>1 DEF Truthful
<1>b. Record => Truthful
    <2> SUFFICES ASSUME Record PROVE Truthful
        OBVIOUS
    <2>1. /\ TrySend(clients, Measurement(samples + 1))
          /\ Measurement(samples + 1) \in Response
        BY <1>0 DEF Record, Broadcast
    <2>2. Measurement(samples + 1).type # "result"
        BY DEF Measurement
    <2> QED BY <1>0, <2>1, <2>2 DEF Truthful
<1>1. CASE TakeRequest
    <2>1. cmdq # <<>> /\ Head(cmdq) \in Client
        BY <1>0, <1>1, HeadTailProperties
           DEF TakeRequest, JoinStream, TakeSubscribe, TakeOneShot, TakeBadRtc, Accept, TypeOK
    <2>2. UNCHANGED sent \/ TrySend({Head(cmdq)}, Error)
        BY <1>1 DEF TakeRequest, JoinStream, TakeSubscribe, TakeOneShot, TakeBadRtc
    <2> QED BY <1>a, <2>1, <2>2 DEF Truthful
<1>2. CASE SubListenFails \/ OneListenFails \/ OneWriteFails \/ OneRelistenFails \/ OneWaitOver
    <2>1. cur \in Client /\ TrySend({cur}, Error)
        BY <1>0, <1>2 DEF SubListenFails, OneListenFails, OneWriteFails, OneRelistenFails,
            OneWaitOver, Reply, Serving, Serves
    <2> QED BY <1>a, <2>1
<1>3. CASE Drain \/ OneDrainOther
    <2>1. Record \/ UNCHANGED sent
        BY <1>3 DEF Drain, OneDrainOther, Yield
    <2> QED BY <1>b, <2>1 DEF Truthful
<1>4. CASE Reconnect \/ PollListen \/ PollWrite \/ PollRelisten \/ EndLoop
    <2>1. UNCHANGED sent \/ \E m \in {Error, StreamEnd} : TrySend(clients, m)
        BY <1>4 DEF Reconnect, PollListen, PollWrite, PollRelisten, AbortStream, EndLoop
    <2> QED BY <1>0, <1>a, <2>1 DEF Truthful
<1>5. CASE OneDrainMatch
    <2>1. /\ cur \in Client /\ at = "oneDrain" /\ buf # <<>>
          /\ Head(buf) \in Frame /\ Head(buf) \in InFlight
        BY <1>0, <1>5, HeadTailProperties, ElemsOfParts
           DEF OneDrainMatch, Serving, Serves, TypeOK, InFlight
    <2>2. TrySend({cur}, Answer(Head(buf))) \/ TrySend({cur}, Error)
        BY <1>5 DEF OneDrainMatch, Reply
    <2>3. CASE IsAnswer(Head(buf)) /\ TrySend({cur}, Answer(Head(buf)))
        <3>1. Answer(Head(buf)) = Result(Head(buf).of) /\ req[cur] = "command"
            BY <1>5, <2>3 DEF OneDrainMatch, Matches, Answer, IsAnswer
        <3>2. Head(buf).of = cur \/ sent[Head(buf).of] # <<>>
            BY <2>1, <2>3 DEF AnswersDue
        <3>3. Head(buf).of \in Client
            BY <2>1, <2>3 DEF Frame, IsAnswer, Meas, Status
        <3>4. Result(Head(buf).of) \in Response
            BY <3>3, ResponseTypes
        <3> QED BY <2>1, <2>3, <3>1, <3>2, <3>3, <3>4 DEF Truthful
    <2>4. CASE ~IsAnswer(Head(buf))
        <3>1. Answer(Head(buf)) = Measurement(0)
            BY <2>4 DEF Answer, IsAnswer
        <3>2. Measurement(0) \in Response /\ Measurement(0).type # "result"
            BY <1>0 DEF Measurement
        <3> QED BY <1>a, <2>1, <2>2, <3>1, <3>2 DEF Truthful
    <2> QED BY <1>a, <2>1, <2>2, <2>3, <2>4
<1>6. CASE \/ SubListenOk \/ Notified \/ DrainEmpty \/ StreamOver \/ OneListenOk \/ OneWrite
           \/ OneRelistenOk \/ OneWaitNotified \/ OneDrainEmpty \/ Tick \/ Disconnect
    BY <1>6 DEF SubListenOk, Notified, DrainEmpty, StreamOver, OneListenOk, OneWrite,
        OneRelistenOk, OneWaitNotified, OneDrainEmpty, Tick, Disconnect, Quiet, Truthful
<1> QED BY <1>1, <1>2, <1>3, <1>4, <1>5, <1>6
       DEF ActorStep, StreamStep, OneShotStep, Break, LastHandleGone

\* What was put in a channel stays on record.
LEMMA SentGrows ==
    ASSUME TypeOK, Truthful, NEW x \in Client, sent[x] # <<>>
    PROVE  sent'[x] # <<>>
<1>1. sent[x] \in Seq(Response)
    BY DEF TypeOK
<1>2. \A m : Append(sent[x], m) # <<>>
    BY <1>1
<1> QED BY <1>2 DEF Truthful, TrySend

\* The answer to the request being served always fits.
LEMMA ServedIsAnswered ==
    ASSUME IInv, cur # None, NEW m, TrySend({cur}, m)
    PROVE  sent'[cur] # <<>>
<1>1. cur \in Client /\ handler[cur] = "recv" /\ sent[cur] = <<>> /\ taken[cur] \in Nat
    BY DEF IInv, TypeOK, ServedWaits, Waits
<1>2. Room(cur)
    BY <1>1, QueueLenIsPositive DEF Room
<1>3. sent'[cur] = Append(sent[cur], m)
    BY <1>1, <1>2 DEF TrySend, Listening
<1>4. Append(<<>>, m) # <<>>
    OBVIOUS
<1> QED BY <1>1, <1>3, <1>4

LEMMA AnswersStep ==
    ASSUME IInv, AnswersDue, [Next]_vars
    PROVE  AnswersDue'
<1> USE DEF Goto
<1>0. TypeOK /\ Serving /\ ~IsAnswer(Meas)
    BY DEF IInv, IsAnswer, Meas
<1>a. \A f \in InFlight : IsAnswer(f) => f.of \in Client
    <2>1. InFlight \subseteq Frame
        BY <1>0 DEF TypeOK, BleTypeOK, InFlight, Elems
    <2>2. \A f \in Frame : IsAnswer(f) => f.of \in Client
        BY DEF Frame, IsAnswer, Meas, Status
    <2> QED BY <2>1, <2>2
<1>1. CASE ~(ActorStep \/ LastHandleGone \/ RadioStep)
    <2>1. UNCHANGED <<at, cur, ble, buf, sent>>
        BY <1>1 DEF Next, Exit, StopAccepting, HandlerStep, Connect, HangUp, NoRequest,
            Deliver, ChannelOver, Queue, Control, Others, actor, vars, actorVars
    <2>2. InFlight' = InFlight
        BY <2>1 DEF InFlight, ble
    <2> QED BY <2>1, <2>2 DEF AnswersDue
<1>2. CASE RadioStep
    <2>1. UNCHANGED <<at, cur, sent>>
        BY <1>2 DEF RadioStep, actor
    <2>2. InFlight' \subseteq InFlight \cup {Meas}
        BY <1>0, <1>2, FlowStep DEF RadioStep, OneWrite, actor
    <2> QED BY <1>0, <2>1, <2>2 DEF AnswersDue
<1>s. ASSUME ActorStep \/ LastHandleGone
      PROVE  \A x \in Client : sent[x] # <<>> => sent'[x] # <<>>
    BY <1>0, <1>s, RepliesAreTruthful, SentGrows
<1>3. ASSUME at \notin Due \cup {"disconnect", "done"}, ActorStep \/ LastHandleGone,
             ~OneWrite
      PROVE  AnswersDue'
    <2>1. InFlight' \subseteq InFlight \cup {Meas}
        BY <1>0, <1>3, FlowStep
    <2> QED BY <1>0, <1>a, <1>s, <1>3, <2>1 DEF AnswersDue
<1>4. CASE OneWrite
    <2>1. /\ at = "oneWrite" /\ at' \in {"oneWait", "oneRelisten"}
          /\ UNCHANGED <<cur, sent>>
        BY <1>4 DEF OneWrite, Quiet, Still
    <2>2. InFlight' \subseteq InFlight \cup {Meas, Command(cur)}
        BY <1>0, <1>4, FlowStep DEF ActorStep, OneShotStep
    <2>3. IsAnswer(Command(cur)) => Command(cur).of = cur
        BY <1>0 DEF Command, Status
    <2> QED BY <1>0, <2>1, <2>2, <2>3 DEF AnswersDue, Due
<1>5. CASE OneRelistenOk \/ OneWaitNotified \/ OneDrainOther \/ OneDrainEmpty
    <2>1. at \in Due /\ at' \in Due /\ cur' = cur
        BY <1>5 DEF OneRelistenOk, OneWaitNotified, OneDrainOther, Yield, OneDrainEmpty, Due
    <2>2. ActorStep /\ ~OneWrite
        BY <1>5, <2>1 DEF ActorStep, OneShotStep, OneWrite, Due
    <2>3. InFlight' \subseteq InFlight \cup {Meas}
        BY <1>0, <2>2, FlowStep
    <2> QED BY <1>0, <1>a, <1>s, <2>1, <2>2, <2>3 DEF AnswersDue, Due
<1>6. CASE OneRelistenFails \/ OneWaitOver \/ OneDrainMatch
    <2>1. at \in Due /\ \E m : TrySend({cur}, m)
        BY <1>6 DEF OneRelistenFails, OneWaitOver, OneDrainMatch, Reply, Due
    <2>2. ActorStep /\ ~OneWrite /\ cur # None
        BY <1>0, <1>6, <2>1 DEF ActorStep, OneShotStep, OneWrite, Due, Serving, Serves
    <2>3. sent'[cur] # <<>>
        BY <2>1, <2>2, ServedIsAnswered
    <2>4. InFlight' \subseteq InFlight \cup {Meas}
        BY <1>0, <2>2, FlowStep
    <2> QED BY <1>0, <1>a, <1>s, <2>1, <2>2, <2>3, <2>4 DEF AnswersDue, Due
<1>7. CASE Disconnect \/ EndLoop
    BY <1>7 DEF Disconnect, EndLoop, AnswersDue
<1>8. CASE \/ TakeRequest \/ Tick \/ StreamStep \/ OneListenOk \/ OneListenFails
           \/ OneWriteFails
    <2>1. at \notin Due \cup {"disconnect", "done"} /\ ~OneWrite
        BY <1>8 DEF TakeRequest, JoinStream, TakeSubscribe, TakeOneShot, TakeBadRtc, Accept,
            Tick, StreamStep, SubListenOk, SubListenFails, Notified, Drain, DrainEmpty,
            StreamOver, Reconnect, PollListen, PollWrite, PollRelisten, OneListenOk,
            OneListenFails, OneWriteFails, OneWrite, Reply, Due
    <2> QED BY <1>3, <1>8, <2>1 DEF ActorStep, OneShotStep
<1> QED BY <1>1, <1>2, <1>4, <1>5, <1>6, <1>7, <1>8
       DEF ActorStep, OneShotStep, Break, LastHandleGone

LEMMA ResultStep ==
    ASSUME IInv, AnswersDue, ResultsInTurn, [Next]_vars
    PROVE  ResultsInTurn'
<1>0. TypeOK /\ sent \in [Client -> Seq(Response)]
    BY DEF IInv, TypeOK
<1>1. Truthful /\ \A c \in Client : sent[c] # <<>> => req'[c] = req[c]
    <2>1. CASE ActorStep \/ LastHandleGone
        BY <1>0, <2>1, RepliesAreTruthful, ActorEffects DEF IInv, Effect, Still
    <2>2. ASSUME NEW x \in Client, Connect(x) \/ HangUp(x) \/ HandlerStep(x)
          PROVE  Truthful /\ \A c \in Client : sent[c] # <<>> => req'[c] = req[c]
        <3>1. sent[x] # <<>> => handler[x] \notin {"none", "reading"}
            BY DEF IInv, Untouched
        <3> QED BY <2>2, <3>1, HandlerEffects DEF Truthful
    <2>3. CASE UNCHANGED <<sent, req>>
        BY <2>3 DEF Truthful
    <2> QED BY <2>1, <2>2, <2>3
           DEF Next, RadioStep, Exit, StopAccepting, vars, actorVars
<1>2. \A c \in Client : sent[c] # <<>> => sent'[c] # <<>>
    BY <1>0, <1>1, SentGrows
<1> SUFFICES ASSUME NEW c \in Client, NEW i \in DOMAIN sent'[c],
                    sent'[c][i].type = "result"
             PROVE  /\ req'[c] = "command"
                    /\ \E d \in Client : sent'[c][i] = Result(d) /\ (d = c \/ sent'[d] # <<>>)
    BY DEF ResultsInTurn
<1>3. CASE i \in DOMAIN sent[c] /\ sent'[c][i] = sent[c][i]
    <2>1. sent[c] # <<>>
        BY <1>3
    <2>2. /\ req[c] = "command"
          /\ \E d \in Client : sent[c][i] = Result(d) /\ (d = c \/ sent[d] # <<>>)
        BY <1>3 DEF ResultsInTurn
    <2> QED BY <1>1, <1>2, <1>3, <2>1, <2>2
<1>4. sent' # sent => req' = req
    <2>1. CASE ActorStep \/ LastHandleGone
        BY <1>0, <2>1, ActorEffects DEF IInv, Effect, Still
    <2>2. CASE ~(ActorStep \/ LastHandleGone)
        BY <2>2, HandlerEffects
           DEF Next, RadioStep, Exit, StopAccepting, vars, actorVars
    <2> QED BY <2>1, <2>2
<1>5. ASSUME NEW S \in SUBSET Client, NEW m \in Response, TrySend(S, m),
             m.type = "result" =>
                /\ S = {cur} /\ cur \in Client /\ req[cur] = "command"
                /\ \E d \in Client : m = Result(d) /\ (d = cur \/ sent[d] # <<>>),
             ~(i \in DOMAIN sent[c] /\ sent'[c][i] = sent[c][i])
      PROVE  /\ req'[c] = "command"
             /\ \E d \in Client : sent'[c][i] = Result(d) /\ (d = c \/ sent'[d] # <<>>)
    <2>1. c \in S /\ sent'[c] = Append(sent[c], m)
        BY <1>0, <1>5 DEF TrySend
    <2>2. sent'[c][i] = m
        <3>1. /\ DOMAIN sent[c] = 1..Len(sent[c]) /\ Len(sent[c]) \in Nat
              /\ DOMAIN sent'[c] = 1..(Len(sent[c]) + 1)
              /\ sent'[c][Len(sent[c]) + 1] = m
              /\ \A j \in 1..Len(sent[c]) : sent'[c][j] = sent[c][j]
            BY <1>0, <2>1, AppendProperties
        <3> QED BY <1>5, <3>1
    <2>3. /\ c = cur /\ req[c] = "command"
          /\ \E d \in Client : m = Result(d) /\ (d = c \/ sent[d] # <<>>)
        BY <1>5, <2>1, <2>2
    <2>4. req'[c] = "command"
        <3>1. Append(sent[c], m) # sent[c]
            BY <1>0, <1>5, <2>1
        <3> QED BY <1>4, <2>1, <2>3, <3>1
    <2> QED BY <1>2, <2>2, <2>3, <2>4
<1> QED BY <1>1, <1>3, <1>5 DEF Truthful

\* A result is given to a client that gave a command, and one of another's only
\* if that client's own turn was over: however late the answers come, whatever the
\* link does and whoever hangs up (server.rs, oneshot and next_matching_frame).
THEOREM ResultsComeInTurn == Spec => []ResultsInTurn
<1>1. Init => AnswersDue /\ ResultsInTurn
    <2> SUFFICES ASSUME Init PROVE AnswersDue /\ ResultsInTurn
        OBVIOUS
    <2>1. /\ owed = <<>> /\ air = <<>> /\ buf = <<>>
          /\ \A c \in Client : sent[c] = <<>>
        BY DEF Init, BleInit, ActorInit
    <2>2. InFlight = {}
        BY <2>1 DEF InFlight, Elems
    <2> QED BY <2>1, <2>2 DEF AnswersDue, ResultsInTurn
<1>2. IInv /\ AnswersDue /\ ResultsInTurn /\ [Next]_vars => AnswersDue' /\ ResultsInTurn'
    BY AnswersStep, ResultStep
<1> QED BY <1>1, <1>2, Invariance, PTL DEF Spec
=============================================================================
