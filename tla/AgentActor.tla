----------------------------- MODULE AgentActor -----------------------------
(***************************************************************************)
(* The agent's actor: actor_loop and impl Actor of src/agent/server.rs,    *)
(* which owns the BLE connection and serves every client over it, with the *)
(* channels that carry requests to it and responses back.                  *)
(*                                                                         *)
(* The actor is one task.  It gives up the processor where the code awaits *)
(* - the stages below - and between two frames of one notification, where  *)
(* the connection handlers, which run on other threads, can get in.        *)
(*                                                                         *)
(* A definition X_Y is X with the mistake Y in it, as in AgentClaim.       *)
(***************************************************************************)
EXTENDS BleLink

CONSTANTS PollAlways, \* the metrics endpoint keeps the device polled
          QueueLen,   \* CLIENT_QUEUE_LEN
          MaxSamples  \* bound: no poll starts after so many measurements

ASSUME PollAlwaysIsBoolean == PollAlways \in BOOLEAN
ASSUME QueueLenIsPositive == QueueLen \in Nat \ {0}
ASSUME MaxSamplesIsNat == MaxSamples \in Nat

VARIABLES
    at,          \* the await or the loop that the actor is in
    cur,         \* the client whose request the actor serves, or None
    was,         \* oneshot's was_streaming
    cmdq,        \* the requests in the unbounded channel to the actor
    req,         \* what each client asked for
    clients,     \* Clients.list: the subscribers; status reports how many
    connected,   \* AgentStats.connected
    samples,     \* AgentStats.samples
    buf,         \* the frames the assembler holds completed but not yielded
    sent,        \* everything ever put in each client's response channel
    taken,       \* how much of it the client's handler has taken out
    handler,     \* where each client's connection handler is
    stop         \* actor_shutdown holds a permit

actor == <<at, cur, was, clients, connected, samples, buf>>
actorVars == <<ble, actor, cmdq, req, sent, taken, handler, stop>>

OneShot == {"get_rtc", "command"}
ActorBound == {"subscribe", "bad_rtc"} \cup OneShot

\* The stages at which shutdown can take the actor out of what it is doing.
Awaits == {"select", "subListen", "oneListen", "oneWrite", "oneRelisten", "oneWait",
           "pollListen", "pollWrite", "pollRelisten", "reconnect"}
Stages == Awaits \cup {"drain", "oneDrain", "disconnect", "done"}

-----------------------------------------------------------------------------
\* Responses.  A measurement has the number of the sample it is; the answer to
\* GetRtc, a measurement that is no sample, has the number 0.
Measurement(n) == [type |-> "measurement", n |-> n, of |-> None]
Result(c) == [type |-> "result", n |-> 0, of |-> c]
Error == [type |-> "error", n |-> 0, of |-> None]
StreamEnd == [type |-> "end", n |-> 0, of |-> None]

Response == [type : {"measurement", "result", "error", "end"},
             n : Nat, of : Client \cup {None}]

\* The receiver is the handler's; a handler that has ended has dropped it.
Listening(c) == handler[c] = "recv"

Room(c) == Len(sent[c]) - taken[c] < QueueLen

\* try_send of m to everyone in S.
TrySend(S, m) ==
    sent' = [c \in Client |-> IF c \in S /\ Listening(c) /\ Room(c)
                              THEN Append(sent[c], m) ELSE sent[c]]


\* Clients::reap, before anything else a request or a tick does.
Reaped == {c \in clients : Listening(c)}

\* Slip: a client that lags is kept, and misses the sample.
Broadcast_LagTolerated(m) ==
    /\ TrySend(clients, m)
    /\ clients' = Reaped

\* Slip: one client that lags takes everyone's feed down.
Broadcast_AllOrNone(m) ==
    /\ TrySend(clients, m)
    /\ clients' = IF \A c \in clients : Room(c) THEN Reaped ELSE {}

\* Clients::broadcast: whoever has hung up or has no room is dropped.
Broadcast(m) ==
    /\ TrySend(clients, m)
    /\ clients' = {c \in clients : Listening(c) /\ Room(c)}

\* AgentStats::record_sample and Clients::broadcast.
Record ==
    /\ samples' = samples + 1
    /\ connected' = TRUE
    /\ Broadcast(Measurement(samples + 1))

Goto(stage) == at' = stage

\* Slip: the clients are told, and not forgotten.
AbortStream_Kept ==
    /\ DropStream
    /\ connected' = FALSE
    /\ TrySend(clients, Error)
    /\ UNCHANGED clients

\* Actor::abort_stream.
AbortStream ==
    /\ DropStream
    /\ connected' = FALSE
    /\ TrySend(clients, Error)
    /\ clients' = {}

\* What an action of the actor leaves alone unless it says otherwise.
Still == UNCHANGED <<req, taken, handler>>
Quiet == UNCHANGED <<connected, samples, sent>> /\ Still

-----------------------------------------------------------------------------
\* Actor::handle: the next request, of this kind.
Accept(kinds) ==
    /\ at = "select" /\ cmdq # <<>>
    /\ req[Head(cmdq)] \in kinds
    /\ cmdq' = Tail(cmdq)
    /\ UNCHANGED <<ble, buf, connected, samples, stop>> /\ Still

\* Subscribe with a subscription in place reuses it.
JoinStream ==
    /\ Accept({"subscribe"}) /\ stream # "none"
    /\ clients' = Reaped \cup {Head(cmdq)}
    /\ UNCHANGED <<at, cur, was, sent>>

TakeSubscribe ==
    /\ Accept({"subscribe"}) /\ stream = "none"
    /\ clients' = Reaped
    /\ cur' = Head(cmdq) /\ Goto("subListen")
    /\ UNCHANGED <<was, sent>>

TakeOneShot ==
    /\ Accept(OneShot)
    /\ clients' = Reaped
    /\ cur' = Head(cmdq) /\ was' = (stream # "none")
    /\ Goto(IF stream # "none" THEN "oneWrite" ELSE "oneListen")
    /\ UNCHANGED sent

\* SetRtc with a time that cannot be parsed or put in a frame.
TakeBadRtc ==
    /\ Accept({"bad_rtc"})
    /\ clients' = Reaped
    /\ TrySend({Head(cmdq)}, Error)
    /\ UNCHANGED <<at, cur, was>>

SubListenOk ==
    /\ at = "subListen"
    /\ ListenOk /\ buf' = <<>>
    /\ clients' = clients \cup {cur}
    /\ cur' = None /\ Goto("select")
    /\ UNCHANGED <<was, cmdq, stop>> /\ Quiet

SubListenFails ==
    /\ at = "subListen"
    /\ ListenFails
    /\ TrySend({cur}, Error)
    /\ cur' = None /\ Goto("select")
    /\ UNCHANGED <<was, clients, connected, samples, buf, cmdq, stop>> /\ Still

-----------------------------------------------------------------------------
\* Slip: the subscribers are given the reply as well.
Reply_Broadcast(m) ==
    /\ Prompt => Settled
    /\ TrySend({cur} \cup clients, m)
    /\ cur' = None /\ was' = FALSE /\ Goto("select")
    /\ UNCHANGED <<clients, connected, samples, cmdq, stop>> /\ Still

\* Actor::oneshot, over: the subscription it took out is dropped.  A device
\* that answers promptly has answered by then, heard or not.
Reply(m) ==
    /\ Prompt => Settled
    /\ TrySend({cur}, m)
    /\ cur' = None /\ was' = FALSE /\ Goto("select")
    /\ UNCHANGED <<clients, connected, samples, cmdq, stop>> /\ Still

Unsubscribe == IF was THEN KeepStream ELSE DropStream

OneListenOk ==
    /\ at = "oneListen"
    /\ ListenOk /\ buf' = <<>>
    /\ Goto("oneWrite")
    /\ UNCHANGED <<cur, was, clients, cmdq, stop>> /\ Quiet

OneListenFails ==
    /\ at = "oneListen"
    /\ ListenFails
    /\ Reply(Error) /\ UNCHANGED buf

Command(c) == IF req[c] = "command" THEN Status(c) ELSE Meas

OneWrite ==
    /\ at = "oneWrite"
    /\ \/ WriteSame(Command(cur)) /\ Goto("oneWait")
       \/ WriteReconnected(Command(cur)) /\ Goto("oneRelisten")
    /\ UNCHANGED <<cur, was, clients, buf, cmdq, stop>> /\ Quiet

OneWriteFails ==
    /\ at = "oneWrite"
    /\ WriteFails /\ Unsubscribe
    /\ Reply(Error) /\ UNCHANGED buf

OneRelistenOk ==
    /\ at = "oneRelisten"
    /\ ListenOk /\ buf' = <<>>
    /\ Goto("oneWait")
    /\ UNCHANGED <<cur, was, clients, cmdq, stop>> /\ Quiet

OneRelistenFails ==
    /\ at = "oneRelisten"
    /\ ListenFails
    /\ Reply(Error) /\ UNCHANGED buf

\* The next notification: frames of the stream, in order, one or more of them.
Notification ==
    /\ \E k \in 1..Len(air) :
        /\ buf' = buf \o SubSeq(air, 1, k)
        /\ air' = SubSeq(air, k + 1, Len(air))
    /\ UNCHANGED <<link, owed, stream>>

OneWaitNotified ==
    /\ at = "oneWait"
    /\ Notification
    /\ Goto("oneDrain")
    /\ UNCHANGED <<cur, was, clients, cmdq, stop>> /\ Quiet

\* Slip: no timeout.
OneWaitOver_Patient ==
    /\ at = "oneWait"
    /\ stream = "ended" /\ air = <<>>
    /\ UNCHANGED <<link, owed>> /\ Unsubscribe
    /\ Reply(Error) /\ UNCHANGED buf

\* Slip: a request that times out is let go of without an answer.
OneWaitOver_Silent ==
    /\ at = "oneWait"
    /\ Prompt => Settled
    /\ UNCHANGED <<link, owed, buf>> /\ Unsubscribe
    /\ cur' = None /\ was' = FALSE /\ Goto("select")
    /\ UNCHANGED <<clients, cmdq, stop>> /\ Quiet

\* COMMAND_TIMEOUT, or the end of the stream.
OneWaitOver ==
    /\ at = "oneWait"
    /\ \/ Prompt => owed = <<>> /\ air = <<>>
       \/ stream = "ended" /\ air = <<>>
    /\ UNCHANGED <<link, owed>> /\ Unsubscribe
    /\ Reply(Error) /\ UNCHANGED buf

\* FrameKind::matches.
Matches(f) == f.kind = "status" <=> req[cur] = "command"

\* Slip: command_status reads the byte next to the status, the frame's kind.
Answer_NextByte(f) == [type |-> "result", n |-> 0, of |-> f.kind]

Answer(f) == IF f.kind = "status" THEN Result(f.of) ELSE Measurement(0)

\* next_matching_frame yields the frame waited for; the rest stay in the
\* assembler.  The frame may not parse, which is answered with an error.
OneDrainMatch ==
    /\ at = "oneDrain" /\ buf # <<>> /\ Matches(Head(buf))
    /\ buf' = Tail(buf)
    /\ UNCHANGED <<link, owed>> /\ Unsubscribe
    /\ Reply(Answer(Head(buf))) \/ Reply(Error)

\* A frame that is nobody's answer: a measurement that parses is a sample, for
\* every subscriber; anything else is dropped.
Yield ==
    /\ buf' = Tail(buf)
    /\ \/ Head(buf) = Meas /\ Record
       \/ UNCHANGED <<samples, connected, clients, sent>>
    /\ UNCHANGED <<ble, at, cur, was, cmdq, stop>> /\ Still

OneDrainOther == at = "oneDrain" /\ buf # <<>> /\ ~Matches(Head(buf)) /\ Yield

OneDrainEmpty ==
    /\ at = "oneDrain" /\ buf = <<>>
    /\ Goto("oneWait")
    /\ UNCHANGED <<ble, cur, was, clients, buf, cmdq, stop>> /\ Quiet

-----------------------------------------------------------------------------
\* Actor::handle_notification, at the loop's head.
Notified ==
    /\ at = "select"
    /\ Notification
    /\ Goto("drain")
    /\ UNCHANGED <<cur, was, clients, cmdq, stop>> /\ Quiet

Drain == at = "drain" /\ buf # <<>> /\ Yield

DrainEmpty ==
    /\ at = "drain" /\ buf = <<>>
    /\ Goto("select")
    /\ UNCHANGED <<ble, cur, was, clients, buf, cmdq, stop>> /\ Quiet

StreamOver ==
    /\ at = "select" /\ stream = "ended" /\ air = <<>>
    /\ Goto("reconnect")
    /\ UNCHANGED <<ble, cur, was, clients, buf, cmdq, stop>> /\ Quiet

Reconnect ==
    /\ at = "reconnect"
    /\ \/ /\ ReconnectOk /\ buf' = <<>>
          /\ connected' = TRUE
          /\ UNCHANGED <<clients, sent>>
       \/ ReconnectFails /\ AbortStream /\ UNCHANGED buf
    /\ Goto("select")
    /\ UNCHANGED <<cur, was, samples, cmdq, stop>> /\ Still

-----------------------------------------------------------------------------
\* Actor::poll_device, on a tick.
WantsPoll(S) == PollAlways \/ S # {}

\* Slip: a tick does not take a lost subscription out again.
Tick_NoRelisten ==
    /\ at = "select" /\ WantsPoll(clients)
    /\ samples < MaxSamples
    /\ clients' = Reaped
    /\ Goto(IF WantsPoll(Reaped) THEN "pollWrite" ELSE "select")
    /\ UNCHANGED <<ble, cur, was, buf, cmdq, stop>> /\ Quiet

Tick ==
    /\ at = "select" /\ WantsPoll(clients)
    /\ samples < MaxSamples
    /\ clients' = Reaped
    /\ Goto(IF ~WantsPoll(Reaped) THEN "select"
            ELSE IF stream = "none" THEN "pollListen" ELSE "pollWrite")
    /\ UNCHANGED <<ble, cur, was, buf, cmdq, stop>> /\ Quiet

PollListen ==
    /\ at = "pollListen"
    /\ \/ /\ ListenOk /\ buf' = <<>> /\ Goto("pollWrite")
          /\ UNCHANGED <<clients, connected, sent>>
       \/ ListenFails /\ AbortStream /\ Goto("select") /\ UNCHANGED buf
    /\ UNCHANGED <<cur, was, samples, cmdq, stop>> /\ Still

PollWrite ==
    /\ at = "pollWrite"
    /\ \/ /\ WriteSame(Meas) /\ Goto("select")
          /\ UNCHANGED <<clients, connected, sent>>
       \/ /\ WriteReconnected(Meas) /\ Goto("pollRelisten")
          /\ connected' = TRUE
          /\ UNCHANGED <<clients, sent>>
       \/ WriteFails /\ AbortStream /\ Goto("select")
    /\ UNCHANGED <<cur, was, samples, buf, cmdq, stop>> /\ Still

PollRelisten ==
    /\ at = "pollRelisten"
    /\ \/ /\ ListenOk /\ buf' = <<>>
          /\ UNCHANGED <<clients, connected, sent>>
       \/ ListenFails /\ AbortStream /\ UNCHANGED buf
    /\ Goto("select")
    /\ UNCHANGED <<cur, was, samples, cmdq, stop>> /\ Still

-----------------------------------------------------------------------------
\* The clients get a clean end, and the work in hand is let go of.
EndLoop ==
    /\ stop' = FALSE
    /\ TrySend(clients, StreamEnd)
    /\ clients' = {}
    /\ cur' = None /\ was' = FALSE /\ Goto("disconnect")
    /\ UNCHANGED <<ble, connected, samples, buf, cmdq>> /\ Still

\* The shutdown branch of the loop's select, or of until_shutdown.
Break == at \in Awaits /\ stop /\ EndLoop

\* The disconnect, or its timeout.  With the task goes the receiving end of
\* the request channel, and with that every request still in it.
Disconnect ==
    /\ at = "disconnect"
    /\ link' = "down" /\ owed' = <<>> /\ DropStream /\ buf' = <<>>
    /\ Goto("done")
    /\ cmdq' = <<>>
    /\ UNCHANGED <<cur, was, clients, stop>> /\ Quiet

TakeRequest == JoinStream \/ TakeSubscribe \/ TakeOneShot \/ TakeBadRtc
OneShotStep ==
    \/ OneListenOk   \/ OneListenFails   \/ OneWrite        \/ OneWriteFails
    \/ OneRelistenOk \/ OneRelistenFails \/ OneWaitNotified \/ OneWaitOver
    \/ OneDrainMatch \/ OneDrainOther    \/ OneDrainEmpty
StreamStep ==
    \/ SubListenOk \/ SubListenFails
    \/ Notified \/ Drain \/ DrainEmpty \/ StreamOver \/ Reconnect
    \/ PollListen \/ PollWrite \/ PollRelisten
ActorInit ==
    /\ at = "select" /\ cur = None /\ was = FALSE
    /\ cmdq = <<>>
    /\ clients = {} /\ connected = TRUE /\ samples = 0
    /\ buf = <<>>
    /\ sent = [c \in Client |-> <<>>]
    /\ stop = FALSE
=============================================================================
