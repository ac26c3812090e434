-------------------------------- MODULE Agent -------------------------------
(***************************************************************************)
(* A serving agent, from the start of its accept loop to the end of its    *)
(* process: run, accept_loop and handle_client of src/agent/server.rs      *)
(* around the actor of AgentActor, and the clients at the other end of the *)
(* sockets.                                                                *)
(***************************************************************************)
EXTENDS AgentActor

CONSTANTS Asks  \* bound: the requests that each client may make

Request == ActorBound \cup {"shutdown", "other"}

ASSUME AsksAreRequests == Asks \in [Client -> SUBSET Request]

VARIABLES
    phase,    \* run: "accepting", "closing" the actor, or "exited"
    asked,    \* shutdown holds a permit: a client has asked for the end
    peer      \* whether each client still holds its end of the socket

vars == <<actorVars, phase, asked, peer>>

TypeOK ==
    /\ BleTypeOK
    /\ at \in Stages
    /\ cur \in Client \cup {None}
    /\ was \in BOOLEAN
    /\ cmdq \in Seq(Client)
    /\ req \in [Client -> Request \cup {None}]
    /\ clients \subseteq Client
    /\ samples \in Nat
    /\ connected \in BOOLEAN
    /\ buf \in Seq(Frame)
    /\ sent \in [Client -> Seq(Response)]
    /\ taken \in [Client -> Nat]
    /\ handler \in [Client -> {"none", "reading", "recv", "closed"}]
    /\ stop \in BOOLEAN
    /\ phase \in {"accepting", "closing", "exited"}
    /\ asked \in BOOLEAN
    /\ peer \in [Client -> BOOLEAN]

\* What the actor and the radio leave alone, and what a handler does.
Run == UNCHANGED <<phase, asked, peer>>
Others == UNCHANGED <<ble, actor, sent, stop, phase, asked>>

-----------------------------------------------------------------------------
\* A client connects, and accept_loop spawns its handler.
Connect(c) ==
    /\ phase = "accepting" /\ handler[c] = "none"
    /\ handler' = [handler EXCEPT ![c] = "reading"]
    /\ peer' = [peer EXCEPT ![c] = TRUE]
    /\ Others
    /\ UNCHANGED <<cmdq, req, taken>>

\* The client closes its end.  A handler that waits for the actor does not look.
HangUp(c) ==
    /\ peer[c]
    /\ peer' = [peer EXCEPT ![c] = FALSE]
    /\ Others
    /\ UNCHANGED <<cmdq, req, taken, handler>>

\* The handler ends, and drops its end of the socket and of the channel.
Close(c) ==
    /\ handler' = [handler EXCEPT ![c] = "closed"]
    /\ peer' = [peer EXCEPT ![c] = FALSE]

\* Slip: a handler that waits for the actor also ends when its client hangs up.
NoRequest_Hasty(c) ==
    /\ handler[c] \in {"reading", "recv"} /\ ~peer[c]
    /\ Close(c)
    /\ Others
    /\ UNCHANGED <<cmdq, req, taken>>

\* handle_client ends without a request, having read none.
NoRequest(c) ==
    /\ handler[c] = "reading" /\ ~peer[c]
    /\ Close(c)
    /\ Others
    /\ UNCHANGED <<cmdq, req, taken>>

\* handle_client reads a request for the actor and queues it, unless the actor
\* is gone, which it answers with an error.
Queue(c, r) ==
    /\ handler[c] = "reading" /\ r \in ActorBound
    /\ req' = [req EXCEPT ![c] = r]
    /\ IF at = "done"
       THEN Close(c) /\ UNCHANGED cmdq
       ELSE /\ handler' = [handler EXCEPT ![c] = "recv"]
            /\ cmdq' = Append(cmdq, c)
            /\ UNCHANGED peer
    /\ Others
    /\ UNCHANGED taken

\* control_response: the handler answers itself.  A ping, or a request that
\* cannot be parsed, changes nothing; a shutdown that could be answered is
\* passed on to the accept loop, if there still is one.
Control(c, r) ==
    /\ handler[c] = "reading" /\ r \in {"shutdown", "other"}
    /\ req' = [req EXCEPT ![c] = r]
    /\ Close(c)
    /\ asked' = (asked \/ (r = "shutdown" /\ peer[c] /\ phase = "accepting"))
    /\ UNCHANGED <<ble, actor, sent, stop, phase, cmdq, taken>>

\* Some sender of c's response channel is left.
HasSender(c) == c \in clients \/ c = cur \/ \E i \in DOMAIN cmdq : cmdq[i] = c

\* The handler takes the next response and writes it, to a client that reads or
\* one that is gone; one that does neither keeps it waiting.  Only a
\* measurement may be followed by more.
Deliver(c) ==
    /\ handler[c] = "recv"
    /\ taken[c] < Len(sent[c])
    /\ taken' = [taken EXCEPT ![c] = @ + 1]
    /\ IF peer[c] /\ sent[c][taken'[c]].type = "measurement"
       THEN UNCHANGED <<handler, peer>>
       ELSE Close(c)
    /\ Others
    /\ UNCHANGED <<cmdq, req>>

\* resp_rx.recv: nothing is left, and nobody to send more.
ChannelOver(c) ==
    /\ handler[c] = "recv"
    /\ taken[c] = Len(sent[c]) /\ ~HasSender(c)
    /\ Close(c)
    /\ Others
    /\ UNCHANGED <<cmdq, req, taken>>

-----------------------------------------------------------------------------
\* Slip: notify_waiters, which an actor that is not in an await does not hear.
StopAccepting_Unheard(signal) ==
    /\ phase = "accepting" /\ (signal \/ asked)
    /\ phase' = "closing"
    /\ stop' = (at \in Awaits) /\ asked' = FALSE
    /\ UNCHANGED <<ble, actor, cmdq, req, sent, taken, handler, peer>>

\* accept_loop returns, on a signal or a client's request; run notifies the
\* actor.
StopAccepting(signal) ==
    /\ phase = "accepting" /\ (signal \/ asked)
    /\ phase' = "closing"
    /\ stop' = TRUE /\ asked' = FALSE
    /\ UNCHANGED <<ble, actor, cmdq, req, sent, taken, handler, peer>>

\* The actor finds that the last sender of requests is gone.
LastHandleGone ==
    /\ at = "select" /\ cmdq = <<>>
    /\ phase # "accepting" /\ \A c \in Client : handler[c] \in {"none", "closed"}
    /\ EndLoop

\* The actor has ended; run returns, and the process takes its handlers along.
Exit ==
    /\ phase = "closing" /\ at = "done"
    /\ phase' = "exited"
    /\ handler' = [c \in Client |-> "closed"]
    /\ peer' = [c \in Client |-> FALSE]
    /\ UNCHANGED <<ble, actor, cmdq, req, sent, taken, stop, asked>>

-----------------------------------------------------------------------------
Init ==
    /\ BleInit /\ ActorInit
    /\ req = [c \in Client |-> None]
    /\ taken = [c \in Client |-> 0]
    /\ handler = [c \in Client |-> "none"]
    /\ phase = "accepting" /\ asked = FALSE
    /\ peer = [c \in Client |-> FALSE]

RadioStep == Radio /\ UNCHANGED <<actor, cmdq, req, sent, taken, handler, stop>>

ActorStep == TakeRequest \/ OneShotStep \/ StreamStep \/ Tick \/ Break \/ Disconnect

HandlerStep(c) ==
    \/ NoRequest(c) \/ Deliver(c) \/ ChannelOver(c)
    \/ \E r \in Asks[c] : Queue(c, r) \/ Control(c, r)

Next ==
    \/ ActorStep /\ Run
    \/ RadioStep /\ Run
    \/ \E c \in Client : Connect(c) \/ HangUp(c) \/ HandlerStep(c)
    \/ LastHandleGone /\ Run
    \/ StopAccepting(TRUE) \/ StopAccepting(FALSE)
    \/ Exit

Spec == Init /\ [][Next]_vars

\* tokio runs every task that is ready, select! takes its branches in random
\* order, each call on the radio returns or times out, and clients read their
\* sockets.  Nothing is asked of the device, the clients' requests or signals.
Fairness ==
    /\ WF_vars(ActorStep /\ Run)
    /\ SF_vars(TakeRequest /\ Run)
    /\ SF_vars((Notified \/ StreamOver) /\ Run)
    /\ SF_vars(Tick /\ Run)
    /\ SF_vars(Break /\ Run)
    /\ SF_vars(OneWaitOver /\ Run)
    /\ WF_vars(StopAccepting(FALSE))
    /\ WF_vars(Exit)
    /\ \A c \in Client : WF_vars(NoRequest(c) \/ Deliver(c) \/ ChannelOver(c))

FairSpec == Spec /\ Fairness

\* A device in range again: some attempt to connect succeeds, if attempts are
\* made again and again.
InRange == SF_vars((PollWrite \/ OneWrite \/ Reconnect) /\ Run /\ link = "down" /\ link' # "down")

InRangeSpec == FairSpec /\ InRange

-----------------------------------------------------------------------------
\* A subscriber gets consecutive samples, and nothing after what ends its feed;
\* any other request gets one response at most.
FeedContiguous ==
    \A c \in Client : \A i \in 2..Len(sent[c]) :
        /\ req[c] = "subscribe"
        /\ sent[c][i - 1].type = "measurement"
        /\ sent[c][i].type = "measurement" => sent[c][i].n = sent[c][i - 1].n + 1

\* The result of a command is that of the client's own.
ReplyIsOwn ==
    \A c \in Client : \A i \in DOMAIN sent[c] :
        sent[c][i].type = "result" => sent[c][i].of = c

\* However late an answer comes: the one who is given a result gave a command, and
\* a result of another client's is that of one whose turn was over, with an answer.
ResultsInTurn ==
    \A c \in Client : \A i \in DOMAIN sent[c] :
        sent[c][i].type = "result" =>
            /\ req[c] = "command"
            /\ \E d \in Client : sent[c][i] = Result(d) /\ (d = c \/ sent[d] # <<>>)

\* What try_send's callers rely on: the request being served has its handler
\* waiting, and room for the one answer it gets.
AnswerFits == cur # None => handler[cur] = "recv" /\ sent[cur] = <<>>

\* A subscriber is let go of only if it has hung up, has fallen a queue's length
\* behind, or is told that its feed is over.
DroppedForCause ==
    [][\A c \in clients \ clients' :
          \/ ~Listening(c) \/ ~Room(c)
          \/ sent'[c] \in {Append(sent[c], Error), Append(sent[c], StreamEnd)}]_vars

Feed == INSTANCE SampleFeed WITH n <- samples, live <- clients, feed <- sent

\* The agent gives its clients the feed that SampleFeed specifies.
ImplementsFeed == Feed!Spec

\* A request is answered, turned into a subscription, or sees its connection
\* closed; a subscriber that was let go of sees its connection closed.
Answered ==
    \A c \in Client :
        handler[c] = "recv" /\ c \notin clients ~> handler[c] = "closed" \/ c \in clients

\* Once asked to stop, the agent does, whatever it was doing.
ShutdownCompletes == asked \/ phase = "closing" ~> phase = "exited"

\* As long as samples are wanted, a lost subscription is taken out again or
\* every subscriber is told.
FeedRecovers ==
    clients # {} /\ stream # "open"
        ~> stream = "open" \/ clients = {} \/ samples >= MaxSamples

\* "The streaming clients are dropped and the link re-established on the next
\* request" (server.rs:494), "every one of them fails until it recovers"
\* (README.md:219): an agent that polls a device in range gets its link back.
LinkComesBack ==
    link = "down" ~> link # "down" \/ samples >= MaxSamples \/ phase # "accepting"

\* "A reconnect along the way invalidated the old subscription" (server.rs:753):
\* an idle actor does not hold a subscription of a link that was replaced.
NoDeadSubscription == at = "select" /\ stream = "open" => link # "up"
=============================================================================
