------------------------------ MODULE Connection ----------------------------
(***************************************************************************)
(* Connection of src/connection.rs without an agent: a command (oneshot)   *)
(* or a stream of samples (subscribe) from the connect to the disconnect,  *)
(* as run_cli of src/main.rs runs it, with the attempts that establish and *)
(* write make.  One action is one call on the radio.                       *)
(*                                                                         *)
(* Links are numbered: a subscription is worth nothing on any link but the *)
(* one it was taken out on.  A definition X_Y is X with the mistake Y in   *)
(* it, as in AgentClaim.                                                   *)
(***************************************************************************)
EXTENDS Naturals, Sequences

CONSTANTS ConnectRetries, \* CONNECT_RETRIES
          WriteRetries,   \* WRITE_RETRIES
          Wanted,         \* --count of a streaming run
          MaxLinks,       \* bound: the links made
          MaxOwed,        \* bound: the answers the device keeps waiting
          MaxAir          \* bound: the frames that wait in the host to be read

ASSUME RetriesArePositive ==
    ConnectRetries \in Nat \ {0} /\ WriteRetries \in Nat \ {0}
ASSUME SomethingIsWanted == Wanted \in Nat \ {0}
ASSUME BoundsArePositive ==
    MaxLinks \in Nat \ {0} /\ MaxOwed \in Nat \ {0} /\ MaxAir \in Nat \ {0}

VARIABLES
    leaky,        \* whether an Err of connect may come with a link, made or to
                  \* come; fixed by the device
    job,          \* "command" or "stream"; fixed by the command line
    at,           \* the call in hand, or the wait for notifications
    for,          \* what establish is run for: "new", "write" or "stream"
    next,         \* what follows a listen
    tries,        \* establish's attempt
    attempt,      \* write's attempt
    reconnected,  \* write's own
    armed,        \* oneshot's COMMAND_TIMEOUT runs
    left,         \* the samples still to print
    link,         \* "down", "half" open, or "up"
    gen,          \* the number of the current link
    sub,          \* the link that the held subscription was taken out on
    over,         \* its stream has ended
    owed,         \* the answers that the device has still to send
    air,          \* the frames that have arrived and are still unread
    stray         \* what of the radio the job has let out of its hands

call == <<for, next, tries, attempt, reconnected, armed, left>>
radio == <<link, gen, sub, over, owed, air>>
vars == <<leaky, job, at, call, radio, stray>>

Ended == {"done", "killed"}
Running == {"dial", "drop", "listen", "write", "wait"}

\* A connect that nobody waits for may be in flight ("dialing"); and the link may
\* be one that came of such a connect ("late"), that an earlier process left
\* ("found"), that did not let itself be disconnected ("kept"), or that new has
\* refused for a missing characteristic ("unfit").  Every other link is "none" of
\* these: it came of a connect that the job awaited.
Strays == {"none", "dialing", "late", "found", "kept", "unfit"}

TypeOK ==
    /\ leaky \in BOOLEAN /\ job \in {"command", "stream"}
    /\ at \in Running \cup {"disconnect"} \cup Ended
    /\ for \in {"new", "write", "stream"}
    /\ next \in {"write", "wait"}
    /\ tries \in 1..ConnectRetries /\ attempt \in 1..WriteRetries
    /\ reconnected \in BOOLEAN /\ armed \in BOOLEAN /\ over \in BOOLEAN
    /\ left \in 0..Wanted
    /\ link \in {"down", "half", "up"}
    /\ gen \in 0..MaxLinks /\ sub \in 0..gen
    /\ owed \in 0..MaxOwed /\ air \in 0..MaxAir
    /\ stray \in Strays

-----------------------------------------------------------------------------
\* The future of the job is dropped or has ended, and the link is given up.
Finish ==
    /\ at' = "disconnect"
    /\ UNCHANGED <<leaky, job, call, radio>>

\* A connect of which the program awaits no more, while BlueZ makes it.
InFlight == link = "down" /\ stray' = "dialing"

Establish(why) ==
    /\ at' = "dial" /\ for' = why /\ tries' = 1
    /\ UNCHANGED <<next, armed, left>>

Listen(then) == at' = "listen" /\ next' = then

Write == at' = "write" /\ attempt' = 1 /\ reconnected' = FALSE

\* The wait of a oneshot is timed, and the time runs on through its retries.
Wait == at' = "wait" /\ armed' = (job = "command")

\* The stream of a link that is gone ends, or just falls silent.
KeepStream == UNCHANGED over \/ (sub > 0 /\ over' = TRUE)

\* A link of its own, with nothing on its way on it.
NewLink(state) ==
    /\ gen < MaxLinks /\ gen' = gen + 1
    /\ link' = state /\ owed' = 0
    /\ KeepStream
    /\ UNCHANGED <<sub, air>>

-----------------------------------------------------------------------------
\* Slip: only a reconnect after the first attempt counts.
Reconnected_First == attempt = 1

Reconnected == TRUE

\* establish returned Ok: to new, to write's loop or to reconnect_stream.
Established ==
    \/ for \in {"new", "stream"}
       /\ Listen(IF job = "command" THEN "write" ELSE "wait")
       /\ UNCHANGED <<attempt, reconnected>>
    \/ for = "write"
       /\ at' = "write" /\ attempt' = attempt + 1 /\ reconnected' = Reconnected
       /\ UNCHANGED next

\* It returned Err.  A Connection that never was is not disconnected either.
NotEstablished ==
    /\ \/ for = "new" /\ at' = "done" /\ UNCHANGED attempt
       \/ for = "write" /\ at' = "write" /\ attempt' = attempt + 1
       \/ for = "stream" /\ at' = "disconnect" /\ UNCHANGED attempt
    /\ UNCHANGED <<next, reconnected>>

\* device.connect and discover_services succeed, on a link that was there or a
\* new one; but TX or RX may not be among the characteristics.
DialOk ==
    /\ at = "dial" /\ link # "half"
    /\ IF link = "up" THEN UNCHANGED radio ELSE NewLink("up")
    /\ \/ Established /\ stray' = "none"
       \/ /\ leaky /\ NotEstablished
          /\ stray' = IF for = "new" THEN "unfit" ELSE "none"
    /\ UNCHANGED <<leaky, job, for, tries, armed, left>>

\* Connect can succeed where the discovery times out; and it can time out itself,
\* and still be made.
DialFails ==
    /\ at = "dial"
    /\ \/ link = "down" /\ NewLink("half") /\ stray' = "none"
       \/ UNCHANGED <<radio, stray>>
       \/ leaky /\ InFlight /\ UNCHANGED radio
    /\ at' = "drop"
    /\ UNCHANGED <<leaky, job, call>>

\* Slip: one attempt too many.
LastTry_OffByOne == tries > ConnectRetries

LastTry == tries = ConnectRetries

\* drop_connection: only a link that is_connected reports is disconnected, and
\* whatever comes of it is ignored.
DropConnection ==
    \/ link # "down" /\ link' = "down" /\ owed' = 0 /\ stray' = "none"
    \/ link # "down" /\ stray' = "kept" /\ UNCHANGED <<link, owed>>
    \/ link = "down" /\ UNCHANGED <<link, owed, stray>>

\* Slip: the link is dropped before a retry, and not when giving up.
DropTry_ToRetry == IF LastTry THEN UNCHANGED <<link, owed, stray>> ELSE DropConnection

\* Slip: it is dropped when giving up, and not before a retry.
DropTry_GivingUp == IF LastTry THEN DropConnection ELSE UNCHANGED <<link, owed, stray>>

\* After a failed attempt, the last one included.
DropTry == DropConnection

Drop ==
    /\ at = "drop"
    /\ DropTry /\ IF link' = link THEN UNCHANGED over ELSE KeepStream
    /\ IF LastTry
       THEN NotEstablished /\ UNCHANGED tries
       ELSE at' = "dial" /\ tries' = tries + 1 /\ UNCHANGED <<next, attempt, reconnected>>
    /\ UNCHANGED <<leaky, job, for, armed, left, gen, sub, air>>

\* listen.  The old stream, and whatever is unread on it, is dropped.
ListenOk ==
    /\ at = "listen" /\ link = "up"
    /\ sub' = gen /\ over' = FALSE /\ air' = 0
    /\ IF next = "write"
       THEN Write /\ UNCHANGED armed
       ELSE Wait /\ UNCHANGED <<attempt, reconnected>>
    /\ UNCHANGED <<leaky, job, for, next, tries, left, link, gen, owed, stray>>

ListenFails == at = "listen" /\ Finish /\ UNCHANGED stray

\* Slip: a reconnect along the way is not followed by a listen.
Written_NoListen == Wait /\ UNCHANGED next

\* What oneshot and subscribe do with write's Ok.
Written ==
    IF reconnected THEN Listen("wait") /\ UNCHANGED armed
                   ELSE Wait /\ UNCHANGED next

WriteOk ==
    /\ at = "write" /\ link = "up"
    /\ owed' = IF owed < MaxOwed THEN owed + 1 ELSE owed
    /\ Written
    /\ UNCHANGED <<leaky, job, for, tries, attempt, reconnected, left>>
    /\ UNCHANGED <<link, gen, sub, over, air, stray>>

WriteFails ==
    /\ at = "write"
    /\ IF attempt < WriteRetries
       THEN Establish("write") /\ UNCHANGED <<leaky, job, attempt, reconnected, radio>>
       ELSE Finish
    /\ UNCHANGED stray

-----------------------------------------------------------------------------
\* A frame: oneshot's reply, or subscribe's next sample.
Frame ==
    /\ at = "wait" /\ air > 0
    /\ air' = air - 1
    /\ left' = IF job = "stream" THEN left - 1 ELSE left
    /\ at' = IF job = "command" \/ left' = 0 THEN "disconnect" ELSE "wait"
    /\ UNCHANGED <<leaky, job, for, next, tries, attempt, reconnected, armed>>
    /\ UNCHANGED <<link, gen, sub, over, owed, stray>>

\* reconnect_stream, in which a oneshot is to be written again.
StreamOver ==
    /\ at = "wait" /\ over /\ air = 0
    /\ Establish("stream")
    /\ UNCHANGED <<leaky, job, attempt, reconnected, radio, stray>>

\* subscribe's ticker.
Tick ==
    /\ job = "stream" /\ at = "wait"
    /\ Write
    /\ UNCHANGED <<leaky, job, for, next, tries, armed, left, radio, stray>>

\* A future that is dropped in device.connect leaves the connect to BlueZ.
Abandon == UNCHANGED stray \/ (at = "dial" /\ InFlight)

Timeout == armed /\ at \in Running /\ Finish /\ Abandon

\* Ctrl-C, or --duration, ends what runs; nothing catches it while Connection::new does.
CtrlC ==
    /\ IF for = "new" /\ at \in {"dial", "drop"}
       THEN at' = "killed" /\ UNCHANGED <<leaky, job, call, radio>>
       ELSE at \in Running /\ Finish
    /\ Abandon

\* Connection::disconnect, and the end of the process and of its stream.
Disconnect ==
    /\ at = "disconnect"
    /\ DropConnection
    /\ at' = "done" /\ over' = TRUE /\ air' = 0
    /\ UNCHANGED <<leaky, job, call, gen, sub>>

-----------------------------------------------------------------------------
DeviceSend ==
    /\ owed > 0 /\ link = "up" /\ air < MaxAir
    /\ owed' = owed - 1
    /\ air' = IF sub = gen /\ ~over THEN air + 1 ELSE air
    /\ UNCHANGED <<leaky, job, at, call, link, gen, sub, over, stray>>

LinkDrops ==
    /\ link # "down" /\ link' = "down"
    /\ owed' = 0 /\ stray' = "none" /\ KeepStream
    /\ UNCHANGED <<leaky, job, at, call, gen, sub, air>>

\* The connect that nobody waits for comes to something, or to nothing.
LateConnect ==
    /\ stray = "dialing"
    /\ \/ \E state \in {"half", "up"} : NewLink(state) /\ stray' = "late"
       \/ UNCHANGED radio /\ stray' = "none"
    /\ UNCHANGED <<leaky, job, at, call>>

\* The stream ends by itself, with the link still there.
StreamBreaks ==
    /\ sub > 0 /\ over' = TRUE
    /\ UNCHANGED <<leaky, job, at, call, link, gen, sub, owed, air, stray>>

\* A process finds the device unconnected, or as an earlier one has left it.
Init ==
    /\ leaky \in BOOLEAN /\ job \in {"command", "stream"}
    /\ at = "dial" /\ for = "new" /\ next = "write"
    /\ tries = 1 /\ attempt = 1
    /\ reconnected = FALSE /\ armed = FALSE
    /\ left = Wanted
    /\ link \in {"down", "half", "up"}
    /\ gen = IF link = "down" THEN 0 ELSE 1
    /\ sub = 0 /\ over = FALSE /\ owed = 0 /\ air = 0
    /\ stray \in IF link = "down" THEN {"none", "dialing"} ELSE {"found"}

Call ==
    \/ DialOk \/ DialFails \/ Drop
    \/ ListenOk \/ ListenFails \/ WriteOk \/ WriteFails
    \/ Frame \/ StreamOver \/ Tick \/ Disconnect

Next ==
    \/ Call \/ Timeout \/ CtrlC
    \/ DeviceSend \/ LinkDrops \/ LateConnect \/ StreamBreaks

Spec == Init /\ [][Next]_vars

\* Each call on the radio returns or times out, and select! takes its branches in
\* random order.  Of a device in range: a write is not refused again and again,
\* the answer comes before the next poll now and then, and streams cease to break.
Fairness ==
    /\ WF_vars(Call) /\ SF_vars(Frame) /\ SF_vars(StreamOver)
    /\ WF_vars(Timeout)
    /\ SF_vars(WriteOk /\ ~reconnected) /\ SF_vars(DeviceSend /\ at = "wait")
    /\ <>[][~StreamBreaks]_vars

FairSpec == Spec /\ Fairness

-----------------------------------------------------------------------------
\* Whoever waits for a notification on a link that is up waits for one that can
\* come: the subscription is the link's own, or its stream has ended.  That is, as
\* long as an Err of connect means that there is no link (see CallsAreAsSeen).
SubscriptionIsCurrent == ~leaky /\ at = "wait" /\ link = "up" => sub = gen \/ over

\* "leaving a half-open connection that makes every later attempt fail too"
\* (establish): no attempt starts on one that an earlier attempt has made, or an
\* earlier process, unless BlueZ failed to drop it or connected late.
NeverOnHalfOpen ==
    at = "dial" /\ link = "half" =>
        \/ for = "new" /\ tries = 1
        \/ stray \in {"kept", "late"}

(***************************************************************************)
(* Whatever way a job ends, short of being killed, the device is free      *)
(* again, unless a disconnect has failed, new has refused the link for a   *)
(* missing characteristic (connection.rs:375), or a connect that was given *)
(* up in flight succeeded after all (connection.rs:404).  Nothing else     *)
(* keeps a link: not one found at the start, and not one made on the way.  *)
(***************************************************************************)
EndsDisconnected ==
    at = "done" /\ link # "down" => stray \in {"kept", "unfit", "late"}

\* A command, and a stream with a --count, come to an end, whatever becomes of
\* the link; but a stream whose write has not told of a reconnect may wait for ever.
RunEnds == ~leaky => <>(at \in Ended)

-----------------------------------------------------------------------------
\* A call as its caller sees it.  While it runs the link it began on is all
\* there is; what the attempts have made of it shows when it returns.
Mapped ==
    CASE at \in {"disconnect"} \cup Ended -> "over"
      [] at \in {"dial", "drop"}          -> for
      [] at = "listen" /\ for = "stream"  -> "stream"
      [] OTHER                            -> at

LinkSeen ==
    IF link # "up" \/ Mapped = "new" THEN "down"
    ELSE IF sub = gen THEN "hot"
    ELSE IF Mapped \in {"write", "stream"} THEN "down" ELSE "up"

StreamSeen ==
    IF sub = 0 \/ Mapped = "over" THEN "none" ELSE IF over THEN "ended" ELSE "open"

AirSeen == IF Mapped = "over" THEN 0 ELSE air

\* As many frames; here they are of one kind.
Frames(n) == [i \in 1..n |-> [kind |-> "measurement", of |-> "nobody"]]

Calls == INSTANCE LinkCalls
    WITH Client <- {}, None <- "nobody", Prompt <- FALSE,
         link <- LinkSeen, stream <- StreamSeen, call <- Mapped,
         owed <- Frames(owed), air <- Frames(AirSeen)

(***************************************************************************)
(* However often establish and write (connection.rs:333, 542) try again,   *)
(* each call leaves the link, the subscription and the frames in a state   *)
(* that BleLink grants it, and write "returns whether the connection was   *)
(* re-established along the way": after an Ok(false) the link is the one   *)
(* that write began on.  That is Calls!Spec, as long as an Err of connect  *)
(* means that there is no link; write's answer is wrong otherwise.         *)
(***************************************************************************)
CallsAreAsSeen ==
    /\ ~leaky => Calls!Init
    /\ [][~leaky => [Calls!Next]_(Calls!vars)]_vars
=============================================================================
