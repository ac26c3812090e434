------------------------------- MODULE BleLink ------------------------------
(***************************************************************************)
(* The radio side of the agent, as src/connection.rs uses it: the link     *)
(* to the device, the notification stream that btleplug hands out, and the *)
(* device, which answers one frame to every command it is sent.  The code  *)
(* of btleplug, BlueZ and the device is not in the repository; what they   *)
(* may do is taken from what Connection is written to survive.             *)
(*                                                                         *)
(* A frame here is one that the assembler has completed.                   *)
(***************************************************************************)
EXTENDS Naturals, Sequences

CONSTANTS Client,   \* the connections to the agent; a command is its client's
          None,     \* no client
          MaxOwed,  \* bound: the answers the device keeps waiting
          MaxAir,   \* bound: the frames that wait in the host to be read
          Prompt    \* does the device answer before the agent stops waiting?

ASSUME NoneIsNoClient == None \notin Client
ASSUME BoundsArePositive == MaxOwed \in Nat \ {0} /\ MaxAir \in Nat \ {0}
ASSUME PromptIsBoolean == Prompt \in BOOLEAN

VARIABLES
    link,    \* "down", "up", or "hot": up, and notifying
    owed,    \* the frames that the device has still to send
    stream,  \* the subscription the program holds: "none", "open" or "ended"
    air      \* the frames that have arrived on it and are still unread

ble == <<link, owed, stream, air>>

\* A measurement frame, and the status frame that answers c's command.
Meas == [kind |-> "measurement", of |-> None]
Status(c) == [kind |-> "status", of |-> c]
Frame == {Meas} \cup {Status(c) : c \in Client}

BleTypeOK ==
    /\ link \in {"down", "up", "hot"}
    /\ owed \in Seq(Frame)
    /\ stream \in {"none", "open", "ended"}
    /\ air \in Seq(Frame)

BleInit == link = "up" /\ owed = <<>> /\ stream = "none" /\ air = <<>>

\* No answer to a command is on its way any more.
Settled == \A f \in {owed[i] : i \in DOMAIN owed} \cup {air[i] : i \in DOMAIN air} :
                f.kind # "status"

-----------------------------------------------------------------------------
DropStream == stream' = "none" /\ air' = <<>>

\* Connection::listen: subscribe on the link, and a stream of its own.
ListenOk ==
    /\ link # "down"
    /\ link' = "hot" /\ stream' = "open" /\ air' = <<>>
    /\ UNCHANGED owed

\* It fails on a dead link, and may fail on any.  The caller drops the stream.
ListenFails == DropStream /\ UNCHANGED <<link, owed>>

\* The stream of a link that is gone ends, or just falls silent.
KeepStream ==
    /\ UNCHANGED air
    /\ \/ UNCHANGED stream
       \/ link' # link /\ stream = "open" /\ stream' = "ended"

Ask(frames, f) == IF Len(frames) < MaxOwed THEN Append(frames, f) ELSE frames

\* Connection::write, first time: Ok(false).
WriteSame(f) ==
    /\ link # "down"
    /\ owed' = Ask(owed, f)
    /\ UNCHANGED <<link, stream, air>>

\* Connection::write after a reconnect: Ok(true).  The reconnect made a new
\* link, or found the old one still there.
WriteReconnected(f) ==
    \/ link' = "up" /\ owed' = <<f>> /\ KeepStream
    \/ WriteSame(f)

\* Connection::write out of attempts: Err.  The reconnects in between failed,
\* made a new link, or found the old one still there.
WriteFails ==
    \/ link' \in {"down", "up"} /\ owed' = <<>>
    \/ UNCHANGED <<link, owed>>

\* Connection::reconnect_stream: connect, then listen.
ReconnectOk ==
    /\ link' = "hot" /\ stream' = "open" /\ air' = <<>>
    /\ owed' \in {owed, <<>>}

\* The connect failed, or the listen, on a new link or on the old one.
ReconnectFails ==
    /\ \/ link' \in {"down", "up"} /\ owed' = <<>>
       \/ UNCHANGED <<link, owed>>
    /\ DropStream

-----------------------------------------------------------------------------
\* The device sends; a frame nobody listens for is lost.
DeviceSend ==
    /\ owed # <<>> /\ link # "down" /\ Len(air) < MaxAir
    /\ owed' = Tail(owed)
    /\ air' = IF link = "hot" /\ stream = "open" THEN Append(air, Head(owed)) ELSE air
    /\ UNCHANGED <<link, stream>>

\* Out of range, or switched off.  What has arrived can still be read.
LinkDrops ==
    /\ link # "down"
    /\ link' = "down" /\ owed' = <<>>
    /\ KeepStream

\* The stream ends by itself, with the link still there.
StreamBreaks ==
    /\ ~Prompt
    /\ stream = "open" /\ stream' = "ended"
    /\ UNCHANGED <<link, owed, air>>

Radio == DeviceSend \/ LinkDrops \/ StreamBreaks
=============================================================================
