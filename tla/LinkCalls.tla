------------------------------ MODULE LinkCalls -----------------------------
(***************************************************************************)
(* What one user of a Connection may rely on: every call has one of the    *)
(* outcomes that BleLink describes, at the moment it returns, and nothing  *)
(* of the retries within it shows before.  Module Connection makes the     *)
(* calls attempt by attempt and implements this.  The agent's actor, of    *)
(* AgentActor, makes the same calls and sees no more of them.              *)
(***************************************************************************)
EXTENDS BleLink

VARIABLE call   \* the call in hand: "new", "listen", "write" or "stream", which
                \* is reconnect_stream; or "wait" for notifications; or "over"

vars == <<ble, call>>

Init == link = "down" /\ owed = <<>> /\ stream = "none" /\ air = <<>> /\ call = "new"

New ==
    /\ call = "new" /\ UNCHANGED <<owed, stream, air>>
    /\ \/ link' = "up" /\ call' = "listen"
       \/ link' \in {"down", "up"} /\ call' = "over"

Listen ==
    /\ call = "listen"
    /\ \/ ListenOk /\ call' \in {"write", "wait"}
       \/ ListenFails /\ call' = "over"

\* Ok(false), Ok(true), which asks for a listen, and Err.
Write ==
    /\ call = "write"
    /\ \/ WriteSame(Meas) /\ call' = "wait"
       \/ WriteReconnected(Meas) /\ call' = "listen"
       \/ WriteFails /\ DropStream /\ call' = "over"

ReconnectStream ==
    /\ call = "stream"
    /\ \/ ReconnectOk /\ call' \in {"write", "wait"}
       \/ ReconnectFails /\ call' = "over"

\* For a frame, the end of the stream or the next poll; or no longer.
Wait ==
    /\ call = "wait"
    /\ \/ call' = "write" /\ UNCHANGED ble
       \/ stream = "ended" /\ air = <<>> /\ call' = "stream" /\ UNCHANGED ble
       \/ air # <<>> /\ air' = Tail(air) /\ UNCHANGED <<link, owed, stream, call>>
       \/ DropStream /\ UNCHANGED <<link, owed>> /\ call' = "over"

Disconnect ==
    /\ call = "over"
    /\ link' = "down" /\ owed' = <<>> /\ UNCHANGED <<stream, air, call>>

\* A connect that was given up in flight, with the call, comes to a link.
LateConnect ==
    /\ call = "over" /\ link = "down"
    /\ link' = "up" /\ UNCHANGED <<owed, stream, air, call>>

Next ==
    \/ New \/ Listen \/ Write \/ ReconnectStream \/ Wait \/ Disconnect \/ LateConnect
    \/ Radio /\ UNCHANGED call

Spec == Init /\ [][Next]_vars
=============================================================================
