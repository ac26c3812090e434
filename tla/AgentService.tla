---------------------------- MODULE AgentService ----------------------------
(***************************************************************************)
(* What `agent start` promises about one set of paths: at any moment at    *)
(* most one process holds the device, and a connection to the socket path  *)
(* leads to that process or to nobody.  Module AgentClaim implements it    *)
(* with a pid file lock and a socket file.                                 *)
(***************************************************************************)

CONSTANTS Proc,     \* the processes started by `agent start`
          None      \* no process, and none of Proc

VARIABLES agent,    \* the process entitled to the device, or None
          door      \* the process a connection to the socket path reaches

vars == <<agent, door>>

Init == agent = None /\ door = None

\* Only a vacant post is taken.
Take(p) == agent = None /\ agent' = p /\ UNCHANGED door

\* The agent opens its socket, and nobody else ever does.
OpenDoor(p) == agent = p /\ door = None /\ door' = p /\ UNCHANGED agent

CloseDoor == door # None /\ door' = None /\ UNCHANGED agent

\* The agent is gone, cleanly or not; its socket answers nobody any more.
Leave == agent # None /\ agent' = None /\ door' = None

Next == (\E p \in Proc : Take(p) \/ OpenDoor(p)) \/ CloseDoor \/ Leave

Spec == Init /\ [][Next]_vars
=============================================================================
