---------------------------- MODULE MCInvocation ----------------------------
(* Invocation for TLC: one section, two devices, two sockets; agents started *)
(* by profile, and clients that name a profile, an address or a socket.      *)
EXTENDS Invocation, TLC

CONSTANTS rack, home, office, usual, other, agent1, agent2

Plain == NoLine
Rack == [NoLine EXCEPT !.device = rack]
Explicit == [NoLine EXCEPT !.own["addr"] = office]
Elsewhere == [NoLine EXCEPT !.own["socket"] = other, !.config = TRUE]

MCStarts == agent1 :> {Plain, Rack} @@ agent2 :> {Rack}
MCRuns == ({Plain, Rack, Explicit, Elsewhere} \X {"command"})
              \cup {<<Rack, "stop">>, <<Rack, "status">>}
=============================================================================
