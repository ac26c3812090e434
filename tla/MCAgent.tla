------------------------------- MODULE MCAgent ------------------------------
(* Small instances of Agent for TLC. *)
EXTENDS Agent, TLC

CONSTANTS a, b, c, none

AnyClient == Permutations(Client)

\* Every client may make any request.
AnyRequest == [x \in Client |-> Request]

\* A subscriber, and one that gives a command or asks for the end.
Roles == a :> {"subscribe"} @@ b :> {"command", "shutdown"}

\* A subscriber, and one that gives a command.
Duo == a :> {"subscribe"} @@ b :> {"command"}

\* Two that give commands.
Commands == [x \in Client |-> {"command"}]

\* Subscribers alone.
Subscribers == [x \in Client |-> {"subscribe"}]
=============================================================================
