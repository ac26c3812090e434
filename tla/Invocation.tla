------------------------------ MODULE Invocation ----------------------------
(***************************************************************************)
(* Invocations of the program that share a machine and a config file: each *)
(* `agent start` takes the post at its socket path, each other command     *)
(* looks for the agent at its own and goes to it or to the radio.  run_cli,*)
(* run_agent_command, ensure_addr_matches and run_via_daemon of            *)
(* src/main.rs, and src/agent/client.rs.                                   *)
(*                                                                         *)
(* The file is read first, as ConfigFile has it, and then stays.  How the  *)
(* post is taken in detail is module AgentClaim, how a request is served   *)
(* module Agent, and what goes over the radio module Connection.           *)
(***************************************************************************)
EXTENDS ConfigFile

CONSTANTS Agent,        \* the invocations of `agent start`
          Client,       \* the other invocations
          Starts,       \* bound: the command lines of each of the former
          Runs          \* bound: what the latter are asked, on which lines

Job == {"command", "stop", "status"}

ASSUME StartsAreCommandLines == Starts \in [Agent -> SUBSET CommandLine]
ASSUME RunsAreJobs == Runs \subseteq CommandLine \X Job
ASSUME NoneIsNobody == None \notin Agent \cup Client
ASSUME AgentsAreNotClients == Agent \cap Client = {}

VARIABLES
    cmd,       \* each invocation's command line
    at,        \* where it is
    job,       \* what a client was asked: a "command", to "stop", the "status"
    door,      \* the agent that bound the socket file at each path, or None
    reached,   \* the agent that each client's ping went to, or None
    answered,  \* the agent that its request went to, or None
    operated,  \* the device that it operated, or None
    told,      \* the agents with a permit in shutdown
    found      \* history: the agents serving at a client's path as it probed

routing == <<reached, answered, operated, found>>
vars == <<configVars, cmd, at, job, door, told, routing>>

Listening == {"connecting", "serving"}
Holding == Listening \cup {"claimed", "leaving"}
Ended == {"ok", "failed", "refused", "notrunning"}

TypeOK ==
    /\ ConfigTypeOK
    /\ cmd \in [Agent \cup Client -> CommandLine]
    /\ at \in [Agent \cup Client ->
                {"new", "starting", "gone"} \cup Holding \cup Ended
                \cup {"probe", "ping", "request", "shutdown", "sent", "radio"}]
    /\ job \in [Client -> Job]
    /\ door \in [Socket -> Agent \cup {None}]
    /\ reached \in [Client -> Agent \cup {None}]
    /\ answered \in [Client -> Agent \cup {None}]
    /\ operated \in [Client -> Addr \cup {None}]
    /\ told \subseteq Agent
    /\ found \in [Client -> SUBSET Agent]

\* The settings that an invocation resolves, and where its agent's socket is.
HasFile == verdict = "ok"
AddrOf(p) == Resolved(HasFile, file, cmd[p])["addr"]
PathOf(p) == SocketPath(HasFile, file, cmd[p])

Goto(p, place) == at' = [at EXCEPT ![p] = place]

-----------------------------------------------------------------------------
\* `agent start` resolves its settings, which must name a device.
Start(a, line) ==
    /\ at[a] = "new"
    /\ cmd' = [cmd EXCEPT ![a] = line]
    /\ Goto(a, IF /\ Resolvable(HasFile, file, line)
                  /\ Resolved(HasFile, file, line)["addr"] # None
               THEN "starting" ELSE "failed")
    /\ UNCHANGED <<job, door, told, routing>>

\* Slip: a post is taken from the agent that holds it.
Vacant_Always(path) == TRUE

Vacant(path) == \A a \in Agent : at[a] \in Holding => PathOf(a) # path

\* take_over, the claim: as AgentService has it, which AgentClaim implements.
Claim(a) ==
    /\ at[a] = "starting"
    /\ Goto(a, IF Vacant(PathOf(a)) THEN "claimed" ELSE "failed")
    /\ UNCHANGED <<cmd, job, door, told, routing>>

\* ... and the socket, in the place of any that was left there.
Bind(a) ==
    /\ at[a] = "claimed"
    /\ Goto(a, "connecting")
    /\ door' = [door EXCEPT ![PathOf(a)] = a]
    /\ UNCHANGED <<cmd, job, told, routing>>

\* Connection::new has succeeded.
Serve(a) ==
    /\ at[a] = "connecting"
    /\ Goto(a, "serving")
    /\ UNCHANGED <<cmd, job, door, told, routing>>

\* accept_loop returns, on a signal or a shutdown, and the listener closes.
Leave(a) ==
    /\ at[a] = "serving"
    /\ Goto(a, "leaving")
    /\ UNCHANGED <<cmd, job, door, told, routing>>

\* run returns: as the actor has ended, or because the bind or the connect
\* failed or a signal cut the connect short.  AgentFiles takes the socket.
Exit(a) ==
    /\ at[a] \in {"claimed", "connecting", "leaving"}
    /\ Goto(a, "gone")
    /\ door' = [door EXCEPT ![PathOf(a)] = None]
    /\ UNCHANGED <<cmd, job, told, routing>>

\* The process is killed, and its socket file stays.
Crash(a) ==
    /\ at[a] \in Holding
    /\ Goto(a, "gone")
    /\ UNCHANGED <<cmd, job, door, told, routing>>

AgentStep ==
    \E a \in Agent :
        \/ \E line \in Starts[a] : Start(a, line)
        \/ Claim(a) \/ Bind(a) \/ Serve(a) \/ Leave(a) \/ Exit(a) \/ Crash(a)

-----------------------------------------------------------------------------
\* The agent that a connection to the client's path reaches.
Reachable(c) == LET a == door[PathOf(c)]
                IN  IF a # None /\ at[a] \in Listening THEN a ELSE None

\* Any other command resolves its settings too, a device or none.
Run(c, line, j) ==
    /\ at[c] = "new"
    /\ cmd' = [cmd EXCEPT ![c] = line]
    /\ job' = [job EXCEPT ![c] = j]
    /\ Goto(c, IF Resolvable(HasFile, file, line) THEN "probe" ELSE "failed")
    /\ UNCHANGED <<door, told, routing>>

\* No agent answered.
Alone(c) ==
    Goto(c, IF job[c] # "command" THEN "notrunning"
            ELSE IF AddrOf(c) = None THEN "failed" ELSE "radio")

\* probe_daemon: the connection of its ping.
Probe(c) ==
    /\ at[c] = "probe"
    /\ found' = [found EXCEPT ![c] = {a \in Agent : at[a] = "serving"
                                                    /\ PathOf(a) = PathOf(c)}]
    /\ reached' = [reached EXCEPT ![c] = Reachable(c)]
    /\ IF Reachable(c) = None THEN Alone(c) ELSE Goto(c, "ping")
    /\ UNCHANGED <<cmd, job, door, told, answered, operated>>

\* Slip: no address is compared.
AddrMatches_Any(c, a) == TRUE

\* ensure_addr_matches.
AddrMatches(c, a) == cmd[c].own["addr"] \in {None, AddrOf(a)}

\* The ping is answered.
Pong(c) ==
    /\ at[c] = "ping" /\ at[reached[c]] \in {"serving", "leaving"}
    /\ Goto(c, CASE job[c] = "status" -> "ok"
                 [] job[c] = "stop" -> "shutdown"
                 [] OTHER -> IF AddrMatches(c, reached[c])
                             THEN "request" ELSE "refused")
    /\ UNCHANGED <<cmd, job, door, told, routing>>

\* The agent has gone, or still connects and accepts nothing.
Unanswered(c) == at[reached[c]] # "serving"

\* The ping is not answered, or not in its 500 ms.
NoPong(c) ==
    /\ at[c] = "ping" /\ Unanswered(c)
    /\ Alone(c)
    /\ UNCHANGED <<cmd, job, door, told, routing>>

\* The request has a connection of its own, to whoever listens by now.
Send(c) ==
    /\ at[c] \in {"request", "shutdown"}
    /\ answered' = [answered EXCEPT ![c] = Reachable(c)]
    /\ Goto(c, IF Reachable(c) = None THEN "failed" ELSE "sent")
    /\ UNCHANGED <<cmd, job, door, told, reached, operated, found>>

\* The agent's actor carries the command out.
Operate(c) ==
    /\ at[c] = "sent" /\ job[c] = "command"
    /\ at[answered[c]] \in {"serving", "leaving"}
    /\ operated' = [operated EXCEPT ![c] = AddrOf(answered[c])]
    /\ UNCHANGED <<cmd, at, job, door, told, reached, answered, found>>

\* The answer to a command.
Reply(c) ==
    /\ at[c] = "sent" /\ job[c] = "command"
    /\ at[answered[c]] \in {"serving", "leaving"}
    /\ Goto(c, IF operated[c] # None THEN "ok" ELSE "failed")
    /\ UNCHANGED <<cmd, job, door, told, routing>>

\* Slip: the answer is all that a shutdown brings.
Told_Nobody(a) == told

\* handle_client, after the answer: shutdown.notify_one.
Told(a) == told \cup {a}

\* The answer to a shutdown.
Stopped(c) ==
    /\ at[c] = "sent" /\ job[c] = "stop"
    /\ at[answered[c]] \in {"serving", "leaving"}
    /\ Goto(c, "ok")
    /\ told' = Told(answered[c])
    /\ UNCHANGED <<cmd, job, door, routing>>

\* The connection closes unanswered, or the answer to a command is an error.
Fails(c) ==
    /\ at[c] = "sent"
    /\ \/ at[answered[c]] \in {"leaving", "gone"}
       \/ at[answered[c]] = "serving" /\ job[c] = "command"
    /\ Goto(c, "failed")
    /\ UNCHANGED <<cmd, job, door, told, routing>>

\* Direct mode, until the link is let go; a Ctrl-C in it is a success.
Radio(c) ==
    /\ at[c] = "radio"
    /\ operated' \in {operated, [operated EXCEPT ![c] = AddrOf(c)]}
    /\ Goto(c, "ok") \/ Goto(c, "failed")
    /\ UNCHANGED <<cmd, job, door, told, reached, answered, found>>

ClientStep ==
    \E c \in Client :
        \/ \E run \in Runs : Run(c, run[1], run[2])
        \/ Probe(c) \/ Pong(c) \/ NoPong(c) \/ Send(c)
        \/ Operate(c) \/ Reply(c) \/ Stopped(c) \/ Fails(c) \/ Radio(c)

-----------------------------------------------------------------------------
NoLine == [own |-> Nothing, device |-> None, config |-> FALSE]

Init ==
    /\ ConfigInit
    /\ cmd = [p \in Agent \cup Client |-> NoLine]
    /\ at = [p \in Agent \cup Client |-> "new"]
    /\ job = [c \in Client |-> "command"]
    /\ door = [s \in Socket |-> None]
    /\ reached = [c \in Client |-> None]
    /\ answered = [c \in Client |-> None]
    /\ operated = [c \in Client |-> None]
    /\ told = {}
    /\ found = [c \in Client |-> {}]

\* What was read is told apart no more once the file is.
ReadFile ==
    /\ ReadLine \/ (EndOfFile /\ read' = <<>>)
    /\ UNCHANGED <<cmd, at, job, door, told, routing>>

\* load_config fails on a file with an error in it, and so does everything.
Process ==
    /\ verdict \in {"ok", "absent"}
    /\ AgentStep \/ ClientStep
    /\ UNCHANGED configVars

Next == ReadFile \/ Process

\* An agent takes the permit that it was given, and an actor that was told to
\* end does (module Agent).
Fairness ==
    \A a \in Agent : /\ WF_vars(Leave(a) /\ a \in told /\ UNCHANGED configVars)
                     /\ WF_vars(Exit(a) /\ at[a] = "leaving" /\ UNCHANGED configVars)

Spec == Init /\ [][Next]_vars /\ Fairness

-----------------------------------------------------------------------------
(***************************************************************************)
(* A command with an explicit --addr operates that device and no other,    *)
(* whatever agent it is routed to (main.rs:86), and over the radio too     *)
(* where it pinged in vain - unless the agent that answered its ping was   *)
(* replaced before it sent the command.                                    *)
(***************************************************************************)
NamedDevice ==
    \A c \in Client :
        /\ cmd[c].own["addr"] # None /\ operated[c] # None
        /\ answered[c] \in {None, reached[c]}
        => operated[c] = cmd[c].own["addr"]

\* The file gives p an agent's socket of its own.
HasOwnPost(p) ==
    /\ file.profile[p]["socket"] \notin {None, DefaultSocket}
    /\ \A q \in (Device \cup {None}) \ {p} :
        file.profile[q]["socket"] # file.profile[p]["socket"]

(***************************************************************************)
(* Because socket travels with the profile, a command that selects one and *)
(* says nothing else reaches the agent that holds its meter, or none, as   *)
(* long as agents are started by profile too and the file gives it a socket*)
(* that no other has.  Nothing compares the addresses here (README.md:330, *)
(* cli.rs:480).                                                            *)
(***************************************************************************)
ProfileReachesItsAgent ==
    \A c \in Client :
        LET p == Selected(file, cmd[c])
            addr == file.profile[p]["addr"]
        IN  /\ verdict = "ok" /\ p # None /\ HasOwnPost(p)
            /\ cmd[c].own = Nothing /\ \A a \in Agent : cmd[a].own = Nothing
            /\ operated[c] # None
            => operated[c] = IF addr # None THEN addr ELSE file.profile[None]["addr"]

(***************************************************************************)
(* A client goes to the radio, or reports that no agent runs, only when an *)
(* agent that served at its path as it looked has ceased to: not because   *)
(* its file was taken by another start, another's exit or a late clean-up. *)
(***************************************************************************)
ServingAgentIsFound ==
    [][\A c \in Client :
        /\ at[c] \in {"probe", "ping"} /\ at'[c] \in {"radio", "notrunning"}
        => \A a \in found'[c] : at[a] # "serving"]_vars

\* A stop that was reported leads to the end of the agent it was sent to.
StopCompletes ==
    \A c \in Client :
        (job[c] = "stop" /\ at[c] = "ok")
            ~> (\E a \in Agent : a = answered[c] /\ at[a] = "gone")
=============================================================================
