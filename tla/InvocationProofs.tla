--------------------------- MODULE InvocationProofs -------------------------
(***************************************************************************)
(* Theorems about Invocation: for any number of agents and clients, any    *)
(* config file, any command lines and any socket paths.                    *)
(***************************************************************************)
EXTENDS Invocation, ConfigFileProofs

\* Nobody has started before the file has been read.
FileFirst ==
    verdict \notin {"ok", "absent"} => \A p \in Agent \cup Client : at[p] = "new"

\* A socket file is found at the path of the agent that bound it.
DoorsInPlace ==
    \A s \in Socket : door[s] # None => at[door[s]] # "new" /\ PathOf(door[s]) = s

\* There is one holder of each post, and if it listens the door leads to it.
PostsHeld ==
    /\ \A a, b \in Agent :
        at[a] \in Holding /\ at[b] \in Holding /\ PathOf(a) = PathOf(b) => a = b
    /\ \A a \in Agent : at[a] \in Listening => door[PathOf(a)] = a

\* How far a client has come, and what it therefore knows.
Placed(c) ==
    /\ at[c] \in {"new", "probe", "ping", "request", "shutdown"}
        => answered[c] = None /\ operated[c] = None
    /\ at[c] = "radio" => answered[c] = None
    /\ at[c] = "new" => reached[c] = None
    /\ at[c] = "ping" => reached[c] # None /\ found[c] \subseteq {reached[c]}
    /\ at[c] = "shutdown" => job[c] # "command"
    /\ at[c] = "sent" => answered[c] # None

\* Whom a client has dealt with: the agent that its ping reached and the one
\* that its request reached have started, and the latter at the client's path.
Routed(c) ==
    /\ reached[c] # None => at[reached[c]] # "new"
    /\ answered[c] # None =>
        at[answered[c]] # "new" /\ PathOf(answered[c]) = PathOf(c)
    /\ job[c] = "command" /\ (at[c] = "request" \/ answered[c] # None) =>
        reached[c] # None /\ AddrMatches(c, reached[c])

\* What a client has operated is the device of whoever did so for it.
OperatedByWhom(c) ==
    operated[c] # None =>
        /\ answered[c] = None => operated[c] = AddrOf(c)
        /\ answered[c] # None => job[c] = "command" /\ operated[c] = AddrOf(answered[c])

Clients == \A c \in Client : Placed(c) /\ Routed(c) /\ OperatedByWhom(c)

IInv ==
    /\ TypeOK /\ Meant /\ FileFirst
    /\ DoorsInPlace /\ PostsHeld /\ Clients

-----------------------------------------------------------------------------
\* What the settings resolve to, for any file and any command line.
LEMMA OrType ==
    ASSUME NEW s \in Settings, NEW t \in Settings
    PROVE  Or(s, t) \in Settings
BY DEF Or, Settings, Value, Key

LEMMA ResolvedType ==
    ASSUME NEW with \in BOOLEAN, NEW f \in File, NEW line \in CommandLine
    PROVE  /\ Resolved(with, f, line) \in Settings
           /\ SocketPath(with, f, line) \in Socket
<1>1. Selected(f, line) \in Device \cup {None}
    BY DEF Selected, CommandLine, File
<1>2. \A p \in Device \cup {None} : Profile(f, p) \in Settings
    BY OrType DEF Profile, File
<1>3. line.own \in Settings
    BY DEF CommandLine
<1>4. Resolved(with, f, line) \in Settings
    BY <1>1, <1>2, <1>3, OrType, NothingIsSettings DEF Resolved
<1>5. \A t \in Settings : t["socket"] \in Socket \cup {None}
    BY DEF Settings, Value, Key
<1> QED BY <1>4, <1>5, DefaultIsSocket DEF SocketPath

\* The device and the path of whoever has a command line.
LEMMA AddrAndPathType ==
    ASSUME TypeOK, NEW p \in Agent \cup Client
    PROVE  AddrOf(p) \in Addr \cup {None} /\ PathOf(p) \in Socket
<1>1. HasFile \in BOOLEAN /\ file \in File /\ cmd[p] \in CommandLine
    BY DEF TypeOK, HasFile, ConfigTypeOK
<1>2. \A t \in Settings : t["addr"] \in Addr \cup {None}
    BY DEF Settings, Value, Key
<1> QED BY <1>1, <1>2, ResolvedType DEF AddrOf, PathOf

-----------------------------------------------------------------------------
Place == {"new", "starting", "gone"} \cup Holding \cup Ended
            \cup {"probe", "ping", "request", "shutdown", "sent", "radio"}

\* The types of the parts that the agents and the clients write.
PlacesTyped ==
    /\ cmd \in [Agent \cup Client -> CommandLine]
    /\ at \in [Agent \cup Client -> Place]
    /\ job \in [Client -> Job]
    /\ door \in [Socket -> Agent \cup {None}]

RoutesTyped ==
    /\ reached \in [Client -> Agent \cup {None}]
    /\ answered \in [Client -> Agent \cup {None}]
    /\ operated \in [Client -> Addr \cup {None}]
    /\ told \subseteq Agent
    /\ found \in [Client -> SUBSET Agent]

LEMMA TypeParts == TypeOK <=> ConfigTypeOK /\ PlacesTyped /\ RoutesTyped
BY DEF TypeOK, PlacesTyped, RoutesTyped, Place

LEMMA PlacesAreTyped ==
    /\ {"claimed", "connecting", "serving", "leaving"} \subseteq Place
    /\ {"new", "starting", "gone", "ok", "failed", "refused", "notrunning"} \subseteq Place
    /\ {"probe", "ping", "request", "shutdown", "sent", "radio"} \subseteq Place
BY DEF Place, Holding, Listening, Ended

\* Bounds on what is done say which command lines there are.
LEMMA LinesType ==
    /\ \A a \in Agent : Starts[a] \subseteq CommandLine
    /\ \A run \in Runs : run[1] \in CommandLine /\ run[2] \in Job
<1>1. \A a \in Agent : Starts[a] \subseteq CommandLine
    BY StartsAreCommandLines
<1>2. ASSUME NEW run \in Runs PROVE run[1] \in CommandLine /\ run[2] \in Job
    BY RunsAreJobs
<1> QED BY <1>1, <1>2

LEMMA AgentType ==
    ASSUME TypeOK, AgentStep
    PROVE  PlacesTyped' /\ RoutesTyped'
<1> PICK a \in Agent :
        \/ \E line \in Starts[a] : Start(a, line)
        \/ Claim(a) \/ Bind(a) \/ Serve(a) \/ Leave(a) \/ Exit(a) \/ Crash(a)
    BY DEF AgentStep
<1> USE PlacesAreTyped DEF PlacesTyped, RoutesTyped, Goto, routing
<1>0. PlacesTyped /\ RoutesTyped /\ PathOf(a) \in Socket
    BY TypeParts, AddrAndPathType
<1>1. ASSUME NEW line \in Starts[a], Start(a, line) PROVE PlacesTyped' /\ RoutesTyped'
    BY <1>0, <1>1, LinesType DEF Start
<1>2. CASE Claim(a)
    BY <1>0, <1>2 DEF Claim
<1>3. CASE Bind(a) \/ Exit(a)
    BY <1>0, <1>3 DEF Bind, Exit
<1>4. CASE Serve(a) \/ Leave(a) \/ Crash(a)
    BY <1>0, <1>4 DEF Serve, Leave, Crash
<1> QED BY <1>1, <1>2, <1>3, <1>4

LEMMA ReachableType ==
    ASSUME TypeOK, NEW c \in Client
    PROVE  Reachable(c) \in Agent \cup {None}
BY AddrAndPathType DEF TypeOK, Reachable

LEMMA ClientType ==
    ASSUME TypeOK, Clients, ClientStep
    PROVE  PlacesTyped' /\ RoutesTyped'
<1> PICK c \in Client :
        \/ \E run \in Runs : Run(c, run[1], run[2])
        \/ Probe(c) \/ Pong(c) \/ NoPong(c) \/ Send(c)
        \/ Operate(c) \/ Reply(c) \/ Stopped(c) \/ Fails(c) \/ Radio(c)
    BY DEF ClientStep
<1>0. /\ PlacesTyped /\ RoutesTyped
      /\ AddrOf(c) \in Addr \cup {None} /\ Reachable(c) \in Agent \cup {None}
    BY TypeParts, AddrAndPathType, ReachableType
<1> USE PlacesAreTyped DEF PlacesTyped, RoutesTyped, Goto, routing
<1>1. ASSUME NEW run \in Runs, Run(c, run[1], run[2]) PROVE PlacesTyped' /\ RoutesTyped'
    BY <1>0, <1>1, LinesType DEF Run
<1>2. CASE Probe(c)
    BY <1>0, <1>2 DEF Probe, Alone
<1>3. CASE Pong(c)
    BY <1>0, <1>3 DEF Pong
<1>4. CASE NoPong(c)
    BY <1>0, <1>4 DEF NoPong, Alone
<1>5. CASE Send(c)
    BY <1>0, <1>5 DEF Send
<1>6. CASE Operate(c)
    <2>1. answered[c] \in Agent
        BY <1>0, <1>6 DEF Operate, Clients, Placed
    <2>2. AddrOf(answered[c]) \in Addr \cup {None}
        BY <2>1, AddrAndPathType
    <2> QED BY <1>0, <1>6, <2>2 DEF Operate
<1>7. CASE Reply(c) \/ Fails(c)
    BY <1>0, <1>7 DEF Reply, Fails
<1>8. CASE Stopped(c)
    <2>1. answered[c] \in Agent
        BY <1>0, <1>8 DEF Stopped, Clients, Placed
    <2> QED BY <1>0, <1>8, <2>1 DEF Stopped, Told
<1>9. CASE Radio(c)
    BY <1>0, <1>9 DEF Radio
<1> QED BY <1>1, <1>2, <1>3, <1>4, <1>5, <1>6, <1>7, <1>8, <1>9

LEMMA TypeStep ==
    ASSUME TypeOK, Clients, [Next]_vars
    PROVE  TypeOK'
<1>1. CASE ReadFile
    <2>1. ConfigTypeOK'
        BY <1>1, ReadLineType, EndType DEF ReadFile, TypeOK
    <2> QED BY <1>1, <2>1 DEF ReadFile, TypeOK, routing
<1>2. CASE Process
    <2>1. ConfigTypeOK'
        BY <1>2 DEF Process, configVars, TypeOK, ConfigTypeOK
    <2>2. PlacesTyped' /\ RoutesTyped'
        BY <1>2, AgentType, ClientType DEF Process
    <2> QED BY <2>1, <2>2 DEF TypeOK, PlacesTyped, RoutesTyped, Place
<1>3. CASE UNCHANGED vars
    BY <1>3 DEF vars, configVars, routing, TypeOK, ConfigTypeOK
<1> QED BY <1>1, <1>2, <1>3 DEF Next

-----------------------------------------------------------------------------
\* The parts that a step of a client leaves alone, and one of an agent.
LEMMA ClientLeaves ==
    ASSUME TypeOK, ClientStep
    PROVE  /\ door' = door
           /\ \A a \in Agent : at'[a] = at[a] /\ cmd'[a] = cmd[a]
           /\ \A p \in Client : at[p] # "new" => at'[p] # "new" /\ cmd'[p] = cmd[p]
<1> PICK c \in Client :
        \/ \E run \in Runs : Run(c, run[1], run[2])
        \/ Probe(c) \/ Pong(c) \/ NoPong(c) \/ Send(c)
        \/ Operate(c) \/ Reply(c) \/ Stopped(c) \/ Fails(c) \/ Radio(c)
    BY DEF ClientStep
<1>1. c \notin Agent
    BY AgentsAreNotClients
<1> USE <1>1 DEF TypeOK, Goto, routing
<1>2. ASSUME NEW run \in Runs, Run(c, run[1], run[2])
      PROVE  /\ door' = door
             /\ \A a \in Agent : at'[a] = at[a] /\ cmd'[a] = cmd[a]
             /\ \A p \in Client : at[p] # "new" => at'[p] # "new" /\ cmd'[p] = cmd[p]
    BY <1>2 DEF Run
<1>3. CASE Probe(c) \/ Pong(c) \/ NoPong(c)
    BY <1>3 DEF Probe, Pong, NoPong, Alone
<1>4. CASE Send(c) \/ Operate(c) \/ Reply(c) \/ Stopped(c) \/ Fails(c) \/ Radio(c)
    BY <1>4 DEF Send, Operate, Reply, Stopped, Fails, Radio
<1> QED BY <1>2, <1>3, <1>4

LEMMA AgentLeaves ==
    ASSUME TypeOK, AgentStep
    PROVE  /\ UNCHANGED <<job, routing>>
           /\ \A c \in Client : at'[c] = at[c] /\ cmd'[c] = cmd[c]
           /\ \A p \in Agent : at[p] # "new" => at'[p] # "new" /\ cmd'[p] = cmd[p]
<1> PICK a \in Agent :
        \/ \E line \in Starts[a] : Start(a, line)
        \/ Claim(a) \/ Bind(a) \/ Serve(a) \/ Leave(a) \/ Exit(a) \/ Crash(a)
    BY DEF AgentStep
<1>1. a \notin Client
    BY AgentsAreNotClients
<1> USE <1>1 DEF TypeOK, Goto
<1>2. ASSUME NEW line \in Starts[a], Start(a, line)
      PROVE  /\ UNCHANGED <<job, routing>>
             /\ \A c \in Client : at'[c] = at[c] /\ cmd'[c] = cmd[c]
             /\ \A p \in Agent : at[p] # "new" => at'[p] # "new" /\ cmd'[p] = cmd[p]
    BY <1>2 DEF Start
<1>3. CASE Claim(a) \/ Bind(a) \/ Serve(a) \/ Leave(a) \/ Exit(a) \/ Crash(a)
    BY <1>3 DEF Claim, Bind, Serve, Leave, Exit, Crash
<1> QED BY <1>2, <1>3

\* Whoever has started has the settings that it has, whatever happens.
LEMMA Settled ==
    ASSUME TypeOK, FileFirst, [Next]_vars, NEW p \in Agent \cup Client, at[p] # "new"
    PROVE  /\ at'[p] # "new" /\ cmd'[p] = cmd[p]
           /\ AddrOf(p)' = AddrOf(p) /\ PathOf(p)' = PathOf(p)
<1>1. verdict \in {"ok", "absent"}
    BY DEF FileFirst
<1>2. UNCHANGED configVars /\ at'[p] # "new" /\ cmd'[p] = cmd[p]
    <2>1. CASE ReadFile
        BY <1>1, <2>1 DEF ReadFile, ReadLine, EndOfFile, Blank, Junk, Section, Default,
            Assign, Reads
    <2>2. CASE Process
        BY <2>2, ClientLeaves, AgentLeaves DEF Process
    <2>3. CASE UNCHANGED vars
        BY <2>3 DEF vars
    <2> QED BY <2>1, <2>2, <2>3 DEF Next
<1> QED BY <1>2 DEF AddrOf, PathOf, HasFile, configVars

LEMMA FileFirstStep ==
    ASSUME TypeOK, FileFirst, [Next]_vars
    PROVE  FileFirst'
<1>1. CASE ReadFile
    <2>1. verdict = "reading"
        BY <1>1 DEF ReadFile, ReadLine, EndOfFile, Blank, Junk, Section, Default,
            Assign, Reads
    <2> QED BY <1>1, <2>1 DEF ReadFile, FileFirst
<1>2. CASE Process
    BY <1>2 DEF Process, configVars, FileFirst
<1>3. CASE UNCHANGED vars
    BY <1>3 DEF vars, configVars, FileFirst
<1> QED BY <1>1, <1>2, <1>3 DEF Next

-----------------------------------------------------------------------------
\* The posts and their doors.  Four kinds of steps of an agent concern them:
\* it claims, opens its door, goes on listening or not, and goes.
PostStep(a) ==
    \/ at[a] = "starting" /\ Vacant(PathOf(a)) /\ Goto(a, "claimed") /\ door' = door
    \/ /\ at[a] = "claimed" /\ Goto(a, "connecting")
       /\ door' = [door EXCEPT ![PathOf(a)] = a]
    \/ at[a] = "connecting" /\ Goto(a, "serving") /\ door' = door
    \/ at[a] = "serving" /\ Goto(a, "leaving") /\ door' = door
    \/ /\ at[a] \in Holding /\ Goto(a, "gone")
       /\ \/ door' = door
          \/ at[a] # "serving" /\ door' = [door EXCEPT ![PathOf(a)] = None]

NoPostStep ==
    /\ door' = door
    /\ \A a \in Agent : \/ at'[a] = at[a]
                        \/ at[a] \notin Holding /\ at'[a] \notin Holding

LEMMA PostSteps ==
    ASSUME TypeOK, [Next]_vars
    PROVE  NoPostStep \/ \E a \in Agent : PostStep(a)
<1>1. CASE UNCHANGED <<at, door>>
    BY <1>1 DEF NoPostStep
<1>2. CASE ReadFile \/ UNCHANGED vars
    BY <1>1, <1>2 DEF ReadFile, vars
<1>3. CASE ClientStep
    BY <1>3, ClientLeaves DEF NoPostStep
<1>4. CASE AgentStep
    <2> PICK a \in Agent :
            \/ \E line \in Starts[a] : Start(a, line)
            \/ Claim(a) \/ Bind(a) \/ Serve(a) \/ Leave(a) \/ Exit(a) \/ Crash(a)
        BY <1>4 DEF AgentStep
    <2> USE DEF Goto, Holding, Listening
    <2>1. ASSUME NEW line \in Starts[a], Start(a, line) PROVE NoPostStep
        BY <2>1 DEF Start, NoPostStep, TypeOK
    <2>2. CASE Claim(a)
        BY <2>2 DEF Claim, NoPostStep, PostStep, TypeOK
    <2>3. CASE Bind(a) \/ Serve(a) \/ Leave(a)
        BY <2>3 DEF Bind, Serve, Leave, PostStep
    <2>4. CASE Exit(a) \/ Crash(a)
        BY <2>4 DEF Exit, Crash, PostStep
    <2> QED BY <2>1, <2>2, <2>3, <2>4
<1> QED BY <1>2, <1>3, <1>4 DEF Next, Process

LEMMA DoorsStep ==
    ASSUME TypeOK, FileFirst, DoorsInPlace, [Next]_vars
    PROVE  DoorsInPlace'
<1> SUFFICES ASSUME NEW s \in Socket, NEW b, b = door'[s], b # None
             PROVE  at'[b] # "new" /\ PathOf(b)' = s
    BY DEF DoorsInPlace
<1>1. CASE b = door[s]
    <2>1. b \in Agent /\ at[b] # "new" /\ PathOf(b) = s
        BY <1>1 DEF DoorsInPlace, TypeOK
    <2> QED BY <2>1, Settled
<1>2. CASE door'[s] # door[s]
    <2>1. PICK a \in Agent : at[a] = "claimed" /\ door' = [door EXCEPT ![PathOf(a)] = a]
        BY <1>2, PostSteps DEF PostStep, NoPostStep, TypeOK
    <2>2. b = a /\ PathOf(a) = s
        BY <1>2, <2>1 DEF TypeOK
    <2> QED BY <2>1, <2>2, Settled
<1> QED BY <1>1, <1>2

LEMMA PostsStep ==
    ASSUME TypeOK, FileFirst, PostsHeld, [Next]_vars
    PROVE  PostsHeld'
<1> USE DEF Holding, Listening
<1>1. \A a \in Agent : at[a] # "new" => PathOf(a)' = PathOf(a)
    BY Settled
<1>2. CASE NoPostStep
    <2>1. \A a \in Agent : at'[a] \in Holding =>
            at[a] = at'[a] /\ PathOf(a)' = PathOf(a)
        BY <1>1, <1>2 DEF NoPostStep
    <2> QED BY <1>2, <2>1 DEF NoPostStep, PostsHeld
<1>3. ASSUME NEW a \in Agent, PostStep(a) PROVE PostsHeld'
    <2>1. \A b \in Agent \ {a} : at'[b] = at[b]
        BY <1>3 DEF PostStep, Goto, TypeOK
    <2>2. \A b \in Agent : PathOf(b) \in Socket
        BY AddrAndPathType
    <2>3. PathOf(a)' = PathOf(a)
        BY <1>1, <1>3 DEF PostStep
    <2>4. \A b \in Agent \ {a} : at'[b] \in Holding => PathOf(b)' = PathOf(b)
        BY <1>1, <2>1
    <2>5. \A b \in Agent \ {a} :
            at'[b] \in Holding /\ at'[a] \in Holding => PathOf(b)' # PathOf(a)'
        <3>1. ASSUME NEW b \in Agent \ {a}, at'[b] \in Holding, at'[a] \in Holding,
                     PathOf(b) = PathOf(a)
              PROVE  FALSE
            <4>1. CASE at[a] \in Holding
                BY <2>1, <3>1, <4>1 DEF PostsHeld
            <4>2. CASE at[a] = "starting" /\ Vacant(PathOf(a))
                BY <2>1, <3>1, <4>2 DEF Vacant
            <4> QED BY <1>3, <4>1, <4>2 DEF PostStep
        <3> QED BY <2>3, <2>4, <3>1
    <2>6. \A b \in Agent \ {a} : at'[b] \in Listening => door'[PathOf(b)'] = b
        <3> SUFFICES ASSUME NEW b \in Agent \ {a}, at'[b] \in Listening
                     PROVE  door'[PathOf(b)] = b
            BY <2>4
        <3>1. at[b] \in Listening /\ door[PathOf(b)] = b
            BY <2>1 DEF PostsHeld
        <3>2. at[a] \in Holding => PathOf(b) # PathOf(a)
            BY <3>1 DEF PostsHeld
        <3> QED BY <1>3, <2>2, <3>1, <3>2 DEF PostStep, TypeOK
    <2>7. at'[a] \in Listening => door'[PathOf(a)'] = a
        BY <1>3, <2>2, <2>3 DEF PostStep, Goto, TypeOK, PostsHeld
    <2>8. \A b, c \in Agent :
            at'[b] \in Holding /\ at'[c] \in Holding /\ PathOf(b)' = PathOf(c)' => b = c
        <3> SUFFICES ASSUME NEW b \in Agent, NEW c \in Agent, b # c,
                            at'[b] \in Holding, at'[c] \in Holding
                     PROVE  PathOf(b)' # PathOf(c)'
            OBVIOUS
        <3>1. CASE b = a \/ c = a
            BY <2>5, <3>1
        <3>2. CASE b # a /\ c # a
            BY <2>1, <2>4, <3>2 DEF PostsHeld
        <3> QED BY <3>1, <3>2
    <2> QED BY <2>6, <2>7, <2>8 DEF PostsHeld
<1> QED BY <1>2, <1>3, PostSteps

-----------------------------------------------------------------------------
\* A client that does nothing knows what it knew.
Still(c) ==
    /\ at'[c] = at[c] /\ job'[c] = job[c] /\ cmd'[c] = cmd[c]
    /\ reached'[c] = reached[c] /\ answered'[c] = answered[c]
    /\ operated'[c] = operated[c] /\ found'[c] = found[c]

LEMMA StillKnows ==
    ASSUME TypeOK, FileFirst, [Next]_vars, NEW c \in Client, Still(c),
           Placed(c), Routed(c), OperatedByWhom(c)
    PROVE  Placed(c)' /\ Routed(c)' /\ OperatedByWhom(c)'
<1>1. /\ reached[c] \in Agent \cup {None} /\ answered[c] \in Agent \cup {None}
      /\ \A a \in Agent \cup Client : at[a] # "new" =>
            at'[a] # "new" /\ AddrOf(a)' = AddrOf(a) /\ PathOf(a)' = PathOf(a)
    BY Settled DEF TypeOK
<1>2. answered[c] # None \/ operated[c] # None => at[c] # "new"
    BY DEF Placed
<1>3. Placed(c)'
    BY DEF Still, Placed
<1>4. Routed(c)'
    <2> PICK r : r = reached[c]
        OBVIOUS
    <2> PICK w : w = answered[c]
        OBVIOUS
    <2>1. reached'[c] = r /\ answered'[c] = w
        BY DEF Still
    <2>2. r # None => at'[r] # "new" /\ AddrOf(r)' = AddrOf(r)
        BY <1>1 DEF Routed
    <2>3. w # None => at'[w] # "new" /\ PathOf(w)' = PathOf(c)'
        BY <1>1, <1>2 DEF Routed
    <2>4. job[c] = "command" /\ (at[c] = "request" \/ w # None) =>
            r # None /\ cmd[c].own["addr"] \in {None, AddrOf(r)'}
        BY <2>2 DEF Routed, AddrMatches
    <2> QED BY <2>1, <2>2, <2>3, <2>4 DEF Still, Routed, AddrMatches
<1>5. OperatedByWhom(c)'
    BY <1>1, <1>2 DEF Still, OperatedByWhom, Routed
<1> QED BY <1>3, <1>4, <1>5

\* What a client that has started knows after a step of its own, said of the
\* agents as they were.
LEMMA StepKnows ==
    ASSUME TypeOK, FileFirst, [Next]_vars, ClientStep,
           NEW c \in Client, at[c] # "new", job'[c] = job[c],
           NEW r \in Agent \cup {None}, r = reached'[c],
           NEW w \in Agent \cup {None}, w = answered'[c],
           NEW o, o = operated'[c],
           r # None => at[r] # "new",
           w # None => at[w] # "new" /\ PathOf(w) = PathOf(c),
           job[c] = "command" /\ (at'[c] = "request" \/ w # None) =>
                r # None /\ AddrMatches(c, r),
           o # None => /\ w = None => o = AddrOf(c)
                       /\ w # None => job[c] = "command" /\ o = AddrOf(w)
    PROVE  Routed(c)' /\ OperatedByWhom(c)'
<1>1. \A p \in Agent \cup Client : at[p] # "new" =>
        /\ at'[p] # "new" /\ cmd'[p] = cmd[p]
        /\ AddrOf(p)' = AddrOf(p) /\ PathOf(p)' = PathOf(p)
    BY Settled
<1>2. cmd'[c] = cmd[c] /\ AddrOf(c)' = AddrOf(c) /\ PathOf(c)' = PathOf(c)
    BY <1>1
<1>3. r # None => at'[r] # "new" /\ AddrOf(r)' = AddrOf(r)
    BY <1>1
<1>4. w # None => /\ at'[w] # "new" /\ AddrOf(w)' = AddrOf(w)
                  /\ PathOf(w)' = PathOf(c)'
    BY <1>1, <1>2
<1>5. Routed(c)'
    <2>1. job[c] = "command" /\ (at'[c] = "request" \/ w # None) =>
            r # None /\ cmd'[c].own["addr"] \in {None, AddrOf(r)'}
        BY <1>2, <1>3 DEF AddrMatches
    <2> QED BY <1>3, <1>4, <2>1 DEF Routed, AddrMatches
<1>6. OperatedByWhom(c)'
    BY <1>2, <1>4 DEF OperatedByWhom
<1> QED BY <1>5, <1>6

\* The agent that a connection reaches, and what a probe finds of those that
\* serve at the path.
LEMMA ReachableIs ==
    ASSUME TypeOK, DoorsInPlace, PostsHeld, NEW c \in Client
    PROVE  /\ Reachable(c) \in Agent \cup {None}
           /\ Reachable(c) # None =>
                at[Reachable(c)] # "new" /\ PathOf(Reachable(c)) = PathOf(c)
           /\ \A a \in Agent : at[a] = "serving" /\ PathOf(a) = PathOf(c)
                => Reachable(c) = a
<1>1. PathOf(c) \in Socket
    BY AddrAndPathType
<1>2. ASSUME NEW a \in Agent, at[a] = "serving", PathOf(a) = PathOf(c)
      PROVE  Reachable(c) = a
    BY <1>2, NoneIsNobody DEF PostsHeld, Listening, Reachable
<1>3. ASSUME Reachable(c) # None
      PROVE  at[Reachable(c)] # "new" /\ PathOf(Reachable(c)) = PathOf(c)
    BY <1>1, <1>3 DEF Reachable, DoorsInPlace
<1> QED BY <1>2, <1>3, ReachableType

LEMMA MoverKnows ==
    ASSUME IInv, [Next]_vars, ClientStep, NEW c \in Client,
           \/ \E run \in Runs : Run(c, run[1], run[2])
           \/ Probe(c) \/ Pong(c) \/ NoPong(c) \/ Send(c)
           \/ Operate(c) \/ Reply(c) \/ Stopped(c) \/ Fails(c) \/ Radio(c)
    PROVE  Placed(c)' /\ Routed(c)' /\ OperatedByWhom(c)'
<1> DEFINE Known == Placed(c)' /\ Routed(c)' /\ OperatedByWhom(c)'
<1>0. /\ TypeOK /\ FileFirst /\ DoorsInPlace /\ PostsHeld
      /\ Placed(c) /\ Routed(c) /\ OperatedByWhom(c)
    BY DEF IInv, Clients
<1> PICK n : n = Reachable(c)
    OBVIOUS
<1> PICK r : r = reached[c]
    OBVIOUS
<1> PICK w : w = answered[c]
    OBVIOUS
<1>a. /\ r \in Agent \cup {None} /\ w \in Agent \cup {None}
      /\ n \in Agent \cup {None}
      /\ n # None => at[n] # "new" /\ PathOf(n) = PathOf(c)
    BY <1>0, ReachableIs DEF TypeOK
<1>b. /\ r # None => at[r] # "new"
      /\ w # None => at[w] # "new" /\ PathOf(w) = PathOf(c)
      /\ job[c] = "command" /\ (at[c] = "request" \/ w # None) =>
            r # None /\ AddrMatches(c, r)
      /\ operated[c] # None =>
            /\ w = None => operated[c] = AddrOf(c)
            /\ w # None => job[c] = "command" /\ operated[c] = AddrOf(w)
    BY <1>0 DEF Routed, OperatedByWhom
<1>1. ASSUME NEW run \in Runs, Run(c, run[1], run[2]) PROVE Known
    <2>1. /\ reached'[c] = None /\ answered'[c] = None /\ operated'[c] = None
          /\ at'[c] \in {"probe", "failed"}
        BY <1>0, <1>1 DEF Run, Goto, routing, Placed, TypeOK
    <2> QED BY <2>1 DEF Placed, Routed, OperatedByWhom
<1>2. CASE Probe(c)
    <2>1. /\ at[c] = "probe" /\ answered' = answered /\ operated' = operated
          /\ job' = job /\ reached'[c] = n
          /\ at'[c] \in IF n = None THEN {"notrunning", "failed", "radio"} ELSE {"ping"}
        BY <1>0, <1>2 DEF Probe, Alone, Goto, TypeOK
    <2>2. found'[c] \subseteq {n}
        BY <1>0, <1>2, ReachableIs DEF Probe, TypeOK
    <2>3. w = None /\ operated[c] = None
        BY <1>0, <2>1 DEF Placed
    <2>4. Placed(c)'
        BY <2>1, <2>2, <2>3 DEF Placed
    <2> QED BY <1>0, <1>a, <2>1, <2>3, <2>4, StepKnows
<1>3. CASE Pong(c) \/ NoPong(c)
    <2>1. /\ at[c] = "ping" /\ UNCHANGED <<job, routing>>
          /\ \/ at'[c] \in {"ok", "refused", "notrunning", "failed", "radio"}
             \/ at'[c] = "shutdown" /\ job[c] # "command"
             \/ at'[c] = "request" /\ job[c] = "command" /\ AddrMatches(c, r)
        BY <1>0, <1>3 DEF Pong, NoPong, Alone, Goto, TypeOK, Job
    <2>2. w = None /\ operated[c] = None /\ r # None
        BY <1>0, <2>1 DEF Placed
    <2>3. Placed(c)'
        BY <2>1, <2>2 DEF Placed, routing
    <2> QED BY <1>0, <1>a, <1>b, <2>1, <2>2, <2>3, StepKnows DEF routing
<1>4. CASE Send(c)
    <2>1. /\ at[c] \in {"request", "shutdown"} /\ UNCHANGED <<job, reached, operated>>
          /\ answered'[c] = n /\ at'[c] = IF n = None THEN "failed" ELSE "sent"
        BY <1>0, <1>4 DEF Send, Goto, TypeOK
    <2>2. w = None /\ operated[c] = None
        BY <1>0, <2>1 DEF Placed
    <2>3. job[c] = "command" => at[c] = "request"
        BY <1>0, <2>1 DEF Placed
    <2>4. Placed(c)'
        BY <2>1, <2>2 DEF Placed
    <2> QED BY <1>0, <1>a, <1>b, <2>1, <2>2, <2>3, <2>4, StepKnows
<1>5. CASE Operate(c)
    <2>1. /\ at[c] = "sent" /\ job[c] = "command"
          /\ UNCHANGED <<at, job, reached, answered, found>>
          /\ operated'[c] = AddrOf(w)
        BY <1>0, <1>5 DEF Operate, TypeOK
    <2>2. w # None
        BY <1>0, <2>1 DEF Placed
    <2>3. Placed(c)'
        BY <1>0, <2>1 DEF Placed
    <2> QED BY <1>0, <1>a, <1>b, <2>1, <2>2, <2>3, StepKnows
<1>6. CASE Reply(c) \/ Stopped(c) \/ Fails(c)
    <2>1. /\ at[c] = "sent" /\ UNCHANGED <<job, routing>>
          /\ at'[c] \in {"ok", "failed"}
        BY <1>0, <1>6 DEF Reply, Stopped, Fails, Goto, TypeOK
    <2>2. Placed(c)'
        BY <1>0, <2>1 DEF Placed, routing
    <2> QED BY <1>0, <1>a, <1>b, <2>1, <2>2, StepKnows DEF routing
<1>7. CASE Radio(c)
    <2>1. /\ at[c] = "radio" /\ UNCHANGED <<job, reached, answered, found>>
          /\ at'[c] \in {"ok", "failed"}
          /\ operated'[c] \in {operated[c], AddrOf(c)}
        BY <1>0, <1>7 DEF Radio, Goto, TypeOK
    <2>2. w = None
        BY <1>0, <2>1 DEF Placed
    <2>3. Placed(c)'
        BY <2>1 DEF Placed
    <2> QED BY <1>0, <1>a, <1>b, <2>1, <2>2, <2>3, StepKnows
<1> QED BY <1>1, <1>2, <1>3, <1>4, <1>5, <1>6, <1>7

LEMMA OthersAreStill ==
    ASSUME TypeOK, NEW c \in Client,
           \/ \E run \in Runs : Run(c, run[1], run[2])
           \/ Probe(c) \/ Pong(c) \/ NoPong(c) \/ Send(c)
           \/ Operate(c) \/ Reply(c) \/ Stopped(c) \/ Fails(c) \/ Radio(c)
    PROVE  \A p \in Client \ {c} : Still(p)
<1> USE DEF TypeOK, Goto, routing, Still
<1>1. ASSUME NEW run \in Runs, Run(c, run[1], run[2])
      PROVE  \A p \in Client \ {c} : Still(p)
    BY <1>1 DEF Run
<1>2. CASE Probe(c)
    BY <1>2 DEF Probe, Alone
<1>3. CASE Pong(c) \/ NoPong(c)
    BY <1>3 DEF Pong, NoPong, Alone
<1>4. CASE Send(c) \/ Operate(c)
    BY <1>4 DEF Send, Operate
<1>5. CASE Reply(c) \/ Stopped(c) \/ Fails(c)
    BY <1>5 DEF Reply, Stopped, Fails
<1>6. CASE Radio(c)
    BY <1>6 DEF Radio
<1> QED BY <1>1, <1>2, <1>3, <1>4, <1>5, <1>6

LEMMA ClientsStep ==
    ASSUME IInv, [Next]_vars
    PROVE  Clients'
<1>1. /\ TypeOK /\ FileFirst
      /\ \A c \in Client : Placed(c) /\ Routed(c) /\ OperatedByWhom(c)
    BY DEF IInv, Clients
<1>2. ASSUME NEW c \in Client, Still(c)
      PROVE  Placed(c)' /\ Routed(c)' /\ OperatedByWhom(c)'
    BY <1>1, <1>2, StillKnows
<1>3. CASE ReadFile \/ UNCHANGED vars
    <2>1. \A c \in Client : Still(c)
        BY <1>3 DEF ReadFile, vars, routing, Still
    <2> QED BY <1>2, <2>1 DEF Clients
<1>4. CASE AgentStep
    <2>1. \A c \in Client : Still(c)
        BY <1>1, <1>4, AgentLeaves DEF routing, Still
    <2> QED BY <1>2, <2>1 DEF Clients
<1>5. CASE ClientStep
    <2> PICK c \in Client :
            \/ \E run \in Runs : Run(c, run[1], run[2])
            \/ Probe(c) \/ Pong(c) \/ NoPong(c) \/ Send(c)
            \/ Operate(c) \/ Reply(c) \/ Stopped(c) \/ Fails(c) \/ Radio(c)
        BY <1>5 DEF ClientStep
    <2>1. \A p \in Client \ {c} : Still(p)
        BY <1>1, OthersAreStill
    <2>2. Placed(c)' /\ Routed(c)' /\ OperatedByWhom(c)'
        BY <1>5, MoverKnows
    <2> QED BY <1>2, <2>1, <2>2 DEF Clients
<1> QED BY <1>3, <1>4, <1>5 DEF Next, Process

-----------------------------------------------------------------------------
LEMMA InitIInv ==
    ASSUME Init
    PROVE  IInv
<1>1. ConfigTypeOK /\ Meant
    BY InitConfigType, MeantAtFirst DEF Init
<1>2. NoLine \in CommandLine
    BY NothingIsSettings DEF NoLine, CommandLine
<1>3. TypeOK
    BY <1>1, <1>2 DEF Init, TypeOK, Job
<1>4. FileFirst /\ DoorsInPlace /\ PostsHeld
    BY DEF Init, FileFirst, DoorsInPlace, PostsHeld, Holding, Listening
<1>5. Clients
    <2> SUFFICES ASSUME NEW c \in Client
                 PROVE  Placed(c) /\ Routed(c) /\ OperatedByWhom(c)
        BY DEF Clients
    <2>1. /\ reached[c] = None /\ answered[c] = None /\ operated[c] = None
          /\ at[c] = "new"
        BY DEF Init
    <2> QED BY <2>1 DEF Placed, Routed, OperatedByWhom
<1> QED BY <1>1, <1>3, <1>4, <1>5 DEF IInv

LEMMA StepIInv ==
    ASSUME IInv, [Next]_vars
    PROVE  IInv'
<1>1. TypeOK /\ Meant /\ FileFirst /\ DoorsInPlace /\ PostsHeld /\ Clients /\ ConfigTypeOK
    BY DEF IInv, TypeOK
<1>2. TypeOK' /\ Clients'
    BY <1>1, TypeStep, ClientsStep
<1>3. FileFirst' /\ DoorsInPlace' /\ PostsHeld'
    BY <1>1, FileFirstStep, DoorsStep, PostsStep
<1>4. Meant'
    <2>1. CASE ReadFile
        BY <1>1, <2>1, MeantStep, MeantAtEnd DEF ReadFile
    <2>2. CASE UNCHANGED configVars
        BY <1>1, <2>2 DEF configVars, Meant, FileMeansItsLines, SectionIsOpen,
            ProfilesAreAssigned, SectionsAreHeaders, DefaultIsNamed, LinesAreAccepted,
            Says, Assigns, Under, IsHeader, IsDefault
    <2> QED BY <2>1, <2>2 DEF Next, Process, vars
<1> QED BY <1>2, <1>3, <1>4 DEF IInv

LEMMA Invariance == Spec => []IInv
<1>1. Init => IInv
    BY InitIInv
<1>2. IInv /\ [Next]_vars => IInv'
    BY StepIInv
<1> QED BY <1>1, <1>2, PTL DEF Spec

(***************************************************************************)
(* The parts of the state have their types: any number of invocations, each*)
(* in one of its places, over the settings that the file has given.        *)
(***************************************************************************)
THEOREM InvocationTypeCorrect == Spec => []TypeOK
<1>1. IInv => TypeOK
    BY DEF IInv
<1> QED BY <1>1, Invariance, PTL

(***************************************************************************)
(* The config file as it has been read so far is what its lines say, and   *)
(* the one that the invocations work with has the section that its default *)
(* names (cli.rs:691), whatever they do.                                   *)
(***************************************************************************)
THEOREM InvocationsShareTheFile == Spec => []FileMeansItsLines
<1>1. IInv => FileMeansItsLines
    BY DEF IInv, Meant
<1> QED BY <1>1, Invariance, PTL

(***************************************************************************)
(* A command with an explicit --addr operates that device and no other:    *)
(* through the agent that ensure_addr_matches has compared it with, or over*)
(* the radio, with or without a ping in vain, for which --addr overrides   *)
(* the file.                                                               *)
(***************************************************************************)
THEOREM NamedDeviceIsOperated == Spec => []NamedDevice
<1>1. IInv => NamedDevice
    <2> SUFFICES ASSUME IInv, NEW c \in Client,
                        cmd[c].own["addr"] # None, operated[c] # None,
                        answered[c] \in {None, reached[c]}
                 PROVE  operated[c] = cmd[c].own["addr"]
        BY DEF NamedDevice
    <2>1. TypeOK /\ Routed(c) /\ OperatedByWhom(c)
        BY DEF IInv, Clients
    <2>2. CASE answered[c] = None
        <3>1. AddrOf(c) = cmd[c].own["addr"]
            BY <2>1 DEF AddrOf, Resolved, Or, TypeOK, CommandLine, Settings, Key
        <3> QED BY <2>1, <2>2, <3>1 DEF OperatedByWhom
    <2>3. CASE answered[c] # None
        BY <2>1, <2>3 DEF Routed, OperatedByWhom, AddrMatches
    <2> QED BY <2>2, <2>3
<1> QED BY <1>1, Invariance, PTL

\* What a command line resolves to that says nothing of its own.
LEMMA BareLine ==
    ASSUME NEW line, line.own = Nothing
    PROVE  \A k \in Key : \A q :
            q = Selected(file, line) =>
                Resolved(TRUE, file, line)[k] =
                    IF q # None /\ file.profile[q][k] # None
                    THEN file.profile[q][k] ELSE file.profile[None][k]
<1> SUFFICES ASSUME NEW k \in Key, NEW q, q = Selected(file, line)
             PROVE  Resolved(TRUE, file, line)[k] =
                        IF q # None /\ file.profile[q][k] # None
                        THEN file.profile[q][k] ELSE file.profile[None][k]
    OBVIOUS
<1>1. line.own[k] = None
    BY DEF Nothing
<1>2. Resolved(TRUE, file, line)[k] = Profile(file, q)[k]
    BY <1>1 DEF Resolved, Or
<1>3. Profile(file, q)[k] = IF q # None /\ file.profile[q][k] # None
                            THEN file.profile[q][k] ELSE file.profile[None][k]
    BY DEF Profile, Or
<1> QED BY <1>2, <1>3

LEMMA BareProfile ==
    ASSUME NEW line, line.own = Nothing, NEW p, p = Selected(file, line), p # None
    PROVE  /\ Resolved(TRUE, file, line)["addr"] =
                IF file.profile[p]["addr"] # None
                THEN file.profile[p]["addr"] ELSE file.profile[None]["addr"]
           /\ file.profile[p]["socket"] \notin {None, DefaultSocket} =>
                SocketPath(TRUE, file, line) = file.profile[p]["socket"]
<1>1. ASSUME NEW k \in Key
      PROVE  Resolved(TRUE, file, line)[k] =
                IF file.profile[p][k] # None
                THEN file.profile[p][k] ELSE file.profile[None][k]
    BY BareLine
<1>2. "addr" \in Key /\ "socket" \in Key
    BY DEF Key
<1> QED BY <1>1, <1>2 DEF SocketPath

\* Of two bare command lines, one that leads to the socket of a profile with a
\* post of its own selects that profile.
LEMMA OwnPostIsSelected ==
    ASSUME TypeOK, NEW l, NEW q, NEW p \in Device, HasOwnPost(p),
           l.own = Nothing, q = Selected(file, l), q \in Device \cup {None},
           SocketPath(TRUE, file, l) = file.profile[p]["socket"]
    PROVE  q = p
<1> DEFINE S(x) == file.profile[x]["socket"]
<1>1. Resolved(TRUE, file, l)["socket"] = IF q # None /\ S(q) # None THEN S(q) ELSE S(None)
    BY BareLine DEF Key
<1>2. S(p) # None /\ S(p) # DefaultSocket /\ p # None
    BY NoneIsNothing DEF HasOwnPost
<1>3. \A x \in Device \cup {None} : S(x) = S(p) => x = p
    BY DEF HasOwnPost
<1>4. SocketPath(TRUE, file, l) \in {DefaultSocket, S(q), S(None)}
    BY <1>1 DEF SocketPath
<1>5. S(q) = S(p) \/ S(None) = S(p)
    BY <1>2, <1>4
<1> QED BY <1>2, <1>3, <1>5

(***************************************************************************)
(* A command that selects a profile and says nothing else operates that    *)
(* profile's meter, over the radio or through the agent that it finds at   *)
(* the profile's socket, if no other profile has that socket and agents are*)
(* started by profile too: the socket that travels with the profile is     *)
(* enough, no address being compared (cli.rs:480).                         *)
(***************************************************************************)
THEOREM ProfilesReachTheirAgents == Spec => []ProfileReachesItsAgent
<1>1. IInv => ProfileReachesItsAgent
    <2> SUFFICES ASSUME IInv, NEW c \in Client, NEW p, p = Selected(file, cmd[c]),
                        verdict = "ok", p # None, HasOwnPost(p),
                        cmd[c].own = Nothing, \A a \in Agent : cmd[a].own = Nothing,
                        operated[c] # None
                 PROVE  operated[c] = IF file.profile[p]["addr"] # None
                                      THEN file.profile[p]["addr"]
                                      ELSE file.profile[None]["addr"]
        BY DEF ProfileReachesItsAgent
    <2>1. TypeOK /\ Routed(c) /\ OperatedByWhom(c) /\ HasFile = TRUE
        BY DEF IInv, Clients, HasFile
    <2>2. \A x \in Agent \cup Client : Selected(file, cmd[x]) \in Device \cup {None}
        BY <2>1 DEF TypeOK, ConfigTypeOK, File, CommandLine, Selected
    <2>3. p \in Device
        BY <2>2
    <2>4. PathOf(c) = file.profile[p]["socket"]
        <3>1. SocketPath(TRUE, file, cmd[c]) = file.profile[p]["socket"]
            BY BareProfile DEF HasOwnPost
        <3> QED BY <2>1, <3>1 DEF PathOf
    <2>5. ASSUME NEW x \in Agent \cup Client, cmd[x].own = Nothing,
                 Selected(file, cmd[x]) = p
          PROVE  AddrOf(x) = IF file.profile[p]["addr"] # None
                             THEN file.profile[p]["addr"]
                             ELSE file.profile[None]["addr"]
        <3>1. Resolved(TRUE, file, cmd[x])["addr"] = IF file.profile[p]["addr"] # None
                                                     THEN file.profile[p]["addr"]
                                                     ELSE file.profile[None]["addr"]
            BY <2>5, BareProfile
        <3> QED BY <2>1, <3>1 DEF AddrOf
    <2>6. CASE answered[c] = None
        BY <2>1, <2>5, <2>6 DEF OperatedByWhom
    <2>7. CASE answered[c] # None
        <3> PICK w : w = answered[c]
            OBVIOUS
        <3>1. w \in Agent /\ PathOf(w) = PathOf(c)
            BY <2>1, <2>7 DEF Routed, TypeOK
        <3>2. SocketPath(TRUE, file, cmd[w]) = file.profile[p]["socket"]
            BY <2>1, <2>4, <3>1 DEF PathOf
        <3>3. Selected(file, cmd[w]) = p
            BY <2>1, <2>2, <2>3, <3>1, <3>2, OwnPostIsSelected
        <3> QED BY <2>1, <2>5, <2>7, <3>1, <3>3 DEF OperatedByWhom
    <2> QED BY <2>6, <2>7
<1> QED BY <1>1, Invariance, PTL

-----------------------------------------------------------------------------
(***************************************************************************)
(* A client turns to the radio, or reports that no agent runs, only when   *)
(* each agent that served at its path as it probed has ceased to.          *)
(***************************************************************************)
THEOREM ServingAgentsAreFound == Spec => ServingAgentIsFound
<1> DEFINE Found == \A c \in Client :
                        /\ at[c] \in {"probe", "ping"} /\ at'[c] \in {"radio", "notrunning"}
                        => \A a \in found'[c] : at[a] # "serving"
<1>1. IInv /\ [Next]_vars => [Found]_vars
    <2> SUFFICES ASSUME IInv, Next, NEW c \in Client,
                        at[c] \in {"probe", "ping"}, at'[c] \in {"radio", "notrunning"},
                        NEW a \in found'[c], at[a] = "serving"
                 PROVE  FALSE
        OBVIOUS
    <2>1. TypeOK /\ DoorsInPlace /\ PostsHeld /\ Placed(c)
        BY DEF IInv, Clients
    <2>2. ~ReadFile /\ ~AgentStep
        BY <2>1, AgentLeaves DEF ReadFile
    <2>3. ClientStep
        BY <2>2 DEF Next, Process
    <2> PICK d \in Client :
            \/ \E run \in Runs : Run(d, run[1], run[2])
            \/ Probe(d) \/ Pong(d) \/ NoPong(d) \/ Send(d)
            \/ Operate(d) \/ Reply(d) \/ Stopped(d) \/ Fails(d) \/ Radio(d)
        BY <2>3 DEF ClientStep
    <2>4. d = c
        BY <2>1, OthersAreStill DEF Still
    <2>5. Probe(c) \/ NoPong(c)
        BY <2>1, <2>4 DEF Run, Pong, Send, Operate, Reply, Stopped, Fails, Radio, Goto,
            TypeOK, Job
    <2>6. CASE Probe(c)
        <3>1. a \in Agent /\ at[a] = "serving" /\ PathOf(a) = PathOf(c)
            BY <2>1, <2>6 DEF Probe, TypeOK
        <3>2. Reachable(c) = a
            BY <2>1, <3>1, ReachableIs
        <3> QED BY <2>1, <2>6, <3>1, <3>2, NoneIsNobody DEF Probe, Goto, TypeOK
    <2>7. CASE NoPong(c)
        BY <2>1, <2>7 DEF NoPong, Unanswered, Placed, routing
    <2> QED BY <2>5, <2>6, <2>7
<1> QED BY <1>1, Invariance, PTL DEF Spec, ServingAgentIsFound
=============================================================================
