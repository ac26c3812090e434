------------------------------- MODULE Settings -----------------------------
(***************************************************************************)
(* The settings of src/cli.rs: what one invocation runs with, out of its   *)
(* command line, the [devices.NAME] section of the config file that it     *)
(* selects, and the keys at the top of that file.                          *)
(*                                                                         *)
(* Two keys stand for all: addr, which says which device, and socket,      *)
(* which says which agent; index, interval, socket_mode and metrics_listen *)
(* are merged by the same rule and decide neither.  None is a key not set, *)
(* no profile selected, and the profile made of the top-level keys.        *)
(***************************************************************************)

CONSTANTS None,
          Device,         \* the names of sections
          Addr,           \* device addresses
          Socket,         \* socket paths
          DefaultSocket   \* default_paths

ASSUME NoneIsNothing == None \notin Device \cup Addr \cup Socket
ASSUME DefaultIsSocket == DefaultSocket \in Socket

Key == {"addr", "socket"}
Value(k) == IF k = "addr" THEN Addr ELSE Socket
Settings == {s \in [Key -> Addr \cup Socket \cup {None}] :
                \A k \in Key : s[k] \in Value(k) \cup {None}}

Nothing == [k \in Key |-> None]

\* A config file, read: the top-level keys are the profile None.
File == [profile : [Device \cup {None} -> Settings],
         known : SUBSET Device,
         default : Device \cup {None}]

\* Settings::or and ConnectOpts::or.
Or(s, fallback) == [k \in Key |-> IF s[k] # None THEN s[k] ELSE fallback[k]]

\* A command line: the settings among its flags, --device, and whether it
\* names a --config.
CommandLine == [own : Settings, device : Device \cup {None}, config : BOOLEAN]

\* FileConfig::profile: --device, or else the file's default.
Selected(file, line) ==
    IF line.device # None THEN line.device ELSE file.default

Profile(file, name) ==
    IF name = None THEN file.profile[None]
    ELSE Or(file.profile[name], file.profile[None])

\* Cli::settings fails on a profile that is not there, without a file on any;
\* and load_config on a --config that does not exist.
Resolvable(found, file, line) ==
    IF found THEN Selected(file, line) \in file.known \cup {None}
    ELSE line.device = None /\ ~line.config

Resolved(found, file, line) ==
    Or(line.own, IF found THEN Profile(file, Selected(file, line)) ELSE Nothing)

\* Slip: the profile's socket is forgotten.
SocketPath_Flag(found, file, line) ==
    IF line.own["socket"] = None THEN DefaultSocket ELSE line.own["socket"]

\* Cli::agent_paths; the pid file is the socket's neighbour.
SocketPath(found, file, line) ==
    LET socket == Resolved(found, file, line)["socket"]
    IN  IF socket = None THEN DefaultSocket ELSE socket
=============================================================================
