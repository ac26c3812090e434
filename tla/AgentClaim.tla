----------------------------- MODULE AgentClaim -----------------------------
(***************************************************************************)
(* How `agent start` takes over a pid file and a socket path, serves, and  *)
(* gives them back: take_over, PidFile::claim, cleanup_stale, bind_socket, *)
(* AgentFiles and the outline of run in src/agent/server.rs.               *)
(*                                                                         *)
(* A process is one invocation of `agent start`; all of them name the same *)
(* two paths.  A pid file is an inode, named after the process whose open  *)
(* created it: unlinking the path leaves the inode to whoever has it open, *)
(* and a flock is on the inode.  Every step is one system call or one      *)
(* await of the code, so any two processes interleave between them.        *)
(*                                                                         *)
(* A definition X_Y is X with the mistake Y in it.  No behaviour uses one; *)
(* putting it in X's place shows which property notices.                   *)
(***************************************************************************)

CONSTANTS Proc,     \* the invocations of `agent start`
          None,     \* no process, no file
          Overlap   \* may a start's window between its open of the pid file
                    \* and its flock on it contain an exit's close of the
                    \* same file?

ASSUME NoneIsNoProc == None \notin Proc
ASSUME OverlapIsBoolean == Overlap \in BOOLEAN

VARIABLES
    lockable,  \* whether the filesystem supports flock; fixed by the machine
    pc,        \* where each process is
    pidPath,   \* the inode the pid file's path names, or None
    pidText,   \* the pid written in each inode, or None while it is empty
    lock,      \* the process holding the flock on each inode, or None
    fd,        \* the inode each process has open, or None
    sockPath   \* the process that bound the socket file at the path, or None

vars == <<lockable, pc, pidPath, pidText, lock, fd, sockPath>>
files == <<pidPath, pidText, lock, fd, sockPath>>

Ended == {"gone", "refused", "crashed"}
Stage == {"idle", "flock", "probe", "unlink", "bind", "writePid", "connect",
          "serve", "rmSock", "rmPid", "release"} \cup Ended

TypeOK ==
    /\ lockable \in BOOLEAN
    /\ pc \in [Proc -> Stage]
    /\ pidPath \in Proc \cup {None}
    /\ pidText \in [Proc -> Proc \cup {None}]
    /\ lock \in [Proc -> Proc \cup {None}]
    /\ fd \in [Proc -> Proc \cup {None}]
    /\ sockPath \in Proc \cup {None}

-----------------------------------------------------------------------------
\* The process listens on the socket it bound, and the device is its to use.
Bound(p) == pc[p] \in {"writePid", "connect", "serve"}

\* The process is past its claim and has not unlinked the pid file.
Claimant(p) ==
    Bound(p) \/ pc[p] \in {"probe", "unlink", "bind", "rmSock", "rmPid"}

\* The agent a ping over the socket path gets an answer from.  Until it
\* serves, a bound agent accepts nothing and the 500 ms of ping run out.
Answers(q) == sockPath = q /\ pc[q] = "serve"
Answering == {q \in Proc : Answers(q)}

\* The process closes its descriptors: with the file goes the lock on it.
CloseFile(p) ==
    /\ lock' = [i \in Proc |-> IF lock[i] = p THEN None ELSE lock[i]]
    /\ fd' = [fd EXCEPT ![p] = None]

\* Nobody is between its open and its flock on the inode p has open.
NobodyAbout(p) == \A q \in Proc : ~(pc[q] = "flock" /\ fd[q] = fd[p])

Goto(p, stage) ==
    /\ pc' = [pc EXCEPT ![p] = stage]
    /\ UNCHANGED lockable

-----------------------------------------------------------------------------
\* Slip: the open empties the file of the agent that runs.
Open_Truncating(p) ==
    /\ pc[p] = "idle"
    /\ pidPath' = IF pidPath = None THEN p ELSE pidPath
    /\ fd' = [fd EXCEPT ![p] = pidPath']
    /\ pidText' = [pidText EXCEPT ![pidPath'] = None]
    /\ UNCHANGED <<lock, sockPath>>
    /\ Goto(p, "flock")

\* PidFile::claim, the open: O_CREAT, and what the file holds is left alone.
Open(p) ==
    /\ pc[p] = "idle"
    /\ pidPath' = IF pidPath = None THEN p ELSE pidPath
    /\ fd' = [fd EXCEPT ![p] = pidPath']
    /\ UNCHANGED <<pidText, lock, sockPath>>
    /\ Goto(p, "flock")

\* Slip: the pid in the file is what tells an agent from a leftover.
LockFree_ByText(p) == lock[fd[p]] = None /\ pidText[fd[p]] = None

\* Slip: the lock is not tried.
LockFree_Always(p) == TRUE

\* PidFile::claim, the flock.  Another holder refuses the start; a filesystem
\* that cannot lock is warned about and gone along with.
LockFree(p) == lock[fd[p]] = None

Claim(p) ==
    /\ pc[p] = "flock"
    /\ lockable => LockFree(p)
    /\ lock' = IF lockable THEN [lock EXCEPT ![fd[p]] = p] ELSE lock
    /\ UNCHANGED <<pidPath, pidText, fd, sockPath>>
    /\ Goto(p, "probe")

Refused(p) ==
    /\ pc[p] = "flock"
    /\ lockable /\ ~LockFree(p)
    /\ CloseFile(p)
    /\ UNCHANGED <<pidPath, pidText, sockPath>>
    /\ Goto(p, "refused")

\* cleanup_stale, the ping.  The ping takes up to 500 ms, so what it learnt
\* may be out of date when the socket is unlinked.
ProbeFinds(p) == Answering # {}

ProbeClear(p) ==
    /\ pc[p] = "probe"
    /\ ~ProbeFinds(p)
    /\ UNCHANGED files
    /\ Goto(p, "unlink")

\* An agent answered: bail out before there is a guard, removing nothing.
ProbeBails(p) ==
    /\ pc[p] = "probe"
    /\ ProbeFinds(p)
    /\ CloseFile(p)
    /\ UNCHANGED <<pidPath, pidText, sockPath>>
    /\ Goto(p, "refused")

\* cleanup_stale, the unlink of whatever is at the socket path.
Unlink(p) ==
    /\ pc[p] = "unlink"
    /\ sockPath' = None
    /\ UNCHANGED <<pidPath, pidText, lock, fd>>
    /\ Goto(p, "bind")

\* bind_socket: bind needs the path to be free.
Bind(p) ==
    /\ pc[p] = "bind"
    /\ sockPath = None
    /\ sockPath' = p
    /\ UNCHANGED <<pidPath, pidText, lock, fd>>
    /\ Goto(p, "writePid")

\* Slip: the pid file is closed before it is removed.
Leave_ReleasingFirst(p) ==
    /\ pc[p] \in {"bind", "writePid", "connect", "serve"}
    /\ CloseFile(p)
    /\ UNCHANGED <<pidPath, pidText, sockPath>>
    /\ Goto(p, "rmSock")

\* From here on the guard AgentFiles takes both files with it: the bind, the
\* chmod, the write of the pid, the metrics bind or the connect may fail, a
\* signal may end the connect, and a signal or `agent stop` ends the serving.
\* The listener closes before the guard removes anything.
Leave(p) ==
    /\ pc[p] \in {"bind", "writePid", "connect", "serve"}
    /\ UNCHANGED files
    /\ Goto(p, "rmSock")

\* Slip: the file is not truncated before the pid is written.
WritePid_NotEmptied(p) ==
    /\ pc[p] = "writePid"
    /\ pidText' = [pidText EXCEPT ![fd[p]] = IF @ = None THEN p ELSE <<p, @>>]
    /\ UNCHANGED <<pidPath, lock, fd, sockPath>>
    /\ Goto(p, "connect")

\* PidFile::write, into the open file and not through the path.
WritePid(p) ==
    /\ pc[p] = "writePid"
    /\ pidText' = [pidText EXCEPT ![fd[p]] = p]
    /\ UNCHANGED <<pidPath, lock, fd, sockPath>>
    /\ Goto(p, "connect")

\* Connection::new succeeded; the accept loop runs.
Serve(p) ==
    /\ pc[p] = "connect"
    /\ UNCHANGED files
    /\ Goto(p, "serve")

\* AgentFiles::drop is remove_files: each unlink takes what the path names.
RmSock(p) ==
    /\ pc[p] = "rmSock"
    /\ sockPath' = None
    /\ UNCHANGED <<pidPath, pidText, lock, fd>>
    /\ Goto(p, "rmPid")

\* Slip: the pid file is left behind.
RmPid_SocketOnly(p) ==
    /\ pc[p] = "rmPid"
    /\ UNCHANGED files
    /\ Goto(p, "release")

\* The pid file's path, whichever file it names by now.
RmPid(p) ==
    /\ pc[p] = "rmPid"
    /\ pidPath' = None
    /\ UNCHANGED <<pidText, lock, fd, sockPath>>
    /\ Goto(p, "release")

\* The guard's field, the open pid file, is dropped after its Drop has run.
Release(p) ==
    /\ pc[p] = "release"
    /\ Overlap \/ NobodyAbout(p)
    /\ CloseFile(p)
    /\ UNCHANGED <<pidPath, pidText, sockPath>>
    /\ Goto(p, "gone")

\* SIGKILL, a panic's abort or a power cut takes the descriptors, not the files.
Crash(p) ==
    /\ pc[p] \notin {"idle"} \cup Ended
    /\ Overlap \/ pc[p] # "release" \/ NobodyAbout(p)
    /\ CloseFile(p)
    /\ UNCHANGED <<pidPath, pidText, sockPath>>
    /\ Goto(p, "crashed")

-----------------------------------------------------------------------------
Init ==
    /\ lockable \in BOOLEAN
    /\ pc = [p \in Proc |-> "idle"]
    /\ pidPath = None
    /\ pidText = [p \in Proc |-> None]
    /\ lock = [p \in Proc |-> None]
    /\ fd = [p \in Proc |-> None]
    /\ sockPath = None

Next ==
    \E p \in Proc :
        \/ Open(p)     \/ Claim(p)      \/ Refused(p)
        \/ ProbeClear(p) \/ ProbeBails(p) \/ Unlink(p)
        \/ Bind(p)     \/ WritePid(p)   \/ Serve(p)
        \/ Leave(p)    \/ RmSock(p)     \/ RmPid(p)  \/ Release(p)
        \/ Crash(p)

Spec == Init /\ [][Next]_vars

-----------------------------------------------------------------------------
\* Two agents never hold the device at once, even when they are started at
\* the same moment, or one while another exits or crashes (the reason given
\* at PidFile and take_over).
SoleAgent ==
    lockable => \A p, q \in Proc : Bound(p) /\ Bound(q) => p = q

\* As long as an agent serves, both paths are its own: clients reach it over
\* the socket, `agent status` prints its pid, and a new start tries its lock.
PathsAreTheAgents ==
    lockable => \A p \in Proc : pc[p] = "serve" =>
                  /\ sockPath = p
                  /\ pidPath = fd[p]
                  /\ pidText[pidPath] = p

\* A socket file whose listener is open is removed by nobody: not by another
\* start that mistakes it for a leftover, nor by another agent's exit.
NoTheft ==
    [][lockable => \A p \in Proc : Bound(p) /\ sockPath = p =>
                           sockPath' = p \/ pc'[p] # pc[p]]_vars

\* A start is refused because another process is alive, never because of the
\* files that a dead one left.
RefusedForCause ==
    [][\A p \in Proc : pc[p] # "refused" /\ pc'[p] = "refused"
          => \E q \in Proc \ {p} : pc[q] \notin {"idle"} \cup Ended]_vars

\* When every process has ended and none has crashed, both files are gone.
NoLitter ==
    lockable /\ (\A p \in Proc : pc[p] \in {"idle", "gone", "refused"})
        => pidPath = None /\ sockPath = None

\* The agent of the abstract specification, and who a connection reaches.  A
\* filesystem that cannot lock promises none of it, which the code warns about.
Agent ==
    IF lockable /\ \E p \in Proc : Claimant(p)
    THEN CHOOSE p \in Proc : Claimant(p)
    ELSE None
Door == IF \E p \in Proc : p = Agent /\ Bound(p) /\ sockPath = p THEN Agent ELSE None

Service == INSTANCE AgentService WITH agent <- Agent, door <- Door

\* With a working lock, the two files implement the service of AgentService.
ImplementsService == Service!Spec
=============================================================================
