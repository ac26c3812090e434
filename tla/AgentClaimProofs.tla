-------------------------- MODULE AgentClaimProofs --------------------------
(***************************************************************************)
(* What AgentClaim promises, for any number of processes.  The files are   *)
(* safe on a filesystem that can lock, provided that no start has its      *)
(* flock delayed past the close of the agent whose file it opened          *)
(* (~Overlap); module AgentClaim says what happens without it.             *)
(***************************************************************************)
EXTENDS AgentClaim, TLAPS

\* A file is named after a process that has started, and is open exactly while
\* the process that opened it runs.
FilesOpen ==
    /\ pidPath # None => pc[pidPath] # "idle"
    /\ \A p \in Proc : fd[p] = None <=> pc[p] \in {"idle"} \cup Ended
    /\ \A p \in Proc : fd[p] # None => pc[fd[p]] # "idle"

\* Who holds which lock.  The third part is the heart of it: a start about to
\* try its lock has opened the file the path still names, or one that an exiting
\* agent has unlinked and not yet closed, so that its lock will be refused.
LocksHeld ==
    /\ \A p \in Proc : Claimant(p) => pidPath = fd[p] /\ lock[fd[p]] = p
    /\ \A p \in Proc : pc[p] = "release" => pidPath # fd[p] /\ lock[fd[p]] = p
    /\ \A p \in Proc : pc[p] = "flock" =>
            \/ fd[p] = pidPath
            \/ \E q \in Proc : pc[q] = "release" /\ fd[q] = fd[p]
    /\ \A i \in Proc : lock[i] # None =>
            fd[lock[i]] = i /\ (Claimant(lock[i]) \/ pc[lock[i]] = "release")

\* What is at the two paths for the process that has claimed them.
PathsHeld ==
    \A p \in Proc :
        /\ pc[p] = "bind" => sockPath = None
        /\ Bound(p) => sockPath = p
        /\ pc[p] \in {"connect", "serve"} => pidText[fd[p]] = p

IInv == TypeOK /\ FilesOpen /\ (lockable => LocksHeld /\ PathsHeld)

-----------------------------------------------------------------------------
\* At most one process is past its claim: all of them hold the same lock.
LEMMA OneClaimant ==
    ASSUME IInv, lockable, NEW p \in Proc, NEW q \in Proc, Claimant(p), Claimant(q)
    PROVE  p = q
BY DEF IInv, LocksHeld

\* The variables keep their types, whatever Overlap is.
LEMMA TypeStep == TypeOK /\ [Next]_vars => TypeOK'
<1> SUFFICES ASSUME TypeOK, [Next]_vars PROVE TypeOK'
    OBVIOUS
<1> USE DEF TypeOK, Stage, Ended, Goto, CloseFile, files
<1>1. CASE UNCHANGED vars
    BY <1>1 DEF vars
<1>2. ASSUME NEW p \in Proc, Open(p) PROVE TypeOK'
    BY <1>2 DEF Open
<1>3. ASSUME NEW p \in Proc, Claim(p) PROVE TypeOK'
    BY <1>3 DEF Claim
<1>4. ASSUME NEW p \in Proc, Refused(p) \/ ProbeBails(p) \/ Release(p) \/ Crash(p)
      PROVE  TypeOK'
    BY <1>4 DEF Refused, ProbeBails, Release, Crash
<1>5. ASSUME NEW p \in Proc,
             ProbeClear(p) \/ Unlink(p) \/ Bind(p) \/ Leave(p) \/ Serve(p)
      PROVE  TypeOK'
    BY <1>5 DEF ProbeClear, Unlink, Bind, Leave, Serve
<1>6. ASSUME NEW p \in Proc, WritePid(p) \/ RmSock(p) \/ RmPid(p) PROVE TypeOK'
    BY <1>6 DEF WritePid, RmSock, RmPid
<1> QED BY <1>1, <1>2, <1>3, <1>4, <1>5, <1>6 DEF Next

\* AgentClaim is type correct.
THEOREM TypeCorrect == Spec => []TypeOK
<1>1. Init => TypeOK
    BY NoneIsNoProc DEF Init, TypeOK, Stage
<1> QED BY <1>1, TypeStep, PTL DEF Spec
-----------------------------------------------------------------------------
\* The inductive step, for an environment without the overlap.  Each action
\* gets the parts of the invariant that it can disturb.
LEMMA InductiveStep ==
    ASSUME ~Overlap, IInv, [Next]_vars
    PROVE  IInv'
<1>t. TypeOK'
    BY TypeStep DEF IInv
<1> USE NoneIsNoProc DEF IInv, Claimant, Bound, Goto, Ended
<1>1. CASE UNCHANGED vars
    BY <1>1, <1>t DEF vars, FilesOpen, LocksHeld, PathsHeld
<1>2. ASSUME NEW p \in Proc, Open(p) PROVE IInv'
    <2> USE <1>2 DEF Open
    <2>1. FilesOpen'
        BY DEF FilesOpen, TypeOK
    <2>2. lockable => LocksHeld'
        BY DEF FilesOpen, TypeOK, LocksHeld
    <2>3. lockable => PathsHeld'
        BY DEF FilesOpen, TypeOK, LocksHeld, PathsHeld
    <2> QED BY <1>t, <2>1, <2>2, <2>3
<1>3. ASSUME NEW p \in Proc, Claim(p) PROVE IInv'
    <2> USE <1>3 DEF Claim, LockFree
    <2>1. FilesOpen'
        BY DEF FilesOpen, TypeOK
    <2>2. lockable => LocksHeld'
        BY DEF FilesOpen, TypeOK, LocksHeld
    <2>3. lockable => PathsHeld'
        BY DEF FilesOpen, TypeOK, LocksHeld, PathsHeld
    <2> QED BY <1>t, <2>1, <2>2, <2>3
<1>4. ASSUME NEW p \in Proc, Refused(p) PROVE IInv'
    <2> USE <1>4 DEF Refused, CloseFile, LockFree
    <2>1. FilesOpen'
        BY DEF FilesOpen, TypeOK
    <2>2. lockable => LocksHeld'
        BY DEF FilesOpen, TypeOK, LocksHeld
    <2>3. lockable => PathsHeld'
        BY DEF FilesOpen, TypeOK, LocksHeld, PathsHeld
    <2> QED BY <1>t, <2>1, <2>2, <2>3
<1>5. ASSUME NEW p \in Proc, ProbeClear(p) PROVE IInv'
    <2> USE <1>5 DEF ProbeClear, files
    <2>1. FilesOpen'
        BY DEF FilesOpen, TypeOK
    <2>2. lockable => LocksHeld'
        BY DEF FilesOpen, TypeOK, LocksHeld
    <2>3. lockable => PathsHeld'
        BY DEF FilesOpen, TypeOK, LocksHeld, PathsHeld
    <2> QED BY <1>t, <2>1, <2>2, <2>3
<1>6. ASSUME NEW p \in Proc, ProbeBails(p) PROVE IInv'
    <2> USE <1>6 DEF ProbeBails, CloseFile, files
    <2>1. FilesOpen'
        BY DEF FilesOpen, TypeOK
    <2>2. lockable => LocksHeld'
        BY DEF FilesOpen, TypeOK, LocksHeld
    <2>3. lockable => PathsHeld'
        BY DEF FilesOpen, TypeOK, LocksHeld, PathsHeld
    <2> QED BY <1>t, <2>1, <2>2, <2>3
<1>7. ASSUME NEW p \in Proc, Unlink(p) PROVE IInv'
    <2> USE <1>7 DEF Unlink
    <2>1. FilesOpen'
        BY DEF FilesOpen, TypeOK
    <2>2. lockable => LocksHeld'
        BY DEF FilesOpen, TypeOK, LocksHeld
    <2>3. lockable => PathsHeld'
        BY DEF FilesOpen, TypeOK, LocksHeld, PathsHeld
    <2> QED BY <1>t, <2>1, <2>2, <2>3
<1>8. ASSUME NEW p \in Proc, Bind(p) PROVE IInv'
    <2> USE <1>8 DEF Bind
    <2>1. FilesOpen'
        BY DEF FilesOpen, TypeOK
    <2>2. lockable => LocksHeld'
        BY DEF FilesOpen, TypeOK, LocksHeld
    <2>3. lockable => PathsHeld'
        BY DEF FilesOpen, TypeOK, LocksHeld, PathsHeld
    <2> QED BY <1>t, <2>1, <2>2, <2>3
<1>9. ASSUME NEW p \in Proc, WritePid(p) PROVE IInv'
    <2> USE <1>9 DEF WritePid
    <2>1. FilesOpen'
        BY DEF FilesOpen, TypeOK
    <2>2. lockable => LocksHeld'
        BY DEF FilesOpen, TypeOK, LocksHeld
    <2>3. lockable => PathsHeld'
        BY DEF FilesOpen, TypeOK, LocksHeld, PathsHeld
    <2> QED BY <1>t, <2>1, <2>2, <2>3
<1>10. ASSUME NEW p \in Proc, Serve(p) PROVE IInv'
    <2> USE <1>10 DEF Serve, files
    <2>1. FilesOpen'
        BY DEF FilesOpen, TypeOK
    <2>2. lockable => LocksHeld'
        BY DEF FilesOpen, TypeOK, LocksHeld
    <2>3. lockable => PathsHeld'
        BY DEF FilesOpen, TypeOK, LocksHeld, PathsHeld
    <2> QED BY <1>t, <2>1, <2>2, <2>3
<1>11. ASSUME NEW p \in Proc, Leave(p) PROVE IInv'
    <2> USE <1>11 DEF Leave, files
    <2>1. FilesOpen'
        BY DEF FilesOpen, TypeOK
    <2>2. lockable => LocksHeld'
        BY DEF FilesOpen, TypeOK, LocksHeld
    <2>3. lockable => PathsHeld'
        BY DEF FilesOpen, TypeOK, LocksHeld, PathsHeld
    <2> QED BY <1>t, <2>1, <2>2, <2>3
<1>12. ASSUME NEW p \in Proc, RmSock(p) PROVE IInv'
    <2> USE <1>12 DEF RmSock
    <2>1. FilesOpen'
        BY DEF FilesOpen, TypeOK
    <2>2. lockable => LocksHeld'
        BY DEF FilesOpen, TypeOK, LocksHeld
    <2>3. lockable => PathsHeld'
        BY DEF FilesOpen, TypeOK, LocksHeld, PathsHeld
    <2> QED BY <1>t, <2>1, <2>2, <2>3
<1>13. ASSUME NEW p \in Proc, RmPid(p) PROVE IInv'
    <2> USE <1>13 DEF RmPid
    <2>1. FilesOpen'
        BY DEF FilesOpen, TypeOK
    <2>2. lockable => LocksHeld'
        BY DEF FilesOpen, TypeOK, LocksHeld
    <2>3. lockable => PathsHeld'
        BY DEF FilesOpen, TypeOK, LocksHeld, PathsHeld
    <2> QED BY <1>t, <2>1, <2>2, <2>3
<1>14. ASSUME NEW p \in Proc, Release(p) PROVE IInv'
    <2> USE <1>14 DEF Release, CloseFile, NobodyAbout
    <2>1. FilesOpen'
        BY DEF FilesOpen, TypeOK
    <2>2. lockable => LocksHeld'
        BY DEF FilesOpen, TypeOK, LocksHeld
    <2>3. lockable => PathsHeld'
        BY DEF FilesOpen, TypeOK, LocksHeld, PathsHeld
    <2> QED BY <1>t, <2>1, <2>2, <2>3
<1>15. ASSUME NEW p \in Proc, Crash(p) PROVE IInv'
    <2> USE <1>15 DEF Crash, CloseFile, NobodyAbout
    <2>1. FilesOpen'
        BY DEF FilesOpen, TypeOK
    <2>2. lockable => LocksHeld'
        BY DEF FilesOpen, TypeOK, LocksHeld
    <2>3. lockable => PathsHeld'
        BY DEF FilesOpen, TypeOK, LocksHeld, PathsHeld
    <2> QED BY <1>t, <2>1, <2>2, <2>3
<1> QED BY <1>1, <1>2, <1>3, <1>4, <1>5, <1>6, <1>7, <1>8, <1>9, <1>10, <1>11, <1>12, <1>13, <1>14, <1>15 DEF Next
-----------------------------------------------------------------------------
LEMMA Invariance ==
    ASSUME ~Overlap
    PROVE  Spec => []IInv
<1>1. Init => IInv
    BY NoneIsNoProc DEF Init, IInv, TypeOK, Stage, Ended, FilesOpen, LocksHeld,
       PathsHeld, Claimant, Bound
<1>2. IInv /\ [Next]_vars => IInv'
    BY InductiveStep
<1> QED BY <1>1, <1>2, PTL DEF Spec

\* Mutual exclusion: a second `agent start` never gets as far as the device
\* while the first is bound, connecting or serving.
THEOREM MutualExclusion ==
    ASSUME ~Overlap
    PROVE  Spec => []SoleAgent
<1>1. IInv => SoleAgent
    BY OneClaimant DEF SoleAgent, Claimant
<1> QED BY <1>1, Invariance, PTL

\* Clients, `agent status` and new starts find the agent that serves.
THEOREM ServingAgentIsFound ==
    ASSUME ~Overlap
    PROVE  Spec => []PathsAreTheAgents
<1>1. IInv => PathsAreTheAgents
    BY DEF IInv, LocksHeld, PathsHeld, PathsAreTheAgents, Claimant, Bound
<1> QED BY <1>1, Invariance, PTL

\* Nobody but the agent itself removes the socket it listens on: the two
\* actions that unlink a socket are a claimant's, and there is one claimant.
THEOREM SocketIsSafe ==
    ASSUME ~Overlap
    PROVE  Spec => NoTheft
<1> DEFINE Kept == lockable => \A p \in Proc : Bound(p) /\ sockPath = p =>
                                  sockPath' = p \/ pc'[p] # pc[p]
<1>1. ASSUME IInv, [Next]_vars PROVE Kept
    <2> SUFFICES ASSUME lockable, NEW p \in Proc, Bound(p), sockPath = p,
                        sockPath' # p, pc'[p] = pc[p]
                 PROVE  FALSE
        OBVIOUS
    <2>1. PICK q \in Proc : Unlink(q) \/ Bind(q) \/ RmSock(q)
        BY <1>1 DEF Next, vars, files, Open, Claim, Refused, ProbeClear, ProbeBails,
           WritePid, Serve, Leave, RmPid, Release, Crash
    <2>2. Claimant(q) /\ Claimant(p)
        BY <2>1 DEF Claimant, Bound, Unlink, Bind, RmSock
    <2>3. p = q
        BY <2>2, <1>1, OneClaimant
    <2>4. pc[p] \notin {"unlink", "bind", "rmSock"}
        BY DEF Bound
    <2> QED BY <2>1, <2>3, <2>4 DEF Unlink, Bind, RmSock
<1>2. IInv /\ [Next]_vars => [Kept]_vars
    BY <1>1
<1> QED BY <1>2, Invariance, PTL DEF Spec, NoTheft

\* A start is refused only because of a process that is alive: a lock has a
\* living holder, and a ping a living answerer.
THEOREM NeverLockedOut ==
    ASSUME ~Overlap
    PROVE  Spec => RefusedForCause
<1> DEFINE Fair == \A p \in Proc : pc[p] # "refused" /\ pc'[p] = "refused"
                     => \E q \in Proc \ {p} : pc[q] \notin {"idle"} \cup Ended
<1>1. ASSUME IInv, [Next]_vars PROVE Fair
    <2> SUFFICES ASSUME NEW p \in Proc, pc[p] # "refused", pc'[p] = "refused"
                 PROVE  \E q \in Proc \ {p} : pc[q] \notin {"idle"} \cup Ended
        OBVIOUS
    <2>1. Refused(p) \/ ProbeBails(p)
        BY <1>1 DEF IInv, TypeOK, Next, vars, Goto, Open, Claim, Refused, ProbeClear,
           ProbeBails, Unlink, Bind, WritePid, Serve, Leave, RmSock, RmPid, Release, Crash
    <2>2. CASE Refused(p)
        <3>1. lock[fd[p]] \in Proc /\ fd[p] \in Proc
            BY <1>1, <2>2 DEF IInv, TypeOK, FilesOpen, Refused, LockFree, Ended
        <3>2. Claimant(lock[fd[p]]) \/ pc[lock[fd[p]]] = "release"
            BY <1>1, <2>2, <3>1, NoneIsNoProc DEF IInv, LocksHeld, Refused
        <3> QED BY <2>2, <3>1, <3>2 DEF Claimant, Bound, Ended, Refused
    <2>3. CASE ProbeBails(p)
        BY <2>3 DEF ProbeBails, ProbeFinds, Answering, Answers, Ended
    <2> QED BY <2>1, <2>2, <2>3
<1>2. IInv /\ [Next]_vars => [Fair]_vars
    BY <1>1
<1> QED BY <1>2, Invariance, PTL DEF Spec, RefusedForCause

\* Why a file is at a path: somebody who lives will see to it, or was killed.
FilesAreOwned ==
    lockable /\ (\A p \in Proc : pc[p] # "crashed") =>
        /\ pidPath # None =>
            \E p \in Proc : fd[p] = pidPath /\ (Claimant(p) \/ pc[p] = "flock")
        /\ sockPath # None => Bound(sockPath) \/ pc[sockPath] = "rmSock"

\* A process that is killed stays so.
LEMMA CrashesLast ==
    ASSUME TypeOK, [Next]_vars, \A p \in Proc : pc'[p] # "crashed"
    PROVE  /\ \A p \in Proc : pc[p] # "crashed"
           /\ ~\E p \in Proc : Crash(p)
BY DEF TypeOK, Next, vars, files, Goto, Ended, Open, Claim, Refused, ProbeClear,
   ProbeBails, Unlink, Bind, WritePid, Serve, Leave, RmSock, RmPid, Release, Crash

LEMMA OwnedStep ==
    ASSUME ~Overlap, IInv, FilesAreOwned, [Next]_vars
    PROVE  FilesAreOwned'
<1> SUFFICES ASSUME lockable, \A p \in Proc : pc'[p] # "crashed"
             PROVE  FilesAreOwned'
    BY DEF FilesAreOwned, Next, vars, Goto, Open, Claim, Refused, ProbeClear, ProbeBails,
       Unlink, Bind, WritePid, Serve, Leave, RmSock, RmPid, Release, Crash
<1>0. /\ \A p \in Proc : pc[p] # "crashed"
      /\ ~\E p \in Proc : Crash(p)
    BY CrashesLast DEF IInv
<1> USE <1>0, NoneIsNoProc DEF IInv, TypeOK, FilesAreOwned, Claimant, Bound, Goto
<1>1. CASE UNCHANGED vars
    BY <1>1 DEF vars
<1>2. ASSUME NEW p \in Proc, Open(p) PROVE FilesAreOwned'
    BY <1>2 DEF Open
<1>3. ASSUME NEW p \in Proc, Claim(p) PROVE FilesAreOwned'
    BY <1>3 DEF Claim
<1>4. ASSUME NEW p \in Proc, Refused(p) PROVE FilesAreOwned'
    \* Whoever holds the lock on the file at the path has not removed it.
    <2>1. PICK q \in Proc : q = lock[fd[p]] /\ fd[q] = fd[p] /\ fd[p] \in Proc
        BY <1>4 DEF Refused, LockFree, LocksHeld, FilesOpen, Ended
    <2>2. q # p
        BY <1>4, <2>1 DEF Refused, LocksHeld
    <2>3. fd[p] = pidPath => Claimant(q)
        BY <1>4, <2>1 DEF Refused, LocksHeld
    <2> QED BY <1>4, <2>1, <2>2, <2>3 DEF Refused, CloseFile
<1>5. ASSUME NEW p \in Proc, ProbeBails(p) PROVE FilesAreOwned'
    \* The one that answered would be a second claimant.
    BY <1>5, OneClaimant DEF ProbeBails, ProbeFinds, Answering, Answers
<1>6. ASSUME NEW p \in Proc, ProbeClear(p) \/ Serve(p) \/ Leave(p) PROVE FilesAreOwned'
    BY <1>6 DEF ProbeClear, Serve, Leave, files
<1>7. ASSUME NEW p \in Proc, Unlink(p) \/ Bind(p) \/ WritePid(p) PROVE FilesAreOwned'
    BY <1>7 DEF Unlink, Bind, WritePid
<1>8. ASSUME NEW p \in Proc, RmSock(p) \/ RmPid(p) PROVE FilesAreOwned'
    BY <1>8 DEF RmSock, RmPid
<1>9. ASSUME NEW p \in Proc, Release(p) PROVE FilesAreOwned'
    BY <1>9 DEF Release, CloseFile, LocksHeld
<1> QED BY <1>1, <1>2, <1>3, <1>4, <1>5, <1>6, <1>7, <1>8, <1>9 DEF Next

\* Agents that end by themselves leave no file: with a start refused in
\* between, an exit under way and any order of their steps.
THEOREM NothingIsLeft ==
    ASSUME ~Overlap
    PROVE  Spec => []NoLitter
<1>1. Init => FilesAreOwned
    BY DEF Init, FilesAreOwned
<1>2. IInv /\ FilesAreOwned /\ [Next]_vars => FilesAreOwned'
    BY OwnedStep
<1>3. IInv /\ FilesAreOwned => NoLitter
    BY DEF FilesAreOwned, NoLitter, Claimant, Bound, IInv, TypeOK
<1> QED BY <1>1, <1>2, <1>3, Invariance, PTL DEF Spec

-----------------------------------------------------------------------------
\* The refinement mapping, read off the one claimant.
MappedToClaimant ==
    /\ \A p \in Proc : lockable /\ Claimant(p) => Agent = p
    /\ ~lockable \/ (\A p \in Proc : ~Claimant(p)) => Agent = None
    /\ \A p \in Proc : lockable /\ Bound(p) => Door = p
    /\ ~lockable \/ (\A p \in Proc : ~Bound(p)) => Door = None

LEMMA Mapping == IInv => MappedToClaimant
<1> SUFFICES ASSUME IInv PROVE MappedToClaimant
    OBVIOUS
<1>1. ASSUME NEW p \in Proc, lockable, Claimant(p) PROVE Agent = p
    <2>1. \A q \in Proc : Claimant(q) => q = p
        BY <1>1, OneClaimant
    <2> QED BY <1>1, <2>1 DEF Agent
<1>2. ~lockable \/ (\A p \in Proc : ~Claimant(p)) => Agent = None
    BY DEF Agent
<1>3. ASSUME NEW p \in Proc, lockable, Bound(p) PROVE Door = p
    BY <1>1, <1>3 DEF Door, Claimant, IInv, PathsHeld
<1>4. ~lockable \/ (\A p \in Proc : ~Bound(p)) => Door = None
    BY <1>2, NoneIsNoProc DEF Door
<1> QED BY <1>1, <1>2, <1>3, <1>4 DEF MappedToClaimant

\* Every step of the files is a step of the service, or none that it shows.
LEMMA ServiceStep ==
    ASSUME ~Overlap, IInv, IInv', [Next]_vars, MappedToClaimant, MappedToClaimant'
    PROVE  [Service!Next]_(Service!vars)
<1> USE DEF Service!vars
<1>0. lockable' = lockable
    BY DEF Next, vars, Goto, Open, Claim, Refused, ProbeClear, ProbeBails, Unlink, Bind,
       WritePid, Serve, Leave, RmSock, RmPid, Release, Crash
<1>1. CASE ~lockable
    BY <1>0, <1>1 DEF MappedToClaimant
<1>2. ASSUME lockable,
             \A p \in Proc : (Claimant(p) <=> Claimant(p)') /\ (Bound(p) <=> Bound(p)')
      PROVE  UNCHANGED Service!vars
    BY <1>0, <1>2 DEF MappedToClaimant, Claimant
<1>3. CASE UNCHANGED vars
    BY <1>1, <1>2, <1>3 DEF vars, Claimant, Bound
<1> USE DEF IInv, TypeOK
<1>4. ASSUME NEW p \in Proc, lockable,
             \/ Open(p) \/ Refused(p) \/ ProbeClear(p) \/ Unlink(p)
             \/ WritePid(p) \/ Serve(p) \/ RmSock(p) \/ Release(p)
      PROVE  UNCHANGED Service!vars
    BY <1>2, <1>4 DEF Open, Refused, ProbeClear, Unlink, WritePid, Serve, RmSock, Release,
       Goto, Claimant, Bound
<1>5. ASSUME NEW p \in Proc, lockable, Claim(p) PROVE Service!Take(p)
    <2>1. Claimant(p)' /\ \A q \in Proc : ~Claimant(q)
        BY <1>5 DEF LocksHeld, Claim, LockFree, Goto, Claimant, Bound
    <2>2. \A q \in Proc : ~Bound(q) /\ ~Bound(q)'
        BY <1>5, <2>1 DEF Claim, Goto, Claimant, Bound
    <2> QED BY <1>0, <1>5, <2>1, <2>2 DEF Service!Take, MappedToClaimant
<1>6. ASSUME NEW p \in Proc, lockable, Bind(p) PROVE Service!OpenDoor(p)
    <2>1. Claimant(p) /\ Claimant(p)' /\ Bound(p)'
        BY <1>6 DEF Bind, Goto, Claimant, Bound
    <2>2. \A q \in Proc : ~Bound(q)
        BY <1>6, <2>1, OneClaimant DEF Bind, Claimant, Bound
    <2> QED BY <1>0, <1>6, <2>1, <2>2 DEF Service!OpenDoor, MappedToClaimant
<1>7. ASSUME NEW p \in Proc, lockable, Leave(p)
      PROVE  Service!CloseDoor \/ UNCHANGED Service!vars
    <2>1. Claimant(p) /\ Claimant(p)'
        BY <1>7 DEF Leave, Goto, Claimant, Bound
    <2>2. \A q \in Proc : Bound(q) => q = p
        BY <1>7, <2>1, OneClaimant DEF Claimant
    <2>3. \A q \in Proc : ~Bound(q)'
        BY <1>7, <2>2 DEF Leave, Goto, Bound
    <2> QED BY <1>0, <1>7, <2>1, <2>2, <2>3, NoneIsNoProc
            DEF Service!CloseDoor, MappedToClaimant
<1>8. ASSUME NEW p \in Proc, lockable, Claimant(p),
             ProbeBails(p) \/ RmPid(p) \/ Crash(p)
      PROVE  Service!Leave
    <2>1. \A q \in Proc : Claimant(q) => q = p
        BY <1>8, OneClaimant
    <2>2. \A q \in Proc : ~Claimant(q)' /\ ~Bound(q)'
        BY <1>8, <2>1 DEF ProbeBails, RmPid, Crash, Goto, Claimant, Bound
    <2> QED BY <1>0, <1>8, <2>2, NoneIsNoProc DEF Service!Leave, MappedToClaimant
<1>9. ASSUME NEW p \in Proc, lockable, ~Claimant(p),
             ProbeBails(p) \/ RmPid(p) \/ Crash(p)
      PROVE  UNCHANGED Service!vars
    BY <1>2, <1>9 DEF ProbeBails, RmPid, Crash, Goto, Claimant, Bound
<1> QED BY <1>1, <1>3, <1>4, <1>5, <1>6, <1>7, <1>8, <1>9 DEF Next, Service!Next

\* The pid file and the socket file implement AgentService: one agent at a
\* time, and a door that leads to it or to nobody.
THEOREM Implementation ==
    ASSUME ~Overlap
    PROVE  Spec => ImplementsService
<1>1. Init => Service!Init
    BY DEF Init, Service!Init, Agent, Door, Claimant, Bound
<1>2. IInv /\ IInv' /\ [Next]_vars /\ MappedToClaimant /\ MappedToClaimant'
         => [Service!Next]_(Service!vars)
    BY ServiceStep
<1> QED BY <1>1, <1>2, Mapping, Invariance, PTL DEF Spec, ImplementsService, Service!Spec
=============================================================================
