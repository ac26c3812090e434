--------------------------- MODULE ConnectionProofs -------------------------
(***************************************************************************)
(* What Connection promises, for any number of attempts and any length of  *)
(* run.  What becomes of the link in the end is proved for any device, and *)
(* what a write reports where an Err of connect means there is no link.    *)
(***************************************************************************)
EXTENDS Connection, SequenceTheorems, TLAPS

\* There is an attempt left for whoever reconnects in a write, and a sample to
\* wait for while the job runs.
Budget ==
    /\ at \in {"dial", "drop"} /\ for = "write" => attempt < WriteRetries
    /\ at \in Running => left > 0

\* A half-open link is about to be dropped, or was there before the job, or is
\* one that could not be dropped or came late.
HalfOpen ==
    link = "half" =>
        \/ at \in {"drop", "disconnect", "killed"}
        \/ at = "dial" /\ for = "new" /\ tries = 1
        \/ stray \in {"kept", "late"}

\* A link that was found is gone, or the job's own, when the first attempt is over;
\* and a connect in flight has no link yet.
Accounted ==
    /\ HalfOpen /\ EndsDisconnected
    /\ stray = "found" =>
        /\ link # "down"
        /\ \/ at \in {"disconnect", "killed"}
           \/ at \in {"dial", "drop"} /\ for = "new" /\ tries = 1
    /\ stray = "dialing" => link = "down"

\* A write that has nothing to report is on the link that the subscription was
\* taken out on, if it is on any.
Unreported == Mapped = "write" /\ link = "up" /\ ~reconnected => sub = gen

\* The subscription in hand is the current link's whenever nothing is being
\* connected; and as long as a call has not returned, nothing has been asked of
\* a link that it has made.  Nothing comes late but to new, and after the end.
Held ==
    /\ at = "wait" => sub = gen
    /\ at = "write" /\ reconnected => for = "write"
    /\ Mapped = "new" => sub = 0 /\ air = 0
    /\ Mapped \in {"write", "stream", "wait"} => sub > 0
    /\ Mapped \in {"new", "write", "stream"} /\ sub # gen => owed = 0
    /\ link # "up" => owed = 0
    /\ link # "down" => gen > 0
    /\ stray = "dialing" => Mapped \in {"new", "over"}

Links == Unreported /\ Held

IInv == TypeOK /\ Budget /\ Accounted /\ (~leaky => Links)

-----------------------------------------------------------------------------
LEMMA InitTypes == Init => TypeOK /\ Budget
<1> SUFFICES ASSUME Init PROVE TypeOK /\ Budget
    OBVIOUS
<1> USE RetriesArePositive, SomethingIsWanted, BoundsArePositive
        DEF Init, TypeOK, Budget, Running, Ended
<1>1. job \in {"command", "stream"} OBVIOUS
<1>2. at \in Running \cup {"disconnect"} \cup Ended OBVIOUS
<1>3. for \in {"new", "write", "stream"} OBVIOUS
<1>4. next \in {"write", "wait"} OBVIOUS
<1>5. tries \in 1..ConnectRetries /\ attempt \in 1..WriteRetries OBVIOUS
<1>6. reconnected \in BOOLEAN /\ armed \in BOOLEAN /\ over \in BOOLEAN OBVIOUS
<1>7. left \in 0..Wanted OBVIOUS
<1>8. gen \in 0..MaxLinks /\ sub \in 0..gen OBVIOUS
<1>9. owed \in 0..MaxOwed /\ air \in 0..MaxAir OBVIOUS
<1>10. Budget OBVIOUS
<1>11. stray \in Strays BY DEF Strays
<1> QED
    BY <1>1, <1>2, <1>3, <1>4, <1>5, <1>6, <1>7, <1>8, <1>9, <1>10, <1>11

LEMMA InitLinks == Init => Accounted /\ Links
BY DEF Init, Accounted, Links, HalfOpen, EndsDisconnected, Unreported, Held, Mapped, Ended

\* The flags among the variables and the rest of TypeOK, apart for the provers.
Flags == leaky \in BOOLEAN /\ reconnected \in BOOLEAN /\ armed \in BOOLEAN /\ over \in BOOLEAN

Counts ==
    /\ job \in {"command", "stream"}
    /\ at \in Running \cup {"disconnect"} \cup Ended
    /\ for \in {"new", "write", "stream"}
    /\ next \in {"write", "wait"}
    /\ tries \in 1..ConnectRetries /\ attempt \in 1..WriteRetries
    /\ left \in 0..Wanted
    /\ link \in {"down", "half", "up"}
    /\ gen \in 0..MaxLinks /\ sub \in 0..gen
    /\ owed \in 0..MaxOwed /\ air \in 0..MaxAir
    /\ stray \in Strays

\* The device does not change.
LEMMA LeakyStays == [Next]_vars => leaky' = leaky
<1>1. ASSUME Finish PROVE leaky' = leaky
    BY <1>1 DEF Finish
<1>2. CASE UNCHANGED vars
    BY <1>2 DEF vars
<1>3. CASE DialOk \/ DialFails \/ Drop
    BY <1>3 DEF DialOk, DialFails, Drop
<1>4. CASE ListenOk \/ ListenFails \/ WriteOk \/ WriteFails
    BY <1>1, <1>4 DEF ListenOk, ListenFails, WriteOk, WriteFails
<1>5. CASE Frame \/ StreamOver \/ Tick \/ Disconnect
    BY <1>5 DEF Frame, StreamOver, Tick, Disconnect
<1>6. CASE Timeout \/ CtrlC
    BY <1>1, <1>6 DEF Timeout, CtrlC
<1>7. CASE DeviceSend \/ LinkDrops \/ LateConnect \/ StreamBreaks
    BY <1>7 DEF DeviceSend, LinkDrops, LateConnect, StreamBreaks
<1> QED
    BY <1>2, <1>3, <1>4, <1>5, <1>6, <1>7 DEF Next, Call

LEMMA FlagStep == ASSUME Flags, [Next]_vars PROVE Flags'
<1> USE LeakyStays DEF Flags
<1>1. CASE UNCHANGED vars
    BY <1>1 DEF vars, call, radio
<1>2. ASSUME KeepStream PROVE over' \in BOOLEAN
    BY <1>2 DEF KeepStream
<1>3. CASE DialOk
  <2>1. over' \in BOOLEAN /\ UNCHANGED armed
      BY <1>2, <1>3 DEF DialOk, NewLink, radio
  <2>2. reconnected' \in BOOLEAN
      BY <1>3 DEF DialOk, Established, NotEstablished, Reconnected
  <2> QED
      BY <2>1, <2>2
<1>4. CASE DialFails
    BY <1>2, <1>4 DEF DialFails, NewLink, call, radio
<1>5. CASE Drop
  <2>1. UNCHANGED <<reconnected, armed>>
      BY <1>5 DEF Drop, NotEstablished
  <2>2. over' \in BOOLEAN
      BY <1>2, <1>5 DEF Drop
  <2> QED
      BY <2>1, <2>2
<1>6. CASE ListenOk
  <2>1. CASE next = "write"
      BY <1>6, <2>1 DEF ListenOk, Write
  <2>2. CASE next # "write"
      BY <1>6, <2>2 DEF ListenOk, Wait
  <2> QED
      BY <2>1, <2>2
<1>7. CASE ListenFails \/ Timeout \/ CtrlC
    BY <1>7 DEF ListenFails, Timeout, CtrlC, Finish, call, radio
<1>8. CASE WriteOk
  <2>1. armed' \in BOOLEAN
      BY <1>8 DEF WriteOk, Written, Wait
  <2> QED
      BY <1>8, <2>1 DEF WriteOk
<1>9. CASE WriteFails
    BY <1>9 DEF WriteFails, Establish, Finish, call, radio
<1>10. CASE Frame \/ StreamOver \/ Tick
    BY <1>10 DEF Frame, StreamOver, Tick, Establish, Write, radio
<1>11. CASE Disconnect \/ DeviceSend \/ StreamBreaks
    BY <1>11 DEF Disconnect, DeviceSend, StreamBreaks, call
<1>12. CASE LinkDrops \/ LateConnect
    BY <1>2, <1>12 DEF LinkDrops, LateConnect, NewLink, call, radio
<1> QED
    BY <1>1, <1>3, <1>4, <1>5, <1>6, <1>7, <1>8, <1>9, <1>10, <1>11, <1>12
       DEF Next, Call

LEMMA CountStep == ASSUME Counts, Budget, [Next]_vars PROVE Counts' /\ Budget'
<1> USE RetriesArePositive, SomethingIsWanted, BoundsArePositive
        DEF Counts, Budget, Running, Ended, Strays
<1>1. CASE UNCHANGED vars
    BY <1>1 DEF vars, call, radio
<1>2. ASSUME UNCHANGED radio \/ NewLink("up") \/ NewLink("half")
      PROVE  /\ link' \in {"down", "half", "up"}
             /\ gen' \in 0..MaxLinks /\ sub' \in 0..gen' /\ gen <= gen'
             /\ owed' \in 0..MaxOwed /\ air' \in 0..MaxAir
    BY <1>2 DEF radio, NewLink
<1>3. CASE DialOk
  <2>1. UNCHANGED radio \/ NewLink("up")
      BY <1>3 DEF DialOk
  <2>2. CASE Established
      BY <1>2, <1>3, <2>1, <2>2 DEF DialOk, Established, Listen
  <2>3. CASE NotEstablished
      BY <1>2, <1>3, <2>1, <2>3 DEF DialOk, NotEstablished
  <2> QED
      BY <1>3, <2>2, <2>3 DEF DialOk
<1>4. CASE DialFails
  <2>1. UNCHANGED radio \/ NewLink("half")
      BY <1>4 DEF DialFails
  <2>2. stray' \in Strays
      BY <1>4 DEF DialFails, InFlight
  <2> QED
      BY <1>2, <1>4, <2>1, <2>2 DEF DialFails, call
<1>5. CASE Drop
    BY <1>5 DEF Drop, DropTry, DropConnection, LastTry, NotEstablished
<1>6. CASE ListenOk
    BY <1>6 DEF ListenOk, Write, Wait
<1>7. CASE ListenFails \/ Timeout \/ CtrlC
    BY <1>7 DEF ListenFails, Timeout, CtrlC, Abandon, InFlight, Finish, call, radio
<1>8. CASE WriteOk
    BY <1>8 DEF WriteOk, Written, Listen, Wait
<1>9. CASE WriteFails
    BY <1>9 DEF WriteFails, Establish, Finish, call, radio
<1>10. CASE Frame
    BY <1>10 DEF Frame
<1>11. CASE StreamOver \/ Tick
    BY <1>11 DEF StreamOver, Tick, Establish, Write, radio
<1>12. CASE Disconnect \/ DeviceSend \/ LinkDrops \/ StreamBreaks
    BY <1>12 DEF Disconnect, DropConnection, DeviceSend, LinkDrops, StreamBreaks, call
<1>13. CASE LateConnect
    BY <1>2, <1>13 DEF LateConnect, call
<1> QED
    BY <1>1, <1>3, <1>4, <1>5, <1>6, <1>7, <1>8, <1>9, <1>10, <1>11, <1>12, <1>13
       DEF Next, Call

LEMMA TypeStep == TypeOK /\ Budget /\ [Next]_vars => TypeOK' /\ Budget'
BY FlagStep, CountStep DEF TypeOK, Flags, Counts

\* What becomes of the link, whoever made it: action by action.
LEMMA AccountStep ==
    ASSUME TypeOK, Accounted, [Next]_vars PROVE Accounted'
<1> USE DEF TypeOK, Accounted, HalfOpen, EndsDisconnected
<1>1. CASE UNCHANGED vars
    BY <1>1 DEF vars, call, radio
<1>2. CASE DialOk
  <2>1. at = "dial" /\ link' = "up" /\ UNCHANGED <<job, for, tries>>
      BY <1>2 DEF DialOk, NewLink, radio
  <2>2. stray' = "none" \/ (stray' = "unfit" /\ at' = "done")
      BY <1>2, <2>1 DEF DialOk, NotEstablished
  <2>3. at' = "done" => stray' = "unfit"
      BY <1>2, <2>1 DEF DialOk, Established, NotEstablished, Listen
  <2> QED
      BY <2>1, <2>2, <2>3
<1>3. CASE DialFails
  <2>1. at' = "drop" /\ UNCHANGED <<for, tries>>
      BY <1>3 DEF DialFails, call
  <2>2. \/ link' = "half" /\ stray' = "none"
        \/ UNCHANGED <<link, stray>>
        \/ link' = "down" /\ stray' = "dialing"
      BY <1>3 DEF DialFails, NewLink, InFlight, radio
  <2> QED
      BY <1>3, <2>1, <2>2 DEF DialFails
<1>4. CASE Drop
  <2>1. DropConnection /\ UNCHANGED for
      BY <1>4 DEF Drop, DropTry
  <2> QED
      BY <2>1 DEF DropConnection
<1>5. CASE \/ ListenOk \/ ListenFails \/ WriteOk \/ WriteFails
           \/ Frame \/ StreamOver \/ Tick
  <2>1. /\ at \in {"listen", "write", "wait"} /\ at' \notin Ended
        /\ UNCHANGED <<link, stray>>
        /\ at' = "dial" => for' \in {"write", "stream"}
      BY <1>5 DEF ListenOk, ListenFails, WriteOk, Written, Listen, Wait, WriteFails, Frame,
          StreamOver, Tick, Establish, Write, Finish, radio, Ended
  <2> QED
      BY <2>1 DEF Ended
<1>6. CASE Timeout \/ CtrlC
  <2>1. /\ at \in Running /\ at' \in {"disconnect", "killed"}
        /\ UNCHANGED <<link, for, tries>>
        /\ UNCHANGED stray \/ (link = "down" /\ stray' = "dialing")
        /\ at' = "disconnect" => ~(for = "new" /\ at \in {"dial", "drop"}) \/ armed
      BY <1>6 DEF Timeout, CtrlC, Abandon, InFlight, Finish, call, radio, Running
  <2> QED
      BY <2>1 DEF Running
<1>7. CASE Disconnect
    BY <1>7 DEF Disconnect, DropConnection
<1>8. CASE DeviceSend \/ StreamBreaks
    BY <1>8 DEF DeviceSend, StreamBreaks, call
<1>9. CASE LinkDrops
    BY <1>9 DEF LinkDrops, call
<1>10. CASE LateConnect
    BY <1>10 DEF LateConnect, NewLink, call, radio
<1> QED
    BY <1>1, <1>2, <1>3, <1>4, <1>5, <1>6, <1>7, <1>8, <1>9, <1>10 DEF Next, Call

\* What is believed of the link, if connect's Err means that there is none.
LEMMA LinkStep ==
    ASSUME TypeOK, Budget, Accounted, Links, ~leaky, [Next]_vars PROVE Links'
<1> USE DEF TypeOK, Accounted, Links, Unreported, Held, Mapped, Ended
<1>1. CASE UNCHANGED vars
    BY <1>1 DEF vars, call, radio
<1>2. CASE DialOk
  <2>1. link' = "up" /\ Established /\ stray' = "none"
      BY <1>2 DEF DialOk, NewLink, radio
  <2>2. /\ UNCHANGED radio \/ NewLink("up")
        /\ UNCHANGED <<job, for>>
        /\ at = "dial" /\ sub' = sub /\ air' = air /\ owed' \in {owed, 0}
        /\ gen <= gen' /\ gen' > 0
      BY <1>2 DEF DialOk, NewLink, radio
  <2>3. CASE for \in {"new", "stream"}
      BY <2>1, <2>2, <2>3 DEF Established, Listen, NewLink, radio
  <2>4. CASE for = "write"
      BY <2>1, <2>2, <2>4 DEF Established, Reconnected, NewLink, radio
  <2> QED
      BY <2>3, <2>4
<1>3. CASE DialFails
  <2>1. CASE UNCHANGED <<radio, stray>>
      BY <1>3, <2>1 DEF DialFails, call, radio
  <2>2. CASE NewLink("half") /\ stray' = "none"
      BY <1>3, <2>2 DEF DialFails, call, NewLink
  <2> QED
      BY <1>3, <2>1, <2>2 DEF DialFails
<1>4. CASE Drop
  <2>1. /\ at = "drop" /\ Mapped = for /\ UNCHANGED <<for, gen, sub, air>>
        /\ Mapped' \in {Mapped, "over"} /\ at' # "wait"
        /\ at' = "write" => for = "write" /\ UNCHANGED reconnected
        /\ Mapped' = "write" => UNCHANGED reconnected
      BY <1>4 DEF Drop, NotEstablished
  <2>2. \/ link' = "down" /\ owed' = 0 /\ stray' = "none"
        \/ link # "down" /\ stray' = "kept" /\ UNCHANGED <<link, owed>>
        \/ UNCHANGED <<link, owed, stray>>
      BY <1>4 DEF Drop, DropTry, DropConnection
  <2> QED
      BY <2>1, <2>2
<1>5. CASE ListenOk
    BY <1>5 DEF ListenOk, Write, Wait
<1>6. CASE ListenFails
    BY <1>6 DEF ListenFails, Finish, call, radio
<1>7. CASE Timeout \/ CtrlC
  <2>1. at' \in {"disconnect", "killed"} /\ UNCHANGED radio
      BY <1>7 DEF Timeout, CtrlC, Finish
  <2> QED
      BY <2>1 DEF radio
<1>8. CASE WriteOk
    BY <1>8 DEF WriteOk, Written, Listen, Wait
<1>9. CASE WriteFails
    BY <1>9 DEF WriteFails, Establish, Finish, call, radio
<1>10. CASE Frame
    BY <1>10 DEF Frame
<1>11. CASE StreamOver
    BY <1>11 DEF StreamOver, Establish, radio
<1>12. CASE Tick
    BY <1>12 DEF Tick, Write, radio
<1>13. CASE Disconnect
    BY <1>13 DEF Disconnect, DropConnection, call
<1>14. CASE DeviceSend \/ LinkDrops \/ StreamBreaks
    BY <1>14 DEF DeviceSend, LinkDrops, StreamBreaks, call
<1>15. CASE LateConnect
  <2>1. Mapped \in {"new", "over"} /\ UNCHANGED <<at, call>>
      BY <1>15 DEF LateConnect
  <2>2. CASE \E state \in {"half", "up"} : NewLink(state)
    <3>1. owed' = 0 /\ gen' = gen + 1 /\ UNCHANGED <<sub, air>>
        BY <2>2 DEF NewLink
    <3> QED
        BY <1>15, <2>1, <3>1 DEF LateConnect, call
  <2>3. CASE UNCHANGED radio /\ stray' = "none"
      BY <2>1, <2>3 DEF call, radio
  <2> QED
      BY <1>15, <2>2, <2>3 DEF LateConnect
<1> QED
    BY <1>1, <1>2, <1>3, <1>4, <1>5, <1>6, <1>7, <1>8, <1>9, <1>10, <1>11, <1>12,
       <1>13, <1>14, <1>15 DEF Next, Call

LEMMA Invariance == Spec => []IInv
<1>1. Init => IInv
    BY InitTypes, InitLinks DEF IInv
<1>2. IInv /\ [Next]_vars => IInv'
    BY TypeStep, AccountStep, LinkStep, LeakyStays DEF IInv
<1> QED
    BY <1>1, <1>2, PTL DEF Spec

-----------------------------------------------------------------------------
\* Every state of a job has its type: no attempt is made beyond the limit, and
\* no sample beyond those wanted is counted.
THEOREM ConnectionTypeCorrect == Spec => []TypeOK
<1>1. IInv => TypeOK
    BY DEF IInv
<1> QED
    BY <1>1, Invariance, PTL

\* Whoever waits for a notification, in oneshot or subscribe, waits for one that
\* can come.
THEOREM WaitsOnTheCurrentLink == Spec => []SubscriptionIsCurrent
<1>1. IInv => SubscriptionIsCurrent
    BY DEF IInv, Links, Held, SubscriptionIsCurrent
<1> QED
    BY <1>1, Invariance, PTL

\* No attempt of establish starts on the half-open link that an earlier attempt
\* or process left, but for one that BlueZ failed to drop or made late.
THEOREM HalfOpenIsDropped == Spec => []NeverOnHalfOpen
<1>1. IInv => NeverOnHalfOpen
    BY DEF IInv, Accounted, HalfOpen, NeverOnHalfOpen
<1> QED
    BY <1>1, Invariance, PTL

(***************************************************************************)
(* However a job ends that is not killed - by its last sample, an error,   *)
(* its time-out, --duration or Ctrl-C, in whichever await - a link is left *)
(* for one of three reasons only: BlueZ failed to disconnect it, it lacked *)
(* a characteristic when Connection::new made it, or it came of a connect  *)
(* that was given up before it was there.                                  *)
(***************************************************************************)
THEOREM DeviceIsLetGo == Spec => []EndsDisconnected
<1>1. IInv => EndsDisconnected
    BY DEF IInv, Accounted
<1> QED
    BY <1>1, Invariance, PTL

-----------------------------------------------------------------------------
\* The frames on their way, as the sequence that the caller's link has of them.
LEMMA FramesAre ==
    ASSUME NEW n \in Nat
    PROVE  /\ Frames(n) \in Seq({Calls!Meas}) /\ Len(Frames(n)) = n
           /\ \A i \in 1..n : Frames(n)[i] = Calls!Meas
           /\ n = 0 <=> Frames(n) = <<>>
<1>1. /\ Frames(n) \in Seq({Calls!Meas}) /\ Len(Frames(n)) = n
      /\ \A i \in 1..n : Frames(n)[i] = Calls!Meas
    BY DEF Frames, Calls!Meas
<1> QED
    BY <1>1

LEMMA FramesOneLess ==
    ASSUME NEW n \in Nat, n > 0
    PROVE  Head(Frames(n)) = Calls!Meas /\ Tail(Frames(n)) = Frames(n - 1)
<1>1. /\ Frames(n) \in Seq({Calls!Meas}) /\ Len(Frames(n)) = n /\ Frames(n) # <<>>
      /\ \A i \in 1..n : Frames(n)[i] = Calls!Meas
    BY FramesAre
<1>2. /\ Frames(n - 1) \in Seq({Calls!Meas}) /\ Len(Frames(n - 1)) = n - 1
      /\ \A i \in 1..(n - 1) : Frames(n - 1)[i] = Calls!Meas
  <2>1. n - 1 \in Nat
      OBVIOUS
  <2> QED
      BY <2>1, FramesAre
<1>3. /\ Tail(Frames(n)) \in Seq({Calls!Meas}) /\ Len(Tail(Frames(n))) = n - 1
      /\ \A i \in 1..(n - 1) : Tail(Frames(n))[i] = Frames(n)[i + 1]
    BY <1>1
<1>4. \A i \in 1..(n - 1) : Tail(Frames(n))[i] = Frames(n - 1)[i]
    BY <1>1, <1>2, <1>3
<1>5. Tail(Frames(n)) = Frames(n - 1)
    BY <1>2, <1>3, <1>4, SeqEqual
<1> QED
    BY <1>1, <1>5

LEMMA FramesOneMore ==
    ASSUME NEW n \in Nat
    PROVE  Append(Frames(n), Calls!Meas) = Frames(n + 1)
<1>1. n + 1 \in Nat /\ n + 1 > 0 /\ (n + 1) - 1 = n
    OBVIOUS
<1>2. Frames(n) \in Seq({Calls!Meas}) /\ Len(Frames(n)) = n
      /\ \A i \in 1..n : Frames(n)[i] = Calls!Meas
    BY FramesAre
<1>3. Frames(n + 1) \in Seq({Calls!Meas}) /\ Len(Frames(n + 1)) = n + 1
      /\ \A i \in 1..(n + 1) : Frames(n + 1)[i] = Calls!Meas
    BY <1>1, FramesAre
<1>4. /\ Append(Frames(n), Calls!Meas) \in Seq({Calls!Meas})
      /\ Len(Append(Frames(n), Calls!Meas)) = n + 1
      /\ \A i \in 1..(n + 1) : Append(Frames(n), Calls!Meas)[i] = Calls!Meas
    BY <1>2, AppendProperties
<1>5. \A i \in 1..(n + 1) : Append(Frames(n), Calls!Meas)[i] = Frames(n + 1)[i]
    BY <1>3, <1>4
<1> QED
    BY <1>3, <1>4, <1>5, SeqEqual

\* What a caller sees, from what the job knows.
LEMMA SeenType ==
    ASSUME TypeOK, Links
    PROVE  /\ Mapped \in {"new", "listen", "write", "stream", "wait", "over"}
           /\ LinkSeen \in {"down", "up", "hot"} /\ AirSeen \in Nat /\ owed \in Nat
           /\ LinkSeen = "down" => owed = 0
           /\ StreamSeen = "none" => AirSeen = 0 \/ Mapped = "listen"
BY DEF TypeOK, Links, Held, Mapped, LinkSeen, AirSeen, StreamSeen, Running, Ended

\* While a call runs, or after the last one, the link may go and the stream may
\* end, and what else happens does not show.
LEMMA WithinCall ==
    ASSUME TypeOK, Links, Mapped' = Mapped, AirSeen' = AirSeen,
           \/ LinkSeen' = LinkSeen /\ owed' = owed
           \/ LinkSeen # "down" /\ LinkSeen' = "down" /\ owed' = 0,
           \/ StreamSeen' = StreamSeen
           \/ StreamSeen = "open" /\ StreamSeen' = "ended"
    PROVE  [Calls!Next]_(Calls!vars)
<1>1. Frames(0) = <<>>
    BY FramesAre
<1>2. CASE LinkSeen' = LinkSeen /\ owed' = owed /\ StreamSeen' = StreamSeen
    BY <1>2 DEF Calls!vars, Calls!ble
<1>3. CASE /\ LinkSeen' = LinkSeen /\ owed' = owed
           /\ StreamSeen = "open" /\ StreamSeen' = "ended"
  <2>1. Calls!StreamBreaks
      BY <1>3 DEF Calls!StreamBreaks
  <2> QED
      BY <2>1 DEF Calls!Next, Calls!Radio
<1>4. CASE LinkSeen # "down" /\ LinkSeen' = "down" /\ owed' = 0
  <2>1. Calls!LinkDrops
      BY <1>1, <1>4 DEF Calls!LinkDrops, Calls!KeepStream
  <2> QED
      BY <2>1 DEF Calls!Next, Calls!Radio
<1> QED
    BY <1>2, <1>3, <1>4

\* A call that is given up, or fails, leaves the link as it was or as its last
\* attempt has made it.
LEMMA GivenUp ==
    ASSUME TypeOK, Links, at \in Running, Mapped' = "over",
           UNCHANGED <<link, gen, sub, owed>>
    PROVE  Calls!Next
<1>1. Frames(0) = <<>> /\ Frames(owed') = Frames(owed)
    BY FramesAre
<1>2. Mapped # "over"
    BY DEF Mapped, Running, Ended, TypeOK
<1>3. StreamSeen' = "none" /\ AirSeen' = 0
    BY DEF StreamSeen, AirSeen
<1>4. \/ LinkSeen' = LinkSeen
      \/ /\ Mapped \in {"new", "write", "stream"} /\ owed = 0
         /\ LinkSeen' \in {"down", "up"}
  <2>1. CASE Mapped = "new"
      BY <1>2, <2>1 DEF LinkSeen, Links, Held, TypeOK
  <2>2. CASE Mapped # "new"
      BY <1>2, <2>2 DEF LinkSeen, Links, Held, TypeOK
  <2> QED
      BY <2>1, <2>2
<1>5. Calls!DropStream
    BY <1>1, <1>3 DEF Calls!DropStream
<1>6. CASE Mapped = "new"
  <2>1. StreamSeen = "none" /\ AirSeen = 0 /\ LinkSeen = "down"
      BY <1>6 DEF StreamSeen, AirSeen, LinkSeen, Links, Held
  <2>2. Calls!New
      BY <1>1, <1>3, <1>4, <1>6, <2>1 DEF Calls!New
  <2> QED
      BY <2>2 DEF Calls!Next
<1>7. CASE Mapped = "listen"
  <2>1. Calls!Listen
      BY <1>1, <1>4, <1>5, <1>7 DEF Calls!Listen, Calls!ListenFails
  <2> QED
      BY <2>1 DEF Calls!Next
<1>8. CASE Mapped = "write"
  <2>1. Calls!WriteFails
      BY <1>1, <1>4, <1>8 DEF Calls!WriteFails
  <2> QED
      BY <1>5, <1>8, <2>1 DEF Calls!Next, Calls!Write
<1>9. CASE Mapped = "stream"
  <2>1. Calls!ReconnectFails
      BY <1>1, <1>4, <1>5, <1>9 DEF Calls!ReconnectFails
  <2> QED
      BY <1>9, <2>1 DEF Calls!Next, Calls!ReconnectStream
<1>10. CASE Mapped = "wait"
  <2>1. Calls!Wait
      BY <1>1, <1>4, <1>5, <1>10 DEF Calls!Wait
  <2> QED
      BY <2>1 DEF Calls!Next
<1> QED
    BY <1>2, <1>6, <1>7, <1>8, <1>9, <1>10, SeenType

\* The link is gone.
Gone == link' = "down" /\ owed' = 0 /\ KeepStream

LEMMA CallsStep ==
    ASSUME TypeOK, Budget, Accounted, Links, ~leaky, [Next]_vars
    PROVE  [Calls!Next]_(Calls!vars)
<1> USE SeenType DEF TypeOK, Accounted, Links, Held
<1>1. CASE UNCHANGED vars
    BY <1>1, WithinCall DEF vars, call, radio, Mapped, LinkSeen, StreamSeen, AirSeen
\* What becomes of the link and the stream when neither shows but as lost.
<1>2. ASSUME Mapped \in {"new", "write", "stream"}, Mapped' = Mapped,
             \/ UNCHANGED radio
             \/ NewLink("half") /\ link = "down"
             \/ NewLink("up") /\ link = "down"
             \/ Gone /\ UNCHANGED <<gen, sub, air>>
      PROVE  [Calls!Next]_(Calls!vars)
  <2>1. /\ sub' = sub /\ air' = air /\ gen <= gen'
        /\ (gen' # gen => sub' # gen' /\ link = "down" /\ owed' = 0)
        /\ \/ link' = link /\ gen' = gen /\ owed' = owed
           \/ gen' # gen
           \/ link' = "down" /\ gen' = gen /\ owed' = 0
      BY <1>2 DEF radio, NewLink, Gone
  <2>2. over' = over \/ (sub > 0 /\ over' = TRUE)
      BY <1>2 DEF radio, NewLink, Gone, KeepStream
  <2>3. AirSeen' = AirSeen
      BY <1>2, <2>1 DEF AirSeen
  <2>4. StreamSeen' = StreamSeen \/ (StreamSeen = "open" /\ StreamSeen' = "ended")
      BY <1>2, <2>1, <2>2 DEF StreamSeen
  <2>5. \/ LinkSeen' = LinkSeen /\ owed' = owed
        \/ LinkSeen # "down" /\ LinkSeen' = "down" /\ owed' = 0
      BY <1>2, <2>1 DEF LinkSeen
  <2> QED
      BY <1>2, <2>3, <2>4, <2>5, WithinCall
<1>3. CASE DialOk
  <2>1. /\ at = "dial" /\ Established /\ UNCHANGED <<job, for>> /\ link' = "up"
        /\ UNCHANGED radio \/ (NewLink("up") /\ link = "down")
      BY <1>3 DEF DialOk, NewLink, radio
  <2>2. CASE for = "new"
    <3>1. /\ Mapped = "new" /\ Mapped' = "listen"
          /\ sub' = sub /\ gen' > 0 /\ owed' = owed /\ air' = air
        BY <2>1, <2>2 DEF Mapped, Established, Listen, NewLink, radio, Ended
    <3>2. /\ LinkSeen' = "up" /\ StreamSeen = "none" /\ StreamSeen' = "none"
          /\ AirSeen' = AirSeen
        BY <2>1, <3>1 DEF LinkSeen, StreamSeen, AirSeen
    <3>3. Calls!New
        BY <3>1, <3>2 DEF Calls!New
    <3> QED
        BY <3>3 DEF Calls!Next
  <2>3. CASE for # "new"
    <3>1. Mapped \in {"write", "stream"} /\ Mapped' = Mapped
        BY <2>1, <2>3 DEF Mapped, Established, Listen, Ended
    <3> QED
        BY <1>2, <2>1, <3>1
  <2> QED
      BY <2>2, <2>3
<1>4. CASE DialFails
  <2>1. Mapped \in {"new", "write", "stream"} /\ Mapped' = Mapped
      BY <1>4 DEF DialFails, call, Mapped, Ended
  <2> QED
      BY <1>2, <1>4, <2>1 DEF DialFails
<1>5. CASE Drop
  <2>1. at = "drop" /\ UNCHANGED <<for, gen, sub, air>> /\ Mapped = for
      BY <1>5 DEF Drop, Mapped, Ended
  <2>2. \/ link' = "down" /\ owed' = 0 /\ Gone
        \/ UNCHANGED <<link, owed, over>>
      BY <1>5 DEF Drop, DropTry, DropConnection, Gone
  <2>3. CASE ~LastTry \/ for = "write"
    <3>1. Mapped' = Mapped
        BY <1>5, <2>1, <2>3 DEF Drop, NotEstablished, Mapped, Ended
    <3> QED
        BY <1>2, <2>1, <2>2, <3>1 DEF radio
  <2>4. CASE LastTry /\ for # "write" /\ UNCHANGED <<link, owed>>
    <3>1. at \in Running /\ Mapped' = "over"
        BY <1>5, <2>1, <2>4 DEF Drop, NotEstablished, Mapped, Running, Ended
    <3> QED
        BY <2>1, <2>4, <3>1, GivenUp
  <2>5. CASE LastTry /\ for # "write" /\ link' = "down" /\ owed' = 0
    <3>1. Mapped' = "over" /\ LinkSeen' = "down" /\ owed' = 0
        BY <1>5, <2>1, <2>5 DEF Drop, NotEstablished, Mapped, LinkSeen, Ended
    <3>2. StreamSeen' = "none" /\ AirSeen' = 0 /\ Frames(0) = <<>>
        BY <3>1, FramesAre DEF StreamSeen, AirSeen
    <3>3. CASE for = "new"
      <4>1. StreamSeen = "none" /\ AirSeen = 0 /\ owed = 0
          BY <2>1, <3>3 DEF StreamSeen, AirSeen
      <4>2. Calls!New
          BY <2>1, <3>1, <3>2, <3>3, <4>1 DEF Calls!New
      <4> QED
          BY <4>2 DEF Calls!Next
    <3>4. CASE for = "stream"
      <4>1. Calls!ReconnectFails
          BY <3>1, <3>2 DEF Calls!ReconnectFails, Calls!DropStream
      <4> QED
          BY <2>1, <3>1, <3>4, <4>1 DEF Calls!Next, Calls!ReconnectStream
    <3> QED
        BY <2>5, <3>3, <3>4
  <2> QED
      BY <2>2, <2>3, <2>4, <2>5
<1>6. CASE ListenOk
  <2>1. /\ at = "listen" /\ link = "up" /\ UNCHANGED <<link, gen, owed, for>>
        /\ sub' = gen /\ over' = FALSE /\ air' = 0 /\ at' \in {"write", "wait"}
      BY <1>6 DEF ListenOk, Write, Wait
  <2>2. Mapped \in {"listen", "stream"} /\ Mapped' = at'
      BY <2>1 DEF Mapped, Ended
  <2>3. LinkSeen' = "hot" /\ StreamSeen' = "open" /\ AirSeen' = 0 /\ Frames(0) = <<>>
      BY <2>1, <2>2, FramesAre DEF LinkSeen, StreamSeen, AirSeen
  <2>4. CASE Mapped = "listen"
    <3>1. LinkSeen # "down"
        BY <2>1, <2>4 DEF LinkSeen
    <3>2. Calls!ListenOk
        BY <2>1, <2>3, <3>1 DEF Calls!ListenOk
    <3> QED
        BY <2>1, <2>2, <2>4, <3>2 DEF Calls!Next, Calls!Listen
  <2>5. CASE Mapped = "stream"
    <3>1. Calls!ReconnectOk
        BY <2>1, <2>3 DEF Calls!ReconnectOk
    <3> QED
        BY <2>1, <2>2, <2>5, <3>1 DEF Calls!Next, Calls!ReconnectStream
  <2> QED
      BY <2>2, <2>4, <2>5
<1>7. CASE ListenFails \/ Timeout \/ CtrlC
  <2>1. at \in Running /\ at' \in {"disconnect", "killed"} /\ UNCHANGED <<call, radio>>
      BY <1>7 DEF ListenFails, Timeout, CtrlC, Finish, Running
  <2>2. Mapped' = "over"
      BY <2>1 DEF Mapped, Ended
  <2> QED
      BY <2>1, <2>2, GivenUp DEF radio
<1>8. CASE WriteOk
  <2>1. /\ at = "write" /\ Mapped = "write" /\ link = "up"
        /\ UNCHANGED <<for, link, gen, sub, over, air>>
        /\ LinkSeen = (IF sub = gen THEN "hot" ELSE "down")
      BY <1>8 DEF WriteOk, Mapped, LinkSeen, Ended
  <2>2. Frames(owed') = Calls!Ask(Frames(owed), Calls!Meas)
      BY <1>8, FramesAre, FramesOneMore DEF WriteOk, Calls!Ask
  <2>3. CASE ~reconnected
    <3>1. Mapped' = "wait" /\ sub = gen
        BY <1>8, <2>1, <2>3 DEF WriteOk, Written, Wait, Mapped, Unreported, Ended
    <3>2. /\ LinkSeen = "hot" /\ LinkSeen' = "hot"
          /\ StreamSeen' = StreamSeen /\ AirSeen' = AirSeen
        BY <2>1, <3>1 DEF LinkSeen, StreamSeen, AirSeen
    <3>3. Calls!WriteSame(Calls!Meas)
        BY <2>2, <3>2 DEF Calls!WriteSame
    <3> QED
        BY <2>1, <3>1, <3>3 DEF Calls!Next, Calls!Write
  <2>4. CASE reconnected
    <3>1. Mapped' = "listen"
        BY <1>8, <2>1, <2>4 DEF WriteOk, Written, Listen, Mapped, Ended
    <3>2. /\ LinkSeen' = (IF sub = gen THEN "hot" ELSE "up")
          /\ StreamSeen' = StreamSeen /\ AirSeen' = AirSeen
        BY <2>1, <3>1 DEF LinkSeen, StreamSeen, AirSeen
    <3>3. CASE sub = gen
      <4>1. Calls!WriteSame(Calls!Meas)
          BY <2>1, <2>2, <3>2, <3>3 DEF Calls!WriteSame
      <4> QED
          BY <2>1, <3>1, <4>1 DEF Calls!Next, Calls!Write, Calls!WriteReconnected
    <3>4. CASE sub # gen
      <4>1. owed = 0 /\ owed' = 1
          BY <1>8, <2>1, <3>4, BoundsArePositive DEF WriteOk
      <4>2. Frames(1) = <<Calls!Meas>>
          BY DEF Frames, Calls!Meas
      <4>3. Calls!WriteReconnected(Calls!Meas)
          BY <3>2, <3>4, <4>1, <4>2 DEF Calls!WriteReconnected, Calls!KeepStream
      <4> QED
          BY <2>1, <3>1, <4>3 DEF Calls!Next, Calls!Write
    <3> QED
        BY <3>3, <3>4
  <2> QED
      BY <2>3, <2>4
<1>9. CASE WriteFails
  <2>1. CASE attempt < WriteRetries
    <3>1. Mapped = "write" /\ Mapped' = Mapped /\ UNCHANGED radio
        BY <1>9, <2>1 DEF WriteFails, Establish, Mapped, Ended
    <3> QED
        BY <1>2, <3>1
  <2>2. CASE ~(attempt < WriteRetries)
    <3>1. at \in Running /\ Mapped' = "over" /\ UNCHANGED radio
        BY <1>9, <2>2 DEF WriteFails, Finish, Mapped, Running, Ended
    <3> QED
        BY <3>1, GivenUp DEF radio
  <2> QED
      BY <2>1, <2>2
<1>10. CASE Frame
  <2>1. /\ at = "wait" /\ Mapped = "wait" /\ air > 0 /\ air' = air - 1
        /\ at' \in {"wait", "disconnect"} /\ UNCHANGED <<link, gen, sub, over, owed>>
      BY <1>10 DEF Frame, Mapped, Ended
  <2>2. CASE at' = "wait"
    <3>1. /\ Mapped' = "wait" /\ LinkSeen' = LinkSeen /\ StreamSeen' = StreamSeen
          /\ AirSeen = air /\ AirSeen' = air - 1
        BY <2>1, <2>2 DEF Mapped, LinkSeen, StreamSeen, AirSeen, Ended
    <3>2. Frames(AirSeen) # <<>> /\ Frames(AirSeen') = Tail(Frames(AirSeen))
        BY <2>1, <3>1, FramesAre, FramesOneLess
    <3>3. Calls!Wait
        BY <2>1, <3>1, <3>2 DEF Calls!Wait
    <3> QED
        BY <3>3 DEF Calls!Next
  <2>3. CASE at' = "disconnect"
    <3>1. at \in Running /\ Mapped' = "over"
        BY <2>1, <2>3 DEF Mapped, Running, Ended
    <3> QED
        BY <2>1, <3>1, GivenUp
  <2> QED
      BY <2>1, <2>2, <2>3
<1>11. CASE StreamOver \/ Tick
  <2>1. /\ at = "wait" /\ Mapped = "wait" /\ sub = gen /\ UNCHANGED radio
        /\ StreamOver => over /\ air = 0 /\ Mapped' = "stream"
        /\ Tick => Mapped' = "write"
      BY <1>11 DEF StreamOver, Tick, Establish, Write, Mapped, radio, Ended
  <2>2. UNCHANGED <<LinkSeen, StreamSeen, AirSeen, owed>>
      BY <1>11, <2>1 DEF LinkSeen, StreamSeen, AirSeen, radio
  <2>3. StreamOver => StreamSeen = "ended" /\ Frames(AirSeen) = <<>>
      BY <2>1, FramesAre DEF StreamSeen, AirSeen
  <2>4. Calls!Wait
      BY <1>11, <2>1, <2>2, <2>3 DEF Calls!Wait, Calls!ble
  <2> QED
      BY <2>4 DEF Calls!Next
<1>12. CASE Disconnect
  <2>1. /\ Mapped = "over" /\ Mapped' = "over" /\ UNCHANGED <<gen, sub>>
        /\ (link' = "down" /\ owed' = 0) \/ UNCHANGED <<link, owed>>
      BY <1>12 DEF Disconnect, DropConnection, Mapped, Ended
  <2>2. StreamSeen' = StreamSeen /\ AirSeen' = AirSeen /\ Frames(0) = <<>>
      BY <2>1, FramesAre DEF StreamSeen, AirSeen
  <2>3. CASE link' = "down" /\ owed' = 0
    <3>1. LinkSeen' = "down"
        BY <2>1, <2>3 DEF LinkSeen
    <3>2. Calls!Disconnect
        BY <2>1, <2>2, <2>3, <3>1 DEF Calls!Disconnect
    <3> QED
        BY <3>2 DEF Calls!Next
  <2>4. CASE UNCHANGED <<link, owed>>
    <3>1. LinkSeen' = LinkSeen
        BY <2>1, <2>4 DEF LinkSeen
    <3> QED
        BY <2>1, <2>2, <2>4, <3>1, WithinCall
  <2> QED
      BY <2>1, <2>3, <2>4
<1>13. CASE DeviceSend
  <2>1. /\ owed > 0 /\ owed' = owed - 1 /\ link = "up" /\ air < MaxAir
        /\ air' = (IF sub = gen /\ ~over THEN air + 1 ELSE air)
        /\ UNCHANGED <<at, for, link, gen, sub, over>>
      BY <1>13 DEF DeviceSend, call
  <2>2. Mapped' = Mapped /\ UNCHANGED <<LinkSeen, StreamSeen>>
      BY <2>1 DEF Mapped, LinkSeen, StreamSeen
  <2>3. LinkSeen # "down" /\ (LinkSeen = "hot" <=> sub = gen)
      BY <2>1 DEF LinkSeen, Mapped
  <2>4. StreamSeen = "open" <=> Mapped # "over" /\ sub # 0 /\ ~over
      BY DEF StreamSeen
  <2>5. AirSeen' = IF LinkSeen = "hot" /\ StreamSeen = "open"
                   THEN AirSeen + 1 ELSE AirSeen
      BY <2>1, <2>2, <2>3, <2>4 DEF AirSeen
  <2>6. /\ Frames(owed) # <<>> /\ Head(Frames(owed)) = Calls!Meas
        /\ Frames(owed') = Tail(Frames(owed))
      BY <2>1, FramesAre, FramesOneLess
  <2>7. AirSeen \in Nat /\ AirSeen < MaxAir
      BY <2>1, BoundsArePositive DEF AirSeen
  <2>8. /\ Len(Frames(AirSeen)) < MaxAir
        /\ Frames(AirSeen + 1) = Append(Frames(AirSeen), Calls!Meas)
      BY <2>7, FramesAre, FramesOneMore
  <2>9. Calls!DeviceSend
      BY <2>2, <2>3, <2>5, <2>6, <2>8 DEF Calls!DeviceSend
  <2> QED
      BY <2>2, <2>9 DEF Calls!Next, Calls!Radio
<1>14. CASE LinkDrops
  <2>1. /\ link # "down" /\ link' = "down" /\ owed' = 0 /\ KeepStream
        /\ UNCHANGED <<at, for, gen, sub, air>>
      BY <1>14 DEF LinkDrops, call
  <2>2. Mapped' = Mapped
      BY <2>1 DEF Mapped
  <2>3. over' = over \/ (sub > 0 /\ over' = TRUE)
      BY <2>1 DEF KeepStream
  <2>4. link' = "down" /\ owed' = 0
      BY <2>1
  <2>5. AirSeen' = AirSeen /\ LinkSeen' = "down"
      BY <2>1, <2>2, <2>4 DEF AirSeen, LinkSeen
  <2>6. StreamSeen' = StreamSeen \/ (StreamSeen = "open" /\ StreamSeen' = "ended")
      BY <2>1, <2>2, <2>3 DEF StreamSeen
  <2> QED
      BY <2>2, <2>4, <2>5, <2>6, WithinCall
<1>15. CASE StreamBreaks
  <2>1. /\ UNCHANGED <<at, for, link, gen, sub, owed, air>> /\ sub > 0 /\ over' = TRUE
      BY <1>15 DEF StreamBreaks, call
  <2>2. Mapped' = Mapped
      BY <2>1 DEF Mapped
  <2>3. AirSeen' = AirSeen /\ LinkSeen' = LinkSeen /\ owed' = owed
      BY <2>1, <2>2 DEF AirSeen, LinkSeen
  <2>4. StreamSeen' = StreamSeen \/ (StreamSeen = "open" /\ StreamSeen' = "ended")
      BY <2>1, <2>2 DEF StreamSeen
  <2> QED
      BY <2>2, <2>3, <2>4, WithinCall
<1>16. CASE LateConnect
  <2>1. /\ Mapped \in {"new", "over"} /\ Mapped' = Mapped /\ link = "down" /\ owed = 0
      BY <1>16 DEF LateConnect, Mapped, call
  <2>2. CASE UNCHANGED radio
    <3>1. UNCHANGED <<LinkSeen, StreamSeen, AirSeen, owed>>
        BY <2>1, <2>2 DEF LinkSeen, StreamSeen, AirSeen, radio
    <3> QED
        BY <2>1, <3>1, WithinCall
  <2>3. CASE Mapped = "new" /\ ~UNCHANGED radio
    <3>1. NewLink("half") \/ NewLink("up")
        BY <1>16, <2>3 DEF LateConnect
    <3> QED
        BY <1>2, <2>1, <2>3, <3>1
  <2>4. CASE Mapped = "over" /\ ~UNCHANGED radio
    <3>1. /\ link' \in {"half", "up"} /\ gen' = gen + 1 /\ owed' = 0 /\ UNCHANGED <<sub, air>>
        BY <1>16, <2>4 DEF LateConnect, NewLink
    <3>2. /\ LinkSeen = "down" /\ LinkSeen' \in {"down", "up"}
          /\ StreamSeen' = StreamSeen /\ AirSeen' = AirSeen
        BY <2>1, <2>4, <3>1 DEF LinkSeen, StreamSeen, AirSeen
    <3>3. CASE LinkSeen' = "down"
        BY <2>1, <3>1, <3>2, <3>3, WithinCall
    <3>4. CASE LinkSeen' = "up"
      <4>1. Calls!LateConnect
          BY <2>1, <2>4, <3>1, <3>2, <3>4 DEF Calls!LateConnect
      <4> QED
          BY <4>1 DEF Calls!Next
    <3> QED
        BY <3>2, <3>3, <3>4
  <2> QED
      BY <2>1, <2>2, <2>3, <2>4
<1> QED
    BY <1>1, <1>3, <1>4, <1>5, <1>6, <1>7, <1>8, <1>9, <1>10, <1>11, <1>12, <1>13,
       <1>14, <1>15, <1>16 DEF Next, Call

(***************************************************************************)
(* However often connect and write are tried again, a call on a Connection *)
(* has one of the outcomes that module BleLink grants it, at the moment it *)
(* returns: in particular write's Ok(false) leaves the link it found and   *)
(* the subscription on it, and an Err of reconnect_stream may leave either *)
(* link, the old one and the new.                                          *)
(***************************************************************************)
THEOREM CallsAreImplemented == Spec => CallsAreAsSeen
<1>1. Init => Calls!Init
  <2> SUFFICES ASSUME Init PROVE Calls!Init
      OBVIOUS
  <2>1. Mapped = "new" /\ LinkSeen = "down" /\ StreamSeen = "none"
      BY DEF Init, Mapped, LinkSeen, StreamSeen, Ended
  <2>2. owed = 0 /\ AirSeen = 0 /\ Frames(0) = <<>>
      BY <2>1, FramesAre DEF Init, AirSeen
  <2> QED
      BY <2>1, <2>2 DEF Calls!Init
<1>2. IInv /\ [Next]_vars => [~leaky => [Calls!Next]_(Calls!vars)]_vars
    BY CallsStep DEF IInv
<1> QED
    BY <1>1, <1>2, Invariance, PTL DEF Spec, CallsAreAsSeen
=============================================================================
