----------------------------- MODULE ScanProofs -----------------------------
(***************************************************************************)
(* Theorems about Scan, for any devices and any number of rounds.          *)
(***************************************************************************)
EXTENDS Scan, TLAPS

\* The entries only ever tell what was true: an RSSI was heard during the
\* discovery, and a device that was left alone for its name alone had it while
\* it was silent.
EntriesAreTrue ==
    \A d \in Dev :
        /\ found[d].rssi => d \in ever
        /\ found[d].name /\ ~found[d].rssi => d \in cached

\* What has held all through the round so far holds now; and of the devices of
\* which it does, those done in this round have been read, or were left alone.
RoundSoFar ==
    /\ atOnce.heard \subseteq heard /\ atOnce.named \subseteq heard \cap named
    /\ pc = "read" =>
        /\ job = "scan"
        /\ \A d \in atOnce.heard \ todo : found[d].rssi \/ d \in cached
        /\ \A d \in atOnce.named \ todo : found[d].name

\* What the rounds owe to the list has been paid.
DuesPaid ==
    /\ due.heard \subseteq Result
    /\ \A d \in due.named : found[d].name

IInv == TypeOK /\ EntriesAreTrue /\ RoundSoFar /\ DuesPaid

-----------------------------------------------------------------------------
\* The history has its type, whatever BlueZ and the program do.
LEMMA HistoryType ==
    ASSUME TypeOK, Witnessed, heard' \subseteq Dev, named' \subseteq Dev
    PROVE  /\ atOnce' \in [heard : SUBSET Dev, named : SUBSET Dev]
           /\ due' \in [heard : SUBSET Dev, named : SUBSET Dev]
           /\ ever' \subseteq Dev /\ cached' \subseteq Dev
<1> USE DEF TypeOK
<1>1. atOnce' \in [heard : SUBSET Dev, named : SUBSET Dev]
    BY DEF Witnessed
<1>2. due' \in [heard : SUBSET Dev, named : SUBSET Dev]
    BY DEF Witnessed
<1>3. ever' \subseteq Dev /\ cached' \subseteq Dev
    BY DEF Witnessed
<1> QED BY <1>1, <1>2, <1>3

LEMMA BlueZType ==
    ASSUME TypeOK, BlueZ, Witnessed
    PROVE  TypeOK'
<1>1. PICK d \in Dev : Hears(d) \/ Names(d) \/ Loses(d)
    BY DEF BlueZ
<1>2. /\ named' \subseteq listed' /\ heard' \subseteq listed'
      /\ listed' \subseteq Dev /\ listed \subseteq listed'
    BY <1>1 DEF TypeOK, Hears, Names, Loses
<1>3. UNCHANGED program
    BY DEF BlueZ
<1>4. heard' \subseteq Dev /\ named' \subseteq Dev
    BY <1>2
<1>5. todo' \subseteq listed'
    BY <1>2, <1>3 DEF TypeOK, program
<1> QED BY <1>2, <1>3, <1>4, <1>5, HistoryType DEF program, TypeOK

LEMMA ProgramType ==
    ASSUME TypeOK, Program, Witnessed
    PROVE  TypeOK'
<1> USE DEF TypeOK, Goto, Return, Within, Ended
<1> SUFFICES /\ discovering' \in BOOLEAN /\ (discovering' <=> pc' \in Within)
             /\ job' \in {"scan", "find"}
             /\ pc' \in {"lookup", "start"} \cup Within \cup Ended
             /\ end' \in Ended
             /\ todo' \subseteq listed
             /\ found' \in [Dev -> [name : BOOLEAN, rssi : BOOLEAN]]
             /\ round' \in 0..MaxRounds
    BY HistoryType DEF Program, bluez
<1>1. CASE Lookup
    BY <1>1 DEF Lookup
<1>2. CASE StartScan
    <2>1. CASE pc' = "list" /\ discovering' = TRUE
        BY <1>2, <2>1 DEF StartScan
    <2>2. CASE pc' = "failed" /\ discovering' = discovering
        BY <1>2, <2>2 DEF StartScan
    <2> QED BY <1>2, <2>1, <2>2 DEF StartScan
<1>3. CASE ListDevices
    <2>1. round' \in 0..MaxRounds
        BY <1>3, RoundsAreNatural DEF ListDevices
    <2> QED BY <1>3, <2>1 DEF ListDevices
<1>4. ASSUME NEW d \in Dev, PassOver(d) PROVE todo' \subseteq listed
    BY <1>4 DEF PassOver
<1>5. CASE \E d \in Dev : PassOver(d)
    BY <1>4, <1>5 DEF PassOver
<1>6. CASE \E d \in Dev : ReadDevice(d)
    <2>1. PICK d \in Dev : ReadDevice(d)
        BY <1>6
    <2>2. Merged(d) \in [name : BOOLEAN, rssi : BOOLEAN]
        BY DEF Merged
    <2>3. found' \in [Dev -> [name : BOOLEAN, rssi : BOOLEAN]]
        BY <2>1, <2>2 DEF ReadDevice
    <2>4. todo' \subseteq listed
        BY <2>1 DEF ReadDevice
    <2> QED BY <2>1, <2>3, <2>4 DEF ReadDevice
<1>7. CASE NextRound
    BY <1>7 DEF NextRound, RoundOver
<1>8. CASE StopScan
    BY <1>8 DEF StopScan
<1> QED BY <1>1, <1>2, <1>3, <1>5, <1>6, <1>7, <1>8 DEF Program

LEMMA TypeStep == TypeOK /\ [Next]_vars => TypeOK'
<1> SUFFICES ASSUME TypeOK, [Next]_vars PROVE TypeOK'
    OBVIOUS
<1>1. CASE UNCHANGED vars
    BY <1>1 DEF TypeOK, vars, bluez, program, history
<1>2. CASE Next
    <2>1. Witnessed /\ (BlueZ \/ Program)
        BY <1>2 DEF Next
    <2> QED BY <2>1, BlueZType, ProgramType
<1> QED BY <1>1, <1>2

LEMMA InitType == Init => TypeOK
<1> SUFFICES ASSUME Init PROVE TypeOK
    OBVIOUS
<1>1. pc \in {"start", "lookup"}
    BY DEF Init
<1>2. found \in [Dev -> [name : BOOLEAN, rssi : BOOLEAN]]
    BY DEF Init, Unseen
<1>3. /\ atOnce \in [heard : SUBSET Dev, named : SUBSET Dev]
      /\ due \in [heard : SUBSET Dev, named : SUBSET Dev]
    BY DEF Init
<1>4. discovering \in BOOLEAN /\ (discovering <=> pc \in Within)
    BY <1>1 DEF Init, Within
<1>5. pc \in {"lookup", "start"} \cup Within \cup Ended /\ end \in Ended
    BY <1>1 DEF Init, Ended
<1>6. round \in 0..MaxRounds
    BY RoundsAreNatural DEF Init
<1> QED BY <1>2, <1>3, <1>4, <1>5, <1>6 DEF Init, TypeOK

(***************************************************************************)
(* BlueZ is made to discover exactly while the program is in               *)
(* while_scanning, whichever call fails (connection.rs while_scanning).    *)
(***************************************************************************)
THEOREM ScanTypeCorrect == Spec => []TypeOK
BY InitType, TypeStep, PTL DEF Spec

-----------------------------------------------------------------------------
\* What a step of BlueZ cannot change of the round, and what time adds to it.
LEMMA BlueZStep ==
    ASSUME IInv, BlueZ, Witnessed
    PROVE  EntriesAreTrue' /\ RoundSoFar' /\ DuesPaid'
<1> USE DEF IInv, program
<1>1. /\ UNCHANGED program /\ due' = due
      /\ atOnce'.heard = atOnce.heard \cap heard'
      /\ atOnce'.named = atOnce.named \cap heard' \cap named'
      /\ ever \subseteq ever' /\ cached \subseteq cached'
    BY DEF BlueZ, Witnessed, RoundOver
<1>2. EntriesAreTrue'
    BY <1>1 DEF EntriesAreTrue
<1>3. RoundSoFar'
    BY <1>1 DEF RoundSoFar
<1>4. DuesPaid'
    BY <1>1 DEF DuesPaid, Result
<1> QED BY <1>2, <1>3, <1>4

\* What an entry tells it goes on telling.
EntriesGrow ==
    \A d \in Dev : /\ found[d].rssi => found'[d].rssi
                   /\ found[d].name => found'[d].name

LEMMA EntriesStep ==
    ASSUME IInv, Program, Witnessed
    PROVE  EntriesAreTrue' /\ EntriesGrow
<1> USE DEF IInv, TypeOK
<1>1. ever \subseteq ever' /\ cached \subseteq cached'
    BY DEF Witnessed
<1>2. CASE found' = found
    BY <1>1, <1>2 DEF EntriesAreTrue, EntriesGrow
<1>3. ASSUME NEW d \in Dev, ReadDevice(d), found' = [found EXCEPT ![d] = Merged(d)]
      PROVE  EntriesAreTrue' /\ EntriesGrow
    <2>1. /\ found'[d].name <=> (found[d].name \/ d \in named)
          /\ found'[d].rssi <=> (found[d].rssi \/ d \in heard)
          /\ \A e \in Dev \ {d} : found'[e] = found[e]
        BY <1>3 DEF Merged
    <2>2. ~found[d].name
        BY <1>3 DEF ReadDevice, Memo
    <2>3. heard \subseteq ever' /\ named \ heard \subseteq cached'
        BY <1>3 DEF Witnessed, Program, bluez, ReadDevice, Within
    <2> QED BY <1>1, <2>1, <2>2, <2>3 DEF EntriesAreTrue, EntriesGrow
<1> QED
    BY <1>2, <1>3 DEF Program, Lookup, StartScan, ListDevices, PassOver, ReadDevice,
        NextRound, StopScan

LEMMA RoundStep ==
    ASSUME IInv, Program, Witnessed
    PROVE  RoundSoFar'
<1> USE DEF IInv, TypeOK, Program, bluez
<1>1. /\ atOnce'.heard \subseteq heard' /\ atOnce'.named \subseteq heard' \cap named'
      /\ round' = round => /\ atOnce'.heard \subseteq atOnce.heard
                          /\ atOnce'.named \subseteq atOnce.named
      /\ cached \subseteq cached'
    BY DEF Witnessed
<1> SUFFICES ASSUME pc' = "read"
             PROVE  /\ job' = "scan"
                    /\ \A d \in atOnce'.heard \ todo' : found'[d].rssi \/ d \in cached'
                    /\ \A d \in atOnce'.named \ todo' : found'[d].name
    BY <1>1 DEF RoundSoFar
<1>2. CASE ListDevices
    \* The round begins with every device that is heard still to be read.
    <2>1. job' = "scan" /\ todo' = listed
        BY <1>2 DEF ListDevices, Goto, Return
    <2> QED BY <1>1, <2>1
<1>3. ASSUME NEW d \in Dev, PassOver(d)
      PROVE  /\ job' = "scan"
             /\ \A e \in atOnce'.heard \ todo' : found'[e].rssi \/ e \in cached'
             /\ \A e \in atOnce'.named \ todo' : found'[e].name
    <2>1. /\ pc = "read" /\ job' = job /\ found' = found /\ round' = round
          /\ todo' = todo \ {d} /\ (found[d].name \/ d \notin heard)
        BY <1>3 DEF PassOver, Memo, Goto
    <2>2. found[d].name => found[d].rssi \/ d \in cached
        BY DEF EntriesAreTrue
    <2> QED BY <1>1, <2>1, <2>2 DEF RoundSoFar
<1>4. ASSUME NEW d \in Dev, ReadDevice(d)
      PROVE  /\ job' = "scan"
             /\ \A e \in atOnce'.heard \ todo' : found'[e].rssi \/ e \in cached'
             /\ \A e \in atOnce'.named \ todo' : found'[e].name
    <2>1. /\ pc = "read" /\ job' = job /\ round' = round
          /\ todo' = todo \ {d} /\ found' = [found EXCEPT ![d] = Merged(d)]
        BY <1>4 DEF ReadDevice, Goto, Return
    <2>2. /\ d \in named => found'[d].name
          /\ d \in heard => found'[d].rssi
          /\ \A e \in Dev \ {d} : found'[e] = found[e]
        BY <2>1 DEF Merged
    <2> QED BY <1>1, <2>1, <2>2 DEF RoundSoFar
<1> QED
    BY <1>2, <1>3, <1>4 DEF Lookup, StartScan, NextRound, StopScan, Goto, Return, Ended

\* A whole round has nothing left to read: what it owes is there already.
LEMMA DuesStep ==
    ASSUME IInv, Program, Witnessed
    PROVE  DuesPaid'
<1>1. EntriesGrow
    BY EntriesStep
<1> USE DEF IInv, TypeOK, EntriesGrow
<1>2. CASE due' = due
    BY <1>1, <1>2 DEF DuesPaid, Result
<1>3. CASE RoundOver /\ due' = [heard |-> due.heard \cup (atOnce.heard \ cached),
                               named |-> due.named \cup atOnce.named]
    <2>1. /\ \A d \in atOnce.heard \ cached : found[d].rssi
          /\ \A d \in atOnce.named : found[d].name
        BY <1>3 DEF RoundSoFar, RoundOver
    <2>2. due'.heard \subseteq Result'
        BY <1>1, <1>3, <2>1 DEF DuesPaid, Result
    <2>3. \A d \in due'.named : found'[d].name
        BY <1>1, <1>3, <2>1 DEF DuesPaid
    <2> QED BY <2>2, <2>3 DEF DuesPaid
<1> QED BY <1>2, <1>3 DEF Witnessed

LEMMA Invariance == Spec => []IInv
<1>1. Init => IInv
    <2> SUFFICES ASSUME Init PROVE IInv
        OBVIOUS
    <2>1. \A d \in Dev : ~found[d].name /\ ~found[d].rssi
        BY DEF Init, Unseen
    <2>2. atOnce.heard = {} /\ atOnce.named = {} /\ due.heard = {} /\ due.named = {}
        BY DEF Init
    <2>3. pc # "read"
        BY DEF Init
    <2> QED BY <2>1, <2>2, <2>3, InitType
            DEF IInv, EntriesAreTrue, RoundSoFar, DuesPaid
<1>2. IInv /\ [Next]_vars => IInv'
    <2> SUFFICES ASSUME IInv, [Next]_vars PROVE IInv'
        OBVIOUS
    <2>1. TypeOK'
        BY TypeStep DEF IInv
    <2>2. CASE UNCHANGED vars
        BY <2>1, <2>2 DEF IInv, EntriesAreTrue, RoundSoFar, DuesPaid, Result, vars,
            bluez, program, history
    <2>3. CASE BlueZ /\ Witnessed
        BY <2>1, <2>3, BlueZStep DEF IInv
    <2>4. CASE Program /\ Witnessed
        BY <2>1, <2>4, EntriesStep, RoundStep, DuesStep DEF IInv
    <2> QED BY <2>2, <2>3, <2>4 DEF Next
<1> QED BY <1>1, <1>2, PTL DEF Spec

(***************************************************************************)
(* A scan that succeeds lists the devices that advertised all through one  *)
(* of its rounds, with the names they had, and no device that was silent:  *)
(* for any devices, whatever BlueZ learns and forgets between two reads.   *)
(***************************************************************************)
THEOREM ScansList == Spec => []ScanListsAdvertisers
<1>1. IInv => ScanListsAdvertisers
    BY DEF IInv, EntriesAreTrue, DuesPaid, Result, ScanListsAdvertisers
<1> QED BY <1>1, Invariance, PTL
=============================================================================
